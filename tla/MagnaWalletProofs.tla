--------------------------- MODULE MagnaWalletProofs ---------------------------
(* Theorems about the passkey wallets, for any number of tabs, passkeys and *)
(* chains, whatever is created, opened, refused, reset and reloaded.        *)
EXTENDS MagnaWalletSafety, TLAPS

USE WalletAssumption

-----------------------------------------------------------------------------
(* The shape of the state. *)
Stages == {"open", "derive", "register", "status", "deploy", "persist", "finish"}
Flows == [stage : Stages,
          kind : {"stored", "bundle", "target", "bound", "new"}, key : Passkey \cup {None},
          want : Account \cup {None}, aim : {"session", "target"}, auto : BOOLEAN,
          account : Account \cup {None}, ready : BOOLEAN, again : BOOLEAN]
Pages == [born : Nat, ready : BOOLEAN, check : {"idle", "asked", "clearing"}, seen : Nat,
          session : Sessions \cup {None}, auto : BOOLEAN, flow : Flows \cup {Idle},
          repairs : SUBSET Account]

WalletShape ==
    /\ chain \in Nat /\ committed \in Nat
    /\ deployed \subseteq [account : Account, chain : Nat]
    /\ passkeys \subseteq Passkey
    /\ profile \in Account \cup {None}
    /\ target # None => target \in [address : Account, chain : Nat]
    /\ store \in Stores \cup {None}
    /\ owner \in Tab \cup {NoTab}
    /\ tabs \in [Tab -> Pages]

(* A record is kept for the passkey its account is derived with. *)
RecordShape ==
    /\ records \subseteq [credential : Passkey, address : Account]
    /\ \A r \in records : r.credential = r.address.prf

-----------------------------------------------------------------------------
(* What makes the properties inductive. *)
Working(t) == Flow(t).stage \notin {"idle", "open"}

(* The PXE holds the account's note, and it was deployed on the chain of    *)
(* the store or a later one.                                                *)
Sound(a) ==
    /\ a \in store.notes
    /\ \E d \in deployed : d.account = a /\ d.chain >= store.chain

(* What an opening holds at its stage. *)
Holds(f) ==
    /\ f.kind \in {"stored", "bundle", "target", "bound"} => f.key \in Passkey
    /\ f.aim = "target" => f.kind \in {"new", "bundle"}
    /\ f.stage \notin {"open", "derive"} =>
          /\ f.account \in Account
          /\ f.kind = "new" => f.account.key = f.account.prf
    /\ f.ready => f.stage \in {"persist", "finish"} /\ Sound(f.account)
Informed(t) == Flow(t) # Idle => Holds(Flow(t))

(* The store is held by whoever works on it or has it open; only a target   *)
(* is prepared on an open wallet.                                           *)
Owns(t) ==
    /\ owner = t <=> Session(t) # Closed \/ Working(t)
    /\ owner = t => store # None
    /\ Working(t) /\ Session(t) # Closed => Flow(t).aim = "target"

(* A page that has checked the chain, and what it opens by itself, sits on  *)
(* a store that is not older than the page.                                 *)
Restores(t) ==
    \/ tabs[t].ready
    \/ Session(t) # Closed /\ Session(t).auto
    \/ Flow(t) # Idle /\ Flow(t).auto
Current(t) ==
    /\ tabs[t].born <= chain /\ tabs[t].seen <= chain
    /\ tabs[t].check # "idle" => tabs[t].born <= tabs[t].seen
    /\ Restores(t) /\ store # None => tabs[t].born <= store.chain
Ready(t) == Session(t) # Closed /\ Session(t).ready => Sound(Session(t).account)

TabInv(t) == Informed(t) /\ Owns(t) /\ Current(t) /\ Ready(t)

Past == /\ committed <= chain
        /\ store # None => store.chain <= chain /\ committed <= store.chain
TargetSound == target # None =>
    \E d \in deployed : d.account = target.address /\ d.chain >= target.chain

WalletInv == /\ WalletShape /\ RecordShape /\ Past /\ TargetSound
             /\ \A t \in Tab : TabInv(t)

-----------------------------------------------------------------------------
(* What the other tabs see of a step of one.                                *)
Lets(t) ==
    /\ \A u \in Tab \ {t} : tabs'[u] = tabs[u]
    /\ chain' = chain /\ deployed \subseteq deployed'
    /\ store' # store => owner \in {t, NoTab}
    /\ owner' # owner => owner \in {t, NoTab} /\ owner' \in {t, NoTab}
    /\ store' # None => store'.chain = IF store = None THEN chain ELSE store.chain

LEMMA OthersUndisturbed ==
    ASSUME WalletInv, NEW t \in Tab, Lets(t), NEW u \in Tab \ {t}
    PROVE  TabInv(u)'
  <1>1. TabInv(u) /\ tabs'[u] = tabs[u]
    BY DEF WalletInv, Lets
  <1>2. Session(u)' = Session(u) /\ Flow(u)' = Flow(u) /\ (Working(u) <=> Working(u)')
    BY <1>1 DEF Session, Flow, Working
  <1>3. owner' = u <=> owner = u
    BY DEF Lets
  <1>4. owner = u => store' = store
    BY DEF Lets
  <1>5. Owns(u)'
    BY <1>1, <1>2, <1>3, <1>4 DEF TabInv, Owns
  <1>6. Current(u)'
    <2>1. store' # None => store'.chain = IF store = None THEN chain ELSE store.chain
      BY DEF Lets
    <2>2. tabs[u].born \in Nat /\ tabs[u].born <= chain /\ chain' = chain
      BY <1>1 DEF TabInv, Current, WalletInv, WalletShape, Pages, Lets
    <2> QED
      BY <1>1, <1>2, <2>1, <2>2 DEF TabInv, Current, Restores
  <1>7. ASSUME NEW a, Sound(a), owner = u PROVE Sound(a)'
    BY <1>4, <1>7 DEF Sound, Lets
  <1>8. Ready(u)'
    BY <1>1, <1>2, <1>7 DEF TabInv, Ready, Owns
  <1>9. Informed(u)'
    <2>1. SUFFICES ASSUME Flow(u) # Idle PROVE Holds(Flow(u))'
      BY <1>2 DEF Informed
    <2>2. Flow(u) \in Flows
      BY <2>1 DEF WalletInv, WalletShape, Pages, Flow
    <2>3. Flow(u).ready => owner = u
      BY <1>1, <2>1, <2>2 DEF TabInv, Informed, Holds, Owns, Working
    <2> QED
      BY <1>1, <1>2, <1>7, <2>1, <2>2, <2>3 DEF TabInv, Informed, Holds
  <1> QED
    BY <1>5, <1>6, <1>8, <1>9 DEF TabInv

LEMMA KeptByTab ==
    ASSUME WalletInv, NEW t \in Tab, Lets(t), WalletShape', RecordShape', TabInv(t)',
           committed' = committed \/ Past', target' \in {target, None} \/ TargetSound'
    PROVE  WalletInv'
  <1>1. Past'
    BY DEF Lets, WalletInv, Past, WalletShape
  <1>2. TargetSound'
    BY DEF Lets, WalletInv, TargetSound
  <1> QED
    BY <1>1, <1>2, OthersUndisturbed DEF WalletInv

-----------------------------------------------------------------------------
(* Updates of one tab. *)
LEMMA FlowPut ==
    ASSUME WalletShape, NEW t \in Tab, NEW f \in Flows \cup {Idle},
           tabs' = [tabs EXCEPT ![t].flow = f]
    PROVE  /\ tabs' \in [Tab -> Pages]
           /\ \A u \in Tab \ {t} : tabs'[u] = tabs[u]
           /\ tabs'[t].flow = f
           /\ tabs'[t].born = tabs[t].born /\ tabs'[t].ready = tabs[t].ready
           /\ tabs'[t].check = tabs[t].check /\ tabs'[t].seen = tabs[t].seen
           /\ tabs'[t].session = tabs[t].session /\ tabs'[t].auto = tabs[t].auto
           /\ tabs'[t].repairs = tabs[t].repairs
  BY DEF WalletShape, Pages

LEMMA FlowStage ==
    ASSUME NEW f \in Flows, NEW s \in Stages
    PROVE  LET g == [f EXCEPT !.stage = s] IN
           /\ g \in Flows /\ g.stage = s
           /\ g.kind = f.kind /\ g.key = f.key /\ g.want = f.want /\ g.aim = f.aim
           /\ g.auto = f.auto /\ g.account = f.account /\ g.ready = f.ready /\ g.again = f.again
  BY DEF Flows
Answered(f, a) == [f EXCEPT !.stage = "register", !.account = a]
Complete(f) == [f EXCEPT !.stage = "persist", !.ready = TRUE]
Restarted(f) == [f EXCEPT !.stage = "open", !.again = TRUE, !.account = None]

LEMMA FlowAnswered ==
    ASSUME NEW f \in Flows, NEW a \in Account
    PROVE  /\ Answered(f, a) \in Flows /\ Answered(f, a).stage = "register"
           /\ Answered(f, a).account = a /\ Answered(f, a).ready = f.ready
           /\ Answered(f, a).kind = f.kind /\ Answered(f, a).key = f.key
           /\ Answered(f, a).aim = f.aim /\ Answered(f, a).auto = f.auto
           /\ Answered(f, a).want = f.want
  BY DEF Flows, Answered, Stages

LEMMA FlowComplete ==
    ASSUME NEW f \in Flows
    PROVE  /\ Complete(f) \in Flows /\ Complete(f).stage = "persist"
           /\ Complete(f).account = f.account /\ Complete(f).ready = TRUE
           /\ Complete(f).kind = f.kind /\ Complete(f).key = f.key
           /\ Complete(f).aim = f.aim /\ Complete(f).auto = f.auto
  BY DEF Flows, Complete, Stages

LEMMA FlowRestarted ==
    ASSUME NEW f \in Flows
    PROVE  /\ Restarted(f) \in Flows /\ Restarted(f).stage = "open"
           /\ Restarted(f).ready = f.ready
           /\ Restarted(f).kind = f.kind /\ Restarted(f).key = f.key
           /\ Restarted(f).aim = f.aim /\ Restarted(f).auto = f.auto
  BY DEF Flows, Restarted, Stages

LEMMA PagePut ==
    ASSUME WalletShape, NEW t \in Tab, NEW p \in Pages, tabs' = [tabs EXCEPT ![t] = p]
    PROVE  /\ tabs' \in [Tab -> Pages] /\ tabs'[t] = p
           /\ \A u \in Tab \ {t} : tabs'[u] = tabs[u]
  BY DEF WalletShape

LEMMA SoundGrows ==
    ASSUME store # None, store' # None, store'.chain = store.chain,
           store.notes \subseteq store'.notes, deployed \subseteq deployed',
           NEW a, Sound(a)
    PROVE  Sound(a)'
  BY DEF Sound

(* A step of an opening, or of a page that asks for one: the flow takes     *)
(* another value, and what is open stays open.                              *)
StoreGrows == store' # None /\ store'.chain = store.chain /\ store.notes \subseteq store'.notes

LEMMA FlowMoves ==
    ASSUME WalletInv, NEW t \in Tab, NEW f \in Flows \cup {Idle},
           tabs' = [tabs EXCEPT ![t].flow = f],
           chain' = chain, deployed \subseteq deployed',
           store' # None => store'.chain = IF store = None THEN chain ELSE store.chain,
           store' # store => owner \in {t, NoTab},
           owner' # owner => owner \in {t, NoTab} /\ owner' \in {t, NoTab},
           Session(t) # Closed => StoreGrows,
           f # Idle => Holds(f)',
           f # Idle /\ f.auto => Flow(t) # Idle /\ Flow(t).auto,
           owner' = t <=> Session(t) # Closed \/ f.stage \notin {"idle", "open"},
           owner' = t => store' # None,
           f.stage \notin {"idle", "open"} /\ Session(t) # Closed => f.aim = "target"
    PROVE  Lets(t) /\ tabs' \in [Tab -> Pages] /\ TabInv(t)'
  <1>1. /\ tabs' \in [Tab -> Pages]
        /\ \A u \in Tab \ {t} : tabs'[u] = tabs[u]
        /\ Flow(t)' = f
        /\ tabs'[t].born = tabs[t].born /\ tabs'[t].ready = tabs[t].ready
        /\ tabs'[t].check = tabs[t].check /\ tabs'[t].seen = tabs[t].seen
        /\ Session(t)' = Session(t)
    BY FlowPut DEF WalletInv, Flow, Session
  <1>2. Lets(t)
    BY <1>1 DEF Lets
  <1>3. TabInv(t)
    BY DEF WalletInv
  <1>4. Owns(t)'
    BY <1>1 DEF Owns, Working
  <1>5. Current(t)'
    <2>1. Restores(t)' => Restores(t)
      BY <1>1 DEF Restores
    <2> QED
      BY <1>1, <1>3, <2>1 DEF TabInv, Current, WalletInv, WalletShape, Pages
  <1>6. Ready(t)'
    <2>1. Session(t) # Closed => store # None
      BY <1>3 DEF TabInv, Owns
    <2> QED
      BY <1>1, <1>3, <2>1, SoundGrows DEF TabInv, Ready, StoreGrows
  <1>7. Informed(t)'
    BY <1>1 DEF Informed
  <1> QED
    BY <1>1, <1>2, <1>4, <1>5, <1>6, <1>7 DEF TabInv

-----------------------------------------------------------------------------
(* The node and the devices. *)
LEMMA NodeKeeps ==
    ASSUME WalletInv, ResetNode \/ \E p \in Passkey : DeployElsewhere(p)
    PROVE  WalletInv'
  <1>1. /\ chain <= chain' /\ chain' \in Nat /\ deployed \subseteq deployed'
        /\ UNCHANGED <<passkeys, storage, store, owner, tabs>>
    BY DEF ResetNode, DeployElsewhere, WalletInv, WalletShape
  <1>2. deployed' \subseteq [account : Account, chain : Nat]
    <2>1. \A p \in Passkey : AccountOf(p) \in Account
      BY DEF AccountOf, Account
    <2> QED
      BY <2>1 DEF ResetNode, DeployElsewhere, WalletInv, WalletShape
  <1>3. WalletShape' /\ RecordShape'
    BY <1>1, <1>2 DEF WalletInv, WalletShape, RecordShape, storage
  <1>4. Past' /\ TargetSound'
    BY <1>1 DEF WalletInv, WalletShape, Stores, Past, TargetSound, storage
  <1>5. ASSUME NEW t \in Tab PROVE TabInv(t)'
    <2>1. TabInv(t) /\ tabs[t] \in Pages
      BY DEF WalletInv, WalletShape
    <2>2. \A a : Sound(a) => Sound(a)'
      BY <1>1 DEF Sound
    <2>3. Informed(t)' /\ Ready(t)'
      BY <1>1, <2>1, <2>2 DEF TabInv, Informed, Ready, Holds, Flow, Session
    <2>4. Owns(t)'
      BY <1>1, <2>1 DEF TabInv, Owns, Working, Flow, Session
    <2>5. Current(t)'
      BY <1>1, <2>1 DEF TabInv, Current, Restores, Flow, Session, Pages, WalletInv, WalletShape
    <2> QED
      BY <2>3, <2>4, <2>5 DEF TabInv
  <1> QED
    BY <1>3, <1>4, <1>5 DEF WalletInv

-----------------------------------------------------------------------------
(* The page. *)
(* A step of the chain check that leaves the wallet alone. *)
LEMMA CheckMoves ==
    ASSUME WalletInv, NEW t \in Tab, NEW q \in Pages,
           tabs' = [tabs EXCEPT ![t] = q],
           q.born = tabs[t].born, q.session = tabs[t].session, q.flow = tabs[t].flow,
           q.seen <= chain, q.check # "idle" => q.born <= q.seen,
           q.ready => tabs[t].ready \/ (store # None => q.born <= store.chain),
           RecordShape',
           UNCHANGED <<chain, deployed, passkeys, profile, target, committed, store, owner>>
    PROVE  WalletInv'
  <1>1. tabs[t] \in Pages /\ TabInv(t)
    BY DEF WalletInv, WalletShape
  <1>2. /\ tabs' \in [Tab -> Pages] /\ tabs'[t] = q
        /\ \A u \in Tab \ {t} : tabs'[u] = tabs[u]
    BY <1>1, PagePut DEF WalletInv
  <1>3. Session(t)' = Session(t) /\ Flow(t)' = Flow(t)
    BY <1>1, <1>2 DEF Session, Flow
  <1>4. WalletShape'
    BY <1>2 DEF WalletInv, WalletShape
  <1>5. Lets(t)
    BY <1>2 DEF Lets, WalletInv, Past
  <1>6. Current(t)'
    BY <1>1, <1>2, <1>3 DEF TabInv, Current, Restores
  <1>7. Informed(t)' /\ Ready(t)'
    BY <1>1, <1>3 DEF TabInv, Informed, Ready, Holds, Sound
  <1>8. Owns(t)'
    BY <1>1, <1>3 DEF TabInv, Owns, Working
  <1> QED
    BY <1>4, <1>5, <1>6, <1>7, <1>8, KeptByTab DEF TabInv

LEMMA ChecksKeep ==
    ASSUME WalletInv, NEW t \in Tab,
           StartCheck(t) \/ Unchanged(t) \/ NewChainSeen(t) \/ ClearFails(t)
    PROVE  WalletInv'
  <1> PICK p \in Pages : p = tabs[t]
    BY DEF WalletInv, WalletShape
  <1>1. /\ TabInv(t) /\ chain \in Nat
        /\ p.born \in Nat /\ p.seen \in Nat /\ p.born <= chain /\ p.seen <= chain
        /\ p.check # "idle" => p.born <= p.seen
        /\ RecordShape' /\ UNCHANGED <<profile, target, committed>>
    BY DEF StartCheck, Unchanged, NewChainSeen, ClearFails, storage, RecordShape, WalletInv, WalletShape, TabInv, Current, Pages
  <1>2. CASE StartCheck(t)
    <2> DEFINE q == [p EXCEPT !.check = "asked", !.ready = FALSE, !.seen = chain]
    <2>1. /\ q \in Pages /\ q.born = p.born /\ q.session = p.session /\ q.flow = p.flow
          /\ q.seen = chain /\ ~q.ready
      BY <1>1 DEF Pages
    <2>2. /\ tabs' = [tabs EXCEPT ![t] = q]
          /\ UNCHANGED <<chain, deployed, passkeys, storage, store, owner>>
      BY <1>2 DEF StartCheck
    <2> HIDE DEF q
    <2>4. q.seen <= chain /\ (q.check # "idle" => q.born <= q.seen)
      BY <1>1, <2>1
    <2> QED
      BY <1>1, <2>1, <2>2, <2>4, CheckMoves
  <1>3. CASE Unchanged(t)
    <2> DEFINE q == [p EXCEPT !.check = "idle", !.seen = 0, !.ready = TRUE]
    <2>1. /\ q \in Pages /\ q.born = p.born /\ q.session = p.session /\ q.flow = p.flow
          /\ q.seen = 0 /\ q.check = "idle"
      BY <1>1 DEF Pages
    <2>2. /\ tabs' = [tabs EXCEPT ![t] = q]
          /\ UNCHANGED <<chain, deployed, passkeys, storage, store, owner>>
      BY <1>3 DEF Unchanged
    <2>3. store # None => p.born <= store.chain
      BY <1>1, <1>3 DEF Unchanged, Changed, WalletInv, Past, WalletShape, Stores
    <2> HIDE DEF q
    <2>4. q.seen <= chain /\ (q.check # "idle" => q.born <= q.seen)
      BY <1>1, <2>1
    <2> QED
      BY <1>1, <2>1, <2>2, <2>3, <2>4, CheckMoves
  <1>4. CASE NewChainSeen(t)
    <2> DEFINE q == [p EXCEPT !["check"] = "clearing"]
    <2>1. /\ q \in Pages /\ q.born = p.born /\ q.session = p.session /\ q.flow = p.flow
          /\ q.seen = p.seen /\ q.ready = p.ready
      BY DEF Pages
    <2>2. tabs' = [tabs EXCEPT ![t] = q]
      BY <1>4 DEF NewChainSeen, Put
    <2>3. p.born <= p.seen
      BY <1>1, <1>4 DEF NewChainSeen
    <2> HIDE DEF q
    <2> QED
      BY <1>1, <1>4, <2>1, <2>2, <2>3, CheckMoves DEF NewChainSeen
  <1>5. CASE ClearFails(t)
    <2> DEFINE q == [p EXCEPT !.check = "idle", !.seen = 0]
    <2>1. /\ q \in Pages /\ q.born = p.born /\ q.session = p.session /\ q.flow = p.flow
          /\ q.seen = 0 /\ q.check = "idle" /\ q.ready = p.ready
      BY <1>1 DEF Pages
    <2>2. /\ tabs' = [tabs EXCEPT ![t] = q]
          /\ UNCHANGED <<chain, deployed, passkeys, storage, store, owner>>
      BY <1>5 DEF ClearFails
    <2> HIDE DEF q
    <2>4. q.seen <= chain /\ (q.check # "idle" => q.born <= q.seen)
      BY <1>1, <2>1
    <2> QED
      BY <1>1, <2>1, <2>2, <2>4, CheckMoves
  <1> QED
    BY <1>2, <1>3, <1>4, <1>5

(* A step after which the tab holds nothing and at most asks for a wallet.  *)
Asking(f) ==
    /\ f.kind \in {"stored", "bundle", "target", "bound"} => f.key \in Passkey
    /\ f.aim = "target" => f.kind \in {"new", "bundle"}
    /\ ~f.ready

LEMMA Asks ==
    ASSUME NEW f, Asking(f), f.stage = "open"
    PROVE  Holds(f) /\ Holds(f)'
  BY DEF Asking, Holds

LEMMA Closes ==
    ASSUME WalletInv, NEW t \in Tab, NEW q \in Pages, tabs' = [tabs EXCEPT ![t] = q],
           q.session = Closed, q.flow.stage \in {"idle", "open"},
           q.flow # Idle => Asking(q.flow),
           owner' # t, owner' # owner => owner = t /\ owner' = NoTab,
           store' \in {store, None}, store' # store => owner = NoTab,
           q.born <= chain, q.seen <= chain, q.check # "idle" => q.born <= q.seen,
           (q.ready \/ (q.flow # Idle /\ q.flow.auto)) /\ store' # None => q.born <= store'.chain,
           UNCHANGED <<chain, deployed, passkeys, records>>,
           profile' \in {profile, None}, target' \in {target, None}, committed' \in Nat,
           committed' = committed \/ (committed' <= chain /\ store' = None)
    PROVE  WalletInv'
  <1>1. /\ tabs' \in [Tab -> Pages] /\ tabs'[t] = q
        /\ \A u \in Tab \ {t} : tabs'[u] = tabs[u]
    BY PagePut DEF WalletInv
  <1>2. WalletShape'
    BY <1>1 DEF WalletInv, WalletShape
  <1>3. RecordShape'
    BY DEF WalletInv, RecordShape
  <1>4. Lets(t)
    BY <1>1 DEF Lets, WalletInv, Past
  <1>5. Session(t)' = Closed /\ Flow(t)' = q.flow
    BY <1>1 DEF Session, Flow
  <1>6. q.flow # Idle => q.flow.stage = "open"
    BY DEF Pages, Flows, Stages, Idle
  <1>7. Informed(t)'
    BY <1>5, <1>6, Asks DEF Informed
  <1>8. Owns(t)' /\ Ready(t)'
    BY <1>5 DEF Owns, Ready, Working
  <1>9. Current(t)'
    BY <1>1, <1>5 DEF Current, Restores
  <1>10. committed' = committed \/ Past'
    BY DEF Past
  <1> QED
    BY <1>2, <1>3, <1>4, <1>7, <1>8, <1>9, <1>10, KeptByTab DEF TabInv

LEMMA Holding ==
    ASSUME WalletInv, NEW t \in Tab
    PROVE  /\ TabInv(t) /\ tabs[t] \in Pages /\ chain \in Nat /\ committed \in Nat
           /\ owner = t <=> Session(t) # Closed \/ Working(t)
           /\ Flow(t) = Idle \/ (Flow(t) \in Flows /\ Holds(Flow(t)))
           /\ tabs[t].born \in Nat /\ tabs[t].seen \in Nat
           /\ tabs[t].born <= chain /\ tabs[t].seen <= chain
           /\ tabs[t].check # "idle" => tabs[t].born <= tabs[t].seen
           /\ Restores(t) /\ store # None => tabs[t].born <= store.chain
  BY DEF WalletInv, WalletShape, TabInv, Owns, Informed, Current, Flow, Pages

LEMMA ReloadKeeps ==
    ASSUME WalletInv, NEW t \in Tab, Reload(t)
    PROVE  WalletInv'
  <1> DEFINE q == Load(chain)
  <1>1. /\ q \in Pages /\ q.session = Closed /\ q.flow = Idle /\ q.flow.stage = "idle"
        /\ q.born = chain /\ q.seen = 0 /\ q.check = "idle" /\ ~q.ready
    BY Holding DEF Load, Pages, Idle, Closed
  <1>2. tabs' = [tabs EXCEPT ![t] = q]
    BY DEF Reload
  <1>3. /\ owner' # t /\ (owner' # owner => owner = t /\ owner' = NoTab)
        /\ UNCHANGED <<chain, deployed, passkeys, records, profile, target, committed, store>>
    BY DEF Reload, storage
  <1>4. q.born <= chain /\ q.seen <= chain
    BY <1>1, Holding
  <1> HIDE DEF q
  <1> QED
    BY <1>1, <1>2, <1>3, <1>4, Holding, Closes

LEMMA ClearKeeps ==
    ASSUME WalletInv, NEW t \in Tab, Clear(t)
    PROVE  WalletInv'
  <1> PICK p \in Pages : p = tabs[t]
    BY Holding
  <1> DEFINE q == [p EXCEPT !.check = "idle", !.seen = 0, !.ready = TRUE,
                            !.session = Closed, !.auto = FALSE]
  <1>1. /\ q \in Pages /\ q.session = Closed /\ q.flow = p.flow /\ q.born = p.born
        /\ q.seen = 0 /\ q.check = "idle"
    BY DEF Pages, Closed
  <1>2. /\ tabs' = [tabs EXCEPT ![t] = q]
        /\ owner = NoTab /\ store' = None /\ owner' = owner
        /\ committed' = p.seen /\ profile' = None /\ target' = None
        /\ UNCHANGED <<chain, deployed, passkeys, records>>
    BY DEF Clear, Disposes
  <1>3. q.born <= chain /\ q.seen <= chain /\ committed' \in Nat /\ committed' <= chain
    BY <1>1, <1>2, Holding
  <1>4. q.flow.stage \in {"idle", "open"}
    BY <1>1, <1>2, Holding DEF Working, Flow
  <1>5. q.flow # Idle => Asking(q.flow)
    BY <1>1, <1>4, Holding DEF Holds, Asking, Flow
  <1> HIDE DEF q
  <1> QED
    BY <1>1, <1>2, <1>3, <1>4, <1>5, Closes

(* What a request for a wallet looks like. *)
LEMMA Requests ==
    ASSUME NEW kind \in {"stored", "bundle", "target", "bound", "new"}, NEW key \in Passkey \cup {None},
           NEW want \in Account \cup {None}, NEW aim \in {"session", "target"},
           NEW auto \in BOOLEAN,
           kind # "new" => key \in Passkey, aim = "target" => kind \in {"new", "bundle"}
    PROVE  LET f == Request(kind, key, want, aim, auto) IN
           f \in Flows /\ Asking(f) /\ f.stage = "open" /\ f.auto = auto /\ f.aim = aim
  BY DEF Request, Flows, Stages, Asking

LEMMA AutoRestoreKeeps ==
    ASSUME WalletInv, NEW t \in Tab, AutoRestore(t)
    PROVE  WalletInv'
  <1> PICK p \in Pages : p = tabs[t]
    BY Holding
  <1> DEFINE f == IF \E r \in records : r.address = profile
                  THEN Request("stored", profile.prf, profile, "session", TRUE) ELSE Idle
             q == [p EXCEPT !.auto = TRUE, !.flow = f]
  <1>1. profile \in Account /\ profile.prf \in Passkey
    BY DEF AutoRestore, WalletInv, WalletShape, Account
  <1>2. f = Idle \/ (f \in Flows /\ Asking(f) /\ f.stage = "open")
    <2> DEFINE g == Request("stored", profile.prf, profile, "session", TRUE)
    <2>1. g \in Flows /\ Asking(g) /\ g.stage = "open"
      BY <1>1 DEF Request, Flows, Stages, Asking
    <2> HIDE DEF g
    <2>2. f = g \/ f = Idle
      BY DEF g
    <2> QED
      BY <2>1, <2>2
  <1>3. tabs' = [tabs EXCEPT ![t] = q]
    BY DEF AutoRestore
  <1>4. /\ p.session = Closed /\ Flow(t) = Idle /\ p.ready
        /\ UNCHANGED <<chain, deployed, passkeys, records, profile, target, committed, store,
                       owner>>
    BY DEF AutoRestore, MayRestore, storage, Session
  <1> HIDE DEF f
  <1>5. /\ q \in Pages /\ q.session = p.session /\ q.flow = f /\ q.born = p.born
        /\ q.seen = p.seen /\ q.check = p.check /\ q.ready = p.ready
    BY <1>2 DEF Pages
  <1>6. q.flow.stage \in {"idle", "open"}
    BY <1>2, <1>5 DEF Idle
  <1>7. owner # t
    BY <1>4, Holding DEF Working, Idle, Session
  <1>8. /\ q.born <= chain /\ q.seen <= chain /\ (q.check # "idle" => q.born <= q.seen)
        /\ store # None => q.born <= store.chain
    BY <1>4, <1>5, Holding DEF Restores
  <1>9. committed \in Nat
    BY Holding
  <1> HIDE DEF q
  <1> QED
    BY <1>2, <1>3, <1>4, <1>5, <1>6, <1>7, <1>8, <1>9, Closes

LEMMA DisconnectKeeps ==
    ASSUME WalletInv, NEW t \in Tab, Disconnect(t)
    PROVE  WalletInv'
  <1> PICK p \in Pages : p = tabs[t]
    BY Holding
  <1> DEFINE q == [p EXCEPT !["session"] = Closed]
  <1>1. tabs' = [tabs EXCEPT ![t] = q]
    BY DEF Disconnect, Put
  <1>2. /\ p.session # Closed /\ p.flow = Idle /\ owner' = NoTab
        /\ UNCHANGED <<chain, deployed, passkeys, records, profile, target, committed, store>>
    BY DEF Disconnect, storage, Session, Flow
  <1>3. /\ q \in Pages /\ q.session = Closed /\ q.flow = Idle /\ q.born = p.born
        /\ q.seen = p.seen /\ q.check = p.check /\ q.ready = p.ready
    BY <1>2 DEF Pages, Closed
  <1>4. owner = t
    BY <1>2, Holding DEF Session
  <1>5. /\ q.born <= chain /\ q.seen <= chain /\ (q.check # "idle" => q.born <= q.seen)
        /\ q.ready /\ store # None => q.born <= store.chain
    BY <1>3, Holding DEF Restores
  <1>6. q.flow.stage = "idle" /\ committed \in Nat /\ NoTab # t
    BY <1>3, Holding DEF Idle
  <1> HIDE DEF q
  <1> QED
    BY <1>1, <1>2, <1>3, <1>4, <1>5, <1>6, Closes

LEMMA OpenTargetKeeps ==
    ASSUME WalletInv, NEW t \in Tab, OpenTarget(t)
    PROVE  WalletInv'
  <1> PICK p \in Pages : p = tabs[t]
    BY Holding
  <1>1. PICK kind \in {"stored", "target"} :
          tabs' = [tabs EXCEPT ![t] = [@ EXCEPT !.session = Closed, !.flow =
               Request(kind, IF kind = "stored" THEN target.address.prf ELSE target.address.key,
                       target.address, "session", FALSE)]]
    BY DEF OpenTarget
  <1> DEFINE key == IF kind = "stored" THEN target.address.prf ELSE target.address.key
             f == Request(kind, key, target.address, "session", FALSE)
             q == [p EXCEPT !.session = Closed, !.flow = f]
  <1>2. /\ target.address \in Account
        /\ target.address.prf \in Passkey /\ target.address.key \in Passkey
    BY DEF OpenTarget, WalletInv, WalletShape, Account
  <1>3. f \in Flows /\ Asking(f) /\ f.stage = "open" /\ ~f.auto
    <2>1. key \in Passkey
      BY <1>2
    <2> HIDE DEF key
    <2> QED
      BY <1>2, <2>1 DEF Request, Flows, Stages, Asking
  <1>4. tabs' = [tabs EXCEPT ![t] = q]
    BY <1>1
  <1>5. /\ Flow(t) = Idle /\ owner' = IF Session(t) # Closed THEN NoTab ELSE owner
        /\ UNCHANGED <<chain, deployed, passkeys, records, profile, target, committed, store>>
    BY DEF OpenTarget, storage
  <1> HIDE DEF f
  <1>6. /\ q \in Pages /\ q.session = Closed /\ q.flow = f /\ q.born = p.born
        /\ q.seen = p.seen /\ q.check = p.check /\ q.ready = p.ready
    BY <1>3 DEF Pages, Closed
  <1>7. owner' # t /\ (owner' # owner => owner = t /\ owner' = NoTab)
    BY <1>5, Holding DEF Working, Idle
  <1>8. /\ q.born <= chain /\ q.seen <= chain /\ (q.check # "idle" => q.born <= q.seen)
        /\ q.ready /\ store # None => q.born <= store.chain
    BY <1>6, Holding DEF Restores
  <1>9. committed \in Nat
    BY Holding
  <1> HIDE DEF q
  <1> QED
    BY <1>3, <1>4, <1>5, <1>6, <1>7, <1>8, <1>9, Closes

LEMMA AskKeeps ==
    ASSUME WalletInv, NEW t \in Tab, NEW f \in Flows, Ask(t, f),
           Asking(f), f.stage = "open", ~f.auto
    PROVE  WalletInv'
  <1>1. /\ Flow(t) = Idle /\ tabs' = [tabs EXCEPT ![t].flow = f]
        /\ UNCHANGED <<chain, deployed, passkeys, records, profile, target, committed, store,
                       owner>>
    BY DEF Ask, Put, storage
  <1>2. Holds(f)'
    BY Asks
  <1>3. ~Working(t)
    BY <1>1 DEF Working, Idle
  <1>4. /\ owner = t <=> Session(t) # Closed
        /\ owner = t => store # None
    BY <1>3, Holding DEF TabInv, Owns
  <1>5. store # None => store.chain \in Nat
    BY DEF WalletInv, WalletShape, Stores
  <1>6. Lets(t) /\ tabs' \in [Tab -> Pages] /\ TabInv(t)'
    BY <1>1, <1>2, <1>4, FlowMoves DEF StoreGrows
  <1>7. WalletShape' /\ RecordShape'
    BY <1>1, <1>6 DEF WalletInv, WalletShape, RecordShape
  <1> QED
    BY <1>1, <1>6, <1>7, KeptByTab

LEMMA AsksKeep ==
    ASSUME WalletInv, NEW t \in Tab,
           \/ OpenStored(t) \/ Reconnect(t) \/ RestoreRemembered(t)
           \/ \E aim \in {"session", "target"} : Create(t, aim) \/ UsePublicKey(t, aim)
    PROVE  WalletInv'
  <1>1. ASSUME OpenStored(t) \/ Reconnect(t) PROVE WalletInv'
    <2>1. PICK r \in records, want \in Account \cup {None} :
            Ask(t, Request("stored", r.credential, want, "session", FALSE))
      BY <1>1 DEF OpenStored, Reconnect, Selected, WalletInv, RecordShape
    <2>2. r.credential \in Passkey
      BY DEF WalletInv, RecordShape
    <2> QED
      BY <2>1, <2>2, Requests, AskKeeps
  <1>2. ASSUME RestoreRemembered(t) PROVE WalletInv'
    <2>1. profile \in Account /\ profile.key \in Passkey
      BY <1>2 DEF RestoreRemembered, WalletInv, WalletShape, Account
    <2> QED
      BY <1>2, <2>1, Requests, AskKeeps DEF RestoreRemembered
  <1>3. ASSUME NEW aim \in {"session", "target"}, Create(t, aim) PROVE WalletInv'
    <2>1. Ask(t, Request("new", None, None, aim, FALSE))
      BY <1>3 DEF Create
    <2> DEFINE f == Request("new", None, None, aim, FALSE)
    <2>2. f \in Flows /\ Asking(f) /\ f.stage = "open" /\ ~f.auto
      BY DEF Request, Flows, Stages, Asking
    <2> HIDE DEF f
    <2> QED
      BY <2>1, <2>2, AskKeeps DEF f
  <1>4. ASSUME NEW aim \in {"session", "target"}, UsePublicKey(t, aim) PROVE WalletInv'
    <2>1. PICK key \in Passkey : Ask(t, Request("bundle", key, None, aim, FALSE))
      BY <1>4 DEF UsePublicKey, WalletInv, WalletShape
    <2> DEFINE f == Request("bundle", key, None, aim, FALSE)
    <2>2. f \in Flows /\ Asking(f) /\ f.stage = "open" /\ ~f.auto
      BY DEF Request, Flows, Stages, Asking
    <2> HIDE DEF f
    <2> QED
      BY <2>1, <2>2, AskKeeps DEF f
  <1> QED
    BY <1>1, <1>2, <1>3, <1>4

(* A record that is written again. *)
LEMMA SavedShape ==
    ASSUME RecordShape, NEW a \in Account
    PROVE  /\ Saved(a) \subseteq [credential : Passkey, address : Account]
           /\ \A r \in Saved(a) : r.credential = r.address.prf
  BY DEF RecordShape, Saved, Account

LEMMA RepairsKeep ==
    ASSUME WalletInv, NEW t \in Tab, StartRepair(t) \/ SaveRepair(t)
    PROVE  WalletInv'
  <1> PICK p \in Pages : p = tabs[t]
    BY Holding
  <1>1. Session(t) # Closed => Session(t).account \in Account
    BY DEF Session, Pages, Sessions, Closed
  <1>2. PICK repairs \in SUBSET Account : tabs' = [tabs EXCEPT ![t] = [@ EXCEPT !["repairs"] = repairs]]
    BY <1>1 DEF StartRepair, SaveRepair, Put, Pages
  <1> DEFINE q == [p EXCEPT !["repairs"] = repairs]
  <1>3. /\ q \in Pages /\ q.born = p.born /\ q.session = p.session /\ q.flow = p.flow
        /\ q.seen = p.seen /\ q.check = p.check /\ q.ready = p.ready
    BY DEF Pages
  <1>4. tabs' = [tabs EXCEPT ![t] = q]
    BY <1>2
  <1>5. UNCHANGED <<chain, deployed, passkeys, profile, target, committed, store, owner>>
    BY DEF StartRepair, SaveRepair, storage
  <1>6. RecordShape'
    BY SavedShape DEF StartRepair, SaveRepair, storage, WalletInv, RecordShape, Pages
  <1> HIDE DEF q
  <1> QED
    BY <1>3, <1>4, <1>5, <1>6, Holding, CheckMoves

-----------------------------------------------------------------------------
(* The opening. *)
(* A step of an opening that goes on with the store it holds.               *)
LEMMA Proceeds ==
    ASSUME WalletInv, NEW t \in Tab, NEW f \in Flows, Working(t),
           tabs' = [tabs EXCEPT ![t].flow = f],
           f.stage # "open", f.auto = Flow(t).auto, f.aim = Flow(t).aim, Holds(f)',
           deployed \subseteq deployed', deployed' \subseteq [account : Account, chain : Nat],
           passkeys' \subseteq Passkey, RecordShape',
           store' = store \/ (StoreGrows /\ store' \in Stores),
           UNCHANGED <<chain, profile, target, committed, owner>>
    PROVE  WalletInv'
  <1>1. Flow(t) # Idle /\ f # Idle
    BY DEF Working, Flows, Stages, Idle
  <1>2. owner = t /\ store # None /\ (Session(t) # Closed => Flow(t).aim = "target")
    BY Holding DEF TabInv, Owns
  <1>3. store' # None /\ store'.chain = store.chain /\ store' \in Stores
    BY <1>2 DEF StoreGrows, WalletInv, WalletShape
  <1>4. store.notes \subseteq store'.notes
    BY DEF StoreGrows
  <1>5. f.stage \notin {"idle", "open"}
    BY DEF Flows, Stages
  <1>6. Lets(t) /\ tabs' \in [Tab -> Pages] /\ TabInv(t)'
    BY <1>1, <1>2, <1>3, <1>4, <1>5, FlowMoves DEF StoreGrows
  <1>7. WalletShape'
    BY <1>3, <1>6 DEF WalletInv, WalletShape
  <1> QED
    BY <1>6, <1>7, KeptByTab

LEMMA Staged ==
    ASSUME WalletInv, NEW t \in Tab, NEW s \in Stages, Flow(t) # Idle,
           tabs' = [tabs EXCEPT ![t].flow.stage = s]
    PROVE  \E f \in Flows :
             /\ tabs' = [tabs EXCEPT ![t].flow = f] /\ f.stage = s
             /\ f.kind = Flow(t).kind /\ f.key = Flow(t).key /\ f.want = Flow(t).want
             /\ f.aim = Flow(t).aim /\ f.auto = Flow(t).auto /\ f.account = Flow(t).account
             /\ f.ready = Flow(t).ready
  <1> DEFINE f == [Flow(t) EXCEPT !.stage = s]
  <1>1. /\ f \in Flows /\ f.stage = s
        /\ f.kind = Flow(t).kind /\ f.key = Flow(t).key /\ f.want = Flow(t).want
        /\ f.aim = Flow(t).aim /\ f.auto = Flow(t).auto /\ f.account = Flow(t).account
        /\ f.ready = Flow(t).ready
    BY Holding, FlowStage
  <1>2. tabs' = [tabs EXCEPT ![t].flow = f]
    BY DEF Flow
  <1> QED
    BY <1>1, <1>2

LEMMA OpenStoreKeeps ==
    ASSUME WalletInv, NEW t \in Tab, OpenStore(t)
    PROVE  WalletInv'
  <1>1. /\ Flow(t) # Idle /\ Flow(t).stage = "open" /\ ~Working(t) /\ Holds(Flow(t))
        /\ Flow(t) \in Flows /\ ~Flow(t).ready
    BY Holding DEF OpenStore, Idle, Working, Holds
  <1>2. /\ owner = t <=> Session(t) # Closed
        /\ owner = t => store # None
    BY <1>1, Holding DEF TabInv, Owns
  <1>3. UNCHANGED <<chain, deployed, passkeys, records, profile, target, committed>>
    BY DEF OpenStore, storage
  <1>4. RecordShape'
    BY <1>3 DEF WalletInv, RecordShape
  <1>5. CASE tabs' = [tabs EXCEPT ![t].flow.stage = "derive"]
    <2> PICK f \in Flows :
             /\ tabs' = [tabs EXCEPT ![t].flow = f] /\ f.stage = "derive"
             /\ f.kind = Flow(t).kind /\ f.key = Flow(t).key /\ f.want = Flow(t).want
             /\ f.aim = Flow(t).aim /\ f.auto = Flow(t).auto /\ f.account = Flow(t).account
             /\ f.ready = Flow(t).ready
      BY <1>1, <1>5, Staged DEF Stages
    <2>1. Holds(f)'
      BY <1>1 DEF Holds
    <2>2. \/ Session(t) # Closed /\ Flow(t).aim = "target" /\ UNCHANGED <<owner, store>>
          \/ /\ Session(t) = Closed /\ owner = NoTab /\ owner' = t
             /\ store' = IF store = None THEN Fresh(chain) ELSE store
          \/ /\ tabs' = [tabs EXCEPT ![t].flow = Idle]
      BY <1>2 DEF OpenStore, Borrows, Put
    <2>3. tabs' # [tabs EXCEPT ![t].flow = Idle]
      BY Holding DEF Idle, WalletInv, WalletShape, Pages
    <2>4. CASE Session(t) # Closed /\ Flow(t).aim = "target" /\ UNCHANGED <<owner, store>>
      <3>1. Lets(t) /\ tabs' \in [Tab -> Pages] /\ TabInv(t)'
        BY <1>1, <1>2, <1>3, <2>1, <2>4, FlowMoves DEF StoreGrows, WalletInv, WalletShape
      <3>2. WalletShape'
        BY <1>3, <2>4, <3>1 DEF WalletInv, WalletShape
      <3> QED
        BY <1>3, <1>4, <3>1, <3>2, KeptByTab
    <2>5. CASE /\ Session(t) = Closed /\ owner = NoTab /\ owner' = t
               /\ store' = IF store = None THEN Fresh(chain) ELSE store
      <3>1. /\ Fresh(chain) \in Stores /\ Fresh(chain).chain = chain
            /\ \A s \in Stores : s # None
        BY DEF Fresh, Stores, WalletInv, WalletShape
      <3>2. /\ store' \in Stores /\ store' # None
            /\ store'.chain = IF store = None THEN chain ELSE store.chain
        BY <2>5, <3>1 DEF WalletInv, WalletShape
      <3>3. Lets(t) /\ tabs' \in [Tab -> Pages] /\ TabInv(t)'
        BY <1>1, <1>3, <2>1, <2>5, <3>2, FlowMoves
      <3>4. WalletShape'
        BY <1>3, <2>5, <3>2, <3>3 DEF WalletInv, WalletShape
      <3> QED
        BY <1>3, <1>4, <3>3, <3>4, KeptByTab
    <2> QED
      BY <2>2, <2>3, <2>4, <2>5
  <1>6. CASE Put(t, "flow", Idle) /\ UNCHANGED <<owner, store>>
    <2>1. tabs' = [tabs EXCEPT ![t].flow = Idle]
      BY <1>6 DEF Put
    <2>2. Idle.stage = "idle"
      BY DEF Idle
    <2>3. Lets(t) /\ tabs' \in [Tab -> Pages] /\ TabInv(t)'
      BY <1>2, <1>3, <1>6, <2>1, <2>2, FlowMoves DEF StoreGrows, WalletInv, WalletShape
    <2>4. WalletShape'
      BY <1>3, <1>6, <2>3 DEF WalletInv, WalletShape
    <2> QED
      BY <1>3, <1>4, <2>3, <2>4, KeptByTab
  <1> QED
    BY <1>5, <1>6 DEF OpenStore

LEMMA Derived ==
    ASSUME WalletInv, NEW f \in Flows, Holds(f), NEW p \in Answering(f)
    PROVE  /\ p \in Passkey /\ PublicKey(f, p) \in Passkey
           /\ [key |-> PublicKey(f, p), prf |-> p] \in Account
           /\ f.kind = "new" => PublicKey(f, p) = p
  <1>1. CASE f.kind = "stored"
    <2>1. PICK r \in records : r.credential = p
      BY <1>1 DEF Answering, Selected
    <2>2. p \in Passkey
      BY <2>1 DEF WalletInv, RecordShape
    <2>3. (CHOOSE s \in records : s.credential = p) \in records
      BY <2>1
    <2>4. PublicKey(f, p) \in Passkey
      BY <1>1, <2>3 DEF PublicKey, WalletInv, RecordShape, Account
    <2> QED
      BY <1>1, <2>2, <2>4 DEF Account
  <1>2. CASE f.kind \in {"bundle", "target", "bound"}
    <2>1. p \in Passkey /\ PublicKey(f, p) \in Passkey
      BY <1>2 DEF Answering, PublicKey, Holds, WalletInv, WalletShape
    <2> QED
      BY <1>2, <2>1 DEF Account
  <1>3. CASE f.kind = "new"
    <2>1. p \in Passkey /\ PublicKey(f, p) = p
      BY <1>3 DEF Answering, PublicKey, Registered
    <2> QED
      BY <2>1 DEF Account
  <1> QED
    BY <1>1, <1>2, <1>3 DEF Flows

LEMMA CeremonyKeeps ==
    ASSUME WalletInv, NEW t \in Tab, Ceremony(t)
    PROVE  WalletInv'
  <1>1. /\ Flow(t) # Idle /\ Flow(t).stage = "derive" /\ Working(t) /\ Holds(Flow(t))
        /\ Flow(t) \in Flows /\ ~Flow(t).ready
    BY Holding DEF Ceremony, Idle, Working, Holds
  <1> PICK p \in Answering(Flow(t)) :
         LET a == [key |-> PublicKey(Flow(t), p), prf |-> p] IN
         /\ passkeys' = passkeys \cup {p}
         /\ records' = IF Borrows(t) \/ Flow(t).kind = "stored" THEN records ELSE Saved(a)
         /\ tabs' = [tabs EXCEPT ![t].flow = [@ EXCEPT !.stage = "register", !.account = a]]
    BY DEF Ceremony
  <1> DEFINE account == [key |-> PublicKey(Flow(t), p), prf |-> p]
  <1>2. account \in Account /\ p \in Passkey /\ (Flow(t).kind = "new" => account.key = p)
    BY <1>1, Derived
  <1> PICK a \in Account : a = account
    BY <1>2
  <1>3. /\ passkeys' = passkeys \cup {p} /\ records' \in {records, Saved(a)}
        /\ Flow(t).kind = "new" => a.key = a.prf
    BY <1>2
  <1> PICK f \in Flows : f = Answered(Flow(t), a)
    BY <1>1, FlowAnswered
  <1>4. tabs' = [tabs EXCEPT ![t].flow = f]
    BY DEF Answered, Flow
  <1> HIDE DEF account
  <1>5. /\ f \in Flows /\ f.stage = "register" /\ f.account = a /\ f.ready = Flow(t).ready
        /\ f.kind = Flow(t).kind /\ f.key = Flow(t).key
        /\ f.aim = Flow(t).aim /\ f.auto = Flow(t).auto
    BY <1>1, FlowAnswered
  <1>6. Holds(f)'
    BY <1>1, <1>3, <1>5 DEF Holds
  <1>7. RecordShape'
    BY <1>3, SavedShape DEF WalletInv, RecordShape
  <1>8. passkeys' \subseteq Passkey /\ deployed \subseteq [account : Account, chain : Nat]
    BY <1>2, <1>3 DEF WalletInv, WalletShape
  <1>9. UNCHANGED <<chain, deployed, profile, target, committed, store, owner>>
    BY DEF Ceremony
  <1> QED
    BY <1>1, <1>4, <1>5, <1>6, <1>7, <1>8, <1>9, Proceeds

(* A step of an opening past its store: it works on a store, for an account *)
(* once the passkey has answered.                                           *)
LEMMA AtWork ==
    ASSUME WalletInv, NEW t \in Tab, Flow(t).stage \notin {"idle", "open"}
    PROVE  /\ Working(t) /\ Flow(t) # Idle /\ Flow(t) \in Flows /\ Holds(Flow(t))
           /\ owner = t /\ store # None /\ store \in Stores /\ store.chain <= chain
           /\ Session(t) # Closed => Flow(t).aim = "target"
           /\ Flow(t).stage # "derive" => Flow(t).account \in Account
  <1>1. Flow(t) # Idle /\ Working(t)
    BY DEF Idle, Working
  <1>2. Holds(Flow(t)) /\ Flow(t) \in Flows
    BY <1>1, Holding
  <1>3. store # None /\ owner = t /\ (Session(t) # Closed => Flow(t).aim = "target")
    BY <1>1, Holding DEF TabInv, Owns
  <1>4. store \in Stores /\ store.chain <= chain
    BY <1>3 DEF WalletInv, WalletShape, Past
  <1> QED
    BY <1>1, <1>2, <1>3, <1>4 DEF Holds

LEMMA Found ==
    ASSUME store \in Stores, store # None, NEW a \in Account
    PROVE  /\ Discovered(a) \in Stores /\ Discovered(a) # None
           /\ Discovered(a).chain = store.chain
           /\ store.notes \subseteq Discovered(a).notes /\ a \in Discovered(a).notes
  <1>1. /\ Discovered(a) \in Stores /\ Discovered(a).chain = store.chain
        /\ store.notes \subseteq Discovered(a).notes /\ a \in Discovered(a).notes
    BY DEF Discovered, Stores
  <1> QED
    BY <1>1

LEMMA StagesKeep ==
    ASSUME WalletInv, NEW t \in Tab, NEW s \in Stages \ {"open", "derive"},
           Flow(t).stage \notin {"idle", "open", "derive"},
           Flow(t).ready => s \in {"persist", "finish"},
           tabs' = [tabs EXCEPT ![t].flow.stage = s], RecordShape',
           UNCHANGED <<chain, deployed, passkeys, profile, target, committed, store, owner>>
    PROVE  WalletInv'
  <1> PICK f \in Flows :
             /\ tabs' = [tabs EXCEPT ![t].flow = f] /\ f.stage = s
             /\ f.kind = Flow(t).kind /\ f.key = Flow(t).key /\ f.want = Flow(t).want
             /\ f.aim = Flow(t).aim /\ f.auto = Flow(t).auto /\ f.account = Flow(t).account
             /\ f.ready = Flow(t).ready
    BY AtWork, Staged
  <1>1. Holds(f)'
    BY AtWork DEF Holds, Sound
  <1> QED
    BY <1>1, AtWork, Proceeds DEF WalletInv, WalletShape

LEMMA RegisterKeeps ==
    ASSUME WalletInv, NEW t \in Tab, Register(t)
    PROVE  WalletInv'
  <1>1. /\ Flow(t).stage = "register" /\ tabs' = [tabs EXCEPT ![t].flow.stage = "status"]
        /\ UNCHANGED <<chain, deployed, passkeys, records, profile, target, committed, store,
                       owner>>
    BY DEF Register, storage
  <1>2. ~Flow(t).ready
    BY <1>1, AtWork DEF Holds
  <1>3. RecordShape'
    BY <1>1 DEF WalletInv, RecordShape
  <1> QED
    BY <1>1, <1>2, <1>3, StagesKeep DEF Stages

LEMMA PersistKeeps ==
    ASSUME WalletInv, NEW t \in Tab, Persist(t)
    PROVE  WalletInv'
  <1>1. /\ Flow(t).stage = "persist" /\ tabs' = [tabs EXCEPT ![t].flow.stage = "finish"]
        /\ records' \in {records, Saved(Flow(t).account)}
        /\ UNCHANGED <<chain, deployed, passkeys, profile, target, committed, store, owner>>
    BY DEF Persist
  <1>2. RecordShape'
    BY <1>1, AtWork, SavedShape DEF WalletInv, RecordShape
  <1> QED
    BY <1>1, <1>2, StagesKeep DEF Stages

(* The account is there, and the PXE has found its note.                    *)
LEMMA CompletesKeep ==
    ASSUME WalletInv, NEW t \in Tab, Flow(t).stage \in {"status", "deploy"},
           tabs' = [tabs EXCEPT ![t].flow = Complete(Flow(t))],
           store' = Discovered(Flow(t).account),
           deployed \subseteq deployed', deployed' \subseteq [account : Account, chain : Nat],
           [account |-> Flow(t).account, chain |-> chain] \in deployed',
           UNCHANGED <<chain, passkeys, storage, owner>>
    PROVE  WalletInv'
  <1>1. Flow(t).stage \notin {"idle", "open", "derive"}
    OBVIOUS
  <1> PICK f \in Flows : f = Complete(Flow(t))
    BY <1>1, AtWork, FlowComplete
  <1> PICK a \in Account : a = Flow(t).account
    BY <1>1, AtWork
  <1>2. /\ f.stage = "persist" /\ f.account = a /\ f.ready
        /\ f.kind = Flow(t).kind /\ f.key = Flow(t).key
        /\ f.aim = Flow(t).aim /\ f.auto = Flow(t).auto
    BY <1>1, AtWork, FlowComplete
  <1>3. /\ store' \in Stores /\ store' # None /\ store'.chain = store.chain
        /\ store.notes \subseteq store'.notes /\ a \in store'.notes
    BY <1>1, AtWork, Found
  <1>4. Sound(a)'
    BY <1>1, <1>3, AtWork DEF Sound
  <1>5. Holds(f)'
    BY <1>1, <1>2, <1>4, AtWork DEF Holds
  <1>6. RecordShape' /\ passkeys' \subseteq Passkey
    BY DEF WalletInv, RecordShape, WalletShape, storage
  <1>7. StoreGrows /\ UNCHANGED <<chain, profile, target, committed, owner>>
    BY <1>3 DEF StoreGrows, storage
  <1> QED
    BY <1>1, <1>2, <1>3, <1>5, <1>6, <1>7, AtWork, Proceeds

LEMMA ReadStatusKeeps ==
    ASSUME WalletInv, NEW t \in Tab, ReadStatus(t)
    PROVE  WalletInv'
  <1>1. Flow(t).stage = "status" /\ UNCHANGED <<chain, deployed, passkeys, storage, owner>>
    BY DEF ReadStatus
  <1>2. CASE /\ Initialized(Flow(t).account) /\ store' = Discovered(Flow(t).account)
             /\ tabs' = [tabs EXCEPT ![t].flow = [@ EXCEPT !.stage = "persist", !.ready = TRUE]]
    <2>1. tabs' = [tabs EXCEPT ![t].flow = Complete(Flow(t))]
      BY <1>2 DEF Complete, Flow
    <2> QED
      BY <1>1, <1>2, <2>1, CompletesKeep DEF Initialized, WalletInv, WalletShape
  <1>3. ASSUME store' = store, NEW s \in {"deploy", "persist"},
               tabs' = [tabs EXCEPT ![t].flow.stage = s]
        PROVE  WalletInv'
    <2>1. ~Flow(t).ready
      BY <1>1, AtWork DEF Holds
    <2>2. RecordShape' /\ UNCHANGED <<profile, target, committed>>
      BY <1>1 DEF WalletInv, RecordShape, storage
    <2> QED
      BY <1>1, <1>3, <2>1, <2>2, StagesKeep DEF Stages
  <1> QED
    BY <1>2, <1>3 DEF ReadStatus

LEMMA DeployKeeps ==
    ASSUME WalletInv, NEW t \in Tab, Deploy(t)
    PROVE  WalletInv'
  <1>1. /\ Flow(t).stage = "deploy" /\ store' = Discovered(Flow(t).account)
        /\ deployed' = deployed \cup {[account |-> Flow(t).account, chain |-> chain]}
        /\ UNCHANGED <<chain, passkeys, storage, owner>>
    BY DEF Deploy
  <1>2. tabs' = [tabs EXCEPT ![t].flow = Complete(Flow(t))]
    BY DEF Complete, Deploy, Flow
  <1>3. deployed' \subseteq [account : Account, chain : Nat]
    BY <1>1, AtWork DEF WalletInv, WalletShape
  <1> QED
    BY <1>1, <1>2, <1>3, CompletesKeep

LEMMA AnchorErrorKeeps ==
    ASSUME WalletInv, NEW t \in Tab, AnchorError(t)
    PROVE  WalletInv'
  <1>1. /\ Flow(t).stage \in {"register", "status"} /\ ~Borrows(t)
        /\ owner' = NoTab /\ store' = None
        /\ UNCHANGED <<chain, deployed, passkeys, records, profile, target, committed>>
    BY DEF AnchorError, storage
  <1> PICK f \in Flows : f = Restarted(Flow(t))
    BY <1>1, AtWork, FlowRestarted
  <1>2. tabs' = [tabs EXCEPT ![t].flow = f]
    BY DEF AnchorError, Restarted, Flow
  <1>3. /\ f.stage = "open" /\ ~f.ready /\ f.kind = Flow(t).kind /\ f.key = Flow(t).key
        /\ f.aim = Flow(t).aim /\ f.auto = Flow(t).auto
    BY <1>1, AtWork, FlowRestarted DEF Holds
  <1>4. Session(t) = Closed /\ owner = t /\ t # NoTab /\ Flow(t) # Idle
    BY <1>1, AtWork DEF Borrows
  <1>5. Holds(f)'
    BY <1>1, <1>3, AtWork DEF Holds
  <1>6. Lets(t) /\ tabs' \in [Tab -> Pages] /\ TabInv(t)'
    BY <1>1, <1>2, <1>3, <1>4, <1>5, FlowMoves
  <1>7. WalletShape' /\ RecordShape'
    BY <1>1, <1>6 DEF WalletInv, WalletShape, RecordShape
  <1> QED
    BY <1>1, <1>6, <1>7, KeptByTab

LEMMA GivesUpKeeps ==
    ASSUME WalletInv, NEW t \in Tab, Refuse(t) \/ Fail(t)
    PROVE  WalletInv'
  <1>1. /\ Flow(t).stage \notin {"idle", "open"}
        /\ owner' = IF owner = t /\ ~Borrows(t) THEN NoTab ELSE owner
        /\ tabs' = [tabs EXCEPT ![t].flow = Idle]
        /\ UNCHANGED <<chain, deployed, passkeys, records, profile, target, committed, store>>
    BY Holding DEF Refuse, Fail, GivesUp, Put, storage, Flows, Stages
  <1>2. owner' = t <=> Session(t) # Closed
    BY <1>1, AtWork DEF Borrows
  <1>3. Idle.stage = "idle"
    BY DEF Idle
  <1>4. owner' # owner => owner' = NoTab
    BY <1>1
  <1>5. Lets(t) /\ tabs' \in [Tab -> Pages] /\ TabInv(t)'
    BY <1>1, <1>2, <1>3, <1>4, AtWork, FlowMoves DEF StoreGrows, Stores
  <1>6. WalletShape' /\ RecordShape'
    BY <1>1, <1>5 DEF WalletInv, WalletShape, RecordShape
  <1> QED
    BY <1>1, <1>5, <1>6, KeptByTab

(* The page takes the opened wallet over.                                   *)
LEMMA Opens ==
    ASSUME WalletInv, NEW t \in Tab, Flow(t).stage = "finish", Session(t) = Closed,
           tabs' = [tabs EXCEPT ![t] = [@ EXCEPT !.session = Opened(t), !.flow = Idle]],
           UNCHANGED <<chain, deployed, passkeys, records, committed, store, owner>>,
           profile' \in Account, target' = target \/ TargetSound',
           target' # None => target' \in [address : Account, chain : Nat]
    PROVE  WalletInv'
  <1> PICK p \in Pages : p = tabs[t]
    BY Holding
  <1>1. Flow(t) \in Flows /\ Flow(t).account \in Account
    BY AtWork
  <1> PICK s \in Sessions : s = Opened(t)
    BY <1>1 DEF Opened, Sessions, Flows
  <1> PICK q : q = [p EXCEPT !.session = s, !.flow = Idle]
    OBVIOUS
  <1>2. /\ q \in Pages /\ q.session = s /\ q.flow = Idle /\ q.born = p.born
        /\ q.seen = p.seen /\ q.check = p.check /\ q.ready = p.ready
    BY DEF Pages
  <1>3. tabs' = [tabs EXCEPT ![t] = q]
    OBVIOUS
  <1>4. /\ tabs' \in [Tab -> Pages] /\ tabs'[t] = q
        /\ \A u \in Tab \ {t} : tabs'[u] = tabs[u]
    BY <1>2, <1>3, PagePut DEF WalletInv
  <1>5. Session(t)' = s /\ Flow(t)' = Idle /\ s # Closed
    BY <1>2, <1>4 DEF Session, Flow, Closed
  <1>6. /\ s.account = Flow(t).account /\ s.ready = Flow(t).ready /\ s.auto = Flow(t).auto
    BY DEF Opened
  <1>7. Lets(t)
    BY <1>4 DEF Lets, WalletInv, Past
  <1>8. Owns(t)'
    BY <1>5, AtWork DEF Owns, Working, Idle
  <1>9. Ready(t)'
    BY <1>5, <1>6, AtWork DEF Ready, Holds, Sound
  <1>10. Informed(t)'
    BY <1>5 DEF Informed
  <1>11. Current(t)'
    <2>1. Restores(t)' => Restores(t)
      BY <1>2, <1>4, <1>5, <1>6, AtWork DEF Restores
    <2> QED
      BY <1>2, <1>4, <2>1, Holding DEF Current
  <1>12. WalletShape' /\ RecordShape'
    BY <1>4 DEF WalletInv, WalletShape, RecordShape
  <1> QED
    BY <1>7, <1>8, <1>9, <1>10, <1>11, <1>12, KeptByTab DEF TabInv

LEMMA FinishSessionKeeps ==
    ASSUME WalletInv, NEW t \in Tab, FinishSession(t)
    PROVE  WalletInv'
  <1>1. /\ Flow(t).stage = "finish" /\ Flow(t).aim = "session"
        /\ tabs' = [tabs EXCEPT ![t] = [@ EXCEPT !.session = Opened(t), !.flow = Idle]]
        /\ UNCHANGED <<chain, deployed, passkeys, records, target, committed, store, owner>>
        /\ profile' = Flow(t).account
    BY DEF FinishSession
  <1>2. Session(t) = Closed /\ profile' \in Account
    BY <1>1, AtWork
  <1> QED
    BY <1>1, <1>2, Opens DEF WalletInv, WalletShape

LEMMA FinishTargetKeeps ==
    ASSUME WalletInv, NEW t \in Tab, FinishTarget(t)
    PROVE  WalletInv'
  <1>1. /\ Flow(t).stage = "finish" /\ Flow(t).aim = "target" /\ Flow(t).ready
        /\ target' = [address |-> Flow(t).account, chain |-> store.chain]
        /\ UNCHANGED <<chain, deployed, passkeys, records, committed, store, owner>>
    BY DEF FinishTarget
  <1>2. Flow(t).account \in Account /\ store.chain \in Nat /\ Sound(Flow(t).account)
    BY <1>1, AtWork DEF Holds, Stores
  <1>3. target' \in [address : Account, chain : Nat] /\ TargetSound'
    BY <1>1, <1>2 DEF TargetSound, Sound
  <1>4. CASE Borrows(t) /\ Put(t, "flow", Idle) /\ UNCHANGED profile
    <2>1. tabs' = [tabs EXCEPT ![t].flow = Idle] /\ Session(t) # Closed
      BY <1>4 DEF Put, Borrows
    <2>2. Idle.stage = "idle"
      BY DEF Idle
    <2>3. Lets(t) /\ tabs' \in [Tab -> Pages] /\ TabInv(t)'
      BY <1>1, <2>1, <2>2, AtWork, FlowMoves DEF StoreGrows, Stores
    <2>4. WalletShape' /\ RecordShape'
      BY <1>1, <1>3, <1>4, <2>3 DEF WalletInv, WalletShape, RecordShape
    <2> QED
      BY <1>1, <1>3, <2>3, <2>4, KeptByTab
  <1>5. CASE /\ ~Borrows(t) /\ profile' = Flow(t).account
             /\ tabs' = [tabs EXCEPT ![t] = [@ EXCEPT !.session = Opened(t), !.flow = Idle]]
    <2>1. Session(t) = Closed
      BY <1>1, <1>5 DEF Borrows
    <2> QED
      BY <1>1, <1>2, <1>3, <1>5, <2>1, Opens
  <1> QED
    BY <1>4, <1>5 DEF FinishTarget

-----------------------------------------------------------------------------
(* The invariant, and what the wallets promise. *)
LEMMA InitWallet == Init => WalletInv
  <1> SUFFICES ASSUME Init PROVE WalletInv
    OBVIOUS
  <1> PICK p \in Passkey, open \in BOOLEAN :
        /\ passkeys = {p} /\ profile = AccountOf(p)
        /\ records = {[credential |-> p, address |-> AccountOf(p)]}
        /\ deployed = IF open THEN {[account |-> AccountOf(p), chain |-> 1]} ELSE {}
        /\ store = IF open THEN [Fresh(1) EXCEPT !.notes = {AccountOf(p)}] ELSE None
    BY DEF Init
  <1>1. AccountOf(p) \in Account /\ AccountOf(p).prf = p
    BY DEF AccountOf, Account
  <1>2. store \in Stores \cup {None} /\ (store # None => store.chain = 1)
    BY <1>1 DEF Fresh, Stores
  <1>3. /\ Load(1) \in Pages /\ Load(1).born = 1 /\ Load(1).seen = 0 /\ ~Load(1).ready
        /\ Load(1).check = "idle" /\ Load(1).session = Closed /\ Load(1).flow = Idle
    BY DEF Load, Pages, Closed
  <1>4. chain = 1 /\ committed = 1 /\ owner = NoTab /\ target = None
    BY DEF Init
  <1>5. tabs \in [Tab -> Pages] /\ \A t \in Tab : tabs[t] = Load(1)
    BY <1>3 DEF Init
  <1>6. WalletShape
    BY <1>1, <1>2, <1>4, <1>5 DEF WalletShape
  <1>7. RecordShape
    BY <1>1 DEF RecordShape
  <1>8. Past /\ TargetSound
    BY <1>2, <1>4 DEF Past, TargetSound
  <1>9. ASSUME NEW t \in Tab PROVE TabInv(t)
    <2>1. Session(t) = Closed /\ Flow(t) = Idle /\ ~Working(t) /\ owner # t
      BY <1>3, <1>4, <1>5 DEF Session, Flow, Working, Idle
    <2>2. Current(t)
      BY <1>3, <1>4, <1>5, <2>1 DEF Current, Restores
    <2> QED
      BY <2>1, <2>2 DEF TabInv, Informed, Owns, Ready
  <1> QED
    BY <1>6, <1>7, <1>8, <1>9 DEF WalletInv

LEMMA StutterWallet == WalletInv /\ UNCHANGED vars => WalletInv'
  <1> SUFFICES ASSUME WalletInv, UNCHANGED vars PROVE WalletInv'
    OBVIOUS
  <1>1. UNCHANGED <<chain, deployed, passkeys, records, profile, target, committed, store, owner,
                    tabs>>
    BY DEF vars, storage
  <1>2. WalletShape' /\ RecordShape' /\ Past' /\ TargetSound'
    BY <1>1 DEF WalletInv, WalletShape, RecordShape, Past, TargetSound
  <1>3. ASSUME NEW t \in Tab PROVE TabInv(t)'
    BY <1>1 DEF WalletInv, TabInv, Informed, Owns, Current, Ready, Holds, Sound, Restores,
                Working, Flow, Session
  <1> QED
    BY <1>2, <1>3 DEF WalletInv

LEMMA WalletInductive == Spec => []WalletInv
  <1>1. WalletInv /\ [Next]_vars => WalletInv'
    <2> SUFFICES ASSUME WalletInv, [Next]_vars PROVE WalletInv'
      OBVIOUS
    <2>1. ASSUME NEW t \in Tab, Page(t) PROVE WalletInv'
      BY <2>1, ReloadKeeps, ChecksKeep, ClearKeeps, AsksKeep, AutoRestoreKeeps, DisconnectKeeps,
         OpenTargetKeeps, RepairsKeep DEF Page
    <2>2. ASSUME NEW t \in Tab, Wallet(t) PROVE WalletInv'
      BY <2>2, OpenStoreKeeps, CeremonyKeeps, RegisterKeeps, AnchorErrorKeeps, ReadStatusKeeps,
         DeployKeeps, PersistKeeps, FinishSessionKeeps, FinishTargetKeeps, GivesUpKeeps DEF Wallet
    <2> QED
      BY <2>1, <2>2, NodeKeeps, StutterWallet DEF Next
  <1> QED
    BY <1>1, InitWallet, PTL DEF Spec

(* A store that is behind the page is not taken for the node's (App.tsx:741,*)
(* node-storage.ts): the fingerprint is never ahead of the store, and a     *)
(* wallet that was restored by itself sits on one as new as its page.       *)
THEOREM StaleStores == Spec => []StaleStoreIsNotRestored
  <1>1. WalletInv => StaleStoreIsNotRestored
    <2> SUFFICES ASSUME WalletInv PROVE StaleStoreIsNotRestored
      OBVIOUS
    <2>1. ASSUME NEW t \in Tab, Session(t) # Closed, Session(t).auto
          PROVE  tabs[t].born <= store.chain
      BY <2>1, Holding DEF TabInv, Owns, Restores
    <2> QED
      BY <2>1 DEF StaleStoreIsNotRestored, WalletInv, Past
  <1> QED
    BY <1>1, WalletInductive, PTL

(* No refusal, failure, switch or retry leaves a wallet behind that keeps   *)
(* the store from every other (webauthn-session.ts:658,                     *)
(* recovery-wallet.ts:55, App.tsx:1105-1121).                               *)
THEOREM StoresAreOwned == Spec => []StoreHasAnOwner
  <1>1. WalletInv => StoreHasAnOwner
    BY Holding DEF StoreHasAnOwner, TabInv, Owns, Working
  <1> QED
    BY <1>1, WalletInductive, PTL

(* A wallet that is shown as ready can sign: its account is deployed and    *)
(* its PXE holds the note; the destination of a recovery is deployed        *)
(* (lifecycle.ts:232-276, recovery-wallet.ts:52).                           *)
THEOREM ReadyWallets == Spec => []ReadyMeansReady
  <1>1. WalletInv => ReadyMeansReady
    BY Holding DEF ReadyMeansReady, TabInv, Ready, Sound, WalletInv, TargetSound
  <1> QED
    BY <1>1, WalletInductive, PTL

(* What saving an account displaces: the record of the same passkey under   *)
(* another public key.                                                      *)
LEMMA Displaced ==
    ASSUME RecordShape, NEW a \in Account, records' = Saved(a),
           NEW r \in records \ records', r.address = AccountOf(r.credential)
    PROVE  Foreign(a, r.credential)
  <1>1. /\ r = [credential |-> r.credential, address |-> r.address]
        /\ r.address = [key |-> r.credential, prf |-> r.credential]
        /\ a = [key |-> a.key, prf |-> a.prf]
    BY DEF RecordShape, Account, AccountOf
  <1>2. r # [credential |-> a.prf, address |-> a]
    BY DEF Saved
  <1>3. r.credential = a.prf \/ r.address = a
    BY DEF Saved
  <1> QED
    BY <1>1, <1>2, <1>3 DEF Foreign

LEMMA CeremonyDisplaces ==
    ASSUME WalletInv, NEW t \in Tab, Ceremony(t),
           NEW r \in records \ records', r.address = AccountOf(r.credential)
    PROVE  SavedByFlow(t, r.credential)
  <1>1. /\ Flow(t).stage = "derive" /\ Flow(t) \in Flows /\ Holds(Flow(t))
    BY AtWork DEF Ceremony
  <1>2. PICK p \in Answering(Flow(t)) :
         LET a == [key |-> PublicKey(Flow(t), p), prf |-> p] IN
         /\ Bound(Flow(t), a)
         /\ records' = IF Borrows(t) \/ Flow(t).kind = "stored" THEN records ELSE Saved(a)
         /\ tabs' = [tabs EXCEPT ![t].flow = [@ EXCEPT !.stage = "register", !.account = a]]
    BY DEF Ceremony
  <1>3. PICK a \in Account : a = [key |-> PublicKey(Flow(t), p), prf |-> p]
    BY <1>1, Derived
  <1>4. records' = Saved(a) /\ Flow(t).kind # "stored" /\ Bound(Flow(t), a)
    BY <1>2, <1>3
  <1>5. Foreign(a, r.credential)
    BY <1>4, Displaced DEF WalletInv
  <1>6. Flow(t).kind = "new" => a.key = a.prf
    BY <1>1, <1>3, Derived
  <1>7. Flow(t).kind \in {"bundle", "target"} \/ (Flow(t).kind = "bound" /\ a = Flow(t).want)
    BY <1>1, <1>4, <1>5, <1>6 DEF Bound, Flows, Foreign
  <1>8. PICK f \in Flows : f = Answered(Flow(t), a)
    BY <1>1, FlowAnswered
  <1>9. tabs' = [tabs EXCEPT ![t].flow = f]
    BY <1>2, <1>3, <1>8 DEF Answered, Flow
  <1>10. tabs'[t].flow = f
    BY <1>9, FlowPut DEF WalletInv
  <1>11. /\ f.stage = "register" /\ f.account = a
         /\ f.kind = Flow(t).kind /\ f.want = Flow(t).want
    BY <1>1, <1>8, FlowAnswered
  <1>12. f # Idle /\ f # tabs[t].flow
    BY <1>1, <1>11 DEF Idle, Flow
  <1> QED
    BY <1>5, <1>7, <1>10, <1>11, <1>12 DEF SavedByFlow

LEMMA PersistDisplaces ==
    ASSUME WalletInv, NEW t \in Tab, Persist(t),
           NEW r \in records \ records', r.address = AccountOf(r.credential)
    PROVE  SavedByFlow(t, r.credential)
  <1>1. /\ Flow(t).stage = "persist" /\ records' = Saved(Flow(t).account) /\ Borrows(t)
        /\ tabs' = [tabs EXCEPT ![t].flow.stage = "finish"]
    BY DEF Persist
  <1>2. Flow(t) # Idle /\ Holds(Flow(t)) /\ Flow(t).account \in Account
    BY <1>1, AtWork
  <1>3. Foreign(Flow(t).account, r.credential)
    BY <1>1, <1>2, Displaced DEF WalletInv
  <1>4. Flow(t).kind = "bundle"
    BY <1>1, <1>2, <1>3 DEF Holds, Borrows, Foreign
  <1> PICK f \in Flows :
             /\ tabs' = [tabs EXCEPT ![t].flow = f] /\ f.stage = "finish"
             /\ f.kind = Flow(t).kind /\ f.key = Flow(t).key /\ f.want = Flow(t).want
             /\ f.aim = Flow(t).aim /\ f.auto = Flow(t).auto /\ f.account = Flow(t).account
             /\ f.ready = Flow(t).ready
    BY <1>1, <1>2, Staged DEF Stages
  <1>5. tabs'[t].flow = f
    BY FlowPut DEF WalletInv
  <1>6. f # Idle /\ f # tabs[t].flow
    BY <1>1 DEF Idle, Flow
  <1> QED
    BY <1>3, <1>4, <1>5, <1>6 DEF SavedByFlow

LEMMA RepairDisplaces ==
    ASSUME WalletInv, NEW t \in Tab, SaveRepair(t),
           NEW r \in records \ records', r.address = AccountOf(r.credential)
    PROVE  SavedByRepair(t, r.credential)
  <1> PICK a \in tabs[t].repairs :
         /\ records' = Saved(a)
         /\ tabs' = [tabs EXCEPT ![t] = [@ EXCEPT !["repairs"] = tabs[t].repairs \ {a}]]
    BY DEF SaveRepair, Put
  <1>1. tabs[t] \in Pages /\ a \in Account
    BY Holding DEF Pages
  <1>2. a \notin tabs'[t].repairs
    BY <1>1 DEF Pages, WalletInv, WalletShape
  <1>3. Foreign(a, r.credential)
    BY <1>1, Displaced DEF WalletInv
  <1> QED
    BY <1>2, <1>3 DEF SavedByRepair

(* A wallet that this browser remembers is lost to no other one that is     *)
(* added or repaired: only an account of its own passkey under another's    *)
(* key displaces its record, which a person entered, the recovery target or *)
(* the remembered profile names, or which had been open and is repaired     *)
(* (App.tsx:653-673, 1260-1267; webauthn-session.ts:129-173, 601-622).      *)
THEOREM RememberedWallets == Spec => RememberedWalletsStay
  <1> DEFINE Stay == \A r \in records \ records' : r.address = AccountOf(r.credential) =>
                       \E t \in Tab : SavedByFlow(t, r.credential) \/ SavedByRepair(t, r.credential)
  <1>1. WalletInv /\ [Next]_vars => [Stay]_vars
    <2> SUFFICES ASSUME WalletInv, [Next]_vars, records' # records,
                        NEW r \in records \ records', r.address = AccountOf(r.credential)
                 PROVE  \E t \in Tab : SavedByFlow(t, r.credential) \/ SavedByRepair(t, r.credential)
      BY DEF vars, storage
    <2>1. ASSUME NEW t \in Tab, Page(t) PROVE SaveRepair(t)
      BY <2>1 DEF Page, Reload, StartCheck, Unchanged, NewChainSeen, Clear, ClearFails, OpenStored,
         Reconnect, RestoreRemembered, AutoRestore, Disconnect, OpenTarget, Create, UsePublicKey,
         StartRepair, Ask, storage
    <2>2. ASSUME NEW t \in Tab, Wallet(t) PROVE Ceremony(t) \/ Persist(t)
      BY <2>2 DEF Wallet, OpenStore, Register, AnchorError, ReadStatus, Deploy, FinishSession,
         FinishTarget, Refuse, Fail, storage
    <2>3. ~ResetNode /\ \A p \in Passkey : ~DeployElsewhere(p)
      BY DEF ResetNode, DeployElsewhere, storage
    <2>4. ~UNCHANGED vars
      BY DEF vars, storage
    <2> QED
      BY <2>1, <2>2, <2>3, <2>4, CeremonyDisplaces, PersistDisplaces, RepairDisplaces DEF Next
  <1>2. Spec => [][Stay]_vars
    BY <1>1, WalletInductive, PTL DEF Spec
  <1> QED
    BY <1>2, PTL DEF RememberedWalletsStay

=============================================================================
