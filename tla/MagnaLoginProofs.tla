--------------------------- MODULE MagnaLoginProofs ---------------------------
(* Theorems about Login with Magna, for any number of pages, popups,        *)
(* brokers, requirements and slots: the login implements its promise, the   *)
(* open tab works for the picked wallet only, and the allowance check       *)
(* covers a whole login.                                                    *)
EXTENDS MagnaLoginSafety, TLAPS, FiniteSetTheorems, WellFoundedInduction

(* Where one request is: it has at most one of these tokens, and none once  *)
(* it is lost, refused or done.                                             *)
InPopup(r, phase) == Serves(PopupOf[r], r) /\ page[PopupOf[r]].phase = phase
Early(r) == login[r] \in {"idle", "opened"}
Asked(r) == Mail("request", r) \in mail
Called(r) == \E b \in Nat : Cast("execute", r, b) \in channel
Retry(r) == \E b \in Nat : Cast("noteMissing", r, b) \in channel

Tokens(r) ==
    {x \in {"early", "asked", "choosing", "discovering", "called", "retry", "running"} :
        \/ x = "early" /\ Early(r)
        \/ x = "asked" /\ Asked(r)
        \/ x = "choosing" /\ InPopup(r, "choosing")
        \/ x = "discovering" /\ InPopup(r, "discovering")
        \/ x = "called" /\ Called(r)
        \/ x = "retry" /\ Retry(r)
        \/ x = "running" /\ Running(r)}

Txs(r) == {t \in pool \cup used : t.request = r}
Tx == [request : Request, index : Nat, wallet : Wallet, credential : Credential, slot : Nat]

Stages == {"none", "preflight", "sending", "asserting", "signed", "refused", "sent"}
Serving == {"choosing", "discovering", "brokered", "working", "error"}

Page == [phase : {"closed", "loading", "waiting"} \cup Serving,
         request : Request \cup {NoRequest}, broker : Nat, conflict : BOOLEAN]
Run == [stage : Stages, place : Nat, index : Nat \ {0}, slot : Nat, others : SUBSET Tx]

Lives(a) == a.live
Tabs == [brokers : Nat, live : BOOLEAN, busy : {"free", "login", "action"}]
Casts == [type : {"execute", "assertion", "success", "failure", "noteMissing"},
          request : Request, broker : Nat \ {Popups}]

(* A popup serves a request of its own page or none. *)
Fits(p, shown) ==
    /\ shown \in Page
    /\ shown.phase \in Serving <=> shown.request # NoRequest
    /\ shown.request # NoRequest => PopupOf[shown.request] = p

LoginShape ==
    /\ login \in [Request -> {"idle", "opened", "posted", "validating", "accepted", "rejected"}]
    /\ page \in [Popup -> Page]
    /\ \A p \in Popup : Fits(p, page[p])
    /\ tab \in Tabs
    /\ Lives(tab) => tab.brokers # Popups
    /\ run \in [Request -> Run]
    /\ chosen \in [Request -> Wallet \cup {NoWallet}]
    /\ channel \subseteq Casts
    /\ mail \subseteq [kind : {"request", "response", "error"}, request : Request]
    /\ pool \subseteq Tx /\ used \subseteq Tx

(* A run of the popup ends with the document it runs in. *)
PopupRun(r) == Running(r) /\ run[r].place = Popups => InPopup(r, "working")

(* What a request has sent follows its run; the wallet was picked before.   *)
OneToken(r) == \A x, y \in Tokens(r) : x = y
CalledOnce(r) == \A a, b \in Nat :
    Cast("execute", r, a) \in channel /\ Cast("execute", r, b) \in channel => a = b
WalletPicked(r) ==
    /\ Tokens(r) \cap {"discovering", "called", "retry", "running"} # {} \/ Txs(r) # {}
          => chosen[r] \in Wallet
    /\ Called(r) \/ InTab(r) => chosen[r] = OpenWallet
    /\ \A t \in Txs(r) : t.wallet = chosen[r]
Ordered(r) ==
    /\ Txs(r) # {} => Tokens(r) \subseteq {"running"}
    /\ Running(r) => run[r].index <= Len(Requirements[r])
    /\ run[r].stage = "preflight" => Txs(r) = {}
    /\ run[r].stage \in {"sending", "asserting", "signed", "refused"} =>
          \A t \in Txs(r) : t.index < run[r].index
    /\ run[r].stage = "sent" => \A t \in Txs(r) : t.index <= run[r].index
    /\ \A t \in Txs(r) : t.index \in DOMAIN Requirements[r]
                         /\ t.credential = Requirements[r][t.index]

(* The allowance check of requirement j, by what others had used at the     *)
(* start, and which of them a run has passed.                               *)
Same(r, j) == {i \in 1 .. j : Requirements[r][i] = Requirements[r][j]}
Free(r, c) == Slot \ {t.slot : t \in {u \in run[r].others : u.credential = c}}
Covers(r, j) == Cardinality(Free(r, Requirements[r][j])) >= Cardinality(Same(r, j))
Checked(r) ==
    /\ run[r].others \subseteq {t \in used : t.request # r}
    /\ run[r].stage = "preflight" => \A j \in 1 .. run[r].index - 1 : Covers(r, j)
    /\ run[r].stage \notin {"none", "preflight"} =>
          \A j \in 1 .. Len(Requirements[r]) : Covers(r, j)

RequestInv(r) ==
    /\ OneToken(r) /\ CalledOnce(r) /\ PopupRun(r)
    /\ WalletPicked(r) /\ Ordered(r) /\ Checked(r)
UsedOnce == \A t, u \in used : t.request = u.request /\ t.index = u.index => t = u

LoginInv == LoginShape /\ UsedOnce /\ \A r \in Request : RequestInv(r)

-----------------------------------------------------------------------------
(* What a step does to one request. *)

Kept(r) == chosen'[r] = chosen[r] /\ run'[r] = run[r]

Rests(r) ==
    /\ Tokens(r)' \subseteq Tokens(r)
    /\ chosen'[r] = chosen[r] /\ run'[r] \in {run[r], NoRun}
Posts(r) == "early" \in Tokens(r) /\ Tokens(r)' \subseteq {"asked"} /\ Kept(r)
Opens(r) == "asked" \in Tokens(r) /\ Tokens(r)' \subseteq {"choosing"} /\ Kept(r)
Picks(r) ==
    /\ "choosing" \in Tokens(r) /\ Tokens(r)' \subseteq {"discovering"}
    /\ chosen'[r] \in Wallet /\ run'[r] = run[r]
Calls(r) ==
    /\ "discovering" \in Tokens(r) /\ Tokens(r)' \subseteq {"called"}
    /\ chosen[r] = OpenWallet /\ Kept(r)
Starts(r) ==
    /\ Tokens(r) \cap {"discovering", "called", "retry"} # {}
    /\ Tokens(r)' \subseteq {"running"} /\ chosen'[r] = chosen[r]
    /\ \E place \in Nat : /\ run'[r] = Start(r, place)
                          /\ place # Popups => chosen[r] = OpenWallet
Misses(r) ==
    /\ run[r].stage = "sending" /\ run[r].index = 1
    /\ Tokens(r)' \subseteq {"retry"}
    /\ chosen'[r] = chosen[r] /\ run'[r] = NoRun

(* The steps of a run. *)
Passes(r) ==
    /\ run[r].stage = "preflight"
    /\ Cardinality(Unused(CredentialOf(r))) >= RequiredSlots(r)
    /\ \/ Last(r) /\ run'[r] = [run[r] EXCEPT !.stage = "sending", !.index = 1]
       \/ ~Last(r) /\ run'[r] = [run[r] EXCEPT !.index = @ + 1]
Turns(r) ==
    /\ run[r].stage \in {"sending", "asserting", "signed"}
    /\ run'[r].stage \in {"sending", "asserting", "signed", "refused"}
    /\ run'[r].place = run[r].place /\ run'[r].index = run[r].index
    /\ run'[r].others = run[r].others
Sends(r) ==
    /\ run[r].stage = "signed" /\ run'[r] = [run[r] EXCEPT !.stage = "sent"]
Goes(r) ==
    /\ run[r].stage = "sent" /\ ~Last(r)
    /\ run'[r] = [run[r] EXCEPT !.stage = "sending", !.index = @ + 1]
Runs(r) ==
    /\ Tokens(r)' \subseteq {"running"} /\ chosen'[r] = chosen[r]
    /\ Passes(r) \/ Turns(r) \/ Goes(r)

Kind(r) ==
    /\ PopupRun(r)' /\ CalledOnce(r)'
    /\ \/ Rests(r) \/ Posts(r) \/ Opens(r) \/ Picks(r) \/ Calls(r)
       \/ Starts(r) \/ Misses(r) \/ Runs(r)

LEMMA RunningIsAToken ==
    ASSUME NEW r
    PROVE  /\ "running" \in Tokens(r) <=> Running(r)
           /\ "called" \in Tokens(r) <=> Called(r)
  BY DEF Tokens

LEMMA PreflightFinds ==
    ASSUME LoginShape, NEW r \in Request, RequestInv(r), Running(r),
           Cardinality(Unused(CredentialOf(r))) >= RequiredSlots(r)
    PROVE  Covers(r, run[r].index)
  <1> DEFINE c == CredentialOf(r)
  <1>1. Unused(c) \in SUBSET Free(r, c) /\ Free(r, c) \in SUBSET Slot
    BY DEF Unused, SlotsUsed, Free, RequestInv, Checked
  <1>2. IsFiniteSet(Slot)
    BY LoginAssumption
  <1>3. IsFiniteSet(Free(r, c))
    BY <1>1, <1>2, FS_Subset
  <1>4. /\ Cardinality(Unused(c)) \in Nat /\ Cardinality(Free(r, c)) \in Nat
        /\ Cardinality(Unused(c)) <= Cardinality(Free(r, c))
    <2> HIDE DEF c
    <2>1. IsFiniteSet(Unused(c)) /\ Cardinality(Unused(c)) <= Cardinality(Free(r, c))
      BY <1>1, <1>3, FS_Subset
    <2> QED
      BY <1>3, <2>1, FS_CardinalityType
  <1>5. run[r].index \in Nat
    BY DEF LoginShape, Run
  <1>6. Cardinality(Same(r, run[r].index)) \in Nat
    <2>1. Same(r, run[r].index) \in SUBSET (1 .. run[r].index)
      BY DEF Same
    <2>2. IsFiniteSet(1 .. run[r].index)
      <3>1. \A n \in Nat : IsFiniteSet(1 .. n)
        BY FS_Interval
      <3> QED
        BY <1>5, <3>1
    <2> QED
      BY <2>1, <2>2, FS_Subset, FS_CardinalityType
  <1>7. RequiredSlots(r) = Cardinality(Same(r, run[r].index)) /\ c = Requirements[r][run[r].index]
    BY DEF RequiredSlots, Same, CredentialOf
  <1> HIDE DEF c
  <1>8. Cardinality(Unused(c)) >= Cardinality(Same(r, run[r].index))
    BY <1>7 DEF c
  <1>9. Cardinality(Free(r, c)) >= Cardinality(Same(r, run[r].index))
    BY <1>4, <1>6, <1>8
  <1> QED
    BY <1>7, <1>9 DEF Covers

LEMMA CoversStays ==
    ASSUME NEW r, run'[r].others = run[r].others, NEW j
    PROVE  Covers(r, j) <=> Covers(r, j)'
  BY DEF Covers, Free, Same

(* While its transactions stand still. *)
LEMMA KindKeeps ==
    ASSUME LoginShape, LoginShape', NEW r \in Request, RequestInv(r), Kind(r),
           Txs(r)' = Txs(r), used' = used
    PROVE  RequestInv(r)'
  <1> USE DEF RequestInv
  <1>1. Txs(r)' = Txs(r) /\ used' = used
    OBVIOUS
  <1>2. OneToken(r)'
    BY DEF Kind, Rests, Posts, Opens, Picks, Calls, Starts, Misses, Runs, OneToken
  <1>3. CalledOnce(r)' /\ PopupRun(r)'
    BY DEF Kind
  <1>4. /\ Running(r)' <=> "running" \in Tokens(r)'
        /\ Called(r)' <=> "called" \in Tokens(r)'
    BY DEF Tokens
  <1>5. /\ "running" \in Tokens(r) <=> Running(r)
        /\ "called" \in Tokens(r) <=> Called(r)
    BY RunningIsAToken
  <1>6. Len(Requirements[r]) \in Nat \ {0}
    BY LoginAssumption
  <1>7. SUFFICES (WalletPicked(r) /\ Ordered(r) /\ Checked(r))'
    BY <1>2, <1>3
  <1>8. CASE Rests(r)
    <2>1. WalletPicked(r)'
      BY <1>1, <1>4, <1>5, <1>8 DEF Rests, WalletPicked, InTab, Running, NoRun
    <2>2. Ordered(r)'
      BY <1>1, <1>4, <1>5, <1>8 DEF Rests, Ordered, Running, NoRun
    <2>3. Checked(r)'
      BY <1>1, <1>8, CoversStays DEF Rests, Checked, NoRun
    <2> QED
      BY <2>1, <2>2, <2>3
  <1>9. CASE Posts(r) \/ Opens(r) \/ Picks(r) \/ Calls(r)
    <2>1. Txs(r) = {} /\ ~Running(r) /\ run'[r] = run[r]
      BY <1>5, <1>9 DEF Posts, Opens, Picks, Calls, Kept, Ordered, OneToken
    <2>2. WalletPicked(r)'
      BY <1>1, <1>4, <1>5, <1>9, <2>1, LoginAssumption
         DEF Posts, Opens, Picks, Calls, Kept, WalletPicked, InTab, Running
    <2>3. Ordered(r)'
      BY <1>1, <2>1 DEF Ordered, Running
    <2>4. Checked(r)'
      BY <1>1, <2>1, CoversStays DEF Checked
    <2> QED
      BY <2>2, <2>3, <2>4
  <1>10. CASE Starts(r)
    <2>1. PICK place \in Nat : /\ run'[r] = Start(r, place)
                               /\ place # Popups => chosen[r] = OpenWallet
      BY <1>10 DEF Starts
    <2>2. /\ run'[r].stage = "preflight" /\ run'[r].place = place /\ run'[r].index = 1
          /\ run'[r].others = {t \in used : t.request # r}
      BY <2>1 DEF Start, NoRun
    <2>3. Txs(r) = {} /\ chosen[r] \in Wallet
      BY <1>10 DEF Starts, Ordered, WalletPicked
    <2>4. WalletPicked(r)'
      BY <1>1, <1>4, <1>10, <2>1, <2>2, <2>3 DEF Starts, WalletPicked, InTab, Running
    <2>5. Ordered(r)'
      BY <1>1, <1>6, <1>10, <2>2, <2>3 DEF Starts, Ordered, Running
    <2>6. Checked(r)'
      BY <1>1, <2>2 DEF Checked
    <2> QED
      BY <2>4, <2>5, <2>6
  <1>11. CASE Misses(r)
    <2>1. Running(r)
      BY <1>11 DEF Misses, Running
    <2>2. Txs(r) = {}
      <3>1. DOMAIN Requirements[r] = 1 .. Len(Requirements[r])
        BY LoginAssumption
      <3> QED
        BY <1>6, <1>11, <3>1 DEF Misses, Ordered
    <2>3. WalletPicked(r)'
      BY <1>1, <1>4, <1>5, <1>11, <2>1, <2>2 DEF Misses, WalletPicked, InTab, Running, NoRun
    <2>4. Ordered(r)'
      BY <1>1, <1>11, <2>2 DEF Misses, Ordered, Running, NoRun
    <2>5. Checked(r)'
      BY <1>1, <1>11 DEF Misses, Checked, NoRun
    <2> QED
      BY <2>3, <2>4, <2>5
  <1>12. CASE Runs(r)
    <2>1. run[r] \in [stage : Stages, place : Nat, index : Nat \ {0}, slot : Nat,
                      others : SUBSET Tx]
      BY DEF LoginShape, Run
    <2>2. Running(r) /\ run'[r].place = run[r].place /\ run'[r].others = run[r].others
          /\ run'[r].stage # "none"
      BY <1>12, <2>1 DEF Runs, Passes, Turns, Goes, Running
    <2>3. WalletPicked(r)'
      BY <1>1, <1>4, <1>5, <1>12, <2>2 DEF Runs, WalletPicked, InTab, Running
    <2>4. CASE Passes(r)
      <3>1. Txs(r) = {}
        BY <2>4 DEF Passes, Ordered
      <3>2. Covers(r, run[r].index)
        BY <2>2, <2>4, PreflightFinds DEF Passes
      <3>3. run[r].index \in Nat \ {0} /\ run[r].index <= Len(Requirements[r])
            /\ \A j \in 1 .. run[r].index - 1 : Covers(r, j)
        BY <2>1, <2>2, <2>4 DEF Ordered, Checked, Passes
      <3>4. \A j \in 1 .. run[r].index : Covers(r, j)
        BY <3>2, <3>3
      <3>5. \A j \in 1 .. run[r].index : Covers(r, j)'
        BY <2>2, <3>4, CoversStays
      <3>6. CASE Last(r)
        <4>1. run'[r].stage = "sending" /\ run'[r].index = 1
          BY <2>1, <2>4, <3>6 DEF Passes
        <4>2. Ordered(r)'
          BY <1>1, <1>4, <1>6, <1>12, <3>1, <4>1 DEF Ordered, Runs
        <4>3. Checked(r)'
          BY <1>1, <2>2, <3>5, <3>6, <4>1 DEF Checked, Last
        <4> QED
          BY <2>3, <4>2, <4>3
      <3>7. CASE ~Last(r)
        <4>1. run'[r].stage = "preflight" /\ run'[r].index = run[r].index + 1
          BY <2>1, <2>4, <3>7 DEF Passes
        <4>2. Ordered(r)'
          BY <1>1, <1>4, <1>6, <1>12, <3>1, <3>3, <3>7, <4>1 DEF Ordered, Runs, Last
        <4>3. Checked(r)'
          BY <1>1, <2>2, <3>3, <3>5, <4>1 DEF Checked
        <4> QED
          BY <2>3, <4>2, <4>3
      <3> QED
        BY <3>6, <3>7
    <2>5. CASE Turns(r)
      <3>1. run'[r].index = run[r].index
            /\ run'[r].stage \in {"sending", "asserting", "signed", "refused"}
            /\ run[r].stage \in {"sending", "asserting", "signed"}
        BY <2>1, <2>5 DEF Turns
      <3>2. Ordered(r)'
        BY <1>1, <1>12, <2>2, <3>1 DEF Ordered, Runs
      <3>3. Checked(r)'
        BY <1>1, <2>2, <3>1, CoversStays DEF Checked
      <3> QED
        BY <2>3, <3>2, <3>3
    <2>6. CASE Goes(r)
      <3>1. run'[r].index = run[r].index + 1 /\ run[r].stage = "sent"
            /\ run'[r].stage = "sending" /\ run[r].index # Len(Requirements[r])
            /\ run[r].index \in Nat
        BY <2>1, <2>6 DEF Goes, Last
      <3>2. \A t \in Txs(r) : t.index \in Nat
        BY DEF Txs, LoginShape, Tx
      <3>3. Ordered(r)'
        BY <1>1, <1>6, <1>12, <2>2, <3>1, <3>2 DEF Ordered, Runs
      <3>4. Checked(r)'
        BY <1>1, <2>2, <3>1, CoversStays DEF Checked
      <3> QED
        BY <2>3, <3>3, <3>4
    <2> QED
      BY <1>12, <2>4, <2>5, <2>6 DEF Runs
  <1> QED
    BY <1>8, <1>9, <1>10, <1>11, <1>12 DEF Kind

-----------------------------------------------------------------------------
(* A request no step is about may lose what it has; it gains nothing.       *)
PageRests(r) ==
    /\ \A phase \in {"choosing", "discovering"} : InPopup(r, phase)' => InPopup(r, phase)
    /\ PopupRun(r)'
Undisturbed(r) ==
    /\ Early(r)' => Early(r)
    /\ Asked(r)' => Asked(r)
    /\ PageRests(r)
    /\ \A m \in channel' : m.type \in {"execute", "noteMissing"} /\ m.request = r
          => m \in channel
    /\ run'[r] \in {run[r], NoRun} /\ chosen'[r] = chosen[r]

LEMMA UndisturbedRests ==
    ASSUME NEW r \in Request, RequestInv(r), Undisturbed(r)
    PROVE  Kind(r)
  <1> USE DEF Undisturbed
  <1>1. \A b \in Nat : /\ Cast("execute", r, b) \in channel' => Cast("execute", r, b) \in channel
                       /\ Cast("noteMissing", r, b) \in channel'
                            => Cast("noteMissing", r, b) \in channel
    BY DEF Cast
  <1>2. CalledOnce(r)'
    BY <1>1 DEF CalledOnce, RequestInv, Cast
  <1>3. (Called(r)' => Called(r)) /\ (Retry(r)' => Retry(r))
    BY <1>1 DEF Called, Retry, Cast
  <1>4. Running(r)' => Running(r)
    BY DEF Running, NoRun
  <1>5. Tokens(r)' \subseteq Tokens(r)
    BY <1>3, <1>4 DEF Tokens, PageRests
  <1> QED
    BY <1>2, <1>5 DEF Kind, Rests, PageRests

(* The document of a popup is replaced or closed. *)
LEMMA Unloads ==
    ASSUME LoginShape, NEW p \in Popup,
           NEW v \in {Closed, Loading}, page' = [page EXCEPT ![p] = v], run' = Unload(p),
           NEW r \in Request, RequestInv(r)
    PROVE  PageRests(r) /\ run'[r] \in {run[r], NoRun}
  <1>1. v.phase \in {"closed", "loading"} /\ PopupOf[r] \in Popup
    BY LoginAssumption DEF Closed, Loading
  <1>2. run'[r] = IF Serves(p, r) /\ run[r].place = Popups THEN NoRun ELSE run[r]
    BY DEF Unload
  <1>3. page'[PopupOf[r]] = IF PopupOf[r] = p THEN v ELSE page[PopupOf[r]]
    BY <1>1 DEF LoginShape
  <1>4. \A phase \in {"choosing", "discovering"} : InPopup(r, phase)' => InPopup(r, phase)
    BY <1>1, <1>3 DEF InPopup, Serves
  <1>5. PopupRun(r)'
    <2>1. CASE run'[r] = NoRun
      BY <2>1 DEF PopupRun, Running, NoRun
    <2>2. CASE run'[r] # NoRun
      <3>1. run'[r] = run[r] /\ (Serves(p, r) => run[r].place # Popups)
        BY <1>2, <2>2
      <3>2. CASE PopupOf[r] = p
        BY <3>1, <3>2 DEF PopupRun, Running, RequestInv, InPopup
      <3>3. CASE PopupOf[r] # p
        BY <1>3, <3>1, <3>3 DEF PopupRun, Running, RequestInv, InPopup, Serves
      <3> QED
        BY <3>2, <3>3
    <2> QED
      BY <2>1, <2>2
  <1> QED
    BY <1>2, <1>4, <1>5 DEF PageRests

LEMMA StillPages ==
    ASSUME NEW r, page' = page, run'[r] \in {run[r], NoRun}, RequestInv(r)
    PROVE  PageRests(r)
  BY DEF PageRests, RequestInv, PopupRun, InPopup, Serves, Running, NoRun

-----------------------------------------------------------------------------
(* A page moved on to a phase, and a run to a stage. *)
AtPhase(a, phase) == [a EXCEPT !.phase = phase]
AtStage(a, stage) == [a EXCEPT !.stage = stage]

LEMMA MovedOn ==
    ASSUME NEW a \in Page, NEW phase \in {"closed", "loading", "waiting"} \cup Serving,
           NEW b \in Run, NEW stage \in Stages
    PROVE  /\ AtPhase(a, phase) \in Page
           /\ AtPhase(a, phase).phase = phase /\ AtPhase(a, phase).request = a.request
           /\ AtStage(b, stage) \in Run
           /\ AtStage(b, stage).stage = stage /\ AtStage(b, stage).place = b.place
           /\ AtStage(b, stage).index = b.index /\ AtStage(b, stage).slot = b.slot
           /\ AtStage(b, stage).others = b.others
  BY DEF Page, Run, AtPhase, AtStage

LEMMA Blank ==
    /\ Closed \in Page /\ Loading \in Page /\ NoRun \in Run
    /\ Closed.request = NoRequest /\ Loading.request = NoRequest
    /\ Closed.phase = "closed" /\ Loading.phase = "loading"
    /\ {"closed", "loading"} \cap Serving = {}
  <1>1. Closed \in Page /\ Closed.request = NoRequest /\ Closed.phase = "closed"
    BY DEF Closed, Page
  <1>2. NoRun \in Run
    BY DEF NoRun, Run, Stages
  <1>3. Loading = AtPhase(Closed, "loading")
    BY DEF Loading, AtPhase
  <1>4. Loading \in Page /\ Loading.phase = "loading" /\ Loading.request = NoRequest
    BY <1>1, <1>2, <1>3, MovedOn DEF Stages
  <1> QED
    BY <1>1, <1>2, <1>4 DEF Serving

(* The steps of the dApp: no request gains anything. *)
LEMMA DappSteps ==
    ASSUME LoginInv, NEW r \in Request, DappStep(r)
    PROVE  LoginShape' /\ \A q \in Request : Kind(q)
  <1> USE DEF LoginInv, dapp, wallet, chain
  <1>1. PopupOf[r] \in Popup
    BY LoginAssumption
  <1>2. SUFFICES LoginShape' /\ \A q \in Request : Undisturbed(q)
    BY UndisturbedRests
  <1>3. CASE Login(r) \/ (ReceiveResponse(r) /\ Pending(r))
    <2>1. PICK v \in {Closed, Loading} : page' = [page EXCEPT ![PopupOf[r]] = v]
      BY <1>3 DEF Login, ReceiveResponse
    <2>2. /\ run' = Unload(PopupOf[r]) /\ mail' \subseteq mail /\ channel' \subseteq channel
          /\ login' \in {[login EXCEPT ![r] = "opened"], [login EXCEPT ![r] = "validating"]}
          /\ login'[r] = "opened" => login[r] = "idle"
          /\ UNCHANGED <<tab, chosen, pool, used>>
      BY <1>3 DEF Login, ReceiveResponse, LoginShape
    <2>3. \A q \in Request : Undisturbed(q)
      <3> TAKE q \in Request
      <3>1. PageRests(q) /\ run'[q] \in {run[q], NoRun}
        BY <1>1, <2>1, <2>2, Unloads
      <3>2. Early(q)' => Early(q)
        BY <2>2 DEF Early, LoginShape
      <3> QED
        BY <2>2, <3>1, <3>2 DEF Undisturbed, Asked
    <2>4. /\ page' \in [Popup -> Page]
          /\ \A p \in Popup : Fits(p, page'[p])
      BY <1>1, <2>1, Blank DEF LoginShape, Fits
    <2>5. run' \in [Request -> Run]
      BY <2>2, Blank DEF LoginShape, Unload
    <2> QED
      BY <2>2, <2>3, <2>4, <2>5 DEF LoginShape
  <1>4. CASE LoginBlocked(r) \/ LoginTimeout(r) \/ PollClosed(r) \/ ReceiveError(r)
             \/ Validate(r) \/ (ReceiveResponse(r) /\ ~Pending(r))
    <2>1. /\ mail' \subseteq mail /\ UNCHANGED <<page, channel, run, tab, chosen, pool, used>>
          /\ \/ login' = login
             \/ \E v \in {"accepted", "rejected"} : login' = [login EXCEPT ![r] = v]
      BY <1>4 DEF LoginBlocked, LoginTimeout, PollClosed, ReceiveError, Validate,
                  ReceiveResponse, Settle, LoginShape
    <2>2. \A q \in Request : Early(q)' => Early(q)
      BY <2>1 DEF Early, LoginShape
    <2>3. \A q \in Request : Undisturbed(q)
      BY <2>1, <2>2, StillPages DEF Undisturbed, Asked
    <2> QED
      BY <2>1, <2>3 DEF LoginShape
  <1> QED
    BY <1>3, <1>4 DEF DappStep

-----------------------------------------------------------------------------
(* The steps of a popup. *)

(* What a popup shows changes for the request it serves. *)
LEMMA PagesFit ==
    ASSUME LoginInv, NEW p \in Popup, NEW shown, Fits(p, shown),
           page' = [page EXCEPT ![p] = shown]
    PROVE  page' \in [Popup -> Page] /\ \A o \in Popup : Fits(o, page'[o])
  BY DEF LoginInv, LoginShape, Fits

LEMMA OthersRest ==
    ASSUME LoginInv, NEW p \in Popup, NEW shown, page' = [page EXCEPT ![p] = shown],
           NEW q \in Request,
           \/ shown.request # q \/ shown.phase \notin {"choosing", "discovering"}
           \/ shown.phase = page[p].phase /\ Serves(p, q),
           \/ run'[q] = run[q] /\ (Serves(p, q) => page[p].phase # "working")
           \/ run'[q] = NoRun
    PROVE  PageRests(q)
  <1>1. PopupOf[q] \in Popup /\ RequestInv(q)
    BY LoginAssumption DEF LoginInv
  <1>2. page'[PopupOf[q]] = IF PopupOf[q] = p THEN shown ELSE page[PopupOf[q]]
    BY <1>1 DEF LoginInv, LoginShape
  <1>3. CASE PopupOf[q] = p
    BY <1>1, <1>2, <1>3 DEF PageRests, InPopup, Serves, RequestInv, PopupRun, Running, NoRun
  <1>4. CASE PopupOf[q] # p
    BY <1>1, <1>2, <1>4 DEF PageRests, InPopup, Serves, RequestInv, PopupRun, Running, NoRun
  <1> QED
    BY <1>3, <1>4

LEMMA LoadPages ==
    ASSUME LoginInv, NEW p \in Popup, LoadPage(p)
    PROVE  LoginShape' /\ \A q \in Request : Kind(q)
  <1> USE DEF LoginInv, wallet, chain
  <1> DEFINE asking == {r \in Request : PopupOf[r] = p /\ login[r] = "opened"}
  <1>1. PICK shown : shown = AtPhase(page[p], "waiting")
    OBVIOUS
  <1>2. page' = [page EXCEPT ![p] = shown]
    BY <1>1 DEF LoadPage, AtPhase
  <1>3. page[p] = Loading /\ page[p] \in Page /\ NoRun \in Run
    BY Blank DEF LoadPage, LoginShape
  <1>4. Fits(p, shown) /\ shown.phase = "waiting" /\ shown.request = NoRequest
    BY <1>1, <1>3, Blank, MovedOn DEF Fits, Serving, Stages
  <1>5. /\ page' \in [Popup -> Page] /\ \A o \in Popup : Fits(o, page'[o])
        /\ \A q \in Request : PageRests(q)
    <2>1. page[p].phase # "working"
      BY <1>3, Blank
    <2>2. run' = run
      BY DEF LoadPage
    <2> QED
      BY <1>2, <1>4, <2>1, <2>2, PagesFit, OthersRest
  <1>6. /\ login' = [r \in Request |-> IF r \in asking THEN "posted" ELSE login[r]]
        /\ mail' = mail \cup {Mail("request", r) : r \in asking}
        /\ UNCHANGED <<channel, run, tab, chosen, pool, used>>
    BY DEF LoadPage
  <1>7. LoginShape'
    BY <1>5, <1>6 DEF LoginShape, Mail
  <1>8. ASSUME NEW q \in Request PROVE Kind(q)
    <2>1. CASE q \in asking
      <3>1. "early" \in Tokens(q) /\ OneToken(q) /\ CalledOnce(q)
        BY <2>1 DEF Tokens, Early, RequestInv
      <3>2. ~Early(q)' /\ Kept(q)
        BY <1>6, <2>1 DEF Early, Kept
      <3>3. (Called(q)' <=> Called(q)) /\ (Retry(q)' <=> Retry(q)) /\ (Running(q)' <=> Running(q))
        BY <1>6 DEF Called, Retry, Running
      <3>4. \A phase \in {"choosing", "discovering"} : InPopup(q, phase)' => InPopup(q, phase)
        BY <1>5 DEF PageRests
      <3>5. Tokens(q)' \subseteq {"asked"}
        BY <3>1, <3>2, <3>3, <3>4 DEF Tokens, OneToken
      <3>6. PopupRun(q)' /\ CalledOnce(q)'
        BY <1>5, <1>6, <3>1 DEF PageRests, CalledOnce
      <3> QED
        BY <3>1, <3>2, <3>5, <3>6 DEF Kind, Posts
    <2>2. CASE q \notin asking
      <3>1. Undisturbed(q)
        BY <1>5, <1>6, <2>2 DEF Undisturbed, Early, Asked, Mail
      <3> QED
        BY <3>1, UndisturbedRests
    <2> QED
      BY <2>1, <2>2
  <1> QED
    BY <1>7, <1>8

Showing(a, phase, r) == [a EXCEPT !.phase = phase, !.request = r]
Probing(a, b) == [a EXCEPT !.phase = "discovering", !.broker = b]

LEMMA Shown ==
    ASSUME NEW a \in Page, NEW r \in Request, NEW phase \in {"choosing", "working", "error"}
    PROVE  /\ Showing(a, phase, r) \in Page /\ Showing(a, phase, r).phase = phase
           /\ Showing(a, phase, r).request = r
  BY DEF Page, Showing, Serving

LEMMA Probed ==
    ASSUME NEW a \in Page, NEW b \in Nat
    PROVE  /\ Probing(a, b) \in Page /\ Probing(a, b).phase = "discovering"
           /\ Probing(a, b).request = a.request
  BY DEF Page, Probing, Serving

LEMMA ReceiveRequests ==
    ASSUME LoginInv, NEW r \in Request, ReceiveRequest(r)
    PROVE  LoginShape' /\ \A q \in Request : Kind(q)
  <1> USE DEF LoginInv, wallet, chain
  <1>1. PICK p \in Popup : p = PopupOf[r]
    BY LoginAssumption
  <1>2. /\ Asked(r) /\ mail' = mail \ {Mail("request", r)}
        /\ UNCHANGED <<login, channel, run, tab, chosen, pool, used>>
    BY DEF ReceiveRequest, Asked
  <1>3. \A q \in Request : Asked(q)' => Asked(q) /\ q # r
    BY <1>2 DEF Asked, Mail
  <1>4. CASE page[p].phase = "waiting" /\ Serves(p, NoRequest)
    <2>1. PICK shown : shown = Showing(page[p], "choosing", r)
      OBVIOUS
    <2>2. page' = [page EXCEPT ![p] = shown]
      BY <1>1, <1>4, <2>1 DEF ReceiveRequest, Showing
    <2>3. Fits(p, shown) /\ shown.phase = "choosing" /\ shown.request = r
      <3>1. page[p] \in Page /\ r # NoRequest
        BY LoginAssumption DEF LoginShape
      <3>2. shown \in Page /\ shown.phase = "choosing" /\ shown.request = r
        BY <2>1, <3>1, Shown
      <3> QED
        BY <1>1, <3>1, <3>2 DEF Fits, Serving
    <2>4. LoginShape'
      BY <1>2, <2>2, <2>3, PagesFit DEF LoginShape
    <2>5. ASSUME NEW q \in Request, q # r PROVE Kind(q)
      <3>1. PageRests(q)
        BY <1>2, <1>4, <2>2, <2>3, <2>5, OthersRest
      <3> QED
        BY <1>2, <1>3, <3>1, UndisturbedRests DEF Undisturbed, Early
    <2>6. Kind(r)
      <3>1. /\ "asked" \in Tokens(r) /\ OneToken(r) /\ CalledOnce(r) /\ PopupRun(r)
        BY <1>2 DEF Tokens, RequestInv
      <3>2. ~Asked(r)' /\ Kept(r)
        BY <1>2, <1>3 DEF Kept
      <3>3. /\ Early(r)' <=> Early(r)
            /\ Called(r)' <=> Called(r)
            /\ Retry(r)' <=> Retry(r)
            /\ Running(r)' <=> Running(r)
        BY <1>2 DEF Early, Called, Retry, Running
      <3>4. ~InPopup(r, "discovering")'
        BY <1>1, <2>2, <2>3 DEF InPopup, LoginShape
      <3>5. Tokens(r)' \subseteq {"choosing"} /\ ~Running(r)
        BY <3>1, <3>2, <3>3, <3>4 DEF Tokens, OneToken
      <3>6. PopupRun(r)' /\ CalledOnce(r)'
        BY <1>2, <3>1, <3>3, <3>5 DEF PopupRun, CalledOnce
      <3> QED
        BY <3>1, <3>2, <3>5, <3>6 DEF Kind, Opens
    <2> QED
      BY <2>4, <2>5, <2>6
  <1>5. CASE ~(page[p].phase = "waiting" /\ Serves(p, NoRequest))
    <2>1. page' = page
      BY <1>1, <1>5 DEF ReceiveRequest
    <2>2. LoginShape'
      BY <1>2, <2>1 DEF LoginShape
    <2>3. \A q \in Request : PageRests(q)
      BY <1>2, <2>1, StillPages
    <2> QED
      BY <1>2, <1>3, <2>2, <2>3, UndisturbedRests DEF Undisturbed, Early
  <1> QED
    BY <1>4, <1>5

(* A popup that serves a request has one; which one is known to the rest.   *)
LEMMA ServedRequest ==
    ASSUME LoginInv, NEW p \in Popup, page[p].phase \in Serving
    PROVE  /\ page[p].request \in Request /\ PopupOf[page[p].request] = p
           /\ \A phase : InPopup(page[p].request, phase) <=> page[p].phase = phase
  BY DEF LoginInv, LoginShape, Fits, Page, InPopup, Serves

LEMMA ChooseWallets ==
    ASSUME LoginInv, NEW p \in Popup, NEW w \in Wallet, ChooseWallet(p, w)
    PROVE  LoginShape' /\ \A q \in Request : Kind(q)
  <1> USE DEF LoginInv, dapp, wallet, chain
  <1>1. PICK r : r = page[p].request
    OBVIOUS
  <1>2. /\ r \in Request /\ PopupOf[r] = p /\ InPopup(r, "choosing")
        /\ page[p].phase = "choosing"
    BY <1>1, ServedRequest DEF ChooseWallet, Picker, Serving
  <1>3. /\ chosen' = [chosen EXCEPT ![r] = w]
        /\ UNCHANGED <<login, mail, channel, run, tab, pool, used>>
    BY <1>1 DEF ChooseWallet
  <1>4. PICK b \in Nat : b = IF tab.live THEN tab.brokers ELSE 0
    BY DEF LoginShape, Tabs
  <1>5. PICK shown : shown = Probing(page[p], b)
    OBVIOUS
  <1>6. page' = [page EXCEPT ![p] = shown]
    BY <1>4, <1>5 DEF ChooseWallet, Probing
  <1>7. Fits(p, shown) /\ shown.phase = "discovering" /\ shown.request = r
    <2>1. page[p] \in Page /\ r # NoRequest
      BY <1>2, LoginAssumption DEF LoginShape
    <2>2. shown \in Page /\ shown.phase = "discovering" /\ shown.request = r
      BY <1>1, <1>2, <1>5, <2>1, Probed
    <2> QED
      BY <1>2, <2>1, <2>2 DEF Fits, Serving
  <1>8. LoginShape'
    BY <1>3, <1>6, <1>7, PagesFit DEF LoginShape
  <1>9. ASSUME NEW q \in Request, q # r PROVE Kind(q)
    <2>1. PageRests(q)
      BY <1>2, <1>3, <1>6, <1>7, <1>9, OthersRest
    <2> QED
      BY <1>2, <1>3, <1>9, <2>1, UndisturbedRests DEF Undisturbed, Early, Asked, LoginShape
  <1>10. Kind(r)
    <2>1. "choosing" \in Tokens(r) /\ OneToken(r) /\ CalledOnce(r) /\ PopupRun(r)
      BY <1>2 DEF Tokens, RequestInv
    <2>2. /\ Early(r)' <=> Early(r)
          /\ Asked(r)' <=> Asked(r)
          /\ Called(r)' <=> Called(r)
          /\ Retry(r)' <=> Retry(r)
          /\ Running(r)' <=> Running(r)
      BY <1>3 DEF Early, Asked, Called, Retry, Running
    <2>3. ~InPopup(r, "choosing")'
      BY <1>2, <1>6, <1>7 DEF InPopup, LoginShape
    <2>4. Tokens(r)' \subseteq {"discovering"} /\ ~Running(r)
      BY <2>1, <2>2, <2>3 DEF Tokens, OneToken
    <2>5. PopupRun(r)' /\ CalledOnce(r)'
      BY <1>3, <2>1, <2>2, <2>4 DEF PopupRun, CalledOnce
    <2>6. chosen'[r] \in Wallet /\ run'[r] = run[r]
      BY <1>2, <1>3 DEF LoginShape
    <2> QED
      BY <2>1, <2>4, <2>5, <2>6 DEF Kind, Picks
  <1> QED
    BY <1>8, <1>9, <1>10

(* A popup is done with its request: it is closed, or shows an error. *)
LEMMA Leaves ==
    ASSUME LoginInv, NEW p \in Popup, page[p].phase \in Serving,
           Complete(p) \/ Fail(p), NEW q \in Request,
           \/ run'[q] = run[q] /\ (Serves(p, q) => page[p].phase # "working")
           \/ run'[q] = NoRun
    PROVE  PageRests(q)
  <1>1. PICK r : r = page[p].request
    OBVIOUS
  <1>2. r \in Request /\ Closed \in Page /\ Closed.phase = "closed"
    BY <1>1, Blank, ServedRequest
  <1>3. PICK shown : /\ page' = [page EXCEPT ![p] = shown]
                     /\ shown \in {Closed, Showing(Closed, "error", r)}
    BY <1>1 DEF Complete, Fail, Showing
  <1>4. shown.phase \in {"closed", "error"}
    <2>1. Showing(Closed, "error", r).phase = "error"
      BY <1>2, Shown
    <2> QED
      BY <1>2, <1>3, <2>1
  <1> QED
    BY <1>3, <1>4, OthersRest

LEMMA LeavesShape ==
    ASSUME LoginInv, NEW p \in Popup, page[p].phase \in Serving,
           Complete(p) \/ Fail(p)
    PROVE  /\ page' \in [Popup -> Page] /\ \A o \in Popup : Fits(o, page'[o])
           /\ mail' \subseteq [kind : {"request", "response", "error"}, request : Request]
           /\ \A q \in Request : Asked(q)' => Asked(q)
  <1>1. PICK r : r = page[p].request
    OBVIOUS
  <1>2. /\ r \in Request /\ PopupOf[r] = p /\ r # NoRequest
        /\ Closed \in Page /\ Closed.phase = "closed" /\ Closed.request = NoRequest
    BY <1>1, Blank, ServedRequest, LoginAssumption
  <1>3. PICK shown : /\ page' = [page EXCEPT ![p] = shown]
                     /\ shown \in {Closed, Showing(Closed, "error", r)}
    BY <1>1 DEF Complete, Fail, Showing
  <1>4. Fits(p, shown)
    <2>1. CASE shown = Closed
      BY <1>2, <2>1 DEF Serving, Fits
    <2>2. CASE shown = Showing(Closed, "error", r)
      <3>1. shown \in Page /\ shown.phase = "error" /\ shown.request = r
        BY <1>2, <2>2, Shown
      <3> QED
        BY <1>2, <3>1 DEF Serving, Fits
    <2> QED
      BY <1>3, <2>1, <2>2
  <1>5. mail' \in {mail \cup {Mail("response", r)}, mail \cup {Mail("error", r)}}
    BY <1>1 DEF Complete, Fail
  <1>6. mail' \subseteq [kind : {"request", "response", "error"}, request : Request]
        /\ \A q \in Request : Asked(q)' => Asked(q)
    BY <1>2, <1>5 DEF LoginInv, LoginShape, Asked, Mail
  <1> QED
    BY <1>3, <1>4, <1>6, PagesFit

LEMMA StartShape ==
    ASSUME LoginShape, NEW r, NEW place \in Nat
    PROVE  /\ Start(r, place) \in Run
           /\ Start(r, place).stage = "preflight" /\ Start(r, place).place = place
  <1>1. \A b \in Run, others \in SUBSET Tx :
           /\ [b EXCEPT !.stage = "preflight", !.place = place, !.others = others] \in Run
           /\ [b EXCEPT !.stage = "preflight", !.place = place, !.others = others].stage
                = "preflight"
           /\ [b EXCEPT !.stage = "preflight", !.place = place, !.others = others].place
                = place
    BY DEF Run, Stages
  <1>2. NoRun \in Run /\ {t \in used : t.request # r} \in SUBSET Tx
    BY Blank DEF LoginShape
  <1> HIDE DEF Run, Tx
  <1> QED
    BY <1>1, <1>2 DEF Start

LEMMA WorksAlone ==
    ASSUME LoginInv, NEW p \in Popup, page[p].phase \in {"discovering", "brokered"},
           WorkAlone(p), channel' \subseteq channel,
           NEW r, r = page[p].request, InPopup(r, "discovering") \/ Retry(r), ~Retry(r)',
           UNCHANGED <<login, tab, chosen, pool, used>>
    PROVE  LoginShape' /\ \A q \in Request : Kind(q)
  <1> USE DEF LoginInv
  <1>1. r \in Request /\ PopupOf[r] = p /\ r # NoRequest
    BY ServedRequest, LoginAssumption DEF Serving
  <1>2. PICK shown : shown = Showing(Closed, "working", r)
    OBVIOUS
  <1>3. /\ page' = [page EXCEPT ![p] = shown]
        /\ run' = [run EXCEPT ![r] = Start(r, Popups)] /\ mail' = mail
    BY <1>2 DEF WorkAlone, Showing
  <1>4. Fits(p, shown) /\ shown.phase = "working" /\ shown.request = r
    <2>1. shown \in Page /\ shown.phase = "working" /\ shown.request = r
      BY <1>1, <1>2, Blank, Shown
    <2> QED
      BY <1>1, <2>1 DEF Fits, Serving
  <1>5. Start(r, Popups) \in Run /\ Start(r, Popups).stage = "preflight"
    BY StartShape DEF Popups, LoginShape
  <1>6. LoginShape'
    BY <1>1, <1>3, <1>4, <1>5, PagesFit DEF LoginShape
  <1>7. ASSUME NEW q \in Request, q # r PROVE Kind(q)
    <2>1. run'[q] = run[q]
      BY <1>1, <1>3, <1>7 DEF LoginShape
    <2>2. PageRests(q)
      BY <1>3, <1>4, <1>7, <2>1, OthersRest DEF LoginShape
    <2> QED
      BY <1>3, <2>1, <2>2, UndisturbedRests DEF Undisturbed, Early, Asked
  <1>8. Kind(r)
    <2>1. PICK x : x \in {"discovering", "retry"} /\ x \in Tokens(r)
      BY DEF Tokens
    <2>2. (\A y \in Tokens(r) : y = x) /\ CalledOnce(r)
      BY <1>1, <2>1 DEF RequestInv, OneToken
    <2>3. ~Called(r) /\ ~Early(r) /\ ~Asked(r)
      BY <2>1, <2>2 DEF Tokens
    <2>4. ~Called(r)' /\ ~Early(r)' /\ ~Asked(r)' /\ CalledOnce(r)'
      BY <1>3, <2>2, <2>3 DEF Called, Early, Asked, CalledOnce
    <2>5. ~InPopup(r, "choosing")' /\ ~InPopup(r, "discovering")' /\ InPopup(r, "working")'
      BY <1>1, <1>3, <1>4 DEF InPopup, Serves, LoginShape
    <2>6. Tokens(r)' \subseteq {"running"}
      BY <2>4, <2>5 DEF Tokens
    <2>7. PopupRun(r)'
      BY <2>5 DEF PopupRun
    <2>8. run'[r] = Start(r, Popups) /\ Popups \in Nat
      BY <1>1, <1>3 DEF Popups, LoginShape
    <2>9. Starts(r)
      BY <2>1, <2>6, <2>8 DEF Starts
    <2> QED
      BY <2>4, <2>7, <2>9 DEF Kind
  <1> QED
    BY <1>6, <1>7, <1>8

LEMMA HearAvailables ==
    ASSUME LoginInv, NEW p \in Popup, HearAvailable(p)
    PROVE  LoginShape' /\ \A q \in Request : Kind(q)
  <1> USE DEF LoginInv, dapp, wallet, chain
  <1>1. PICK r : r = page[p].request
    OBVIOUS
  <1>2. PICK b : b = tab.brokers
    OBVIOUS
  <1>3. /\ page[p].phase = "discovering" /\ b \in Nat \ {Popups}
        /\ UNCHANGED <<login, mail, run, tab, chosen, pool, used>>
    BY <1>2 DEF HearAvailable, Answering, LoginShape, Tabs, Lives
  <1>4. r \in Request /\ PopupOf[r] = p /\ r # NoRequest /\ InPopup(r, "discovering")
    <2>1. page[p].phase \in Serving
      BY <1>3 DEF Serving
    <2>2. r \in Request /\ PopupOf[r] = p
      BY <1>1, <2>1, ServedRequest
    <2>3. InPopup(r, "discovering")
      BY <1>1, <1>3, <2>2 DEF InPopup, Serves
    <2> QED
      BY <2>2, <2>3, LoginAssumption
  <1>5. page[p] \in Page /\ Fits(p, page[p]) /\ NoRun \in Run
    BY Blank DEF LoginShape
  <1>6. CASE chosen[r] = OpenWallet
    <2>1. PICK shown : shown = AtPhase(page[p], "brokered")
      OBVIOUS
    <2>2. /\ page' = [page EXCEPT ![p] = shown]
          /\ channel' = channel \cup {Cast("execute", r, b)}
      BY <1>1, <1>2, <1>6, <2>1 DEF HearAvailable, AtPhase
    <2>3. shown \in Page /\ shown.phase = "brokered" /\ shown.request = r
      BY <1>1, <1>5, <2>1, MovedOn DEF Serving, Stages
    <2>4. Fits(p, shown)
      BY <1>4, <2>3 DEF Fits, Serving
    <2>5. LoginShape'
      <3>1. channel' \subseteq Casts
        BY <1>3, <1>4, <2>2 DEF LoginShape, Cast, Casts
      <3> QED
        BY <1>3, <2>2, <2>4, <3>1, PagesFit DEF LoginShape
    <2>6. ASSUME NEW q \in Request, q # r PROVE Kind(q)
      <3>1. PageRests(q)
        BY <1>3, <2>2, <2>3, OthersRest
      <3> QED
        BY <1>3, <2>2, <2>6, <3>1, UndisturbedRests DEF Undisturbed, Early, Asked, Cast
    <2>7. Kind(r)
      <3>1. "discovering" \in Tokens(r) /\ OneToken(r) /\ PopupRun(r)
        BY <1>4 DEF Tokens, RequestInv
      <3>2. ~Called(r) /\ ~Early(r) /\ ~Asked(r) /\ ~Retry(r) /\ ~Running(r)
        BY <3>1 DEF Tokens, OneToken
      <3>3. ~Early(r)' /\ ~Asked(r)' /\ ~Retry(r)' /\ ~Running(r)'
        BY <1>3, <2>2, <3>2 DEF Early, Asked, Retry, Running, Cast
      <3>4. ~InPopup(r, "choosing")' /\ ~InPopup(r, "discovering")'
        BY <1>4, <2>2, <2>3 DEF InPopup, LoginShape
      <3>5. Tokens(r)' \subseteq {"called"}
        BY <3>3, <3>4 DEF Tokens
      <3>6. CalledOnce(r)'
        BY <1>3, <2>2, <3>2 DEF Called, CalledOnce, Cast
      <3> QED
        BY <1>3, <1>6, <3>1, <3>3, <3>5, <3>6 DEF Kind, Calls, Kept, PopupRun
    <2> QED
      BY <2>5, <2>6, <2>7
  <1>7. CASE chosen[r] # OpenWallet
    <2>1. PICK shown : shown = [page[p] EXCEPT !.conflict = TRUE]
      OBVIOUS
    <2>2. page' = [page EXCEPT ![p] = shown] /\ channel' = channel
      BY <1>1, <1>7, <2>1 DEF HearAvailable
    <2>3. shown \in Page /\ shown.phase = page[p].phase /\ shown.request = page[p].request
      <3>1. \A a \in Page : /\ [a EXCEPT !.conflict = TRUE] \in Page
                            /\ [a EXCEPT !.conflict = TRUE].phase = a.phase
                            /\ [a EXCEPT !.conflict = TRUE].request = a.request
        BY DEF Page
      <3> QED
        BY <1>5, <2>1, <3>1
    <2>4. LoginShape'
      <3>1. Fits(p, shown)
        BY <1>5, <2>3 DEF Fits
      <3> QED
        BY <1>3, <2>2, <3>1, PagesFit DEF LoginShape
    <2>5. ASSUME NEW q \in Request PROVE Kind(q)
      <3>1. PageRests(q)
        BY <1>3, <2>2, <2>3, OthersRest DEF Serves
      <3> QED
        BY <1>3, <2>2, <3>1, UndisturbedRests DEF Undisturbed, Early, Asked
    <2> QED
      BY <2>4, <2>5
  <1> QED
    BY <1>6, <1>7

(* What the popup hears last: the timers, the outcome, a person who leaves. *)
LEMMA PopupsEnd ==
    ASSUME LoginInv, NEW p \in Popup,
           DiscoveryTimeout(p) \/ CompletionTimeout(p) \/ HearOutcome(p)
    PROVE  LoginShape' /\ \A q \in Request : Kind(q)
  <1> USE DEF LoginInv, wallet, chain
  <1>1. PICK r : r = page[p].request
    OBVIOUS
  <1>2. /\ page[p].phase \in {"discovering", "brokered"}
        /\ channel' \subseteq channel
        /\ UNCHANGED <<login, tab, chosen, pool, used>>
    BY DEF DiscoveryTimeout, CompletionTimeout, HearOutcome
  <1>3. CASE (Complete(p) \/ Fail(p)) /\ UNCHANGED run
    <2>1. LoginShape' /\ \A q \in Request : Asked(q)' => Asked(q)
      BY <1>2, <1>3, LeavesShape DEF LoginShape, Serving
    <2>2. ASSUME NEW q \in Request PROVE Kind(q)
      <3>1. PageRests(q)
        BY <1>2, <1>3, Leaves DEF Serving
      <3> QED
        BY <1>2, <1>3, <2>1, <3>1, UndisturbedRests DEF Undisturbed, Early
    <2> QED
      BY <2>1, <2>2
  <1>4. CASE WorkAlone(p) /\ page[p].phase = "discovering" /\ UNCHANGED channel
    <2>1. r \in Request /\ InPopup(r, "discovering") /\ RequestInv(r)
      BY <1>1, <1>4, ServedRequest DEF Serving
    <2>2. ~Retry(r) /\ ~Retry(r)'
      BY <1>4, <2>1 DEF RequestInv, OneToken, Tokens, Retry
    <2> QED
      BY <1>1, <1>2, <1>4, <2>1, <2>2, WorksAlone
  <1>5. CASE /\ WorkAlone(p) /\ Cast("noteMissing", r, page[p].broker) \in channel
             /\ channel' = channel \ Heard(r)
    <2>1. Retry(r) /\ ~Retry(r)'
      BY <1>1, <1>5 DEF Retry, Heard, Cast, LoginShape, Page
    <2> QED
      BY <1>1, <1>2, <1>5, <2>1, WorksAlone
  <1> QED
    BY <1>1, <1>3, <1>4, <1>5 DEF DiscoveryTimeout, CompletionTimeout, HearOutcome

LEMMA ClosePopups ==
    ASSUME LoginInv, NEW p \in Popup, ClosePopup(p)
    PROVE  LoginShape' /\ \A q \in Request : Kind(q)
  <1> USE DEF LoginInv, chain
  <1>1. /\ page' = [page EXCEPT ![p] = Closed] /\ run' = Unload(p)
        /\ mail' \subseteq mail /\ channel' \subseteq channel
        /\ UNCHANGED <<login, tab, chosen, pool, used>>
    BY DEF ClosePopup
  <1>2. ASSUME NEW q \in Request PROVE Kind(q)
    <2>1. PageRests(q) /\ run'[q] \in {run[q], NoRun}
      BY <1>1, Unloads
    <2> QED
      BY <1>1, <2>1, UndisturbedRests DEF Undisturbed, Early, Asked
  <1>3. Fits(p, Closed)
    BY Blank DEF Fits
  <1>4. run' \in [Request -> Run]
    BY <1>1, Blank DEF LoginShape, Unload
  <1> QED
    BY <1>1, <1>2, <1>3, <1>4, PagesFit DEF LoginShape

-----------------------------------------------------------------------------
(* A run goes on: nothing else changes for any request. *)
Still == UNCHANGED <<login, mail, page, chosen>>
Quiet == \A m \in channel' : m.type \in {"execute", "noteMissing"} => m \in channel

LEMMA RunsOn ==
    ASSUME LoginInv, NEW r \in Request, Running(r), run'[r].stage # "none",
           run'[r].place = run[r].place, Still, Quiet
    PROVE  /\ Tokens(r)' \subseteq {"running"} /\ chosen'[r] = chosen[r]
           /\ PopupRun(r)' /\ CalledOnce(r)'
  <1> USE DEF LoginInv, Still, Quiet
  <1>1. PopupRun(r)'
    BY DEF RequestInv, PopupRun, Running, InPopup, Serves
  <1>2. /\ Called(r)' => Called(r)
        /\ Retry(r)' => Retry(r)
        /\ CalledOnce(r)'
    BY DEF Called, Retry, CalledOnce, RequestInv, Cast
  <1>3. /\ Early(r)' => Early(r)
        /\ Asked(r)' => Asked(r)
        /\ InPopup(r, "choosing")' => InPopup(r, "choosing")
        /\ InPopup(r, "discovering")' => InPopup(r, "discovering")
    BY DEF Early, Asked, InPopup, Serves
  <1>4. OneToken(r) /\ "running" \in Tokens(r)
    BY DEF RequestInv, Tokens
  <1>5. Tokens(r)' \subseteq {"running"}
    BY <1>2, <1>3, <1>4 DEF Tokens, OneToken
  <1> QED
    BY <1>1, <1>2, <1>5

LEMMA RunAlone ==
    ASSUME LoginInv, NEW r \in Request, NEW b \in Run, run' = [run EXCEPT ![r] = b],
           b.stage # "none" /\ Running(r) /\ b.place = run[r].place,
           Still, Quiet
    PROVE  /\ run' \in [Request -> Run] /\ run'[r] = b
           /\ \A q \in Request : q # r => Kind(q)
           /\ Tokens(r)' \subseteq {"running"} /\ chosen'[r] = chosen[r]
           /\ PopupRun(r)' /\ CalledOnce(r)'
  <1>1. run' \in [Request -> Run] /\ run'[r] = b
    BY DEF LoginInv, LoginShape
  <1>2. ASSUME NEW q \in Request, q # r PROVE Kind(q)
    <2>1. run'[q] = run[q] /\ RequestInv(q)
      BY <1>2 DEF LoginInv, LoginShape
    <2>2. PageRests(q)
      BY <2>1, StillPages DEF Still
    <2> QED
      BY <2>1, <2>2, UndisturbedRests DEF Undisturbed, Early, Asked, Still, Quiet
  <1> QED
    BY <1>1, <1>2, RunsOn

LEMMA TurnsOn ==
    ASSUME LoginInv, NEW r \in Request, NEW b \in Run, run' = [run EXCEPT ![r] = b],
           run[r].stage \in {"sending", "asserting", "signed"},
           b.stage \in {"sending", "asserting", "signed", "refused"},
           b.place = run[r].place, b.index = run[r].index, b.others = run[r].others,
           Still, Quiet, channel' \subseteq Casts, UNCHANGED <<tab, pool, used>>
    PROVE  LoginShape' /\ \A q \in Request : Kind(q)
  <1>1. Running(r) /\ b.stage # "none"
    BY DEF Running
  <1>2. /\ run' \in [Request -> Run]
        /\ \A q \in Request : q # r => Kind(q)
        /\ Tokens(r)' \subseteq {"running"} /\ chosen'[r] = chosen[r] /\ run'[r] = b
        /\ PopupRun(r)' /\ CalledOnce(r)'
    BY <1>1, RunAlone
  <1>3. Kind(r)
    BY <1>2 DEF Kind, Runs, Turns
  <1> QED
    BY <1>2, <1>3 DEF LoginInv, LoginShape, Still

LEMMA AnswerAssertions ==
    ASSUME LoginInv, NEW p \in Popup, AnswerAssertion(p)
    PROVE  LoginShape' /\ \A q \in Request : Kind(q)
  <1> USE DEF LoginInv, dapp, chain
  <1>1. PICK r : r = page[p].request
    OBVIOUS
  <1>2. /\ channel' \subseteq channel
        /\ UNCHANGED <<login, mail, page, tab, chosen, pool, used>>
    BY DEF AnswerAssertion
  <1>3. CASE UNCHANGED run
    <2>1. LoginShape'
      BY <1>2, <1>3 DEF LoginShape
    <2> QED
      BY <1>2, <1>3, <2>1, StillPages, UndisturbedRests DEF Undisturbed, Early, Asked
  <1>4. CASE \E answer \in {"signed", "refused"} :
                 /\ run[r].stage = "asserting"
                 /\ run' = [run EXCEPT ![r].stage = answer]
    <2>1. r \in Request
      BY <1>1, ServedRequest DEF AnswerAssertion, Serving
    <2>2. PICK answer \in {"signed", "refused"} :
              run[r].stage = "asserting" /\ run' = [run EXCEPT ![r] = AtStage(run[r], answer)]
      BY <1>4 DEF AtStage
    <2>3. PICK b : b = AtStage(run[r], answer)
      OBVIOUS
    <2>4. /\ b \in Run /\ b.stage = answer /\ b.place = run[r].place
          /\ b.index = run[r].index /\ b.others = run[r].others
      <3>1. run[r] \in Run /\ Closed \in Page
        BY <2>1, Blank DEF LoginShape
      <3> QED
        BY <2>3, <3>1, MovedOn DEF Stages
    <2> QED
      BY <1>2, <2>1, <2>2, <2>3, <2>4, TurnsOn DEF Still, Quiet, LoginShape
  <1> QED
    BY <1>1, <1>3, <1>4 DEF AnswerAssertion

-----------------------------------------------------------------------------
(* The steps of the tab. *)
Counted(a) == [a EXCEPT !.brokers = @ + 1]
Live(a, is) == [a EXCEPT !.live = is]
Busy(a, with) == [a EXCEPT !.busy = with]

LEMMA CountedTab ==
    ASSUME NEW a \in Tabs
    PROVE  /\ Counted(a) \in Tabs /\ Counted(a).brokers = a.brokers + 1
           /\ a.brokers \in Nat
  BY DEF Tabs, Counted

LEMMA LiveTab ==
    ASSUME NEW a \in Tabs, NEW is \in BOOLEAN
    PROVE  /\ Live(a, is) \in Tabs /\ Live(a, is).brokers = a.brokers
           /\ Lives(Live(a, is)) <=> is
  <1>1. Live(a, is) \in Tabs /\ Live(a, is).brokers = a.brokers
    BY DEF Tabs, Live
  <1>2. Lives(Live(a, is)) <=> is
    BY DEF Tabs, Live, Lives
  <1> QED
    BY <1>1, <1>2

LEMMA BusyTab ==
    ASSUME NEW a \in Tabs, NEW with \in {"free", "login", "action"}
    PROVE  /\ Busy(a, with) \in Tabs /\ Busy(a, with).brokers = a.brokers
           /\ Lives(Busy(a, with)) <=> Lives(a)
  <1>1. Busy(a, with) \in Tabs /\ Busy(a, with).brokers = a.brokers
    BY DEF Tabs, Busy
  <1>2. Lives(Busy(a, with)) <=> Lives(a)
    BY DEF Tabs, Busy, Lives
  <1> QED
    BY <1>1, <1>2

LEMMA TabSteps ==
    ASSUME LoginInv, TabStep
    PROVE  LoginShape' /\ \A q \in Request : Kind(q)
  <1> USE DEF LoginInv, dapp, chain
  <1>1. /\ Still /\ channel' \subseteq channel /\ UNCHANGED <<pool, used>>
        /\ tab' \in Tabs
        /\ Lives(tab') => tab'.brokers # Popups
    <2>1. Still /\ channel' \subseteq channel /\ UNCHANGED <<pool, used>>
      BY DEF TabStep, BeginAction, EndAction, Register, CloseTab, Still
    <2>2. tab \in Tabs /\ (Lives(tab) => tab.brokers # Popups)
      BY DEF LoginShape
    <2>3. CASE Register
      <3>1. tab' = Live(Counted(tab), TRUE)
        BY <2>3 DEF Register, Live, Counted
      <3>2. \A n \in Nat : n + 1 # Popups
        BY DEF Popups
      <3>3. Counted(tab) \in Tabs /\ Counted(tab).brokers # Popups
        BY <2>2, <3>2, CountedTab
      <3>4. /\ Live(Counted(tab), TRUE) \in Tabs
            /\ Live(Counted(tab), TRUE).brokers = Counted(tab).brokers
        BY <3>3, LiveTab
      <3> QED
        BY <2>1, <3>1, <3>3, <3>4
    <2>4. CASE CloseTab
      <3>1. tab' = Busy(Live(tab, FALSE), "free")
        BY <2>4 DEF CloseTab, Live, Busy
      <3>2. Live(tab, FALSE) \in Tabs /\ ~Lives(Live(tab, FALSE))
        BY <2>2, LiveTab
      <3>3. Busy(Live(tab, FALSE), "free") \in Tabs /\ ~Lives(Busy(Live(tab, FALSE), "free"))
        BY <3>2, BusyTab
      <3> QED
        BY <2>1, <3>1, <3>3
    <2>5. CASE BeginAction \/ EndAction
      <3>1. PICK with \in {"free", "action"} : tab' = Busy(tab, with)
        BY <2>5 DEF BeginAction, EndAction, Busy
      <3>2. /\ Busy(tab, with) \in Tabs /\ Busy(tab, with).brokers = tab.brokers
            /\ Lives(Busy(tab, with)) <=> Lives(tab)
        BY <2>2, BusyTab
      <3> QED
        BY <2>1, <2>2, <3>1, <3>2
    <2> QED
      BY <2>1, <2>3, <2>4, <2>5 DEF TabStep
  <1>2. CASE Register
    <2>1. PICK brokers : brokers = tab.brokers
      OBVIOUS
    <2>2. run' = [r \in Request |->
              IF InTab(r) /\ run[r].stage = "asserting" /\ run[r].place = brokers
              THEN AtStage(run[r], "refused") ELSE run[r]]
      BY <1>2, <2>1 DEF Register, AtStage
    <2>3. ASSUME NEW q \in Request PROVE run'[q] \in Run /\ Kind(q)
      <3>1. run[q] \in Run /\ Closed \in Page
        BY Blank DEF LoginShape
      <3>2. CASE InTab(q) /\ run[q].stage = "asserting" /\ run[q].place = brokers
        <4>1. PICK b : b = AtStage(run[q], "refused")
          OBVIOUS
        <4>2. /\ b \in Run /\ b.stage = "refused" /\ b.place = run[q].place
              /\ b.index = run[q].index /\ b.others = run[q].others
          BY <3>1, <4>1, MovedOn DEF Stages, Serving
        <4>3. run'[q] = b
          BY <2>2, <3>2, <4>1
        <4>4. /\ Tokens(q)' \subseteq {"running"} /\ chosen'[q] = chosen[q]
              /\ PopupRun(q)' /\ CalledOnce(q)'
          BY <1>1, <3>2, <4>2, <4>3, RunsOn DEF Quiet, InTab
        <4>5. Turns(q)
          BY <3>2, <4>2, <4>3 DEF Turns
        <4> QED
          BY <4>2, <4>3, <4>4, <4>5 DEF Kind, Runs
      <3>3. CASE ~(InTab(q) /\ run[q].stage = "asserting" /\ run[q].place = brokers)
        <4>1. run'[q] = run[q]
          BY <2>2, <3>3
        <4>2. PageRests(q)
          BY <1>1, <4>1, StillPages DEF Still
        <4> QED
          BY <1>1, <3>1, <4>1, <4>2, UndisturbedRests DEF Undisturbed, Early, Asked, Still
      <3> QED
        BY <3>2, <3>3
    <2>4. run' \in [Request -> Run]
      BY <2>2, <2>3
    <2> QED
      BY <1>1, <2>3, <2>4 DEF LoginShape, Still
  <1>3. CASE BeginAction \/ EndAction \/ CloseTab
    <2>1. /\ run' \in [Request -> Run]
          /\ \A q \in Request : run'[q] \in {run[q], NoRun}
      BY <1>3, Blank DEF BeginAction, EndAction, CloseTab, LoginShape
    <2>2. ASSUME NEW q \in Request PROVE Kind(q)
      <3>1. PageRests(q)
        BY <1>1, <2>1, StillPages DEF Still
      <3> QED
        BY <1>1, <2>1, <3>1, UndisturbedRests DEF Undisturbed, Early, Asked, Still
    <2> QED
      BY <1>1, <2>1, <2>2 DEF LoginShape, Still
  <1> QED
    BY <1>2, <1>3 DEF TabStep

LEMMA Executes ==
    ASSUME LoginInv, NEW r \in Request, Execute(r)
    PROVE  LoginShape' /\ \A q \in Request : Kind(q)
  <1> USE DEF LoginInv, dapp, chain
  <1>1. PICK b : b = tab.brokers
    OBVIOUS
  <1>2. /\ Cast("execute", r, b) \in channel /\ b \in Nat \ {Popups}
        /\ Still /\ UNCHANGED <<pool, used>>
    BY <1>1 DEF Execute, LoginShape, Still, Cast, Casts
  <1>3. CASE UNCHANGED wallet
    <2>1. channel' \subseteq channel \cup {Cast("failure", r, b)}
      BY <1>1, <1>3 DEF Execute, Tell, wallet
    <2>2. LoginShape'
      <3>1. channel' \subseteq Casts
        BY <1>2, <2>1 DEF LoginShape, Cast, Casts
      <3> QED
        BY <1>2, <1>3, <3>1 DEF LoginShape, Still, wallet
    <2>3. ASSUME NEW q \in Request PROVE Kind(q)
      <3>1. PageRests(q)
        BY <1>2, <1>3, StillPages DEF Still, wallet
      <3> QED
        BY <1>2, <1>3, <2>1, <3>1, UndisturbedRests
           DEF Undisturbed, Early, Asked, Still, Cast, wallet
    <2> QED
      BY <2>2, <2>3
  <1>4. CASE /\ tab' = [tab EXCEPT !.busy = "login"]
             /\ run' = [run EXCEPT ![r] = Start(r, b)]
             /\ channel' = channel \ {Cast("execute", r, b)}
    <2>1. Start(r, b) \in Run
      BY <1>2, StartShape
    <2>2. LoginShape'
      <3>1. tab \in Tabs /\ tab' = Busy(tab, "login")
        BY <1>4 DEF LoginShape, Busy
      <3>2. /\ Busy(tab, "login") \in Tabs /\ Busy(tab, "login").brokers = tab.brokers
            /\ Lives(Busy(tab, "login")) <=> Lives(tab)
        BY <3>1, BusyTab
      <3>3. tab' \in Tabs
        BY <3>1, <3>2
      <3>4. Lives(tab') => tab'.brokers # Popups
        BY <3>1, <3>2 DEF LoginShape
      <3> QED
        BY <1>2, <1>4, <2>1, <3>3, <3>4 DEF LoginShape, Still
    <2>3. ASSUME NEW q \in Request, q # r PROVE Kind(q)
      <3>1. run'[q] = run[q]
        BY <1>4, <2>3 DEF LoginShape
      <3>2. PageRests(q)
        BY <1>2, <3>1, StillPages DEF Still
      <3> QED
        BY <1>2, <1>4, <3>1, <3>2, UndisturbedRests DEF Undisturbed, Early, Asked, Still
    <2>4. Kind(r)
      <3>1. Called(r) /\ OneToken(r) /\ CalledOnce(r) /\ chosen[r] = OpenWallet
        BY <1>2 DEF Called, RequestInv, WalletPicked
      <3>2. "called" \in Tokens(r)
        BY <3>1 DEF Tokens
      <3>3. ~Early(r) /\ ~Asked(r) /\ ~Retry(r) /\ ~InPopup(r, "choosing")
            /\ ~InPopup(r, "discovering")
        BY <3>1, <3>2 DEF Tokens, OneToken
      <3>4. ~Called(r)'
        BY <1>2, <1>4, <3>1 DEF Called, CalledOnce
      <3>5. ~Early(r)' /\ ~Asked(r)' /\ ~Retry(r)' /\ ~InPopup(r, "choosing")'
            /\ ~InPopup(r, "discovering")'
        BY <1>2, <1>4, <3>3 DEF Early, Asked, Retry, InPopup, Serves, Still
      <3>6. Tokens(r)' \subseteq {"running"}
        BY <3>4, <3>5 DEF Tokens
      <3>7. run'[r] = Start(r, b) /\ b \in Nat /\ run'[r].place # Popups
        BY <1>2, <1>4, StartShape DEF LoginShape
      <3>8. PopupRun(r)' /\ CalledOnce(r)'
        BY <3>4, <3>7 DEF PopupRun, CalledOnce, Called
      <3> QED
        BY <1>2, <3>1, <3>2, <3>6, <3>7, <3>8 DEF Kind, Starts, Still
    <2> QED
      BY <2>2, <2>3, <2>4
  <1> QED
    BY <1>1, <1>3, <1>4 DEF Execute

-----------------------------------------------------------------------------
(* The steps of a run, but for the broadcast. *)
LEMMA RunEnds ==
    ASSUME LoginInv, NEW r \in Request, Running(r),
           NEW type \in {"success", "failure", "noteMissing"}, EndRun(r, type),
           type = "noteMissing" =>
               run[r].stage = "sending" /\ run[r].index = 1 /\ run[r].place # Popups
    PROVE  LoginShape' /\ \A q \in Request : Kind(q)
  <1> USE DEF LoginInv, chain
  <1>1. PICK b : b = run[r].place
    OBVIOUS
  <1>2. /\ b \in Nat /\ run' = [run EXCEPT ![r] = NoRun] /\ run' \in [Request -> Run]
        /\ \A q \in Request : run'[q] = IF q = r THEN NoRun ELSE run[q]
        /\ UNCHANGED <<login, chosen, pool, used>>
    BY <1>1, Blank DEF EndRun, LoginShape, Run
  <1>3. CASE b = Popups
    <2>1. PICK p \in Popup : p = PopupOf[r]
      BY LoginAssumption
    <2>2. (Complete(p) \/ Fail(p)) /\ UNCHANGED <<tab, active, channel>>
      BY <1>1, <1>3, <2>1 DEF EndRun
    <2>3. page[p].phase \in Serving /\ Serves(p, r)
      BY <1>1, <1>3, <2>1 DEF RequestInv, PopupRun, InPopup, Serving
    <2>4. /\ page' \in [Popup -> Page] /\ \A o \in Popup : Fits(o, page'[o])
          /\ mail' \subseteq [kind : {"request", "response", "error"}, request : Request]
          /\ \A q \in Request : Asked(q)' => Asked(q)
      BY <2>2, <2>3, LeavesShape
    <2>5. LoginShape'
      BY <1>2, <2>2, <2>4 DEF LoginShape
    <2>6. ASSUME NEW q \in Request PROVE Kind(q)
      <3>1. PageRests(q)
        BY <1>2, <2>2, <2>3, Leaves DEF Serves
      <3> QED
        BY <1>2, <2>2, <2>4, <3>1, UndisturbedRests DEF Undisturbed, Early
    <2> QED
      BY <2>5, <2>6
  <1>4. CASE b # Popups
    <2>1. /\ tab' = Busy(tab, "free") /\ UNCHANGED <<page, mail>>
          /\ channel' = channel \cup Tell(type, r, b)
      BY <1>1, <1>4 DEF EndRun, Busy
    <2>2. channel' \subseteq channel \cup {Cast(type, r, b)}
      BY <2>1 DEF Tell
    <2>3. LoginShape'
      <3>1. tab \in Tabs
        BY DEF LoginShape
      <3>2. /\ Busy(tab, "free") \in Tabs /\ Busy(tab, "free").brokers = tab.brokers
            /\ Lives(Busy(tab, "free")) <=> Lives(tab)
        BY <3>1, BusyTab
      <3>3. tab' \in Tabs
        BY <2>1, <3>2
      <3>4. Lives(tab') => tab'.brokers # Popups
        BY <2>1, <3>2 DEF LoginShape
      <3>5. channel' \subseteq Casts
        BY <1>2, <1>4, <2>2 DEF LoginShape, Cast, Casts
      <3> QED
        BY <1>2, <2>1, <3>3, <3>4, <3>5 DEF LoginShape
    <2>4. ASSUME NEW q \in Request, q # r \/ type # "noteMissing" PROVE Kind(q)
      <3>1. PageRests(q)
        BY <1>2, <2>1, StillPages
      <3> QED
        BY <1>2, <2>1, <2>2, <2>4, <3>1, UndisturbedRests DEF Undisturbed, Early, Asked, Cast
    <2>5. ASSUME type = "noteMissing" PROVE Kind(r)
      <3>1. OneToken(r) /\ "running" \in Tokens(r)
        BY DEF RequestInv, Tokens
      <3>2. ~Early(r) /\ ~Asked(r) /\ ~Called(r) /\ ~InPopup(r, "choosing")
            /\ ~InPopup(r, "discovering")
        BY <3>1 DEF Tokens, OneToken
      <3>3. ~Early(r)' /\ ~Asked(r)' /\ ~Called(r)' /\ ~InPopup(r, "choosing")'
            /\ ~InPopup(r, "discovering")'
        BY <1>2, <2>1, <2>2, <2>5, <3>2 DEF Early, Asked, Called, InPopup, Serves, Cast
      <3>4. run'[r] = NoRun /\ ~Running(r)'
        BY <1>2 DEF Running, NoRun
      <3>5. Tokens(r)' \subseteq {"retry"}
        BY <3>3, <3>4 DEF Tokens
      <3>6. CalledOnce(r)' /\ PopupRun(r)'
        BY <3>3, <3>4 DEF Called, CalledOnce, PopupRun
      <3> QED
        BY <1>2, <2>5, <3>4, <3>5, <3>6 DEF Kind, Misses
    <2> QED
      BY <2>3, <2>4, <2>5
  <1> QED
    BY <1>3, <1>4

Going(a, index) == [a EXCEPT !.stage = "sending", !.index = index]
Passing(a) == [a EXCEPT !.index = @ + 1]
Trying(a, stage, slot) == [a EXCEPT !.stage = stage, !.slot = slot]

LEMMA Goings ==
    ASSUME NEW a \in Run, NEW index \in Nat \ {0}
    PROVE  /\ Going(a, index) \in Run /\ Going(a, index).place = a.place
           /\ Going(a, index).stage = "sending"
  BY DEF Run, Going, Stages

LEMMA Passings ==
    ASSUME NEW a \in Run
    PROVE  /\ Passing(a) \in Run /\ Passing(a).place = a.place
           /\ Passing(a).stage = a.stage
  BY DEF Run, Passing

LEMMA Tryings ==
    ASSUME NEW a \in Run, NEW stage \in {"asserting", "signed"}, NEW slot \in Nat
    PROVE  /\ Trying(a, stage, slot) \in Run /\ Trying(a, stage, slot).stage = stage
           /\ Trying(a, stage, slot).place = a.place
           /\ Trying(a, stage, slot).index = a.index
           /\ Trying(a, stage, slot).others = a.others
  BY DEF Run, Trying, Stages

LEMMA FirstUnused ==
    ASSUME NEW c, Unused(c) # {}
    PROVE  Min(Unused(c)) \in Unused(c) /\ Min(Unused(c)) \in Nat
  <1>1. Unused(c) \subseteq Nat /\ Unused(c) # {}
    BY LoginAssumption DEF Unused
  <1>2. PICK R : R = OpToRel(<, Nat)
    OBVIOUS
  <1>3. IsWellFoundedOn(R, Nat)
    BY <1>2, NatLessThanWellFounded
  <1>4. PICK x \in Unused(c) : \A y \in Unused(c) : <<y, x>> \notin R
    <2> HIDE DEF Unused
    <2> QED
      BY <1>1, <1>3, WFMin
  <1>5. \A y \in Unused(c) : x =< y
    <2>1. \A y \in Nat : y < x => <<y, x>> \in R
      BY <1>1, <1>2 DEF OpToRel
    <2>2. \A y \in Nat : ~(y < x) => x =< y
      BY <1>1
    <2> QED
      BY <1>1, <1>4, <2>1, <2>2
  <1>6. Min(Unused(c)) \in Unused(c)
    BY <1>5 DEF Min
  <1> QED
    BY <1>1, <1>6

LEMMA Preflights ==
    ASSUME LoginInv, NEW r \in Request, Preflight(r)
    PROVE  LoginShape' /\ \A q \in Request : Kind(q)
  <1> USE DEF dapp, chain
  <1>1. /\ Running(r) /\ run[r] \in Run
        /\ Still /\ UNCHANGED <<channel, tab, pool, used>>
    BY DEF Preflight, Running, LoginInv, LoginShape, Still
  <1>2. PICK b : b = IF Last(r) THEN Going(run[r], 1) ELSE Passing(run[r])
    OBVIOUS
  <1>3. run' = [run EXCEPT ![r] = b]
    BY <1>2 DEF Preflight, Step, Going, Passing
  <1>4. b \in Run /\ b.place = run[r].place /\ b.stage # "none"
    BY <1>1, <1>2, Goings, Passings DEF Running
  <1>5. /\ run' \in [Request -> Run] /\ run'[r] = b
        /\ \A q \in Request : q # r => Kind(q)
        /\ Tokens(r)' \subseteq {"running"} /\ chosen'[r] = chosen[r]
        /\ PopupRun(r)' /\ CalledOnce(r)'
    BY <1>1, <1>3, <1>4, RunAlone DEF Quiet
  <1>6. Passes(r)
    BY <1>2, <1>5 DEF Passes, Preflight, Going, Passing
  <1>7. Kind(r)
    BY <1>5, <1>6 DEF Kind, Runs
  <1> QED
    BY <1>1, <1>5, <1>7 DEF LoginInv, LoginShape, Still

LEMMA SelectSlots ==
    ASSUME LoginInv, NEW r \in Request, SelectSlot(r)
    PROVE  LoginShape' /\ \A q \in Request : Kind(q)
  <1> USE DEF dapp, chain
  <1>1. PICK place : place = run[r].place
    OBVIOUS
  <1>2. /\ run[r].stage = "sending" /\ run[r] \in Run /\ place \in Nat
        /\ Still /\ UNCHANGED <<tab, pool, used>>
    BY <1>1 DEF SelectSlot, LoginInv, LoginShape, Still, Run
  <1>3. PICK slot \in Nat : slot = Min(Unused(CredentialOf(r)))
    BY FirstUnused DEF SelectSlot
  <1>4. PICK stage \in {"asserting", "signed"} :
            /\ run' = [run EXCEPT ![r] = Trying(run[r], stage, slot)]
            /\ \/ channel' = channel
               \/ place # Popups /\ channel' = channel \cup Tell("assertion", r, place)
    <2>1. CASE place = Popups
      BY <1>1, <1>3, <2>1 DEF SelectSlot, Step, Trying
    <2>2. CASE place # Popups
      BY <1>1, <1>3, <2>2 DEF SelectSlot, Step, Trying
    <2> QED
      BY <2>1, <2>2
  <1>5. PICK b : b = Trying(run[r], stage, slot)
    OBVIOUS
  <1>6. /\ b \in Run /\ b.stage = stage /\ b.place = run[r].place
        /\ b.index = run[r].index /\ b.others = run[r].others
    BY <1>2, <1>5, Tryings
  <1>7. channel' \subseteq Casts /\ Quiet
    BY <1>2, <1>4 DEF Quiet, Tell, Cast, Casts, LoginInv, LoginShape
  <1> QED
    BY <1>2, <1>4, <1>5, <1>6, <1>7, TurnsOn

(* A run waits for the passkey in vain, or its slot was taken. *)
LEMMA Retries ==
    ASSUME LoginInv, NEW r \in Request,
           AssertionTimeout(r) \/ (Broadcast(r) /\ SlotTaken(r))
    PROVE  LoginShape' /\ \A q \in Request : Kind(q)
  <1> USE DEF dapp, chain
  <1>1. /\ run[r].stage \in {"asserting", "signed"} /\ run[r] \in Run /\ Closed \in Page
        /\ Still /\ UNCHANGED <<channel, tab, pool, used>>
    BY Blank DEF AssertionTimeout, Broadcast, LoginInv, LoginShape, Still
  <1>2. PICK stage \in {"sending", "refused"} : run' = [run EXCEPT ![r] = AtStage(run[r], stage)]
    BY DEF AssertionTimeout, Broadcast, Step, AtStage
  <1>3. PICK b : b = AtStage(run[r], stage)
    OBVIOUS
  <1>4. /\ b \in Run /\ b.stage = stage /\ b.place = run[r].place
        /\ b.index = run[r].index /\ b.others = run[r].others
    BY <1>1, <1>3, MovedOn DEF Stages
  <1>5. channel' \subseteq Casts /\ Quiet
    BY <1>1 DEF Quiet, LoginInv, LoginShape
  <1> QED
    BY <1>1, <1>2, <1>3, <1>4, <1>5, TurnsOn

LEMMA Observes ==
    ASSUME LoginInv, NEW r \in Request, Observe(r)
    PROVE  LoginShape' /\ \A q \in Request : Kind(q)
  <1> USE DEF dapp, chain
  <1>1. run[r].stage = "sent" /\ Running(r) /\ run[r] \in Run
    BY DEF Observe, Running, LoginInv, LoginShape
  <1>2. CASE Last(r)
    BY <1>1, <1>2, RunEnds DEF Observe
  <1>3. CASE ~Last(r)
    <2>1. Still /\ UNCHANGED <<channel, tab, pool, used>>
      BY <1>3 DEF Observe, Still
    <2>2. PICK b : b = Going(run[r], run[r].index + 1)
      OBVIOUS
    <2>3. run' = [run EXCEPT ![r] = b]
      BY <1>3, <2>2 DEF Observe, Step, Going
    <2>4. b \in Run /\ b.place = run[r].place /\ b.stage = "sending"
      <3>1. run[r].index + 1 \in Nat \ {0}
        BY <1>1 DEF Run
      <3> QED
        BY <1>1, <2>2, <3>1, Goings
    <2>5. /\ run' \in [Request -> Run] /\ run'[r] = b
          /\ \A q \in Request : q # r => Kind(q)
          /\ Tokens(r)' \subseteq {"running"} /\ chosen'[r] = chosen[r]
          /\ PopupRun(r)' /\ CalledOnce(r)'
      BY <1>1, <2>1, <2>3, <2>4, RunAlone DEF Quiet
    <2>6. Goes(r)
      BY <1>1, <1>3, <2>2, <2>5 DEF Goes, Going
    <2>7. Kind(r)
      BY <2>5, <2>6 DEF Kind, Runs
    <2> QED
      BY <2>1, <2>5, <2>7 DEF LoginInv, LoginShape, Still
  <1> QED
    BY <1>2, <1>3

LEMMA RunsFail ==
    ASSUME LoginInv, NEW r \in Request, Exhausted(r) \/ FailRun(r) \/ NoteMissing(r)
    PROVE  LoginShape' /\ \A q \in Request : Kind(q)
  <1>1. CASE Exhausted(r) \/ FailRun(r)
    <2>1. Running(r) /\ EndRun(r, "failure")
      BY <1>1 DEF Exhausted, FailRun, Running
    <2> QED
      BY <2>1, RunEnds
  <1>2. CASE NoteMissing(r)
    <2>1. /\ Running(r) /\ EndRun(r, "noteMissing")
          /\ run[r].stage = "sending" /\ run[r].index = 1 /\ run[r].place # Popups
      BY <1>2 DEF NoteMissing, InTab
    <2> QED
      BY <2>1, RunEnds
  <1> QED
    BY <1>1, <1>2

-----------------------------------------------------------------------------
(* The broadcast, and what the chain does with it. *)
LEMMA Broadcasts ==
    ASSUME LoginInv, NEW r \in Request, Broadcast(r), ~SlotTaken(r)
    PROVE  LoginShape' /\ \A q \in Request : RequestInv(q)'
  <1> USE DEF LoginInv
  <1>1. /\ run[r].stage = "signed" /\ Running(r) /\ run[r] \in Run /\ Closed \in Page
        /\ RequestInv(r) /\ Still /\ UNCHANGED <<channel, tab, used>>
        /\ pool' = pool \cup {Verification(r)}
    BY Blank DEF Broadcast, LoginShape, Still, Running, dapp
  <1>2. PICK b : b = AtStage(run[r], "sent")
    OBVIOUS
  <1>3. run' = [run EXCEPT ![r] = b]
    BY <1>2 DEF Broadcast, Step, AtStage
  <1>4. /\ b \in Run /\ b.stage = "sent" /\ b.place = run[r].place
        /\ b.index = run[r].index /\ b.others = run[r].others
    BY <1>1, <1>2, MovedOn DEF Stages, Serving
  <1>5. /\ run' \in [Request -> Run] /\ run'[r] = b
        /\ \A q \in Request : q # r => Kind(q)
        /\ Tokens(r)' \subseteq {"running"} /\ chosen'[r] = chosen[r]
        /\ PopupRun(r)' /\ CalledOnce(r)'
    BY <1>1, <1>3, <1>4, RunAlone DEF Quiet
  <1>6. /\ run[r].index \in 1 .. Len(Requirements[r]) /\ run[r].slot \in Nat
        /\ CredentialOf(r) = Requirements[r][run[r].index]
        /\ DOMAIN Requirements[r] = 1 .. Len(Requirements[r])
        /\ CredentialOf(r) \in Credential
    <2>1. /\ run[r].index \in Nat \ {0} /\ run[r].slot \in Nat
          /\ run[r].index <= Len(Requirements[r])
      BY <1>1 DEF Run, RequestInv, Ordered
    <2>2. Requirements[r] \in Seq(Credential)
      BY LoginAssumption
    <2> QED
      BY <2>1, <2>2 DEF CredentialOf
  <1>7. chosen[r] \in Wallet
    BY <1>1 DEF RequestInv, WalletPicked, Tokens
  <1>8. PICK t : t = Verification(r)
    OBVIOUS
  <1>9. /\ t \in Tx /\ t.request = r /\ t.index = run[r].index
        /\ t.wallet = chosen[r] /\ t.credential = CredentialOf(r)
    BY <1>6, <1>7, <1>8 DEF Verification, Tx
  <1>10. LoginShape'
    BY <1>1, <1>5, <1>8, <1>9 DEF LoginShape, Still
  <1>11. ASSUME NEW q \in Request, q # r PROVE RequestInv(q)'
    <2>1. Txs(q)' = Txs(q)
      BY <1>1, <1>8, <1>9, <1>11 DEF Txs
    <2> QED
      BY <1>1, <1>5, <1>10, <1>11, <2>1, KindKeeps
  <1>12. RequestInv(r)'
    <2>1. Txs(r)' = Txs(r) \cup {t}
      BY <1>1, <1>8, <1>9 DEF Txs
    <2>2. OneToken(r)'
      BY <1>5 DEF OneToken
    <2>3. WalletPicked(r)'
      <3>1. Called(r)' => "called" \in Tokens(r)'
        BY DEF Tokens
      <3>2. InTab(r)' => InTab(r)
        BY <1>1, <1>4, <1>5 DEF InTab, Running
      <3>3. InTab(r) => chosen[r] = OpenWallet
        BY <1>1 DEF RequestInv, WalletPicked
      <3>4. \A u \in Txs(r)' : u.wallet = chosen'[r]
        BY <1>1, <1>5, <1>9, <2>1 DEF RequestInv, WalletPicked
      <3> QED
        BY <1>5, <1>7, <3>1, <3>2, <3>3, <3>4 DEF WalletPicked
    <2>4. Ordered(r)'
      <3>1. \A u \in Txs(r) : u.index \in Nat /\ u.index < run[r].index
        BY <1>1 DEF RequestInv, Ordered, Txs, LoginShape, Tx
      <3>2. \A u \in Txs(r)' : u.index <= run'[r].index
        BY <1>4, <1>5, <1>6, <1>9, <2>1, <3>1
      <3>3. \A u \in Txs(r)' : u.index \in DOMAIN Requirements[r]
                               /\ u.credential = Requirements[r][u.index]
        BY <1>1, <1>6, <1>9, <2>1 DEF RequestInv, Ordered
      <3> QED
        BY <1>4, <1>5, <1>6, <3>2, <3>3 DEF Ordered
    <2>5. Checked(r)'
      <3>1. \A j : Covers(r, j) <=> Covers(r, j)'
        BY <1>4, <1>5 DEF Covers, Free, Same
      <3> QED
        BY <1>1, <1>4, <1>5, CoversStays DEF RequestInv, Checked
    <2> QED
      BY <1>5, <2>2, <2>3, <2>4, <2>5 DEF RequestInv
  <1> QED
    BY <1>10, <1>11, <1>12

LEMMA ChainSteps ==
    ASSUME LoginInv, NEW t \in pool, Include(t) \/ Drop(t)
    PROVE  LoginInv'
  <1> USE DEF LoginInv
  <1>1. /\ pool' \cup used' \subseteq pool \cup used /\ used \subseteq used'
        /\ UNCHANGED <<login, page, mail, channel, tab, run, chosen>>
    BY DEF Include, Drop, dapp, wallet
  <1>2. LoginShape'
    BY <1>1 DEF LoginShape
  <1>3. UsedOnce'
    BY DEF UsedOnce, Include, Drop, Conflicts
  <1>4. ASSUME NEW r \in Request PROVE RequestInv(r)'
    <2>1. Txs(r)' \subseteq Txs(r)
      BY <1>1 DEF Txs
    <2>2. Tokens(r)' = Tokens(r) /\ (Called(r)' <=> Called(r)) /\ (Running(r)' <=> Running(r))
      BY <1>1 DEF Tokens, Early, Asked, InPopup, Serves, Called, Retry, Running
    <2>3. OneToken(r)' /\ CalledOnce(r)' /\ PopupRun(r)'
      BY <1>1, <2>2 DEF RequestInv, OneToken, CalledOnce, PopupRun, InPopup, Serves
    <2>4. WalletPicked(r)'
      BY <1>1, <2>1, <2>2 DEF RequestInv, WalletPicked, InTab
    <2>5. Ordered(r)'
      BY <1>1, <2>1, <2>2 DEF RequestInv, Ordered
    <2>6. Checked(r)'
      <3>1. \A j : Covers(r, j) <=> Covers(r, j)'
        BY <1>1 DEF Covers, Free, Same
      <3> QED
        BY <1>1, <3>1 DEF RequestInv, Checked
    <2> QED
      BY <2>3, <2>4, <2>5, <2>6 DEF RequestInv
  <1> QED
    BY <1>2, <1>3, <1>4

-----------------------------------------------------------------------------
LEMMA LoginInit == Init => LoginInv
  <1> SUFFICES ASSUME Init PROVE LoginInv
    OBVIOUS
  <1>1. LoginShape
    <2>1. PICK c : c = Closed
      OBVIOUS
    <2>2. /\ c \in Page /\ c.request = NoRequest /\ c.phase = "closed"
          /\ page = [p \in Popup |-> c]
      BY <2>1, Blank DEF Init
    <2>3. \A p \in Popup : Fits(p, page[p])
      BY <2>2 DEF Fits, Serving
    <2>4. tab \in Tabs /\ ~Lives(tab)
      BY DEF Init, Tabs, Lives
    <2> QED
      BY <2>2, <2>3, <2>4, Blank DEF Init, LoginShape
  <1>2. UsedOnce
    BY DEF Init, UsedOnce
  <1>3. ASSUME NEW r \in Request PROVE RequestInv(r)
    <2>1. /\ run[r] = NoRun /\ NoRun.stage = "none" /\ NoRun.others = {}
          /\ mail = {} /\ channel = {} /\ Txs(r) = {}
      BY DEF Init, NoRun, Txs
    <2>2. ~InPopup(r, "choosing") /\ ~InPopup(r, "discovering")
      BY LoginAssumption DEF Init, InPopup, Closed
    <2>3. Tokens(r) \subseteq {"early"}
      BY <2>1, <2>2 DEF Tokens, Asked, Called, Retry, Running
    <2>4. OneToken(r) /\ CalledOnce(r) /\ PopupRun(r)
      BY <2>1, <2>3 DEF OneToken, CalledOnce, PopupRun, Running
    <2>5. WalletPicked(r) /\ Ordered(r) /\ Checked(r)
      BY <2>1, <2>3 DEF WalletPicked, Ordered, Checked, InTab, Running, Called
    <2> QED
      BY <2>4, <2>5 DEF RequestInv
  <1> QED
    BY <1>1, <1>2, <1>3 DEF LoginInv

LEMMA KindsKeep ==
    ASSUME LoginInv, LoginShape', \A q \in Request : Kind(q), UNCHANGED chain
    PROVE  LoginInv'
  <1>1. UsedOnce'
    BY DEF LoginInv, UsedOnce, chain
  <1>2. ASSUME NEW q \in Request PROVE RequestInv(q)'
    <2>1. Txs(q)' = Txs(q) /\ used' = used
      BY DEF Txs, chain
    <2> QED
      BY <2>1, KindKeeps DEF LoginInv
  <1> QED
    BY <1>1, <1>2 DEF LoginInv

LEMMA LoginStep == LoginInv /\ [Next]_vars => LoginInv'
  <1> SUFFICES ASSUME LoginInv, [Next]_vars PROVE LoginInv'
    OBVIOUS
  <1>1. ASSUME NEW r \in Request, DappStep(r) PROVE LoginInv'
    <2>1. UNCHANGED chain
      BY <1>1 DEF DappStep, Login, LoginBlocked, LoginTimeout, PollClosed, ReceiveError,
                  ReceiveResponse, Validate
    <2> QED
      BY <1>1, <2>1, DappSteps, KindsKeep
  <1>2. ASSUME NEW r \in Request, ReceiveRequest(r) PROVE LoginInv'
    BY <1>2, ReceiveRequests, KindsKeep DEF ReceiveRequest
  <1>3. ASSUME NEW r \in Request, Execute(r) PROVE LoginInv'
    BY <1>3, Executes, KindsKeep DEF Execute
  <1>4. ASSUME NEW p \in Popup, PopupStep(p) PROVE LoginInv'
    <2>1. CASE LoadPage(p)
      BY <2>1, LoadPages, KindsKeep DEF LoadPage
    <2>2. CASE HearAvailable(p)
      BY <2>2, HearAvailables, KindsKeep DEF HearAvailable
    <2>3. CASE DiscoveryTimeout(p) \/ CompletionTimeout(p) \/ HearOutcome(p)
      <3>1. UNCHANGED chain
        BY <2>3 DEF DiscoveryTimeout, CompletionTimeout, HearOutcome
      <3> QED
        BY <2>3, <3>1, PopupsEnd, KindsKeep
    <2>4. CASE AnswerAssertion(p)
      BY <2>4, AnswerAssertions, KindsKeep DEF AnswerAssertion
    <2>5. CASE ClosePopup(p)
      BY <2>5, ClosePopups, KindsKeep DEF ClosePopup
    <2>6. CASE \E w \in Wallet : ChooseWallet(p, w)
      BY <2>6, ChooseWallets, KindsKeep DEF ChooseWallet
    <2> QED
      BY <1>4, <2>1, <2>2, <2>3, <2>4, <2>5, <2>6 DEF PopupStep
  <1>5. ASSUME TabStep PROVE LoginInv'
    <2>1. UNCHANGED chain
      BY <1>5 DEF TabStep, BeginAction, EndAction, Register, CloseTab
    <2> QED
      BY <1>5, <2>1, TabSteps, KindsKeep
  <1>6. ASSUME NEW r \in Request, RunStep(r) \/ NoteMissing(r) PROVE LoginInv'
    <2>1. CASE Preflight(r)
      BY <2>1, Preflights, KindsKeep DEF Preflight
    <2>2. CASE SelectSlot(r)
      BY <2>2, SelectSlots, KindsKeep DEF SelectSlot
    <2>3. CASE AssertionTimeout(r) \/ (Broadcast(r) /\ SlotTaken(r))
      <3>1. UNCHANGED chain
        BY <2>3 DEF AssertionTimeout, Broadcast, chain
      <3> QED
        BY <2>3, <3>1, Retries, KindsKeep
    <2>4. CASE Observe(r)
      <3>1. UNCHANGED chain
        BY <2>4 DEF Observe, EndRun
      <3> QED
        BY <2>4, <3>1, Observes, KindsKeep
    <2>5. CASE Exhausted(r) \/ FailRun(r) \/ NoteMissing(r)
      <3>1. UNCHANGED chain
        BY <2>5 DEF Exhausted, FailRun, NoteMissing, EndRun
      <3> QED
        BY <2>5, <3>1, RunsFail, KindsKeep
    <2>6. CASE Broadcast(r) /\ ~SlotTaken(r)
      <3>1. UsedOnce'
        BY <2>6 DEF LoginInv, UsedOnce, Broadcast
      <3> QED
        BY <2>6, <3>1, Broadcasts DEF LoginInv
    <2> QED
      BY <1>6, <2>1, <2>2, <2>3, <2>4, <2>5, <2>6 DEF RunStep
  <1>7. CASE UNCHANGED vars
    <2>1. LoginShape'
      BY <1>7 DEF vars, LoginInv, LoginShape
    <2>2. ASSUME NEW q \in Request PROVE Kind(q)
      <3>1. PageRests(q)
        BY <1>7, StillPages DEF vars, LoginInv
      <3> QED
        BY <1>7, <3>1, UndisturbedRests DEF vars, LoginInv, Undisturbed, Early, Asked
    <2> QED
      BY <1>7, <2>1, <2>2, KindsKeep DEF vars, chain
  <1> QED
    BY <1>1, <1>2, <1>3, <1>4, <1>5, <1>6, <1>7, ChainSteps DEF Next

LEMMA LoginAlways == Spec => []LoginInv
  BY LoginInit, LoginStep, PTL DEF Spec

(* Work done in the open tab is work of the wallet the person picked.       *)
(* (wallet-session-broker.ts:282)                                           *)
THEOREM PickedWallet == Spec => []OnlyThePickedWallet
  <1>1. LoginInv => OnlyThePickedWallet
    BY DEF LoginInv, RequestInv, WalletPicked, OnlyThePickedWallet
  <1> QED
    BY <1>1, LoginAlways, PTL

-----------------------------------------------------------------------------
(* The slots a run has used itself are at most the requirements it has      *)
(* passed with the same credential, each transaction being of another one.  *)
Passed(r, k) == {i \in 1 .. k - 1 : Requirements[r][i] = Requirements[r][k]}
OwnTxs(r, c) == {t \in used : t.request = r /\ t.credential = c}
OwnSlots(r, c) == {t.slot : t \in OwnTxs(r, c)}

LEMMA SamePassed ==
    ASSUME NEW r, NEW k \in Nat \ {0}
    PROVE  /\ IsFiniteSet(Passed(r, k)) /\ Cardinality(Passed(r, k)) \in Nat
           /\ Cardinality(Same(r, k)) = Cardinality(Passed(r, k)) + 1
  <1>1. IsFiniteSet(Passed(r, k))
    <2>1. \A n \in Nat : IsFiniteSet(1 .. n)
      BY FS_Interval
    <2>2. IsFiniteSet(1 .. (k - 1)) /\ Passed(r, k) \in SUBSET (1 .. (k - 1))
      BY <2>1 DEF Passed
    <2> QED
      BY <2>2, FS_Subset
  <1>2. Same(r, k) = Passed(r, k) \cup {k} /\ k \notin Passed(r, k)
    BY DEF Same, Passed
  <1> HIDE DEF Same, Passed
  <1> QED
    BY <1>1, <1>2, FS_AddElement, FS_CardinalityType

LEMMA OwnSlotsBound ==
    ASSUME LoginInv, NEW r \in Request, run[r].stage = "sending"
    PROVE  /\ IsFiniteSet(OwnSlots(r, CredentialOf(r)))
           /\ Cardinality(OwnSlots(r, CredentialOf(r)))
                <= Cardinality(Passed(r, run[r].index))
  <1>1. PICK k : k = run[r].index
    OBVIOUS
  <1>2. PICK c : c = CredentialOf(r)
    OBVIOUS
  <1>3. k \in Nat \ {0} /\ c = Requirements[r][k]
    BY <1>1, <1>2 DEF LoginInv, LoginShape, Run, CredentialOf
  <1>4. \A t \in OwnTxs(r, c) : t.index \in Passed(r, k)
    <2> TAKE t \in OwnTxs(r, c)
    <2>1. t \in Txs(r) /\ t.credential = c
      BY DEF OwnTxs, Txs
    <2>2. t.index \in Nat
      BY <2>1 DEF LoginInv, LoginShape, Txs, Tx
    <2>3. /\ t.index < k
          /\ t.index \in DOMAIN Requirements[r] /\ t.credential = Requirements[r][t.index]
      BY <1>1, <2>1 DEF LoginInv, RequestInv, Ordered
    <2>4. DOMAIN Requirements[r] = 1 .. Len(Requirements[r])
      BY LoginAssumption
    <2> QED
      BY <1>3, <2>1, <2>2, <2>3, <2>4 DEF Passed
  <1>5. \A t, u \in OwnTxs(r, c) : t.index = u.index => t = u
    BY DEF LoginInv, UsedOnce, OwnTxs
  <1>6. PICK D : D = {t.index : t \in OwnTxs(r, c)}
    OBVIOUS
  <1>7. PICK f : f = [i \in D |-> (CHOOSE t \in OwnTxs(r, c) : t.index = i).slot]
    OBVIOUS
  <1>8. \A t \in OwnTxs(r, c) : t.index \in D /\ f[t.index] = t.slot
    <2> TAKE t \in OwnTxs(r, c)
    <2>1. t.index \in D
      BY <1>6
    <2>2. (CHOOSE u \in OwnTxs(r, c) : u.index = t.index) = t
      BY <1>5
    <2> QED
      BY <1>7, <2>1, <2>2
  <1>9. f \in Surjection(D, OwnSlots(r, c))
    <2>1. \A i \in D : \E t \in OwnTxs(r, c) : t.index = i
      BY <1>6
    <2>2. \A i \in D : f[i] \in OwnSlots(r, c)
      BY <1>8, <2>1 DEF OwnSlots
    <2>3. \A s \in OwnSlots(r, c) : \E i \in D : f[i] = s
      BY <1>8 DEF OwnSlots
    <2> QED
      BY <1>7, <2>2, <2>3 DEF Surjection
  <1>10. IsFiniteSet(Passed(r, k)) /\ Cardinality(Passed(r, k)) \in Nat
    BY <1>3, SamePassed
  <1>11. D \in SUBSET Passed(r, k)
    BY <1>4, <1>6
  <1>12. IsFiniteSet(D) /\ Cardinality(D) <= Cardinality(Passed(r, k))
    BY <1>10, <1>11, FS_Subset
  <1>13. PICK M : M = OwnSlots(r, c)
    OBVIOUS
  <1>14. IsFiniteSet(M) /\ Cardinality(M) <= Cardinality(D)
    BY <1>9, <1>12, <1>13, FS_Surjection
  <1>15. Cardinality(M) \in Nat /\ Cardinality(D) \in Nat
    BY <1>12, <1>14, FS_CardinalityType
  <1>16. Cardinality(M) <= Cardinality(Passed(r, k))
    BY <1>10, <1>12, <1>14, <1>15
  <1> QED
    BY <1>1, <1>2, <1>13, <1>14, <1>16

(* A login that passed its allowance check finds a slot for each of its     *)
(* requirements, unless another login took one since (wallet-login.ts:433). *)
THEOREM AllowanceCovers == Spec => []PreflightCovers
  <1>1. ASSUME LoginInv, NEW r \in Request, run[r].stage = "sending",
               run[r].others = {t \in used : t.request # r}
        PROVE  Unused(CredentialOf(r)) # {}
    <2>1. PICK c : c = CredentialOf(r)
      OBVIOUS
    <2>2. PICK k : k = run[r].index
      OBVIOUS
    <2>3. /\ k \in Nat \ {0} /\ k <= Len(Requirements[r]) /\ c = Requirements[r][k]
          /\ Len(Requirements[r]) \in Nat
      <3>1. Len(Requirements[r]) \in Nat
        BY LoginAssumption
      <3> QED
        BY <1>1, <2>1, <2>2, <3>1
           DEF LoginInv, LoginShape, Run, RequestInv, Ordered, Running, CredentialOf
    <2>4. Cardinality(Free(r, c)) >= Cardinality(Same(r, k))
      BY <1>1, <2>3 DEF LoginInv, RequestInv, Checked, Covers
    <2>5. Unused(c) = Free(r, c) \ OwnSlots(r, c)
      BY <1>1 DEF Unused, SlotsUsed, Free, OwnSlots, OwnTxs
    <2>6. /\ Cardinality(Passed(r, k)) \in Nat
          /\ Cardinality(Same(r, k)) = Cardinality(Passed(r, k)) + 1
      BY <2>3, SamePassed
    <2>7. IsFiniteSet(OwnSlots(r, c)) /\ Cardinality(OwnSlots(r, c)) <= Cardinality(Passed(r, k))
      BY <1>1, <2>1, <2>2, OwnSlotsBound
    <2>8. PICK M : M = OwnSlots(r, c)
      OBVIOUS
    <2>9. PICK F : F = Free(r, c)
      OBVIOUS
    <2>10. ASSUME Unused(c) = {} PROVE FALSE
      <3>1. F \in SUBSET M /\ IsFiniteSet(M)
        BY <2>5, <2>7, <2>8, <2>9, <2>10
      <3>2. IsFiniteSet(F) /\ Cardinality(F) <= Cardinality(M)
        BY <3>1, FS_Subset
      <3>3. Cardinality(F) \in Nat /\ Cardinality(M) \in Nat
        BY <3>1, <3>2, FS_CardinalityType
      <3> QED
        BY <2>4, <2>6, <2>7, <2>8, <2>9, <3>2, <3>3
    <2> QED
      BY <2>1, <2>10
  <1>2. LoginInv => PreflightCovers
    BY <1>1 DEF PreflightCovers
  <1> QED
    BY <1>2, LoginAlways, PTL

-----------------------------------------------------------------------------
(* The login implements its promise. *)
Outcomes == [r \in Request |-> Outcome(r)]
Granted == {[request |-> t.request, index |-> t.index, wallet |-> t.wallet] : t \in used}

LEMMA PendingOutcome ==
    ASSUME NEW r
    PROVE  /\ login[r] \in {"opened", "posted", "validating"} => Outcome(r) = "pending"
           /\ login[r] \notin {"opened", "posted", "validating"} => Outcome(r) = login[r]
  BY DEF Outcome

(* A step of one promise. *)
LEMMA OneOutcome ==
    ASSUME LoginShape, LoginShape', NEW r \in Request,
           \A q \in Request : q # r => login'[q] = login[q]
    PROVE  Outcomes' = [Outcomes EXCEPT ![r] = Outcome(r)']
  <1>1. \A q \in Request : q # r => Outcome(q)' = Outcome(q)
    BY DEF Outcome
  <1> QED
    BY <1>1 DEF Outcomes

LEMMA PromiseInit == Init => Promise!Init
  BY PendingOutcome DEF Init, Promise!Init

LEMMA DappKeepsPromise ==
    ASSUME LoginInv, LoginInv', NEW r \in Request, DappStep(r)
    PROVE  [Promise!Next]_<<Outcomes, Granted>>
  <1> USE DEF LoginInv
  <1>1. Granted' = Granted
    BY DEF Granted, DappStep, Login, LoginBlocked, LoginTimeout, PollClosed, ReceiveError,
           ReceiveResponse, Validate, chain
  <1>2. \A q \in Request : q # r => login'[q] = login[q]
    BY DEF LoginShape, DappStep, Login, LoginBlocked, LoginTimeout, PollClosed, ReceiveError,
           ReceiveResponse, Validate, Settle
  <1>3. Outcomes' = [Outcomes EXCEPT ![r] = Outcome(r)']
    BY <1>2, OneOutcome
  <1>4. Outcomes[r] = Outcome(r)
    BY DEF Outcomes
  <1>5. CASE Login(r)
    <2>1. Outcome(r) = "idle" /\ Outcome(r)' = "pending"
      BY <1>5 DEF Login, Outcome, LoginShape
    <2>2. Promise!Ask(r)
      BY <1>1, <1>3, <1>4, <2>1 DEF Promise!Ask, Outcomes, Granted
    <2> QED
      BY <2>2 DEF Promise!Next
  <1>6. CASE login'[r] = "rejected" /\ login[r] \in {"idle", "opened", "posted", "validating"}
    <2>1. Outcome(r) \in {"idle", "pending"} /\ Outcome(r)' = "rejected"
      BY <1>6 DEF Outcome
    <2>2. Promise!Reject(r)
      BY <1>1, <1>3, <1>4, <2>1 DEF Promise!Reject, Outcomes, Granted
    <2> QED
      BY <2>2 DEF Promise!Next
  <1>7. CASE Validate(r) /\ login'[r] = "accepted"
    <2>1. Outcome(r) = "pending" /\ Outcome(r)' = "accepted"
      BY <1>7 DEF Validate, Outcome
    <2>2. \A i \in DOMAIN Requirements[r] : Authorized(r, i)
      BY <1>7 DEF Validate, LoginShape
    <2>3. 1 \in DOMAIN Requirements[r]
      BY LoginAssumption
    <2>4. \A t \in used : t.request = r => t \in Txs(r)
      BY DEF Txs
    <2>5. chosen[r] \in Wallet /\ \A t \in Txs(r) : t.wallet = chosen[r]
      BY <2>2, <2>3, <2>4 DEF Authorized, RequestInv, WalletPicked
    <2>6. \A i \in DOMAIN Requirements[r] :
              [request |-> r, index |-> i, wallet |-> chosen[r]] \in Granted
      BY <2>2, <2>4, <2>5 DEF Authorized, Granted
    <2>7. Promise!Accept(r)
      BY <1>1, <1>3, <1>4, <2>1, <2>5, <2>6 DEF Promise!Accept, Outcomes, Granted
    <2> QED
      BY <2>7 DEF Promise!Next
  <1>8. CASE Outcome(r)' = Outcome(r)
    BY <1>1, <1>3, <1>4, <1>8 DEF Outcomes
  <1> QED
    <2>1. login[r] = login'[r] => Outcome(r)' = Outcome(r)
      BY DEF Outcome
    <2>2. CASE ReceiveResponse(r)
      <3>1. Outcome(r)' = Outcome(r)
        BY <2>1, <2>2 DEF ReceiveResponse, Pending, Outcome, LoginShape
      <3> QED
        BY <1>8, <3>1
    <2>3. CASE LoginBlocked(r) \/ LoginTimeout(r) \/ PollClosed(r) \/ ReceiveError(r)
      <3>1. \/ login'[r] = login[r]
            \/ login'[r] = "rejected" /\ login[r] \in {"idle", "opened", "posted", "validating"}
        BY <2>3 DEF LoginBlocked, LoginTimeout, PollClosed, ReceiveError, Settle, Pending,
                    LoginShape
      <3> QED
        BY <1>6, <1>8, <2>1, <3>1
    <2>4. CASE Validate(r)
      <3>1. login[r] = "validating" /\ login'[r] \in {"rejected", "accepted"}
        BY <2>4 DEF Validate, LoginShape
      <3> QED
        BY <1>6, <1>7, <2>4, <3>1
    <2> QED
      BY <1>5, <2>2, <2>3, <2>4 DEF DappStep

LEMMA PopupKeepsPromise ==
    ASSUME LoginInv, LoginInv', NEW p \in Popup, LoadPage(p)
    PROVE  UNCHANGED <<Outcomes, Granted>>
  <1>1. ASSUME NEW q \in Request PROVE Outcome(q)' = Outcome(q)
    BY <1>1 DEF LoadPage, Outcome
  <1> QED
    BY <1>1 DEF LoadPage, Outcomes, Granted, chain

LEMMA ChainKeepsPromise ==
    ASSUME LoginInv, NEW t \in pool, Include(t)
    PROVE  Promise!Next
  <1> USE DEF LoginInv
  <1>1. /\ t \in Tx /\ t.request \in Request /\ t.wallet \in Wallet
        /\ t \in Txs(t.request)
    BY DEF LoginShape, Tx, Txs
  <1>2. PICK r \in Request : r = t.request
    BY <1>1
  <1>3. t.index \in DOMAIN Requirements[r]
    BY <1>1, <1>2 DEF RequestInv, Ordered
  <1>4. Outcomes[r] # "idle"
    <2>1. Tokens(r) \subseteq {"running"}
      BY <1>1, <1>2 DEF RequestInv, Ordered
    <2>2. ~Early(r)
      BY <2>1 DEF Tokens
    <2> QED
      BY <2>2 DEF Early, Outcomes, Outcome
  <1>5. \A g \in Granted : <<g.request, g.index>> # <<r, t.index>>
    BY <1>2 DEF Include, Conflicts, Granted
  <1>6. Granted' = Granted \cup {[request |-> r, index |-> t.index, wallet |-> t.wallet]}
    BY <1>2 DEF Include, Granted
  <1>7. Outcomes' = Outcomes
    BY DEF Include, dapp, Outcomes, Outcome
  <1>8. Promise!Grant(r, t.index, t.wallet)
    BY <1>4, <1>5, <1>6, <1>7 DEF Promise!Grant, Outcomes, Granted
  <1> QED
    BY <1>1, <1>2, <1>3, <1>8 DEF Promise!Next

LEMMA PromiseStep == LoginInv /\ LoginInv' /\ [Next]_vars => [Promise!Next]_<<Outcomes, Granted>>
  <1> SUFFICES ASSUME LoginInv, LoginInv', [Next]_vars
               PROVE  [Promise!Next]_<<Outcomes, Granted>>
    OBVIOUS
  <1>1. UNCHANGED <<login, used>> => UNCHANGED <<Outcomes, Granted>>
    BY DEF Outcomes, Outcome, Granted
  <1>2. ASSUME NEW r \in Request, DappStep(r) PROVE [Promise!Next]_<<Outcomes, Granted>>
    BY <1>2, DappKeepsPromise
  <1>3. ASSUME NEW r \in Request,
               ReceiveRequest(r) \/ Execute(r) \/ RunStep(r) \/ NoteMissing(r)
        PROVE  UNCHANGED <<login, used>>
    BY <1>3 DEF ReceiveRequest, Execute, RunStep, Preflight, SelectSlot, Exhausted,
                AssertionTimeout, Broadcast, Observe, FailRun, NoteMissing, EndRun, dapp, chain
  <1>4. ASSUME NEW p \in Popup, PopupStep(p), ~LoadPage(p)
        PROVE  UNCHANGED <<login, used>>
    BY <1>4 DEF PopupStep, HearAvailable, DiscoveryTimeout, CompletionTimeout, HearOutcome,
                AnswerAssertion, ClosePopup, ChooseWallet, dapp, chain
  <1>5. TabStep => UNCHANGED <<login, used>>
    BY DEF TabStep, BeginAction, EndAction, Register, CloseTab, dapp, chain
  <1>6. ASSUME NEW t \in pool, Include(t) \/ Drop(t)
        PROVE  Promise!Next \/ UNCHANGED <<login, used>>
    BY <1>6, ChainKeepsPromise DEF Drop, dapp
  <1>7. UNCHANGED vars => UNCHANGED <<login, used>>
    BY DEF vars
  <1> QED
    BY <1>1, <1>2, <1>3, <1>4, <1>5, <1>6, <1>7, PopupKeepsPromise DEF Next

(* Whatever becomes of dApp, popup, tab and chain, a login is one promise:  *)
(* one outcome, accepted on authorizations of one wallet that stand in      *)
(* blocks, each granted once (connector.ts:224-311).                        *)
THEOREM LoginKeepsPromise == Spec => ImplementsPromise
  <1>1. LoginInv /\ LoginInv' /\ [Next]_vars => [Promise!Next]_<<Outcomes, Granted>>
    BY PromiseStep
  <1> QED
    BY <1>1, LoginAlways, PromiseInit, PTL
       DEF Spec, ImplementsPromise, Promise!Spec, Outcomes, Granted
=============================================================================
