------------------------------ MODULE MagnaLogin ------------------------------
(***************************************************************************)
(* Login with Magna, from the dApp's promise to the blocks that authorize  *)
(* it: MagnaClient opens the wallet's popup and waits under a timer;       *)
(* AuthorizePage lets the person choose a wallet, hands the work over a    *)
(* BroadcastChannel to the management tab that has it open, or does it in  *)
(* a session of its own; the wallet sends one sponsored verification for   *)
(* each requirement, each on a rate-limit slot it found unused; the dApp   *)
(* checks the transactions.  Each of the four parties can go away alone.   *)
(* Timers are untimed: one may fire whenever it is set.                    *)
(***************************************************************************)
EXTENDS Naturals, Sequences, FiniteSets, FiniteSetsExt

CONSTANTS
    Request,        \* calls of MagnaClient.login, each with a fresh requestId
    NoRequest,
    Popup, PopupOf, \* the window "magna-login" of the page that calls
    Wallet,         \* stored passkey accounts offered by the picker
    OpenWallet,     \* the one the management tab has open
    NoWallet,
    Credential,
    Requirements,   \* per request, the credential of each requirement, at least one
    Slot,           \* SLOT_COUNT sponsored checks per credential, in one window
    MaxBroker       \* times the management tab registers a broker

ASSUME LoginAssumption ==
    /\ NoRequest \notin Request /\ PopupOf \in [Request -> Popup]
    /\ OpenWallet \in Wallet /\ NoWallet \notin Wallet
    /\ Requirements \in [Request -> Seq(Credential) \ {<<>>}]
    /\ Slot \subseteq Nat /\ Slot # {} /\ IsFiniteSet(Slot)
    /\ MaxBroker \in Nat

VARIABLES
    login,      \* the promise of openLoginRequest
    page,       \* AuthorizePage, the document in each popup
    mail,       \* postMessage between dApp and popup, in flight
    channel,    \* BroadcastChannel messages in flight
    tab,        \* management tab: brokers registered, the live one, busyRef
    active,     \* per broker, its activeRequestId
    run,        \* runWalletLoginWithSession, one per request
    chosen,     \* per request, the wallet picked in the popup
    pool,       \* verifications broadcast and not settled
    used        \* verifications in a block: each holds a slot nullifier

dapp == <<login, mail>>
wallet == <<tab, active, run>>
chain == <<pool, used>>
vars == <<login, page, mail, channel, tab, active, run, chosen, pool, used>>

Closed == [phase |-> "closed", request |-> NoRequest, broker |-> 0,
           conflict |-> FALSE]
Loading == [Closed EXCEPT !.phase = "loading"]
NoRun == [stage |-> "none", place |-> 0, index |-> 1, slot |-> 0,
          others |-> {}]
Popups == 0                             \* run.place of a session in the popup

Pending(r) == login[r] \in {"opened", "posted"}
Mail(kind, r) == [kind |-> kind, request |-> r]
Cast(type, r, b) == [type |-> type, request |-> r, broker |-> b]
ToPopup(p) == {m \in mail : m.kind = "request" /\ PopupOf[m.request] = p}
Heard(r) == {m \in channel : m.request = r /\ m.type # "execute"}

Running(r) == run[r].stage # "none"
InTab(r) == Running(r) /\ run[r].place # Popups
Serves(p, r) == page[p].request = r

(* Closing or leaving a document ends what runs in it and its listeners. *)
Unload(p) == [r \in Request |->
    IF Serves(p, r) /\ run[r].place = Popups THEN NoRun ELSE run[r]]
Unheard(p) == UNION {Heard(r) : r \in {q \in Request : Serves(p, q)}}

-----------------------------------------------------------------------------
(* MagnaClient.openLoginRequest.  The window has a name: a second call      *)
(* from the same page loads the same window again.                          *)
Login(r) ==
    LET p == PopupOf[r] IN
    /\ login[r] = "idle"
    /\ login' = [login EXCEPT ![r] = "opened"]
    /\ page' = [page EXCEPT ![p] = Loading]
    /\ mail' = mail \ ToPopup(p)
    /\ channel' = channel \ Unheard(p)
    /\ run' = Unload(p)
    /\ UNCHANGED <<tab, active, chosen, chain>>

LoginBlocked(r) ==
    /\ login[r] = "idle"
    /\ login' = [login EXCEPT ![r] = "rejected"]
    /\ UNCHANGED <<page, mail, channel, wallet, chosen, chain>>

(* Mutant: finish does not look whether the promise is settled. *)
SettleAgain(r, outcome) ==
    /\ login[r] # "idle"
    /\ login' = [login EXCEPT ![r] = outcome]

Settle(r, outcome) ==
    /\ Pending(r)
    /\ login' = [login EXCEPT ![r] = outcome]

(* Mutant: the timer is cleared when the request is posted. *)
TimeoutBeforePost(r) ==
    /\ login[r] = "opened"
    /\ Settle(r, "rejected")
    /\ UNCHANGED <<page, mail, channel, wallet, chosen, chain>>

LoginTimeout(r) ==
    /\ Settle(r, "rejected")
    /\ UNCHANGED <<page, mail, channel, wallet, chosen, chain>>

PollClosed(r) ==
    /\ page[PopupOf[r]] = Closed
    /\ Settle(r, "rejected")
    /\ UNCHANGED <<page, mail, channel, wallet, chosen, chain>>

ReceiveError(r) ==
    /\ Mail("error", r) \in mail
    /\ login' = [login EXCEPT ![r] = IF Pending(r) THEN "rejected" ELSE @]
    /\ mail' = mail \ {Mail("error", r)}
    /\ UNCHANGED <<page, channel, wallet, chosen, chain>>

(* finish closes the window, whatever it shows by now. *)
ReceiveResponse(r) ==
    LET p == PopupOf[r] IN
    /\ Mail("response", r) \in mail
    /\ mail' = mail \ {Mail("response", r)}
    /\ IF Pending(r)
       THEN /\ login' = [login EXCEPT ![r] = "validating"]
            /\ page' = [page EXCEPT ![p] = Closed]
            /\ channel' = channel \ Unheard(p)
            /\ run' = Unload(p)
       ELSE UNCHANGED <<login, page, channel, run>>
    /\ UNCHANGED <<tab, active, chosen, chain>>

Authorized(r, i) == \E t \in used : t.request = r /\ t.index = i

(* validateLoginResponse looks each receipt up on the chain; it may also    *)
(* find the five minutes of the session over, or the node silent.           *)
Validate(r) ==
    /\ login[r] = "validating"
    /\ \E outcome \in {"rejected"} \cup
             (IF \A i \in DOMAIN Requirements[r] : Authorized(r, i)
              THEN {"accepted"} ELSE {}) :
          login' = [login EXCEPT ![r] = outcome]
    /\ UNCHANGED <<page, mail, channel, wallet, chosen, chain>>

-----------------------------------------------------------------------------
(* AuthorizePage.                                                           *)
(* magna:ready makes every listener of the opener that has not posted its   *)
(* request post it.                                                         *)
LoadPage(p) ==
    LET asking == {r \in Request : PopupOf[r] = p /\ login[r] = "opened"} IN
    /\ page[p] = Loading
    /\ page' = [page EXCEPT ![p].phase = "waiting"]
    /\ login' = [r \in Request |-> IF r \in asking THEN "posted" ELSE login[r]]
    /\ mail' = mail \cup {Mail("request", r) : r \in asking}
    /\ UNCHANGED <<channel, wallet, chosen, chain>>

(* Only the first request is taken. *)
ReceiveRequest(r) ==
    LET p == PopupOf[r] IN
    /\ Mail("request", r) \in mail
    /\ mail' = mail \ {Mail("request", r)}
    /\ page' = IF page[p].phase = "waiting" /\ Serves(p, NoRequest)
               THEN [page EXCEPT ![p].phase = "choosing", ![p].request = r]
               ELSE page
    /\ UNCHANGED <<login, channel, wallet, chosen, chain>>

(* AuthorizeWalletPicker is shown between the request and the choice. *)
Picker(p) == page[p].phase = "choosing"

(* openStoredWallet probes the broker that is registered now. *)
ChooseWallet(p, w) ==
    /\ Picker(p)
    /\ chosen' = [chosen EXCEPT ![page[p].request] = w]
    /\ page' = [page EXCEPT ![p].phase = "discovering",
                            ![p].broker = IF tab.live THEN tab.brokers ELSE 0]
    /\ UNCHANGED <<dapp, channel, wallet, chain>>

Answering(p) == page[p].phase = "discovering" /\ tab.live /\ page[p].broker = tab.brokers

(* Mutant: the first broker that answers is taken, whatever wallet it has. *)
HearAnyAvailable(p) ==
    /\ Answering(p)
    /\ page' = [page EXCEPT ![p].phase = "brokered"]
    /\ channel' = channel \cup {Cast("execute", page[p].request, tab.brokers)}
    /\ UNCHANGED <<dapp, wallet, chosen, chain>>

HearAvailable(p) ==
    /\ Answering(p)
    /\ IF chosen[page[p].request] = OpenWallet
       THEN /\ page' = [page EXCEPT ![p].phase = "brokered"]
            /\ channel' = channel \cup {Cast("execute", page[p].request, tab.brokers)}
       ELSE /\ page' = [page EXCEPT ![p].conflict = TRUE]
            /\ UNCHANGED channel
    /\ UNCHANGED <<dapp, wallet, chosen, chain>>

(* failAuthorization, after which the popup stays open with its error. *)
Fail(p) ==
    LET r == page[p].request IN
    /\ page' = [page EXCEPT ![p] = [Closed EXCEPT !.phase = "error", !.request = r]]
    /\ mail' = mail \cup {Mail("error", r)}

Complete(p) ==
    /\ page' = [page EXCEPT ![p] = Closed]
    /\ mail' = mail \cup {Mail("response", page[p].request)}

Start(r, place) == [NoRun EXCEPT !.stage = "preflight", !.place = place,
    !.others = {t \in used : t.request # r}]

(* runWalletLoginForRequest: an isolated session on the chosen passkey. *)
WorkAlone(p) ==
    LET r == page[p].request IN
    /\ page' = [page EXCEPT ![p] = [Closed EXCEPT !.phase = "working", !.request = r]]
    /\ run' = [run EXCEPT ![r] = Start(r, Popups)]
    /\ UNCHANGED mail

DiscoveryTimeout(p) ==
    /\ page[p].phase = "discovering"
    /\ IF page[p].conflict THEN Fail(p) /\ UNCHANGED run ELSE WorkAlone(p)
    /\ UNCHANGED <<login, channel, tab, active, chosen, chain>>

CompletionTimeout(p) ==
    /\ page[p].phase = "brokered"
    /\ Fail(p)
    /\ channel' = channel \ Heard(page[p].request)
    /\ UNCHANGED <<login, wallet, chosen, chain>>

(* Only an account whose signing-key note the open tab's PXE missed is     *)
(* tried again in a session of the popup's own.                            *)
HearOutcome(p) ==
    LET r == page[p].request
        heard(type) == Cast(type, r, page[p].broker) \in channel
    IN  /\ page[p].phase = "brokered"
        /\ \/ heard("success") /\ Complete(p) /\ UNCHANGED run
           \/ heard("failure") /\ Fail(p) /\ UNCHANGED run
           \/ heard("noteMissing") /\ WorkAlone(p)
        /\ channel' = channel \ Heard(r)
        /\ UNCHANGED <<login, tab, active, chosen, chain>>

(* The person confirms the passkey in the popup, or does not; the broker    *)
(* that asked hears it unless it has been disposed.                         *)
AnswerAssertion(p) ==
    LET r == page[p].request
        b == page[p].broker
    IN  /\ page[p].phase = "brokered" /\ Cast("assertion", r, b) \in channel
        /\ channel' = channel \ {Cast("assertion", r, b)}
        /\ IF run[r].stage = "asserting" /\ tab.live /\ b = tab.brokers
           THEN \E answer \in {"signed", "refused"} :
                   run' = [run EXCEPT ![r].stage = answer]
           ELSE UNCHANGED run
        /\ UNCHANGED <<dapp, page, tab, active, chosen, chain>>

ClosePopup(p) ==
    /\ page[p] # Closed
    /\ page' = [page EXCEPT ![p] = Closed]
    /\ mail' = mail \ ToPopup(p)
    /\ channel' = channel \ Unheard(p)
    /\ run' = Unload(p)
    /\ UNCHANGED <<login, tab, active, chosen, chain>>

-----------------------------------------------------------------------------
(* registerWalletSessionLoginBroker in the management tab.                  *)
(* A message to a popup that stopped listening is lost. *)
Listening(r, b) ==
    page[PopupOf[r]].request = r /\ page[PopupOf[r]].phase = "brokered"
        /\ page[PopupOf[r]].broker = b
Tell(type, r, b) ==
    IF tab.live /\ b = tab.brokers /\ Listening(r, b) THEN {Cast(type, r, b)} ELSE {}

Execute(r) ==
    LET b == tab.brokers
        rest == channel \ {Cast("execute", r, b)}
    IN  /\ Cast("execute", r, b) \in channel
        /\ IF active[b] # NoRequest \/ tab.busy # "free"
           THEN channel' = rest \cup Tell("failure", r, b) /\ UNCHANGED wallet
           ELSE /\ active' = [active EXCEPT ![b] = r]
                /\ tab' = [tab EXCEPT !.busy = "login"]
                /\ run' = [run EXCEPT ![r] = Start(r, b)]
                /\ channel' = rest
        /\ UNCHANGED <<dapp, page, chosen, chain>>

(* The handler's promise settles: finally frees the tab and the broker. *)
EndRun(r, type) ==
    LET b == run[r].place IN
    /\ run' = [run EXCEPT ![r] = NoRun]
    /\ IF b = Popups
       THEN /\ IF type = "success" THEN Complete(PopupOf[r]) ELSE Fail(PopupOf[r])
            /\ UNCHANGED <<tab, active, channel>>
       ELSE /\ tab' = [tab EXCEPT !.busy = "free"]
            /\ active' = [active EXCEPT ![b] = NoRequest]
            /\ channel' = channel \cup Tell(type, r, b)
            /\ UNCHANGED <<page, mail>>
    /\ UNCHANGED <<login, chosen, chain>>

(* Another action of the management app holds the tab. *)
BeginAction ==
    /\ tab.live /\ tab.busy = "free"
    /\ tab' = [tab EXCEPT !.busy = "action"]
    /\ UNCHANGED <<dapp, page, channel, active, run, chosen, chain>>

EndAction ==
    /\ tab.busy = "action"
    /\ tab' = [tab EXCEPT !.busy = "free"]
    /\ UNCHANGED <<dapp, page, channel, active, run, chosen, chain>>

Deaf == {m \in channel : m.type = "execute"}

(* The effect registers a broker when a session opens and again on every    *)
(* change of route.  The old one is disposed: a handler that waits for the  *)
(* passkey is told so, any other runs on and its outcome is not posted.     *)
Register ==
    /\ tab.brokers < MaxBroker
    /\ tab' = [tab EXCEPT !.brokers = @ + 1, !.live = TRUE]
    /\ channel' = channel \ Deaf
    /\ run' = [r \in Request |->
          IF InTab(r) /\ run[r].stage = "asserting" /\ run[r].place = tab.brokers
          THEN [run[r] EXCEPT !.stage = "refused"] ELSE run[r]]
    /\ UNCHANGED <<dapp, page, active, chosen, chain>>

(* The tab is closed or reloaded: its handlers end without a word. *)
CloseTab ==
    /\ tab.live
    /\ tab' = [tab EXCEPT !.live = FALSE, !.busy = "free"]
    /\ active' = [b \in 1 .. MaxBroker |-> NoRequest]
    /\ channel' = channel \ Deaf
    /\ run' = [r \in Request |-> IF InTab(r) THEN NoRun ELSE run[r]]
    /\ UNCHANGED <<dapp, page, chosen, chain>>

-----------------------------------------------------------------------------
(* runWalletLoginWithSession: an allowance check for every requirement,     *)
(* then one sponsored verification after the other.                         *)
CredentialOf(r) == Requirements[r][run[r].index]
SlotsUsed(c) == {t.slot : t \in {u \in used : u.credential = c}}
Unused(c) == Slot \ SlotsUsed(c)
(* Checks of this login on the same credential, up to this requirement. *)
RequiredSlots(r) ==
    Cardinality({i \in 1 .. run[r].index : Requirements[r][i] = CredentialOf(r)})
Step(r, next) == run' = [run EXCEPT ![r] = next]
Last(r) == run[r].index = Len(Requirements[r])

(* Mutant: each requirement is checked as if it were the only one. *)
PreflightEach(r) ==
    /\ run[r].stage = "preflight"
    /\ Unused(CredentialOf(r)) # {}
    /\ Step(r, IF Last(r) THEN [run[r] EXCEPT !.stage = "sending", !.index = 1]
                          ELSE [run[r] EXCEPT !.index = @ + 1])
    /\ UNCHANGED <<dapp, page, channel, tab, active, chosen, chain>>

(* checkMagnaConsumerLoginAllowance reserves nothing. *)
Preflight(r) ==
    /\ run[r].stage = "preflight"
    /\ Cardinality(Unused(CredentialOf(r))) >= RequiredSlots(r)
    /\ Step(r, IF Last(r) THEN [run[r] EXCEPT !.stage = "sending", !.index = 1]
                          ELSE [run[r] EXCEPT !.index = @ + 1])
    /\ UNCHANGED <<dapp, page, channel, tab, active, chosen, chain>>

(* sendWithAvailableSponsorSlot; a session in the popup asks the person,    *)
(* the tab asks the popup for the passkey.                                  *)
SelectSlot(r) ==
    LET b == run[r].place
        next(stage) == [run[r] EXCEPT !.stage = stage,
                                      !.slot = Min(Unused(CredentialOf(r)))]
    IN  /\ run[r].stage = "sending" /\ Unused(CredentialOf(r)) # {}
        /\ IF b = Popups
           THEN Step(r, next("signed")) /\ UNCHANGED channel
           ELSE /\ tab.live /\ b = tab.brokers
                /\ Step(r, next("asserting"))
                /\ channel' = channel \cup Tell("assertion", r, b)
        /\ UNCHANGED <<dapp, page, tab, active, chosen, chain>>

(* Either check finds too few unused slots. *)
Exhausted(r) ==
    /\ \/ /\ run[r].stage = "preflight"
          /\ Cardinality(Unused(CredentialOf(r))) < RequiredSlots(r)
       \/ run[r].stage = "sending" /\ Unused(CredentialOf(r)) = {}
    /\ EndRun(r, "failure")

(* The long-lived PXE of the tab may have missed the account's note. *)
NoteMissing(r) ==
    /\ run[r].stage = "sending" /\ run[r].index = 1 /\ InTab(r)
    /\ EndRun(r, "noteMissing")

(* Mutant: a broker waits for the passkey for ever. *)
AssertionNeverTimesOut(r) == FALSE /\ UNCHANGED vars

AssertionTimeout(r) ==
    /\ run[r].stage = "asserting"
    /\ Step(r, [run[r] EXCEPT !.stage = "refused"])
    /\ UNCHANGED <<dapp, page, channel, tab, active, chosen, chain>>

Verification(r) ==
    [request |-> r, index |-> run[r].index, wallet |-> chosen[r],
     credential |-> CredentialOf(r), slot |-> run[r].slot]

(* The simulation before the broadcast finds a slot another login took:     *)
(* only then does sendWithAvailableSponsorSlot try another slot.            *)
SlotTaken(r) == run[r].slot \in SlotsUsed(CredentialOf(r))

Broadcast(r) ==
    /\ run[r].stage = "signed" /\ ~Authorized(r, run[r].index)
    /\ IF SlotTaken(r)
       THEN Step(r, [run[r] EXCEPT !.stage = "sending"]) /\ UNCHANGED pool
       ELSE Step(r, [run[r] EXCEPT !.stage = "sent"]) /\ pool' = pool \cup {Verification(r)}
    /\ UNCHANGED <<dapp, page, channel, tab, active, chosen, used>>

Observe(r) ==
    /\ run[r].stage = "sent" /\ Authorized(r, run[r].index)
    /\ IF Last(r) THEN EndRun(r, "success")
       ELSE /\ Step(r, [run[r] EXCEPT !.stage = "sending", !.index = @ + 1])
            /\ UNCHANGED <<dapp, page, channel, tab, active, chosen, chain>>

(* Any other await of the run throws; what is in the pool stays there. *)
FailRun(r) ==
    /\ Running(r) /\ run[r].stage # "asserting"
    /\ EndRun(r, "failure")

-----------------------------------------------------------------------------
(* Aztec: the slot nullifier and the session nullifier are each spent once. *)
Conflicts(t, u) ==
    \/ t.request = u.request /\ t.index = u.index
    \/ t.credential = u.credential /\ t.slot = u.slot

Include(t) ==
    /\ t \in pool /\ \A u \in used : ~Conflicts(t, u)
    /\ used' = used \cup {t}
    /\ pool' = pool \ {t}
    /\ UNCHANGED <<dapp, page, channel, wallet, chosen>>

Drop(t) ==
    /\ t \in pool
    /\ pool' = pool \ {t}
    /\ UNCHANGED <<dapp, page, channel, wallet, chosen, used>>

-----------------------------------------------------------------------------
Init ==
    /\ login = [r \in Request |-> "idle"]
    /\ page = [p \in Popup |-> Closed]
    /\ mail = {} /\ channel = {} /\ pool = {} /\ used = {}
    /\ tab = [brokers |-> 0, live |-> FALSE, busy |-> "free"]
    /\ active = [b \in 1 .. MaxBroker |-> NoRequest]
    /\ run = [r \in Request |-> NoRun]
    /\ chosen = [r \in Request |-> NoWallet]

DappStep(r) == Login(r) \/ LoginBlocked(r) \/ LoginTimeout(r) \/ PollClosed(r)
    \/ ReceiveError(r) \/ ReceiveResponse(r) \/ Validate(r)

PopupStep(p) == LoadPage(p) \/ HearAvailable(p)
    \/ DiscoveryTimeout(p) \/ CompletionTimeout(p) \/ HearOutcome(p)
    \/ AnswerAssertion(p) \/ ClosePopup(p)
    \/ \E w \in Wallet : ChooseWallet(p, w)

RunStep(r) == Preflight(r) \/ SelectSlot(r) \/ Exhausted(r)
    \/ AssertionTimeout(r) \/ Broadcast(r) \/ Observe(r) \/ FailRun(r)

TabStep == BeginAction \/ EndAction \/ Register \/ CloseTab

Next ==
    \/ \E r \in Request : DappStep(r) \/ ReceiveRequest(r)
          \/ Execute(r) \/ RunStep(r) \/ NoteMissing(r)
    \/ \E p \in Popup : PopupStep(p)
    \/ TabStep
    \/ \E t \in pool : Include(t) \/ Drop(t)

(* Timers fire, awaits end, one way or the other.  Nothing is promised of   *)
(* messages or of the person.                                               *)
Fairness ==
    /\ \A r \in Request : WF_vars(LoginTimeout(r)) /\ WF_vars(Validate(r))
                            /\ WF_vars(RunStep(r))
    /\ \A p \in Popup : WF_vars(DiscoveryTimeout(p)) /\ WF_vars(CompletionTimeout(p))

Spec == Init /\ [][Next]_vars /\ Fairness
=============================================================================
