------------------------------ MODULE Console ------------------------------
(***************************************************************************)
(* The write forms of the dashboard and of the checkout page.  A form asks, *)
(* sends, waits and shows; between the browser and the API an answer may be *)
(* lost, the password may be asked for again, and the person may press the  *)
(* button, cancel or reload at any time the page lets them.                 *)
(***************************************************************************)
EXTENDS Integers, Sequences

CONSTANTS
  MaxClicks,  \* bound: times the button is pressed
  MaxLost     \* bound: answers that never arrive

ConsoleAssumption == {MaxClicks, MaxLost} \subseteq Nat

VARIABLES
  form,      \* the form that is open
  phase,     \* its useState phase; "done" is what it shows after a success
  conf,      \* confirmations asked for so far
  idem,      \* idemKey
  clicks,    \* times its button was pressed
  modal,     \* click whose StepUpModal is mounted, 0 for none
  password,  \* per click, what became of the password its modal sent
  requests,  \* POSTs, in the order they left
  effects,   \* those that changed something
  fresh,     \* the session carries a recent step-up
  strong,    \* the account has a second factor: a password is no step-up
  lost       \* answers lost so far

vars == <<form, phase, conf, idem, clicks, modal, password, requests, effects,
          fresh, strong, lost>>

-----------------------------------------------------------------------------
(* Routes: whether they demand a step-up, and what they do when the same     *)
(* operation comes again: replay it by its key, do it again, leave it as it  *)
(* is, or refuse.                                                            *)

RefundRoute     == [stepUp |-> FALSE, repeat |-> "replay"]
LinkRoute       == [stepUp |-> FALSE, repeat |-> "replay"]
CaseRoutes      == [stepUp |-> FALSE, repeat |-> "refuse"]
ProposeRoute    == [stepUp |-> FALSE, repeat |-> "refuse"]
DecisionRoutes  == [stepUp |-> FALSE, repeat |-> "refuse"]
EvidenceRoute   == [stepUp |-> FALSE, repeat |-> "same"]
CreateKeyRoute  == [stepUp |-> TRUE, repeat |-> "again"]
RevokeKeyRoute  == [stepUp |-> TRUE, repeat |-> "same"]
EndpointRoute   == [stepUp |-> TRUE, repeat |-> "again"]
RotateRoute     == [stepUp |-> TRUE, repeat |-> "again"]
DisableRoute    == [stepUp |-> TRUE, repeat |-> "same"]
ResendRoute     == [stepUp |-> FALSE, repeat |-> "again"]
SignupRoute     == [stepUp |-> FALSE, repeat |-> "refuse"]
LoginRoute      == [stepUp |-> FALSE, repeat |-> "again"]
OrganizationRoute == [stepUp |-> FALSE, repeat |-> "same"]
MerchantRoute   == [stepUp |-> FALSE, repeat |-> "same"]
PayRoute        == [stepUp |-> FALSE, repeat |-> "refuse"]

(* Forms: whether a confirmation is asked for on the page, the phases in     *)
(* which the button works, and the phase a failure leads to.                 *)

Plain(enabled, fails, route) ==
  [asks |-> FALSE, enabled |-> enabled, fails |-> fails, route |-> route]
Asking(route) ==
  [asks |-> TRUE, enabled |-> {"confirm", "error"}, fails |-> "error", route |-> route]

CreateRefundForm      == Asking(RefundRoute)
CreatePaymentLinkForm == Asking(LinkRoute)
AckButton             == Plain({"idle", "error"}, "error", CaseRoutes)
ResolveForm           == Plain({"idle", "error"}, "error", CaseRoutes)
ProposeForm           == Plain({"idle", "error"}, "error", ProposeRoute)
AdjustmentDecision    == Plain({"idle", "error"}, "error", DecisionRoutes)
RespondWithEvidence   == Plain({"idle", "error"}, "error", EvidenceRoute)
CreateApiKeyForm      == Plain({"idle", "stepup", "error"}, "error", CreateKeyRoute)
RevokeKeyButton       == Plain({"idle", "error"}, "error", RevokeKeyRoute)
CreateEndpointForm    == Plain({"idle", "error"}, "error", EndpointRoute)
RotateButton          == Plain({"idle"}, "error", RotateRoute)
DisableButton         == Plain({"idle"}, "error", DisableRoute)
ResendButton          == Plain({"idle", "error"}, "error", ResendRoute)
LoginForm             == Plain({"idle", "error"}, "error", LoginRoute)
SignupForm            == Plain({"idle"}, "idle", SignupRoute)
OrganizationStep      == Plain({"idle"}, "idle", OrganizationRoute)
MerchantStep          == Plain({"idle"}, "idle", MerchantRoute)
CheckoutClient        == Plain({"idle"}, "error", PayRoute)

Forms ==
  {CreateRefundForm, CreatePaymentLinkForm, AckButton, ResolveForm, ProposeForm,
   AdjustmentDecision, RespondWithEvidence, CreateApiKeyForm, RevokeKeyButton,
   CreateEndpointForm, RotateButton, DisableButton, ResendButton, LoginForm,
   SignupForm, OrganizationStep, MerchantStep, CheckoutClient}

Init ==
  /\ form \in Forms
  /\ phase = "idle" /\ conf = 0 /\ idem = 0 /\ clicks = 0 /\ modal = 0
  /\ password = [c \in 1..MaxClicks |-> "unsent"]
  /\ requests = <<>> /\ effects = {} /\ lost = 0
  /\ fresh \in BOOLEAN /\ strong \in BOOLEAN
  /\ ~form.route.stepUp => fresh /\ ~strong

-----------------------------------------------------------------------------
(* The person. *)

\* Bug: the key is drawn for every request.
KeyDrawnWhenSent == Len(requests) + 1

\* postWithIdempotency sends the key of the confirmation.
KeySent == idem

\* toConfirm freezes the fields and draws the key of the operation.
ToConfirm ==
  /\ form.asks /\ phase = "idle" /\ conf < MaxClicks
  /\ conf' = conf + 1
  /\ idem' = conf + 1
  /\ phase' = "confirm"
  /\ UNCHANGED <<form, clicks, modal, password, requests, effects, fresh, strong, lost>>

CancelConfirm ==
  /\ form.asks /\ phase \in {"confirm", "error"}
  /\ phase' = "idle"
  /\ UNCHANGED <<form, conf, idem, clicks, modal, password, requests, effects,
                 fresh, strong, lost>>

\* One POST leaves; the modal is mounted in no phase but "stepup".
Send(c, isRetry) ==
  /\ phase' = "busy" /\ modal' = 0
  /\ requests' = Append(requests,
       [click |-> c, conf |-> conf, key |-> KeySent, isRetry |-> isRetry,
        awaited |-> TRUE, at |-> "sent"])

\* confirm, run, submit, attempt(false), pay ...: the button is pressed.
Press ==
  /\ phase \in form.enabled /\ clicks < MaxClicks
  /\ clicks' = clicks + 1
  /\ Send(clicks + 1, FALSE)
  /\ UNCHANGED <<form, conf, idem, password, effects, fresh, strong, lost>>

\* The page is loaded anew: nobody waits for what is under way.
Reload ==
  /\ phase # "idle"
  /\ phase' = "idle" /\ modal' = 0
  /\ password' = [c \in 1..MaxClicks |-> "unsent"]
  /\ requests' = [n \in 1..Len(requests) |-> [requests[n] EXCEPT !.awaited = FALSE]]
  /\ UNCHANGED <<form, conf, idem, clicks, effects, fresh, strong, lost>>

-----------------------------------------------------------------------------
(* The API.  A request executes whether or not somebody still waits. *)

\* What the operation of a request has done already.
Earlier(n) ==
  {m \in effects : form.route.repeat = "replay" => requests[m].key = requests[n].key}

Creates(n) == form.route.repeat = "again" \/ Earlier(n) = {}

Handle(n) ==
  /\ requests[n].at = "sent"
  /\ \E answer \in {"ok", "refused", "stepup"} :
       /\ (answer = "stepup") = (form.route.stepUp /\ ~fresh)
       /\ effects' = effects \cup (IF answer = "ok" /\ Creates(n) THEN {n} ELSE {})
       /\ answer = "ok" /\ ~Creates(n) => form.route.repeat # "refuse"
       /\ requests' = [requests EXCEPT ![n].at = answer]
  /\ UNCHANGED <<form, phase, conf, idem, clicks, modal, password, fresh, strong, lost>>

\* stepUpMaxAgeMs have passed.
Age ==
  /\ form.route.stepUp /\ fresh
  /\ fresh' = FALSE
  /\ UNCHANGED <<form, phase, conf, idem, clicks, modal, password, requests,
                 effects, strong, lost>>

-----------------------------------------------------------------------------
(* The page. *)

Shows(n) ==
  CASE requests[n].at = "ok" -> "done"
    [] requests[n].at = "stepup" /\ ~requests[n].isRetry -> "stepup"
    [] OTHER -> form.fails

\* The answer arrives: a first refusal for want of a step-up opens the modal.
Deliver(n) ==
  /\ requests[n].awaited /\ requests[n].at # "sent"
  /\ phase' = Shows(n)
  /\ modal' = IF Shows(n) = "stepup" THEN requests[n].click ELSE 0
  /\ requests' = [requests EXCEPT ![n].awaited = FALSE]
  /\ UNCHANGED <<form, conf, idem, clicks, password, effects, fresh, strong, lost>>

\* fetch throws, or the proxy fails: the request may have arrived or not.
Lose(n) ==
  /\ requests[n].awaited /\ lost < MaxLost
  /\ lost' = lost + 1
  /\ phase' = form.fails /\ modal' = 0
  /\ \E at \in {requests[n].at, "refused"} :
       /\ requests[n].at # "sent" => at = requests[n].at
       /\ requests' = [requests EXCEPT ![n].awaited = FALSE, ![n].at = at]
  /\ UNCHANGED <<form, conf, idem, clicks, password, effects, fresh, strong>>

-----------------------------------------------------------------------------
(* StepUpModal. *)

SubmitPassword ==
  /\ modal # 0 /\ password[modal] = "unsent"
  /\ password' = [password EXCEPT ![modal] = "sent"]
  /\ UNCHANGED <<form, phase, conf, idem, clicks, modal, requests, effects,
                 fresh, strong, lost>>

CancelModal ==
  /\ modal # 0 /\ password[modal] = "unsent"
  /\ phase' = "idle" /\ modal' = 0
  /\ UNCHANGED <<form, conf, idem, clicks, password, requests, effects, fresh,
                 strong, lost>>

\* stepUpWithPassword marks the session of an account without a second factor.
VerifyPassword(c) ==
  /\ password[c] = "sent" /\ ~strong
  /\ password' = [password EXCEPT ![c] = "verified"]
  /\ fresh' = TRUE
  /\ UNCHANGED <<form, phase, conf, idem, clicks, modal, requests, effects, strong, lost>>

\* A wrong password, a lockout, a second factor or a lost answer: back to asking.
PasswordFails(c) ==
  /\ password[c] \in {"sent", "verified"}
  /\ password' = [password EXCEPT ![c] = "unsent"]
  /\ UNCHANGED <<form, phase, conf, idem, clicks, modal, requests, effects,
                 fresh, strong, lost>>

\* onSuccess: attempt(true), even when its modal has been unmounted meanwhile.
PasswordAccepted(c) ==
  /\ password[c] = "verified"
  /\ password' = [password EXCEPT ![c] = "unsent"]
  /\ Send(c, TRUE)
  /\ UNCHANGED <<form, conf, idem, clicks, effects, fresh, strong, lost>>

-----------------------------------------------------------------------------
Next ==
  \/ ToConfirm \/ CancelConfirm \/ Press \/ Reload \/ Age
  \/ \E n \in 1..Len(requests) : Handle(n) \/ Deliver(n) \/ Lose(n)
  \/ SubmitPassword \/ CancelModal
  \/ \E c \in 1..MaxClicks :
       VerifyPassword(c) \/ PasswordFails(c) \/ PasswordAccepted(c)

Spec == Init /\ [][Next]_vars

-----------------------------------------------------------------------------
\* A press of the button does its work once, whatever was lost and retried; and
\* where a confirmation has a key, so does the confirmation.
OnceEach ==
  \A m, n \in effects : m # n =>
    /\ requests[m].click # requests[n].click
    /\ form.asks => requests[m].conf # requests[n].conf

\* The step-up retries a press once; no loop.
RetriedOnce ==
  \A c \in 1..clicks :
    {n \in 1..Len(requests) : requests[n].click = c /\ requests[n].isRetry} \in
      {{}} \cup {{n} : n \in 1..Len(requests)}

\* "Done" is shown for something that was done, in this confirmation if it asks.
DoneIsDone ==
  phase = "done" => \E n \in effects : form.asks => requests[n].conf = conf

\* A secret that can be read once is not overwritten by that of a second
\* answer: a form whose button rests while the modal is open awaits one at a time.
OneAnswerAwaited ==
  "stepup" \notin form.enabled =>
    \A m, n \in 1..Len(requests) :
      requests[m].awaited /\ requests[n].awaited => m = n

\* The console does what it was told: once per confirmation, as it says, and
\* with every answer shown to whoever waits for it.
ConfirmedOnce == OnceEach /\ RetriedOnce /\ DoneIsDone /\ OneAnswerAwaited
=============================================================================
