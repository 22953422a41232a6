------------------------------- MODULE Payments -------------------------------
(***************************************************************************)
(* The one payment of an order, from createForOrder to its refund:         *)
(* src/src/modules/payments/payments.service.ts, the provider webhooks     *)
(* that drive it, and orders.payment-listener.ts, which cancels the order  *)
(* of a payment the provider declined.                                     *)
(*                                                                         *)
(* No method here runs in a database transaction: each reads the payment   *)
(* or the order, awaits something, and then writes whatever it decided on. *)
(* A Request is an HTTP request (a provider's webhook call included), a    *)
(* Listener an invocation of the event listener; both are split at every   *)
(* await that another one can slip into.  The provider is external: it     *)
(* captures, declines, voids and refunds charges on its own, and repeats a *)
(* webhook call until one has been answered, possibly more often than that.*)
(*                                                                         *)
(* confirm takes the reference of the PayPal order to capture from its     *)
(* body, and providerRef is not unique: a payment may be confirmed with    *)
(* the PayPal order of another one.  Orders are looked at one by one: a    *)
(* reference is the order's "own" or some "other" PayPal order's.          *)
(***************************************************************************)
EXTENDS Integers

CONSTANTS
  Order,
  Request,     \* requests that may be in flight at the same time
  Listener,    \* listener invocations that may be in flight at the same time
  Provider,    \* the configured ones of STRIPE, PAYPAL, PAWAPAY, MANUAL
  Moves,       \* the statuses that people move orders to
  MaxFaults,   \* bound on the process deaths, failed database calls and revoked tokens
  Null

Outcome == {"succeeded", "failed", "cancelled", "refunded"}
\* What a provider calls its webhook about.
ProviderEvent ==
  {"captured", "declined", "voided", "reversed", "refunded", "refundFailed"}
PaymentStatus == {"PENDING", "SUCCEEDED", "FAILED", "CANCELLED", "REFUNDED"}
Absent == "ABSENT"     \* the payment row has not been inserted
\* PawaPay accepts a refund (refunding) before it carries it out or fails to.
Charge == {"none", "open", "pending", "captured", "declined", "voided", "reversed",
           "refunding", "refunded", "refundFailed"}
Task == Request \cup Listener
Reference == {"own", "other"}
OrderStatus == {"PREPARING", "ON_THE_WAY", "DELIVERED", "CANCELLED"}
Closed == {"CANCELLED", "DELIVERED"}

ASSUME PaymentsAssumption ==
  /\ Provider \subseteq {"STRIPE", "PAYPAL", "PAWAPAY", "MANUAL"}
  /\ Moves \subseteq {"ON_THE_WAY", "DELIVERED", "CANCELLED"}
  /\ MaxFaults \in Nat
  /\ Request \cap Listener = {}
  /\ Null \notin Order \cup Provider \cup PaymentStatus \cup OrderStatus
       \cup ProviderEvent \cup Reference

VARIABLES
  order,      \* the order's status, as Orders moves it
  linked,     \* orders whose paymentId has been set
  status,     \* the status column of the payment of each order
  provider,   \* its provider column
  ref,        \* its providerRef column
  charge,     \* what the provider has on its books for the order
  issued,     \* the events the provider has made webhook calls about
  unanswered, \* those no call about has been answered yet
  intents,    \* history: how often createIntent was called for the order
  failures,   \* payment.failed events that wait for the listener
  pc, subject, goal, event, given,  \* what each task is in the middle of; given: the
                                    \* reference that markSucceeded is called with
  token,      \* PayPal's access token: none usable, one it accepts, one it does not
  faults,
  elsewhere,  \* history: orders whose confirm has captured another PayPal order
  shared,     \* history: orders whose reference another payment may have been given too
  reopened,   \* history: orders moved on after they were closed
  lostEvents, \* history: orders whose automatic cancellation a fault has taken away
  halfLinked  \* history: orders whose markSucceeded a fault stopped between its updates

books == <<charge, issued, unanswered, intents>>
row == <<status, provider, ref>>
task == <<pc, subject, goal, event, given>>
server == <<token, faults>>
history == <<elsewhere, shared, reopened, lostEvents, halfLinked>>
vars == <<order, linked, row, books, failures, task, server, history>>

TypeOK ==
  /\ order \in [Order -> OrderStatus]
  /\ linked \subseteq Order
  /\ status \in [Order -> PaymentStatus \cup {Absent}]
  /\ provider \in [Order -> Provider \cup {Null}]
  /\ ref \in [Order -> Reference \cup {Null}]
  /\ charge \in [Order -> Charge]
  /\ issued \in [Order -> SUBSET ProviderEvent]
  /\ unanswered \in [Order -> SUBSET ProviderEvent]
  /\ intents \in [Order -> Nat] /\ failures \in [Order -> Nat]
  /\ pc \in [Task -> {"idle", "create", "intent", "store", "intentFailed", "capture",
                      "captureOther", "refund", "mark", "link", "autoCancel", "move"}]
  /\ subject \in [Task -> Order \cup {Null}]
  /\ goal \in [Task -> PaymentStatus \cup OrderStatus \cup {Null}]
  /\ event \in [Task -> ProviderEvent \cup {Null}]
  /\ given \in [Task -> Reference \cup {Null}]
  /\ token \in {"none", "good", "stale"}
  /\ faults \in 0 .. MaxFaults
  /\ elsewhere \subseteq Order /\ shared \subseteq Order /\ reopened \subseteq Order
  /\ lostEvents \subseteq Order /\ halfLinked \subseteq Order

Init ==
  /\ order = [o \in Order |-> "PREPARING"]
  /\ linked = {}
  /\ status = [o \in Order |-> Absent]
  /\ provider = [o \in Order |-> Null]
  /\ ref = [o \in Order |-> Null]
  /\ charge = [o \in Order |-> "none"]
  /\ issued = [o \in Order |-> {}] /\ unanswered = [o \in Order |-> {}]
  /\ intents = [o \in Order |-> 0] /\ failures = [o \in Order |-> 0]
  /\ pc = [t \in Task |-> "idle"]
  /\ subject = [t \in Task |-> Null]
  /\ goal = [t \in Task |-> Null]
  /\ event = [t \in Task |-> Null]
  /\ given = [t \in Task |-> Null]
  /\ token = "none" /\ faults = 0
  /\ elsewhere = {} /\ shared = {} /\ reopened = {} /\ lostEvents = {} /\ halfLinked = {}

-----------------------------------------------------------------------------
(* Tables and the bookkeeping of tasks.                                    *)

\* ALLOWED_TRANSITIONS of payments.service.ts.
PaymentTransitions ==
  [PENDING |-> {"SUCCEEDED", "FAILED", "CANCELLED"}, SUCCEEDED |-> {"REFUNDED"},
   FAILED |-> {}, CANCELLED |-> {}, REFUNDED |-> {}]

CanTransition(o, to) == status[o] # Absent /\ to \in PaymentTransitions[status[o]]

StatusOf == [succeeded |-> "SUCCEEDED", failed |-> "FAILED",
             cancelled |-> "CANCELLED", refunded |-> "REFUNDED"]

\* translateEvent of each provider.
StripeOutcome == [captured |-> "succeeded", declined |-> "failed", voided |-> "cancelled",
                  refunded |-> "refunded"]

\* PayPal: a capture that is reversed counts as cancelled.
PayPalOutcome == [captured |-> "succeeded", declined |-> "failed", voided |-> "cancelled",
                  reversed |-> "cancelled", refunded |-> "refunded"]

\* PawaPay: only COMPLETED distinguishes deposits and refunds; a refund that FAILED reads
\* like a deposit that did, a REJECTED one is "voided" like a deposit.
PawapayOutcome == [captured |-> "succeeded", declined |-> "failed", voided |-> "cancelled",
                   refunded |-> "refunded", refundFailed |-> "failed"]

\* The status an event of o's provider asks for.
Target(o, e) ==
  StatusOf[CASE provider[o] = "STRIPE"  -> StripeOutcome[e]
             [] provider[o] = "PAYPAL"  -> PayPalOutcome[e]
             [] provider[o] = "PAWAPAY" -> PawapayOutcome[e]]

\* getAccessToken of PayPal: the cached token, or a new one, or it throws (none).
AccessToken == token' \in IF token = "none" THEN {"none", "good"} ELSE {token}

\* Task t starts on order o and remembers what it is going to do.
Begin(t, step, o, aim, e, g) ==
  /\ pc[t] = "idle"
  /\ pc' = [pc EXCEPT ![t] = step]
  /\ subject' = [subject EXCEPT ![t] = o]
  /\ goal' = [goal EXCEPT ![t] = aim]
  /\ event' = [event EXCEPT ![t] = e]
  /\ given' = [given EXCEPT ![t] = g]

Goto(t, step) == pc' = [pc EXCEPT ![t] = step] /\ UNCHANGED <<subject, goal, event, given>>

\* Task t ends.
End(t) ==
  /\ pc' = [pc EXCEPT ![t] = "idle"]
  /\ subject' = [subject EXCEPT ![t] = Null]
  /\ goal' = [goal EXCEPT ![t] = Null]
  /\ event' = [event EXCEPT ![t] = Null]
  /\ given' = [given EXCEPT ![t] = Null]

\* The HTTP answer to the webhook call that task t has been working on.
Answer(t) ==
  unanswered' = [unanswered EXCEPT ![subject[t]] = @ \ {event[t]}]

\* The provider calls the webhook about outcome e of order o.
Notify(o, e) ==
  /\ issued' = [issued EXCEPT ![o] = @ \cup {e}]
  /\ unanswered' = [unanswered EXCEPT ![o] = @ \cup {e}]

-----------------------------------------------------------------------------
(* createForOrder.                                                         *)

\* The order and its payment are read: there must be no payment yet (one that
\* is PENDING is returned as it is), and the order must not be cancelled.
StartPayment(r, o) ==
  /\ order[o] # "CANCELLED" /\ status[o] = Absent
  /\ Begin(r, "create", o, Null, Null, Null)
  /\ UNCHANGED <<order, linked, row, books, failures, server, history>>

\* Mutant: nothing keeps a second payment of the same order out.
InsertAnotherPayment(r) ==
  LET o == subject[r] IN
  /\ pc[r] = "create"
  /\ status' = [status EXCEPT ![o] = "PENDING"]
  /\ \E k \in Provider : provider' = [provider EXCEPT ![o] = k]
  /\ Goto(r, "intent")
  /\ UNCHANGED <<order, linked, ref, books, failures, server, history>>

\* payment.create: payments.orderId is UNIQUE, a second insert fails.  The provider the
\* request asked for is only used from here on, and chosen here.
InsertPayment(r) ==
  LET o == subject[r] IN
  /\ pc[r] = "create"
  /\ \/ /\ status[o] = Absent
        /\ status' = [status EXCEPT ![o] = "PENDING"]
        /\ \E k \in Provider : provider' = [provider EXCEPT ![o] = k]
        /\ Goto(r, "intent")
     \/ /\ status[o] # Absent
        /\ End(r)
        /\ UNCHANGED <<status, provider>>
  /\ UNCHANGED <<order, linked, ref, books, failures, server, history>>

\* createIntent returns, and the charge is open;
Opened(r) == Goto(r, "store") /\ charge' = [charge EXCEPT ![subject[r]] = "open"]

\* it throws before or because the provider refuses: input missing, no token, not 2xx;
Refused(r) == Goto(r, "intentFailed") /\ UNCHANGED charge

\* or it throws although the charge is open: the answer was lost or is incomplete.
Unheard(r) == Goto(r, "intentFailed") /\ charge' = [charge EXCEPT ![subject[r]] = "open"]

ManualIntent(r) == Opened(r) /\ UNCHANGED token

StripeIntent(r) == (Opened(r) \/ Refused(r) \/ Unheard(r)) /\ UNCHANGED token

\* PayPal: an order without an approval link counts as failed, and is open.
PayPalIntent(r) ==
  /\ AccessToken
  /\ Refused(r) \/ (token' = "good" /\ (Opened(r) \/ Unheard(r)))

PawapayIntent(r) == (Opened(r) \/ Refused(r) \/ Unheard(r)) /\ UNCHANGED token

CreateIntent(r) ==
  LET o == subject[r] IN
  /\ pc[r] = "intent"
  /\ intents' = [intents EXCEPT ![o] = @ + 1]
  /\ \/ provider[o] = "MANUAL" /\ ManualIntent(r)
     \/ provider[o] = "STRIPE" /\ StripeIntent(r)
     \/ provider[o] = "PAYPAL" /\ PayPalIntent(r)
     \/ provider[o] = "PAWAPAY" /\ PawapayIntent(r)
  /\ UNCHANGED <<order, linked, row, issued, unanswered, failures, faults, history>>

\* The providerRef is stored, or the update fails and counts as a failed intent.
StoreRef(r) ==
  /\ pc[r] = "store"
  /\ \/ ref' = [ref EXCEPT ![subject[r]] = "own"] /\ End(r)
     \/ Goto(r, "intentFailed") /\ UNCHANGED ref
  /\ UNCHANGED <<order, linked, status, provider, books, failures, server, history>>

\* Mutant: the catch block writes a status the schema does not have.
FailIntentAsError(r) ==
  /\ pc[r] = "intentFailed"
  /\ status' = [status EXCEPT ![subject[r]] = "ERROR"]
  /\ End(r)
  /\ UNCHANGED <<order, linked, provider, ref, books, failures, server, history>>

\* Mutant: a rejected intent is announced as payment.failed.
FailIntentAloud(r) ==
  /\ pc[r] = "intentFailed"
  /\ status' = [status EXCEPT ![subject[r]] = "FAILED"]
  /\ failures' = [failures EXCEPT ![subject[r]] = @ + 1]
  /\ End(r)
  /\ UNCHANGED <<order, linked, provider, ref, books, server, history>>

\* The catch block: the payment is FAILED; only payment.created is emitted.
FailIntent(r) ==
  /\ pc[r] = "intentFailed"
  /\ status' = [status EXCEPT ![subject[r]] = "FAILED"]
  /\ End(r)
  /\ UNCHANGED <<order, linked, provider, ref, books, failures, server, history>>

-----------------------------------------------------------------------------
(* Everything that moves a payment on: each reads and checks its status,   *)
(* and writes the new one later with Mark.                                 *)

\* verifyAndParseWebhook: the others check a signature, PayPal is asked, with a token.
Verified(o) ==
  IF provider[o] = "PAYPAL" THEN AccessToken /\ token' = "good" ELSE UNCHANGED token

\* A call that PayPal is not asked about, or does not vouch for: 4xx or 5xx.
RefuseWebhook(o) ==
  /\ issued[o] # {} /\ provider[o] = "PAYPAL"
  /\ AccessToken
  /\ UNCHANGED <<order, linked, row, books, failures, task, faults, history>>

\* Mutant: the call is answered before the work is done.
ReceiveWebhookAnsweringFirst(r, o, e) ==
  /\ e \in issued[o] /\ Verified(o)
  /\ ref[o] = "own" /\ CanTransition(o, Target(o, e))
  /\ Begin(r, "mark", o, Target(o, e), e, ref[o])
  /\ unanswered' = [unanswered EXCEPT ![o] = @ \ {e}]
  /\ UNCHANGED <<order, linked, row, charge, issued, intents, failures, faults, history>>

\* applyWebhookEvent, for a call it has something to do about.
ReceiveWebhook(r, o, e) ==
  /\ e \in issued[o] /\ Verified(o)
  /\ ref[o] = "own" /\ CanTransition(o, Target(o, e))
  /\ Begin(r, "mark", o, Target(o, e), e, ref[o])
  /\ UNCHANGED <<order, linked, row, books, failures, faults, history>>

\* applyWebhookEvent, for a call about a payment it does not find (findFirst may find
\* another one with the same reference), or one whose status does not admit the outcome:
\* answered with 204 and forgotten.
IgnoreWebhook(o, e) ==
  /\ e \in unanswered[o] /\ Verified(o)
  /\ ~(ref[o] = "own" /\ CanTransition(o, Target(o, e))) \/ o \in shared
  /\ unanswered' = [unanswered EXCEPT ![o] = @ \ {e}]
  /\ UNCHANGED <<order, linked, row, charge, issued, intents, failures, task, faults, history>>

\* A call about another PayPal order whose reference this payment has been given.
ReceiveWebhookOfOther(r, o) ==
  /\ ref[o] = "other" /\ AccessToken /\ token' = "good"
  /\ \E e \in DOMAIN PayPalOutcome :
       /\ CanTransition(o, Target(o, e))
       /\ Begin(r, "mark", o, Target(o, e), Null, ref[o])
  /\ UNCHANGED <<order, linked, row, books, failures, faults, history>>

\* confirm: only PayPal, only while PENDING.  The reference to capture is the one in the
\* body or else the stored one; the one to store, the stored one or else that in the body.
\* A buyer knows the reference of their own charge from createForOrder's answer.
StartConfirm(r, o, asked) ==
  /\ status[o] = "PENDING" /\ provider[o] = "PAYPAL"
  /\ asked = "own" => ref[o] = "own"
  /\ Begin(r, IF asked = "own" THEN "capture" ELSE "captureOther", o, "SUCCEEDED", Null,
           IF ref[o] = Null THEN asked ELSE ref[o])
  /\ UNCHANGED <<order, linked, row, books, failures, server, history>>

\* Mutant: a capture that was refused counts as one that was completed.
CaptureAnyway(r) ==
  /\ pc[r] = "capture"
  /\ Goto(r, "mark")
  /\ UNCHANGED <<order, linked, row, books, failures, server, history>>

\* captureOrder: it throws, the charge left alone or captured all the same; or
\* it answers COMPLETED; or something else, PayPal completing the capture later.
Capture(r) ==
  LET o == subject[r] IN
  /\ pc[r] = "capture"
  /\ AccessToken
  /\ \/ /\ charge[o] = "open" /\ token' = "good"
        /\ charge' = [charge EXCEPT ![o] = "captured"]
        /\ Notify(o, "captured")
        /\ Goto(r, "mark") \/ End(r)
     \/ /\ charge[o] = "open" /\ token' = "good"
        /\ charge' = [charge EXCEPT ![o] = "pending"]
        /\ End(r)
        /\ UNCHANGED <<issued, unanswered>>
     \/ End(r) /\ UNCHANGED <<charge, issued, unanswered>>
  /\ UNCHANGED <<order, linked, row, intents, failures, faults, history>>

\* captureOrder of another PayPal order: whatever happens to that one, it answers
\* COMPLETED or it does not.
CaptureOther(r) ==
  /\ pc[r] = "captureOther"
  /\ AccessToken
  /\ \/ token' = "good" /\ elsewhere' = elsewhere \cup {subject[r]} /\ Goto(r, "mark")
     \/ End(r) /\ UNCHANGED elsewhere
  /\ UNCHANGED <<order, linked, row, books, failures, faults,
                 shared, reopened, lostEvents, halfLinked>>

\* manualConfirm: the administrator, for MANUAL payments, with a reference or without.
StartManualConfirm(r, o) ==
  /\ provider[o] = "MANUAL" /\ CanTransition(o, "SUCCEEDED")
  /\ \E g \in {ref[o], "own"} : Begin(r, "mark", o, "SUCCEEDED", Null, g)
  /\ UNCHANGED <<order, linked, row, books, failures, server, history>>

\* refund: the administrator, for a payment that SUCCEEDED.
StartRefund(r, o) ==
  /\ CanTransition(o, "REFUNDED")
  /\ Begin(r, "refund", o, "REFUNDED", Null, Null)
  /\ UNCHANGED <<order, linked, row, books, failures, server, history>>

\* The provider holds the money and can give it back.
Refundable(o) == charge[o] \in {"captured", "refundFailed"}

\* A refund call: the charge is given back or the refund accepted, and the call returns
\* or throws; or it throws and nothing happened.
RefundCall(r, next) ==
  LET o == subject[r] IN
  \/ /\ Refundable(o)
     /\ charge' = [charge EXCEPT ![o] = next]
     /\ IF next = "refunded" THEN Notify(o, "refunded") ELSE UNCHANGED <<issued, unanswered>>
     /\ Goto(r, "mark") \/ End(r)
  \/ End(r) /\ UNCHANGED <<charge, issued, unanswered>>

\* MANUAL: bookkeeping, no call.
ManualRefund(r) == Goto(r, "mark") /\ UNCHANGED <<charge, issued, unanswered, token>>

StripeRefund(r) == RefundCall(r, "refunded") /\ UNCHANGED token

PawapayRefund(r) == RefundCall(r, "refunding") /\ UNCHANGED token

\* PayPal refunds captures; the reference stored (createIntent) is that of the order, of
\* which no capture has the id, so the call throws.
PayPalRefund(r) == AccessToken /\ End(r) /\ UNCHANGED <<charge, issued, unanswered>>

CallRefund(r) ==
  LET o == subject[r] IN
  /\ pc[r] = "refund"
  /\ \/ provider[o] = "MANUAL" /\ ManualRefund(r)
     \/ provider[o] = "STRIPE" /\ StripeRefund(r)
     \/ provider[o] = "PAYPAL" /\ PayPalRefund(r)
     \/ provider[o] = "PAWAPAY" /\ PawapayRefund(r)
  /\ UNCHANGED <<order, linked, row, intents, failures, faults, history>>

\* Mutant: markFailed forgets its event.
MarkSilently(r) ==
  LET o == subject[r] IN
  /\ pc[r] = "mark"
  /\ status' = [status EXCEPT ![o] = goal[r]]
  /\ IF goal[r] = "SUCCEEDED"
     THEN /\ ref' = [ref EXCEPT ![o] = IF given[r] = Null THEN @ ELSE given[r]]
          /\ Goto(r, "link") /\ UNCHANGED unanswered
     ELSE End(r) /\ Answer(r) /\ UNCHANGED ref
  /\ UNCHANGED <<order, linked, provider, charge, issued, intents, failures, server, history>>

\* markSucceeded (its first update), markFailed, markCancelled, markRefunded:
\* the status is written whatever it is by now; markFailed emits payment.failed.
Mark(r) ==
  LET o == subject[r] IN
  /\ pc[r] = "mark"
  /\ status' = [status EXCEPT ![o] = goal[r]]
  /\ failures' = [failures EXCEPT ![o] = IF goal[r] = "FAILED" THEN @ + 1 ELSE @]
  /\ IF goal[r] = "SUCCEEDED"
     THEN /\ ref' = [ref EXCEPT ![o] = IF given[r] = Null THEN @ ELSE given[r]]
          /\ Goto(r, "link") /\ UNCHANGED unanswered
     ELSE End(r) /\ Answer(r) /\ UNCHANGED ref
  /\ UNCHANGED <<order, linked, provider, charge, issued, intents, server, history>>

\* Mutant: only an order that nobody has moved yet is linked.
LinkPreparing(r) ==
  /\ pc[r] = "link"
  /\ linked' = IF order[subject[r]] = "PREPARING" THEN linked \cup {subject[r]} ELSE linked
  /\ End(r) /\ Answer(r)
  /\ UNCHANGED <<order, row, charge, issued, intents, failures, server, history>>

\* markSucceeded's second update: order.paymentId.
Link(r) ==
  /\ pc[r] = "link"
  /\ linked' = linked \cup {subject[r]}
  /\ End(r) /\ Answer(r)
  /\ UNCHANGED <<order, row, charge, issued, intents, failures, server, history>>

-----------------------------------------------------------------------------
(* The listener, the order, the provider and the process.                  *)

\* Mutant: an order under way is left alone as well.
ListenPreparing(t, o) ==
  /\ failures[o] > 0
  /\ failures' = [failures EXCEPT ![o] = @ - 1]
  /\ IF order[o] = "PREPARING"
     THEN Begin(t, "autoCancel", o, Null, Null, Null)
     ELSE pc[t] = "idle" /\ UNCHANGED task
  /\ UNCHANGED <<order, linked, row, books, server, history>>

\* onPaymentFailed: cancelBySystem reads the order and gives up on one that is
\* cancelled or delivered ...
Listen(t, o) ==
  /\ failures[o] > 0
  /\ failures' = [failures EXCEPT ![o] = @ - 1]
  /\ IF order[o] \notin Closed
     THEN Begin(t, "autoCancel", o, Null, Null, Null)
     ELSE pc[t] = "idle" /\ UNCHANGED task
  /\ UNCHANGED <<order, linked, row, books, server, history>>

\* ... and cancelInternal cancels it, whatever its status is by now.
AutoCancel(t) ==
  /\ pc[t] = "autoCancel"
  /\ order' = [order EXCEPT ![subject[t]] = "CANCELLED"]
  /\ End(t)
  /\ UNCHANGED <<linked, row, books, failures, server, history>>

\* transition and cancel of orders.service.ts read the order and check its status ...
StartMove(r, o, to) ==
  /\ to \in [PREPARING |-> {"ON_THE_WAY", "CANCELLED"}, ON_THE_WAY |-> {"DELIVERED", "CANCELLED"},
             DELIVERED |-> {}, CANCELLED |-> {}][order[o]]
  /\ Begin(r, "move", o, to, Null, Null)
  /\ UNCHANGED <<order, linked, row, books, failures, server, history>>

\* ... and write the new one, whatever it is by now.
CommitMove(r) ==
  LET o == subject[r] IN
  /\ pc[r] = "move"
  /\ order' = [order EXCEPT ![o] = goal[r]]
  /\ reopened' = IF order[o] \in Closed /\ goal[r] \notin Closed
                 THEN reopened \cup {o} ELSE reopened
  /\ End(r)
  /\ UNCHANGED <<linked, row, books, failures, server, elsewhere, shared, lostEvents, halfLinked>>

\* The provider can go on with an open charge: PawaPay calls the buyer's phone
\* at once, the others need what createForOrder returns after StoreRef.
Reachable(o) ==
  /\ charge[o] = "open" /\ provider[o] # "MANUAL"
  /\ provider[o] = "PAWAPAY" \/ ref[o] # Null

\* It can collect the money: PayPal only after confirm has asked it to.
Collecting(o) == charge[o] = "pending" \/ (Reachable(o) /\ provider[o] # "PAYPAL")

ProviderCapture(o) ==
  /\ Collecting(o)
  /\ charge' = [charge EXCEPT ![o] = "captured"]
  /\ Notify(o, "captured")
  /\ UNCHANGED <<order, linked, row, intents, failures, task, server, history>>

\* confirm of another payment was asked to capture the PayPal order of this one, and may
\* have stored its reference.
CaptureForAnother(o) ==
  /\ Reachable(o) /\ provider[o] = "PAYPAL"
  /\ \/ /\ charge' = [charge EXCEPT ![o] = "captured"]
        /\ Notify(o, "captured")
        /\ shared' \in {shared, shared \cup {o}}
     \/ /\ charge' = [charge EXCEPT ![o] = "pending"]
        /\ UNCHANGED <<issued, unanswered, shared>>
  /\ UNCHANGED <<order, linked, row, intents, failures, task, server,
                 elsewhere, reopened, lostEvents, halfLinked>>

\* The provider declines.  With Stripe the buyer may try another card.
ProviderDecline(o) ==
  /\ Collecting(o) /\ "declined" \notin issued[o]
  /\ charge' = IF provider[o] = "STRIPE" THEN charge ELSE [charge EXCEPT ![o] = "declined"]
  /\ Notify(o, "declined")
  /\ UNCHANGED <<order, linked, row, intents, failures, task, server, history>>

\* An open charge is voided, or PayPal reverses a capture.
ProviderVoid(o) ==
  /\ \/ /\ Reachable(o)
        /\ charge' = [charge EXCEPT ![o] = "voided"]
        /\ Notify(o, "voided")
     \/ /\ charge[o] = "captured" /\ provider[o] = "PAYPAL"
        /\ charge' = [charge EXCEPT ![o] = "reversed"]
        /\ Notify(o, "reversed")
  /\ UNCHANGED <<order, linked, row, intents, failures, task, server, history>>

\* A refund made at the provider's own dashboard; PawaPay carries it out later, as
\* those it was asked for by refund.
ProviderRefund(o) ==
  /\ provider[o] # "MANUAL"
  /\ \/ /\ Refundable(o) /\ provider[o] = "PAWAPAY"
        /\ charge' = [charge EXCEPT ![o] = "refunding"]
        /\ UNCHANGED <<issued, unanswered>>
     \/ /\ IF provider[o] = "PAWAPAY" THEN charge[o] = "refunding" ELSE Refundable(o)
        /\ charge' = [charge EXCEPT ![o] = "refunded"]
        /\ Notify(o, "refunded")
  /\ UNCHANGED <<order, linked, row, intents, failures, task, server, history>>

\* PawaPay cannot carry out a refund it has accepted; at most once here, to bound the model.
ProviderRefundFails(o) ==
  /\ charge[o] = "refunding" /\ issued[o] \cap {"refundFailed", "voided"} = {}
  /\ charge' = [charge EXCEPT ![o] = "refundFailed"]
  /\ \E e \in {"refundFailed", "voided"} : Notify(o, e)
  /\ UNCHANGED <<order, linked, row, intents, failures, task, server, history>>

\* PayPal no longer accepts the token it gave; and its time runs out by the local clock.
RevokeToken ==
  /\ faults < MaxFaults
  /\ faults' = faults + 1
  /\ token = "good" /\ token' = "stale"
  /\ UNCHANGED <<order, linked, row, books, failures, task, history>>

ExpireToken ==
  /\ token # "none" /\ token' = "none"
  /\ UNCHANGED <<order, linked, row, books, failures, task, faults, history>>

\* What is lost with task t when it stops where it is.
LosesCancellation(t) == IF pc[t] = "autoCancel" THEN {subject[t]} ELSE {}
LosesLink(t) == IF pc[t] = "link" THEN {subject[t]} ELSE {}

\* The process dies: requests, listeners and the events between them are gone;
\* the database and the provider's unanswered calls are not.
Crash ==
  /\ faults < MaxFaults
  /\ faults' = faults + 1
  /\ failures' = [o \in Order |-> 0]
  /\ pc' = [t \in Task |-> "idle"]
  /\ subject' = [t \in Task |-> Null]
  /\ goal' = [t \in Task |-> Null]
  /\ event' = [t \in Task |-> Null]
  /\ given' = [t \in Task |-> Null]
  /\ token' = "none"
  /\ lostEvents' = lostEvents \cup {o \in Order : failures[o] > 0}
                               \cup UNION {LosesCancellation(t) : t \in Task}
  /\ halfLinked' = halfLinked \cup UNION {LosesLink(t) : t \in Task}
  /\ UNCHANGED <<order, linked, row, books, elsewhere, shared, reopened>>

\* A database call of task t fails: it throws, and its webhook call, if it was
\* one, is not answered with success.
Throw(t) ==
  /\ faults < MaxFaults
  /\ pc[t] \in {"create", "intentFailed", "mark", "link", "autoCancel", "move"}
  /\ faults' = faults + 1
  /\ End(t)
  /\ lostEvents' = lostEvents \cup LosesCancellation(t)
  /\ halfLinked' = halfLinked \cup LosesLink(t)
  /\ UNCHANGED <<order, linked, row, books, failures, token, elsewhere, shared, reopened>>

-----------------------------------------------------------------------------

BuyerStep ==
  \E r \in Request, o \in Order :
     StartPayment(r, o) \/ (\E asked \in Reference : StartConfirm(r, o, asked))

AdminStep == \E r \in Request, o \in Order : StartManualConfirm(r, o) \/ StartRefund(r, o)

\* What a task that has started does next.
Continue(t) ==
  \/ InsertPayment(t) \/ CreateIntent(t) \/ StoreRef(t) \/ FailIntent(t)
  \/ Capture(t) \/ CaptureOther(t) \/ CallRefund(t) \/ Mark(t) \/ Link(t)
  \/ AutoCancel(t) \/ CommitMove(t)

WebhookStep(o, e) == IgnoreWebhook(o, e) \/ (\E r \in Request : ReceiveWebhook(r, o, e))

ProviderStep ==
  \E o \in Order :
     \/ ProviderCapture(o) \/ CaptureForAnother(o) \/ ProviderDecline(o)
     \/ ProviderVoid(o) \/ ProviderRefund(o) \/ ProviderRefundFails(o)

OrderStep == \E r \in Request, o \in Order, to \in Moves : StartMove(r, o, to)

Next ==
  \/ BuyerStep \/ AdminStep
  \/ \E t \in Task : Continue(t)
  \/ \E o \in Order, e \in ProviderEvent : WebhookStep(o, e)
  \/ \E r \in Request, o \in Order : ReceiveWebhookOfOther(r, o)
  \/ \E o \in Order : RefuseWebhook(o)
  \/ \E t \in Listener, o \in Order : Listen(t, o)
  \/ ProviderStep \/ RevokeToken \/ ExpireToken
  \/ OrderStep
  \/ Crash \/ \E t \in Task : Throw(t)

Spec == Init /\ [][Next]_vars

\* Every await is answered, every event reaches its listener, the clock runs, and a
\* provider repeats a call until it is answered.  Nobody has to pay, ship or refund.
Fairness ==
  /\ \A t \in Task : WF_vars(Continue(t))
  /\ \A o \in Order : WF_vars(\E t \in Listener : Listen(t, o))
  /\ \A o \in Order, e \in ProviderEvent : SF_vars(e \in unanswered[o] /\ WebhookStep(o, e))
  /\ WF_vars(ExpireToken)

FairSpec == Spec /\ Fairness

-----------------------------------------------------------------------------
(* Properties.                                                             *)

\* What the books say of a payment, the provider has done: a payment is
\* SUCCEEDED or REFUNDED, and its order linked, only when the charge was
\* captured (its refund accepted), whatever webhooks, confirm and refund do at once;
\* unless confirm has captured another PayPal order for it (payments.service.ts:225).
BooksMatchProvider ==
  \A o \in Order : provider[o] # "MANUAL" /\ o \notin elsewhere =>
     /\ status[o] \in {"SUCCEEDED", "REFUNDED"} \/ o \in linked =>
          charge[o] \in {"captured", "reversed", "refunding", "refunded", "refundFailed"}
     /\ status[o] = "REFUNDED" => charge[o] \in {"refunding", "refunded", "refundFailed"}

\* However often createForOrder runs, at once or one after another, across
\* restarts too, the provider is asked to charge for an order at most once.
ChargedOnce == \A o \in Order : intents[o] <= 1

\* The system only cancels an order whose payment the provider has declined after the
\* charge was known here, never one whose intent was refused; with one exception, the
\* refund that failed at PawaPay and is reported before the capture is recorded
\* (pawapay.provider.ts:159).
AutoCancelJustified ==
  \A o \in Order :
     failures[o] > 0 \/ (\E t \in Task : pc[t] = "autoCancel" /\ subject[t] = o) =>
       ref[o] # Null /\ ("declined" \in issued[o] \/ "refundFailed" \in issued[o])

\* The order of o is closed from some time on.  A transition that read it before the
\* cancellation may reopen it (orders.service.ts:303 and 317), and a fault at the wrong
\* moment leaves it uncancelled; any other fault does not.
StaysClosed(o) == [](order[o] \in Closed)
CancellationUndone(o) == o \in reopened \/ o \in lostEvents

\* No failure is forgotten between the webhook, the event and the listener: the order of a
\* payment that a webhook marked FAILED is closed, or payment.failed waits for the listener,
\* or the listener is about to cancel it; with the exceptions of CancellationUndone.
FailedIsBeingCancelled ==
  \A o \in Order :
     status[o] = "FAILED" /\ ref[o] = "own" /\ provider[o] # "MANUAL" =>
       \/ order[o] \in Closed \/ failures[o] > 0
       \/ \E t \in Task : pc[t] = "autoCancel" /\ subject[t] = o
       \/ CancellationUndone(o)

\* A captured charge does not stay PENDING here once its reference is stored: the webhook
\* or confirm records it, across a crash between the two as well, and even though PayPal
\* may stop accepting the cached token that its webhooks are verified with; unless the
\* webhook may find another payment with the same reference (payments.service.ts:265).
CapturedIsNoticed ==
  \A o \in Order :
     (charge[o] = "captured" /\ ref[o] = "own" /\ "captured" \in unanswered[o]) ~>
       (status[o] # "PENDING" \/ o \in shared)

\* A payment that succeeded is linked to its order or about to be, whatever marks overlap,
\* unless a fault hits right between the two updates of markSucceeded: "Updates state, links
\* the order" (lines 262-263), but no later webhook repeats the second one.
SucceededIsBeingLinked ==
  \A o \in Order : status[o] = "SUCCEEDED" =>
     o \in linked \cup halfLinked \/ \E t \in Task : pc[t] = "link" /\ subject[t] = o

\* "When a provider reports payment failure, the backend automatically cancels the
\* order": a declined charge leads to an order closed for good, whatever confirm does
\* beside the webhook, if the call about it comes after the reference was stored and finds
\* this payment; with the exceptions of CancellationUndone.
DeclinedOrdersAreCancelled ==
  \A o \in Order :
     (charge[o] = "declined" /\ ref[o] = "own" /\ "declined" \in unanswered[o]) ~>
       (StaysClosed(o) \/ CancellationUndone(o) \/ o \in elsewhere \cup shared)

\* "When a provider reports payment failure, the backend automatically cancels the
\* order" (docs/api-reference.md:1430-1431), as it stands.
ReportedFailureCancels ==
  \A o \in Order : ("declined" \in issued[o]) ~> (order[o] \in Closed)

=============================================================================
