---------------------------- MODULE PaymentsProofs ----------------------------
(***************************************************************************)
(* Proofs about Payments, for any number of orders, requests, listeners    *)
(* and faults, and any choice of configured providers.                     *)
(*                                                                         *)
(* The methods decide on what they read and write later, so what makes the *)
(* writes right is that everything they decided on only ever moves         *)
(* forward: an inserted payment keeps its provider, a captured charge      *)
(* stays one that was captured, an event reported stays reported (Kept).   *)
(* TaskInv says what each task in the middle of a method relies on.        *)
(***************************************************************************)
EXTENDS Payments, TLAPS

\* The charges that were captured, and of those the ones given back, or promised to be.
WasCaptured == {"captured", "reversed", "refunding", "refunded", "refundFailed"}
WasGivenBack == {"refunding", "refunded", "refundFailed"}

\* What cancels an order automatically.
Declined(o) == ref[o] # Null /\ ("declined" \in issued[o] \/ "refundFailed" \in issued[o])

\* The provider's books justify writing status g for order o, unless its confirm captured
\* another PayPal order.
Backed(o, g) ==
  /\ provider[o] # "MANUAL" /\ o \notin elsewhere =>
       /\ g = "SUCCEEDED" => charge[o] \in WasCaptured
       /\ g = "REFUNDED" => charge[o] \in WasGivenBack
  /\ g = "FAILED" => Declined(o)

\* BooksMatchProvider, of one order.
BooksOk(o) ==
  provider[o] # "MANUAL" /\ o \notin elsewhere =>
    /\ status[o] \in {"SUCCEEDED", "REFUNDED"} \/ o \in linked => charge[o] \in WasCaptured
    /\ status[o] = "REFUNDED" => charge[o] \in WasGivenBack

\* A payment that has been given another one's reference was confirmed with it.
RefOk(o) ==
  ref[o] = "other" =>
    status[o] \notin {Absent, "PENDING"} /\ o \in elsewhere /\ provider[o] = "PAYPAL"

\* The charge and the events of an order, its payment row and its provider agree.
OrderOk(o) ==
  /\ status[o] = Absent => intents[o] = 0 /\ o \notin linked
  /\ status[o] # Absent => provider[o] \in Provider
  /\ intents[o] = 0 => charge[o] = "none"
  /\ charge[o] = "none" => issued[o] = {}
  /\ charge[o] = "pending" => provider[o] = "PAYPAL"
  /\ charge[o] \in {"refunding", "refundFailed"} => provider[o] = "PAWAPAY"
  /\ issued[o] # {} => provider[o] \in {"STRIPE", "PAYPAL", "PAWAPAY"}
  /\ "reversed" \in issued[o] => provider[o] = "PAYPAL"
  /\ "refundFailed" \in issued[o] => provider[o] = "PAWAPAY"
  /\ "captured" \in issued[o] => charge[o] \in WasCaptured
  /\ "refunded" \in issued[o] => charge[o] \in WasGivenBack
  /\ failures[o] > 0 => Declined(o)
  /\ intents[o] <= 1
  /\ BooksOk(o) /\ RefOk(o)

\* The reference that markSucceeded is about to store is that payment's own, or else its
\* confirm captures another PayPal order, or has done so.
GivenOk(t) ==
  /\ pc[t] = "capture" => given[t] = "own"
  /\ pc[t] = "refund" => given[t] = Null
  /\ pc[t] = "mark" /\ given[t] = "other" =>
       subject[t] \in elsewhere /\ provider[subject[t]] = "PAYPAL"

\* What task t may rely on between two of its steps.
TaskOk(t) ==
  /\ pc[t] # "idle" => subject[t] \in Order
  /\ pc[t] \in {"intent", "store", "intentFailed", "capture", "captureOther", "refund", "mark",
              "link"} =>
       status[subject[t]] # Absent
  /\ pc[t] = "intent" => intents[subject[t]] = 0
  /\ pc[t] \in {"capture", "captureOther"} =>
       provider[subject[t]] = "PAYPAL" /\ goal[t] = "SUCCEEDED"
  /\ pc[t] = "refund" => goal[t] = "REFUNDED"
  /\ pc[t] = "link" => goal[t] = "SUCCEEDED"
  /\ pc[t] \in {"mark", "link"} =>
       /\ goal[t] \in {"SUCCEEDED", "FAILED", "CANCELLED", "REFUNDED"}
       /\ Backed(subject[t], goal[t])
  /\ pc[t] = "autoCancel" => Declined(subject[t])
  /\ pc[t] = "move" => goal[t] \in OrderStatus
  /\ GivenOk(t)

OrderInv == \A o \in Order : OrderOk(o)
TaskInv == \A t \in Task : TaskOk(t)

\* At most one task is about to ask the provider to charge for an order.
OneIntent ==
  \A t, u \in Task :
    pc[t] = "intent" /\ pc[u] = "intent" /\ subject[t] = subject[u] => t = u

IInv == TypeOK /\ OrderInv /\ TaskInv /\ OneIntent

\* What no step takes back: that a payment was inserted, its provider, that it has a
\* reference, the events reported, and that the charge was captured or given back.
Kept(o) ==
  /\ status[o] # Absent => status'[o] # Absent /\ provider'[o] = provider[o]
  /\ ref[o] # Null => ref'[o] # Null
  /\ o \in elsewhere => o \in elsewhere'
  /\ issued[o] \subseteq issued'[o]
  /\ charge[o] \in WasCaptured => charge'[o] \in WasCaptured
  /\ charge[o] \in WasGivenBack => charge'[o] \in WasGivenBack

Keeps == \A o \in Order : Kept(o)

-----------------------------------------------------------------------------
(* What the steps of one task, or about one order, leave alone.            *)

SameTask(t) ==
  pc'[t] = pc[t] /\ subject'[t] = subject[t] /\ goal'[t] = goal[t] /\ given'[t] = given[t]

SameOrder(o) ==
  /\ status'[o] = status[o] /\ provider'[o] = provider[o] /\ ref'[o] = ref[o]
  /\ charge'[o] = charge[o] /\ issued'[o] = issued[o]
  /\ intents'[o] = intents[o] /\ failures'[o] = failures[o]
  /\ (o \in linked' <=> o \in linked) /\ (o \in elsewhere' <=> o \in elsewhere)

TaskTypes ==
  /\ pc \in [Task -> {"idle", "create", "intent", "store", "intentFailed", "capture",
                      "captureOther", "refund", "mark", "link", "autoCancel", "move"}]
  /\ subject \in [Task -> Order \cup {Null}]
  /\ goal \in [Task -> PaymentStatus \cup OrderStatus \cup {Null}]
  /\ event \in [Task -> ProviderEvent \cup {Null}]
  /\ given \in [Task -> Reference \cup {Null}]

HistoryTypes ==
  /\ elsewhere \subseteq Order /\ shared \subseteq Order /\ reopened \subseteq Order
  /\ lostEvents \subseteq Order /\ halfLinked \subseteq Order

\* A step that notes nothing in the history.
LEMMA HistoryStays ==
  ASSUME IInv, UNCHANGED history
  PROVE  HistoryTypes' /\ UNCHANGED elsewhere
BY DEF IInv, TypeOK, HistoryTypes, history

LEMMA InitInv == Init => IInv
<1> SUFFICES ASSUME Init PROVE IInv
  OBVIOUS
<1> USE DEF Init
<1>1. TypeOK
  BY PaymentsAssumption DEF TypeOK, Charge, OrderStatus
<1>2. OrderInv
  <2> SUFFICES ASSUME NEW o \in Order PROVE OrderOk(o)
    BY DEF OrderInv
  <2>1. /\ status[o] = Absent /\ o \notin linked /\ charge[o] = "none"
        /\ issued[o] = {} /\ intents[o] = 0 /\ failures[o] = 0 /\ ref[o] = Null
    OBVIOUS
  <2>2. BooksOk(o) /\ RefOk(o)
    BY <2>1, PaymentsAssumption DEF BooksOk, RefOk, Absent, Reference
  <2>3. QED
    BY <2>1, <2>2 DEF OrderOk
<1>3. TaskInv /\ OneIntent
  BY DEF TaskInv, TaskOk, GivenOk, OneIntent
<1>4. QED
  BY <1>1, <1>2, <1>3 DEF IInv

LEMMA SameOrderIsOk ==
  ASSUME OrderInv, NEW o \in Order, SameOrder(o)
  PROVE  OrderOk(o)' /\ Kept(o)
BY DEF OrderInv, OrderOk, BooksOk, RefOk, Declined, Kept, SameOrder

\* A step that is not about payments at all.
LEMMA OrdersStay ==
  ASSUME OrderInv, UNCHANGED <<linked, row, charge, issued, intents, failures, elsewhere>>
  PROVE  OrderInv' /\ Keeps
<1>1. \A o \in Order : SameOrder(o)
  BY DEF SameOrder, row
<1>2. QED
  BY <1>1, SameOrderIsOk DEF OrderInv, Keeps

\* A step about one order.
LEMMA OneOrderMoves ==
  ASSUME OrderInv, NEW o \in Order, \A p \in Order \ {o} : SameOrder(p), OrderOk(o)', Kept(o)
  PROVE  OrderInv' /\ Keeps
<1> SUFFICES ASSUME NEW p \in Order PROVE OrderOk(p)' /\ Kept(p)
  BY DEF OrderInv, Keeps
<1>1. CASE p = o
  BY <1>1
<1>2. CASE p # o
  BY <1>2, SameOrderIsOk
<1>3. QED
  BY <1>1, <1>2

LEMMA SameTaskIsOk ==
  ASSUME TypeOK, TaskInv, NEW t \in Task, SameTask(t), Keeps,
         pc[t] = "intent" => intents'[subject[t]] = intents[subject[t]]
  PROVE  TaskOk(t)'
<1>1. TaskOk(t)
  BY DEF TaskInv
<1>2. CASE pc[t] = "idle"
  BY <1>2 DEF TaskOk, GivenOk, SameTask
<1>3. CASE pc[t] # "idle"
  <2>1. subject[t] \in Order /\ Kept(subject[t])
    BY <1>1, <1>3 DEF TaskOk, Keeps
  <2>2. Declined(subject[t]) => Declined(subject[t])'
    BY <2>1 DEF Declined, Kept, SameTask
  <2>3. /\ status[subject[t]] # Absent /\ Backed(subject[t], goal[t])
        => Backed(subject[t], goal[t])'
    BY <2>1, <2>2 DEF Backed, Kept, SameTask
  <2>4. GivenOk(t)'
    BY <1>1, <2>1 DEF TaskOk, GivenOk, Kept, SameTask
  <2>5. QED
    BY <1>1, <2>1, <2>2, <2>3, <2>4 DEF TaskOk, Kept, SameTask
<1>4. QED
  BY <1>2, <1>3

\* A step of one task, which does not go on to createIntent.
LEMMA OneTaskMoves ==
  ASSUME TypeOK, TaskInv, OneIntent, Keeps, NEW t \in Task,
         \A u \in Task \ {t} :
           SameTask(u) /\ (pc[u] = "intent" => intents'[subject[u]] = intents[subject[u]]),
         TaskOk(t)', pc'[t] # "intent"
  PROVE  TaskInv' /\ OneIntent'
<1>1. TaskInv'
  <2> SUFFICES ASSUME NEW u \in Task PROVE TaskOk(u)'
    BY DEF TaskInv
  <2>1. CASE u = t
    BY <2>1
  <2>2. CASE u # t
    BY <2>2, SameTaskIsOk
  <2>3. QED
    BY <2>1, <2>2
<1>2. OneIntent'
  BY DEF OneIntent, SameTask
<1>3. QED
  BY <1>1, <1>2

\* A step of no task.
LEMMA TasksStay ==
  ASSUME TypeOK, TaskInv, OneIntent, Keeps, UNCHANGED <<task, intents>>
  PROVE  TaskInv' /\ OneIntent' /\ TaskTypes'
<1>1. \A t \in Task : SameTask(t)
  BY DEF SameTask, task
<1>2. \A t \in Task : TaskOk(t)'
  BY <1>1, SameTaskIsOk
<1>3. QED
  BY <1>2 DEF TaskInv, OneIntent, TaskTypes, TypeOK, task

LEMMA BeginUpdates ==
  ASSUME TypeOK, NEW t \in Task, NEW o \in Order, NEW step, NEW aim, NEW e, NEW g,
         Begin(t, step, o, aim, e, g),
         step \in {"create", "capture", "captureOther", "refund", "mark", "autoCancel", "move"},
         aim \in PaymentStatus \cup OrderStatus \cup {Null},
         e \in ProviderEvent \cup {Null}, g \in Reference \cup {Null}
  PROVE  /\ pc'[t] = step /\ subject'[t] = o /\ goal'[t] = aim /\ given'[t] = g
         /\ \A u \in Task \ {t} : SameTask(u)
         /\ TaskTypes'
BY DEF TypeOK, TaskTypes, Begin, SameTask

LEMMA GotoUpdates ==
  ASSUME TypeOK, NEW t \in Task, NEW step, Goto(t, step),
         step \in {"intent", "store", "intentFailed", "mark", "link"}
  PROVE  /\ pc'[t] = step /\ subject'[t] = subject[t] /\ goal'[t] = goal[t]
         /\ given'[t] = given[t]
         /\ \A u \in Task \ {t} : SameTask(u)
         /\ TaskTypes'
BY DEF TypeOK, TaskTypes, Goto, SameTask

LEMMA EndUpdates ==
  ASSUME TypeOK, NEW t \in Task, End(t)
  PROVE  /\ pc'[t] = "idle" /\ TaskOk(t)'
         /\ \A u \in Task \ {t} : SameTask(u)
         /\ TaskTypes'
BY DEF TypeOK, TaskTypes, End, SameTask, TaskOk, GivenOk

\* A step of one task that changes nothing about the payment.
LEMMA OnlyTaskMoves ==
  ASSUME IInv, NEW t \in Task, UNCHANGED <<linked, row, books, failures>>,
         \A u \in Task \ {t} : SameTask(u), TaskTypes', TaskOk(t)', pc'[t] # "intent",
         order' \in [Order -> OrderStatus], UNCHANGED elsewhere, HistoryTypes',
         token' \in {"none", "good", "stale"}, faults' \in 0 .. MaxFaults
  PROVE  IInv' /\ Keeps
<1>1. OrderInv' /\ Keeps
  BY OrdersStay DEF IInv, books
<1>2. TaskInv' /\ OneIntent'
  BY <1>1, OneTaskMoves DEF IInv, books
<1>3. TypeOK'
  BY DEF IInv, TypeOK, TaskTypes, HistoryTypes, books, row
<1>4. QED
  BY <1>1, <1>2, <1>3 DEF IInv

-----------------------------------------------------------------------------
(* createForOrder.                                                         *)

LEMMA StartPaymentInv ==
  ASSUME IInv, NEW r \in Task, NEW o \in Order, StartPayment(r, o)
  PROVE  IInv' /\ Keeps
<1>1. /\ pc'[r] = "create" /\ subject'[r] = o
      /\ \A u \in Task \ {r} : SameTask(u)
      /\ TaskTypes'
  BY BeginUpdates DEF IInv, StartPayment
<1>2. TaskOk(r)'
  BY <1>1 DEF TaskOk, GivenOk
<1>3. HistoryTypes' /\ UNCHANGED elsewhere
  BY HistoryStays DEF StartPayment
<1>4. QED
  BY <1>1, <1>2, <1>3, OnlyTaskMoves DEF StartPayment, server, IInv, TypeOK

LEMMA InsertPaymentInv ==
  ASSUME IInv, NEW r \in Task, InsertPayment(r)
  PROVE  IInv' /\ Keeps
<1>1. PICK o \in Order : o = subject[r] /\ OrderOk(o)
  BY DEF IInv, TaskInv, TaskOk, OrderInv, InsertPayment
<1>2. CASE status[o] = Absent
  <2>1. /\ pc'[r] = "intent" /\ subject'[r] = o
        /\ \A u \in Task \ {r} : SameTask(u)
        /\ TaskTypes'
    BY <1>1, <1>2, GotoUpdates DEF IInv, InsertPayment
  <2>2. PICK k \in Provider : provider' = [provider EXCEPT ![o] = k]
    BY <1>1, <1>2 DEF InsertPayment
  <2>3. /\ status' = [status EXCEPT ![o] = "PENDING"]
        /\ UNCHANGED <<order, linked, ref, charge, issued, unanswered, intents, failures>>
        /\ UNCHANGED <<token, faults, elsewhere>> /\ HistoryTypes'
    BY <1>1, <1>2, HistoryStays DEF InsertPayment, books, server
  <2>4. TypeOK'
    BY <1>1, <2>1, <2>2, <2>3 DEF IInv, TypeOK, TaskTypes, HistoryTypes, PaymentStatus
  <2>5. status'[o] = "PENDING" /\ provider'[o] = k
    BY <1>1, <2>2, <2>3 DEF IInv, TypeOK
  <2>6. OrderOk(o)' /\ Kept(o)
    <3>1. /\ intents[o] = 0 /\ o \notin linked /\ charge[o] = "none" /\ issued[o] = {}
          /\ (failures[o] > 0 => Declined(o)) /\ ref[o] # "other"
      BY <1>1, <1>2 DEF OrderOk, RefOk
    <3>2. BooksOk(o)' /\ RefOk(o)'
      BY <2>3, <2>5, <3>1 DEF BooksOk, RefOk
    <3>3. OrderOk(o)'
      BY <2>3, <2>5, <3>1, <3>2 DEF OrderOk, Declined, Absent
    <3>4. Kept(o)
      BY <1>2, <2>3 DEF Kept
    <3>5. QED
      BY <3>3, <3>4
  <2>7. \A p \in Order \ {o} : SameOrder(p)
    BY <2>2, <2>3 DEF SameOrder, IInv, TypeOK
  <2>8. OrderInv' /\ Keeps
    BY <1>1, <2>6, <2>7, OneOrderMoves DEF IInv
  <2>9. TaskInv'
    <3> SUFFICES ASSUME NEW u \in Task PROVE TaskOk(u)'
      BY DEF TaskInv
    <3>1. CASE u = r
      BY <1>1, <1>2, <2>1, <2>3, <2>5, <3>1 DEF TaskOk, GivenOk, OrderOk, Absent
    <3>2. CASE u # r
      BY <2>1, <2>3, <2>8, <3>2, SameTaskIsOk DEF IInv
    <3>3. QED
      BY <3>1, <3>2
  <2>10. \A u \in Task : pc[u] = "intent" => subject[u] # o
    BY <1>2 DEF IInv, TaskInv, TaskOk
  <2>11. OneIntent'
    BY <2>1, <2>10 DEF IInv, OneIntent, SameTask
  <2>12. QED
    BY <2>4, <2>8, <2>9, <2>11 DEF IInv
<1>3. CASE status[o] # Absent
  <2>1. /\ End(r) /\ UNCHANGED <<order, linked, row, books, failures, token, faults, elsewhere>>
        /\ HistoryTypes'
    BY <1>1, <1>3, HistoryStays DEF InsertPayment, row, server
  <2>2. QED
    BY <2>1, EndUpdates, OnlyTaskMoves DEF IInv, TypeOK
<1>4. QED
  BY <1>2, <1>3

\* Whatever the provider, the charge is opened or not, and the request goes on.
LEMMA CreateIntentUpdates ==
  ASSUME IInv, NEW r \in Task, CreateIntent(r)
  PROVE  /\ charge' \in {charge, [charge EXCEPT ![subject[r]] = "open"]}
         /\ Goto(r, "store") \/ Goto(r, "intentFailed")
         /\ token' \in {"none", "good", "stale"}
<1>1. token \in {"none", "good", "stale"}
  BY DEF IInv, TypeOK
<1>2. CASE provider[subject[r]] = "PAYPAL" /\ PayPalIntent(r)
  BY <1>1, <1>2 DEF PayPalIntent, AccessToken, Opened, Refused, Unheard
<1>3. CASE provider[subject[r]] = "MANUAL" /\ ManualIntent(r)
  BY <1>1, <1>3 DEF ManualIntent, Opened
<1>4. CASE StripeIntent(r) \/ PawapayIntent(r)
  BY <1>1, <1>4 DEF StripeIntent, PawapayIntent, Opened, Refused, Unheard
<1>5. QED
  BY <1>2, <1>3, <1>4 DEF CreateIntent

LEMMA CreateIntentInv ==
  ASSUME IInv, NEW r \in Task, CreateIntent(r)
  PROVE  IInv' /\ Keeps
<1>1. PICK o \in Order : o = subject[r] /\ OrderOk(o) /\ TaskOk(r)
  BY DEF IInv, TaskInv, TaskOk, OrderInv, CreateIntent
<1>2. /\ pc[r] = "intent" /\ intents' = [intents EXCEPT ![o] = @ + 1]
      /\ UNCHANGED <<order, linked, status, provider, ref, issued, unanswered, failures, faults>>
      /\ UNCHANGED elsewhere /\ HistoryTypes'
  BY <1>1, HistoryStays DEF CreateIntent, row
<1>3. /\ charge' \in {charge, [charge EXCEPT ![o] = "open"]}
      /\ token' \in {"none", "good", "stale"}
      /\ pc'[r] \in {"store", "intentFailed"} /\ subject'[r] = o
      /\ \A u \in Task \ {r} : SameTask(u)
      /\ TaskTypes'
  BY <1>1, CreateIntentUpdates, GotoUpdates DEF IInv
<1>4. intents[o] = 0 /\ charge[o] = "none" /\ issued[o] = {} /\ status[o] # Absent
  BY <1>1, <1>2 DEF TaskOk, OrderOk
<1>5. intents'[o] = 1 /\ charge'[o] \in {"none", "open"}
  BY <1>2, <1>3, <1>4 DEF IInv, TypeOK
<1>6. TypeOK'
  BY <1>2, <1>3 DEF IInv, TypeOK, TaskTypes, HistoryTypes, Charge
<1>7. OrderOk(o)' /\ Kept(o)
  <2>1. BooksOk(o)' /\ RefOk(o)'
    BY <1>1, <1>2, <1>4, <1>5 DEF OrderOk, BooksOk, RefOk, WasCaptured, WasGivenBack
  <2>2. OrderOk(o)'
    BY <1>1, <1>2, <1>4, <1>5, <2>1 DEF OrderOk, Declined
  <2>3. Kept(o)
    BY <1>2, <1>4 DEF Kept, WasCaptured, WasGivenBack
  <2>4. QED
    BY <2>2, <2>3
<1>8. \A p \in Order \ {o} : SameOrder(p)
  BY <1>2, <1>3 DEF SameOrder, IInv, TypeOK
<1>9. OrderInv' /\ Keeps
  BY <1>7, <1>8, OneOrderMoves DEF IInv
<1>10. \A u \in Task \ {r} : pc[u] = "intent" => intents'[subject[u]] = intents[subject[u]]
  <2> SUFFICES ASSUME NEW u \in Task \ {r}, pc[u] = "intent"
               PROVE  intents'[subject[u]] = intents[subject[u]]
    OBVIOUS
  <2>1. subject[u] \in Order /\ subject[u] # o
    BY <1>1, <1>2 DEF IInv, TaskInv, TaskOk, OneIntent
  <2>2. QED
    BY <1>2, <2>1 DEF IInv, TypeOK
<1>11. TaskOk(r)'
  BY <1>2, <1>3, <1>4 DEF TaskOk, GivenOk
<1>12. TaskInv' /\ OneIntent'
  BY <1>3, <1>9, <1>10, <1>11, OneTaskMoves DEF IInv
<1>13. QED
  BY <1>6, <1>9, <1>12 DEF IInv

LEMMA StoreRefInv ==
  ASSUME IInv, NEW r \in Task, StoreRef(r)
  PROVE  IInv' /\ Keeps
<1>1. PICK o \in Order : o = subject[r] /\ OrderOk(o) /\ TaskOk(r)
  BY DEF IInv, TaskInv, TaskOk, OrderInv, StoreRef
<1>2. CASE ref' = [ref EXCEPT ![o] = "own"] /\ End(r)
  <2>1. /\ UNCHANGED <<order, linked, status, provider, charge, issued, unanswered>>
        /\ UNCHANGED <<intents, failures, token, faults, elsewhere>> /\ HistoryTypes'
    BY HistoryStays DEF StoreRef, books, server
  <2>2. /\ pc'[r] = "idle" /\ TaskOk(r)'
        /\ \A u \in Task \ {r} : SameTask(u)
        /\ TaskTypes'
    BY <1>2, EndUpdates DEF IInv
  <2>3. TypeOK'
    BY <1>2, <2>1, <2>2 DEF IInv, TypeOK, TaskTypes, HistoryTypes, Reference
  <2>4. OrderOk(o)' /\ Kept(o)
    <3>1. ref'[o] = "own" /\ ref'[o] # Null
      BY <1>2, PaymentsAssumption DEF IInv, TypeOK, Reference
    <3>2. QED
      BY <1>1, <2>1, <3>1 DEF OrderOk, BooksOk, RefOk, Declined, Kept
  <2>5. \A p \in Order \ {o} : SameOrder(p)
    BY <1>2, <2>1 DEF SameOrder, IInv, TypeOK
  <2>6. OrderInv' /\ Keeps
    BY <2>4, <2>5, OneOrderMoves DEF IInv
  <2>7. TaskInv' /\ OneIntent'
    BY <2>1, <2>2, <2>6, OneTaskMoves DEF IInv
  <2>8. QED
    BY <2>3, <2>6, <2>7 DEF IInv
<1>3. CASE Goto(r, "intentFailed") /\ UNCHANGED ref
  <2>1. /\ UNCHANGED <<order, linked, row, books, failures, token, faults, elsewhere>>
        /\ pc[r] = "store" /\ HistoryTypes'
    BY <1>3, HistoryStays DEF StoreRef, row, server
  <2>2. /\ pc'[r] = "intentFailed" /\ subject'[r] = o
        /\ \A u \in Task \ {r} : SameTask(u)
        /\ TaskTypes'
    BY <1>1, <1>3, GotoUpdates DEF IInv
  <2>3. TaskOk(r)'
    BY <1>1, <2>1, <2>2 DEF TaskOk, GivenOk, row
  <2>4. QED
    BY <2>1, <2>2, <2>3, OnlyTaskMoves DEF IInv, TypeOK
<1>4. QED
  BY <1>1, <1>2, <1>3 DEF StoreRef

LEMMA FailIntentInv ==
  ASSUME IInv, NEW r \in Task, FailIntent(r)
  PROVE  IInv' /\ Keeps
<1>1. PICK o \in Order : o = subject[r] /\ OrderOk(o) /\ status[o] # Absent
  BY DEF IInv, TaskInv, TaskOk, OrderInv, FailIntent
<1>2. /\ status' = [status EXCEPT ![o] = "FAILED"]
      /\ UNCHANGED <<order, linked, provider, ref, charge, issued, unanswered>>
      /\ UNCHANGED <<intents, failures, token, faults, elsewhere>> /\ HistoryTypes'
  BY <1>1, HistoryStays DEF FailIntent, books, server
<1>3. /\ pc'[r] = "idle" /\ TaskOk(r)'
      /\ \A u \in Task \ {r} : SameTask(u)
      /\ TaskTypes'
  BY EndUpdates DEF IInv, FailIntent
<1>4. TypeOK'
  BY <1>2, <1>3 DEF IInv, TypeOK, TaskTypes, HistoryTypes, PaymentStatus
<1>5. status'[o] = "FAILED"
  BY <1>2 DEF IInv, TypeOK
<1>6. OrderOk(o)' /\ Kept(o)
  BY <1>1, <1>2, <1>5 DEF OrderOk, BooksOk, RefOk, Declined, Kept, Absent
<1>7. \A p \in Order \ {o} : SameOrder(p)
  BY <1>2 DEF SameOrder, IInv, TypeOK
<1>8. OrderInv' /\ Keeps
  BY <1>6, <1>7, OneOrderMoves DEF IInv
<1>9. TaskInv' /\ OneIntent'
  BY <1>2, <1>3, <1>8, OneTaskMoves DEF IInv
<1>10. QED
  BY <1>4, <1>8, <1>9 DEF IInv

-----------------------------------------------------------------------------
(* Webhooks, confirm, manualConfirm and refund.                            *)

\* What a webhook call asks for, the provider's books justify: each translateEvent only
\* meets events that its own provider sends.
LEMMA TargetIsBacked ==
  ASSUME IInv, NEW o \in Order, NEW e \in issued[o], ref[o] # Null
  PROVE  /\ Target(o, e) \in {"SUCCEEDED", "FAILED", "CANCELLED", "REFUNDED"}
         /\ Backed(o, Target(o, e))
<1>1. OrderOk(o) /\ e \in ProviderEvent
  BY DEF IInv, OrderInv, TypeOK
<1>2. CASE provider[o] = "STRIPE"
  <2>1. Target(o, e) = StatusOf[StripeOutcome[e]] /\ e \notin {"reversed", "refundFailed"}
    BY <1>1, <1>2 DEF Target, OrderOk
  <2>2. \/ e = "captured" /\ Target(o, e) = "SUCCEEDED"
        \/ e = "declined" /\ Target(o, e) = "FAILED"
        \/ e = "voided" /\ Target(o, e) = "CANCELLED"
        \/ e = "refunded" /\ Target(o, e) = "REFUNDED"
    BY <1>1, <2>1 DEF ProviderEvent, StripeOutcome, StatusOf
  <2>3. QED
    BY <1>1, <2>2 DEF OrderOk, Backed, Declined
<1>3. CASE provider[o] = "PAYPAL"
  <2>1. Target(o, e) = StatusOf[PayPalOutcome[e]] /\ e # "refundFailed"
    BY <1>1, <1>3 DEF Target, OrderOk
  <2>2. \/ e = "captured" /\ Target(o, e) = "SUCCEEDED"
        \/ e = "declined" /\ Target(o, e) = "FAILED"
        \/ e \in {"voided", "reversed"} /\ Target(o, e) = "CANCELLED"
        \/ e = "refunded" /\ Target(o, e) = "REFUNDED"
    BY <1>1, <2>1 DEF ProviderEvent, PayPalOutcome, StatusOf
  <2>3. QED
    BY <1>1, <2>2 DEF OrderOk, Backed, Declined
<1>4. CASE provider[o] = "PAWAPAY"
  <2>1. Target(o, e) = StatusOf[PawapayOutcome[e]] /\ e # "reversed"
    BY <1>1, <1>4 DEF Target, OrderOk
  <2>2. \/ e = "captured" /\ Target(o, e) = "SUCCEEDED"
        \/ e \in {"declined", "refundFailed"} /\ Target(o, e) = "FAILED"
        \/ e = "voided" /\ Target(o, e) = "CANCELLED"
        \/ e = "refunded" /\ Target(o, e) = "REFUNDED"
    BY <1>1, <2>1 DEF ProviderEvent, PawapayOutcome, StatusOf
  <2>3. QED
    BY <1>1, <2>2 DEF OrderOk, Backed, Declined
<1>5. QED
  BY <1>1, <1>2, <1>3, <1>4 DEF OrderOk

\* Verifying a webhook touches nothing but PayPal's token.
LEMMA TokenType ==
  ASSUME IInv, NEW o \in Order, Verified(o) \/ AccessToken \/ UNCHANGED token
  PROVE  token' \in {"none", "good", "stale"}
BY DEF IInv, TypeOK, Verified, AccessToken

\* Any method that starts on a payment that was inserted.
LEMMA PaymentMethodStarts ==
  ASSUME IInv, NEW r \in Task, NEW o \in Order, NEW step, NEW aim, NEW e, NEW g,
         Begin(r, step, o, aim, e, g),
         step \in {"capture", "captureOther", "refund", "mark"}, g \in Reference \cup {Null},
         aim \in {"SUCCEEDED", "FAILED", "CANCELLED", "REFUNDED"},
         e \in ProviderEvent \cup {Null}, status[o] # Absent,
         step \in {"capture", "captureOther"} => provider[o] = "PAYPAL" /\ aim = "SUCCEEDED",
         step = "capture" => g = "own", step = "refund" => g = Null,
         step = "mark" /\ g = "other" => o \in elsewhere /\ provider[o] = "PAYPAL",
         step = "refund" => aim = "REFUNDED",
         step = "mark" => Backed(o, aim),
         UNCHANGED <<order, linked, row, books, failures, faults, history>>,
         token' \in {"none", "good", "stale"}
  PROVE  IInv' /\ Keeps
<1>1. /\ pc'[r] = step /\ subject'[r] = o /\ goal'[r] = aim /\ given'[r] = g
      /\ \A u \in Task \ {r} : SameTask(u)
      /\ TaskTypes'
  BY BeginUpdates DEF IInv, PaymentStatus
<1>2. HistoryTypes' /\ UNCHANGED elsewhere
  BY HistoryStays
<1>3. TaskOk(r)'
  BY <1>1, <1>2 DEF TaskOk, GivenOk, Backed, Declined, row, books
<1>4. faults' \in 0 .. MaxFaults /\ order' \in [Order -> OrderStatus]
  BY DEF IInv, TypeOK
<1>5. QED
  BY <1>1, <1>2, <1>3, <1>4, OnlyTaskMoves

LEMMA ReceiveWebhookInv ==
  ASSUME IInv, NEW r \in Task, NEW o \in Order, NEW e \in ProviderEvent,
         ReceiveWebhook(r, o, e)
  PROVE  IInv' /\ Keeps
<1>1. /\ e \in issued[o] /\ ref[o] = "own" /\ ref[o] # Null /\ status[o] # Absent
      /\ Begin(r, "mark", o, Target(o, e), e, ref[o])
      /\ UNCHANGED <<order, linked, row, books, failures, faults, history>>
  BY PaymentsAssumption DEF ReceiveWebhook, CanTransition, Reference
<1>2. /\ Target(o, e) \in {"SUCCEEDED", "FAILED", "CANCELLED", "REFUNDED"}
      /\ Backed(o, Target(o, e))
  BY <1>1, TargetIsBacked
<1>3. token' \in {"none", "good", "stale"}
  BY TokenType DEF ReceiveWebhook
<1>4. QED
  BY <1>1, <1>2, <1>3, PaymentMethodStarts DEF Reference

\* A payment that has another one's reference is no longer PENDING: a webhook can only
\* find it refunded.
LEMMA ReceiveWebhookOfOtherInv ==
  ASSUME IInv, NEW r \in Task, NEW o \in Order, ReceiveWebhookOfOther(r, o)
  PROVE  IInv' /\ Keeps
<1>1. PICK e \in DOMAIN PayPalOutcome :
        /\ CanTransition(o, Target(o, e))
        /\ Begin(r, "mark", o, Target(o, e), Null, "other")
  BY DEF ReceiveWebhookOfOther
<1>2. RefOk(o) /\ ref[o] = "other"
  BY DEF IInv, OrderInv, OrderOk, ReceiveWebhookOfOther
<1>3. /\ status[o] \in PaymentStatus \ {"PENDING"} /\ status[o] # Absent
      /\ o \in elsewhere /\ provider[o] = "PAYPAL"
  BY <1>2 DEF RefOk, IInv, TypeOK
<1>4. Target(o, e) = "REFUNDED"
  BY <1>1, <1>3 DEF CanTransition, PaymentTransitions, PaymentStatus
<1>5. Backed(o, "REFUNDED")
  BY <1>3 DEF Backed
<1>6. token' \in {"none", "good", "stale"}
  BY TokenType DEF ReceiveWebhookOfOther
<1>7. UNCHANGED <<order, linked, row, books, failures, faults, history>>
  BY DEF ReceiveWebhookOfOther
<1>8. Begin(r, "mark", o, "REFUNDED", Null, "other")
  BY <1>1, <1>4
<1>9. QED
  BY <1>3, <1>5, <1>6, <1>7, <1>8, PaymentMethodStarts DEF Reference

\* A step that is about no payment and no task, apart from which calls were answered.
LEMMA OnlyServerMoves ==
  ASSUME IInv, UNCHANGED <<linked, row, charge, issued, intents, failures, task, elsewhere>>,
         order' \in [Order -> OrderStatus], HistoryTypes',
         unanswered' \in [Order -> SUBSET ProviderEvent],
         token' \in {"none", "good", "stale"}, faults' \in 0 .. MaxFaults
  PROVE  IInv' /\ Keeps
<1>1. OrderInv' /\ Keeps
  BY OrdersStay DEF IInv
<1>2. TaskInv' /\ OneIntent' /\ TaskTypes'
  BY <1>1, TasksStay DEF IInv
<1>3. TypeOK'
  BY <1>2 DEF IInv, TypeOK, TaskTypes, HistoryTypes, row
<1>4. QED
  BY <1>1, <1>2, <1>3 DEF IInv

LEMMA RefuseWebhookInv ==
  ASSUME IInv, NEW o \in Order, RefuseWebhook(o)
  PROVE  IInv' /\ Keeps
<1>1. token' \in {"none", "good", "stale"}
  BY TokenType DEF RefuseWebhook
<1>2. QED
  BY <1>1, HistoryStays, OnlyServerMoves DEF RefuseWebhook, books, IInv, TypeOK

LEMMA IgnoreWebhookInv ==
  ASSUME IInv, NEW o \in Order, NEW e \in ProviderEvent, IgnoreWebhook(o, e)
  PROVE  IInv' /\ Keeps
<1>1. token' \in {"none", "good", "stale"}
  BY TokenType DEF IgnoreWebhook
<1>2. unanswered' \in [Order -> SUBSET ProviderEvent]
  BY DEF IgnoreWebhook, IInv, TypeOK
<1>3. QED
  BY <1>1, <1>2, HistoryStays, OnlyServerMoves DEF IgnoreWebhook, IInv, TypeOK

LEMMA StartConfirmInv ==
  ASSUME IInv, NEW r \in Task, NEW o \in Order, NEW asked \in Reference,
         StartConfirm(r, o, asked)
  PROVE  IInv' /\ Keeps
<1>1. token' \in {"none", "good", "stale"} /\ ref[o] \in Reference \cup {Null}
  BY DEF IInv, TypeOK, StartConfirm, server
<1>2. /\ status[o] # Absent /\ provider[o] = "PAYPAL"
      /\ UNCHANGED <<order, linked, row, books, failures, faults, history>>
  BY DEF StartConfirm, server, Absent
<1>3. CASE asked = "own"
  <2>1. Begin(r, "capture", o, "SUCCEEDED", Null, "own")
    BY <1>3, PaymentsAssumption DEF StartConfirm, Reference
  <2>2. QED
    BY <1>1, <1>2, <2>1, PaymentMethodStarts DEF Reference
<1>4. CASE asked # "own"
  <2>1. PICK g \in Reference \cup {Null} : Begin(r, "captureOther", o, "SUCCEEDED", Null, g)
    BY <1>1, <1>4 DEF StartConfirm
  <2>2. QED
    BY <1>1, <1>2, <2>1, PaymentMethodStarts
<1>5. QED
  BY <1>3, <1>4

LEMMA StartManualConfirmInv ==
  ASSUME IInv, NEW r \in Task, NEW o \in Order, StartManualConfirm(r, o)
  PROVE  IInv' /\ Keeps
<1>1. token' \in {"none", "good", "stale"} /\ Backed(o, "SUCCEEDED")
  BY DEF IInv, TypeOK, StartManualConfirm, server, Backed
<1>2. RefOk(o) /\ ref[o] \in Reference \cup {Null}
  BY DEF IInv, OrderInv, OrderOk, TypeOK
<1>3. PICK g \in {ref[o], "own"} : Begin(r, "mark", o, "SUCCEEDED", Null, g)
  BY DEF StartManualConfirm
<1>4. g \in Reference \cup {Null} /\ g # "other"
  BY <1>2, <1>3 DEF StartManualConfirm, RefOk, Reference
<1>5. QED
  BY <1>1, <1>3, <1>4, PaymentMethodStarts DEF StartManualConfirm, CanTransition, server

LEMMA StartRefundInv ==
  ASSUME IInv, NEW r \in Task, NEW o \in Order, StartRefund(r, o)
  PROVE  IInv' /\ Keeps
<1>1. token' \in {"none", "good", "stale"}
  BY DEF IInv, TypeOK, StartRefund, server
<1>2. QED
  BY <1>1, PaymentMethodStarts DEF StartRefund, CanTransition, server

-----------------------------------------------------------------------------
(* What the provider does, on its own or asked by confirm or refund.       *)

\* The charge of order o becomes c, and the events E are reported.
ChargeBecomes(o, c, E) ==
  /\ charge' = [charge EXCEPT ![o] = c]
  /\ issued' = [issued EXCEPT ![o] = @ \cup E]
  /\ UNCHANGED <<linked, row, intents, failures, elsewhere>>

\* A charge that moves on from where it is, and only reports what has happened.
Forward(o, c, E) ==
  /\ charge[o] # "none" /\ c # "none" /\ provider[o] # "MANUAL"
  /\ charge[o] \in WasCaptured => c \in WasCaptured
  /\ charge[o] \in WasGivenBack => c \in WasGivenBack
  /\ c = "pending" \/ "reversed" \in E => provider[o] = "PAYPAL"
  /\ c \in {"refunding", "refundFailed"} \/ "refundFailed" \in E => provider[o] = "PAWAPAY"
  /\ "captured" \in E => c \in WasCaptured
  /\ "refunded" \in E => c \in WasGivenBack

LEMMA ChargeMoves ==
  ASSUME IInv, NEW o \in Order, NEW c \in Charge, NEW E \in SUBSET ProviderEvent,
         ChargeBecomes(o, c, E), Forward(o, c, E)
  PROVE  /\ OrderInv' /\ Keeps
         /\ charge'[o] = c
         /\ charge' \in [Order -> Charge] /\ issued' \in [Order -> SUBSET ProviderEvent]
<1>1. /\ charge'[o] = c /\ issued'[o] = issued[o] \cup E
      /\ charge' \in [Order -> Charge] /\ issued' \in [Order -> SUBSET ProviderEvent]
      /\ \A p \in Order \ {o} : SameOrder(p)
  BY DEF ChargeBecomes, IInv, TypeOK, SameOrder, row
<1>2. UNCHANGED <<linked, status, provider, ref, intents, failures, elsewhere>>
  BY DEF ChargeBecomes, row
<1>3. OrderOk(o)
  BY DEF IInv, OrderInv
<1>4. status[o] # Absent /\ intents[o] # 0
  BY <1>3 DEF OrderOk, Forward
<1>5. BooksOk(o)' /\ RefOk(o)'
  BY <1>1, <1>2, <1>3 DEF OrderOk, BooksOk, RefOk, Forward
<1>6. Declined(o) => Declined(o)'
  BY <1>1, <1>2 DEF Declined
<1>7. provider'[o] \in {"STRIPE", "PAYPAL", "PAWAPAY"}
  BY <1>2, <1>3, <1>4, PaymentsAssumption DEF OrderOk, Forward
<1>8. OrderOk(o)'
  BY <1>1, <1>2, <1>3, <1>4, <1>5, <1>6, <1>7 DEF OrderOk, Forward
<1>9. Kept(o)
  BY <1>1, <1>2, <1>4 DEF Kept, Forward
<1>10. QED
  BY <1>1, <1>8, <1>9, OneOrderMoves DEF IInv

\* Nothing reported is a step of the provider as well.
LEMMA NothingReported ==
  ASSUME IInv, NEW o \in Order, NEW c \in Charge, UNCHANGED issued,
         charge' = [charge EXCEPT ![o] = c],
         UNCHANGED <<linked, row, intents, failures, elsewhere>>
  PROVE  ChargeBecomes(o, c, {})
<1>1. issued = [issued EXCEPT ![o] = @ \cup {}]
  BY DEF IInv, TypeOK
<1>2. QED
  BY <1>1 DEF ChargeBecomes

\* A step of the provider alone.
LEMMA OnlyChargeMoves ==
  ASSUME IInv, NEW o \in Order, NEW c \in Charge, NEW E \in SUBSET ProviderEvent,
         ChargeBecomes(o, c, E), Forward(o, c, E),
         UNCHANGED <<order, task, server>>, HistoryTypes',
         unanswered' \in [Order -> SUBSET ProviderEvent]
  PROVE  IInv' /\ Keeps
<1>1. /\ OrderInv' /\ Keeps
      /\ charge' \in [Order -> Charge] /\ issued' \in [Order -> SUBSET ProviderEvent]
  BY ChargeMoves
<1>2. TaskInv' /\ OneIntent' /\ TaskTypes'
  BY <1>1, TasksStay DEF IInv, ChargeBecomes
<1>3. TypeOK'
  BY <1>1, <1>2 DEF IInv, TypeOK, TaskTypes, HistoryTypes, ChargeBecomes, row, server
<1>4. QED
  BY <1>1, <1>2, <1>3 DEF IInv

LEMMA NotifyTypes ==
  ASSUME IInv, NEW o \in Order, NEW e \in ProviderEvent, Notify(o, e)
  PROVE  /\ issued' = [issued EXCEPT ![o] = @ \cup {e}]
         /\ unanswered' \in [Order -> SUBSET ProviderEvent]
BY DEF Notify, IInv, TypeOK

LEMMA ProviderCaptureInv ==
  ASSUME IInv, NEW o \in Order, ProviderCapture(o)
  PROVE  IInv' /\ Keeps
<1>1. ChargeBecomes(o, "captured", {"captured"}) /\ unanswered' \in [Order -> SUBSET ProviderEvent]
  BY NotifyTypes, HistoryStays DEF ProviderCapture, ChargeBecomes, ProviderEvent
<1>2. OrderOk(o)
  BY DEF IInv, OrderInv
<1>3. Forward(o, "captured", {"captured"})
  BY <1>2 DEF ProviderCapture, Collecting, Reachable, Forward, WasCaptured, WasGivenBack, OrderOk
<1>4. QED
  BY <1>1, <1>3, HistoryStays, OnlyChargeMoves DEF ProviderCapture, Charge, ProviderEvent

\* The confirm of another payment is to this one as a capture by the provider itself.
LEMMA CaptureForAnotherInv ==
  ASSUME IInv, NEW o \in Order, CaptureForAnother(o)
  PROVE  IInv' /\ Keeps
<1>1. HistoryTypes' /\ UNCHANGED elsewhere
  BY DEF CaptureForAnother, HistoryTypes, IInv, TypeOK
<1>2. /\ charge[o] = "open" /\ provider[o] = "PAYPAL"
      /\ UNCHANGED <<order, linked, row, intents, failures, task, server>>
  BY DEF CaptureForAnother, Reachable
<1>3. CASE charge' = [charge EXCEPT ![o] = "captured"] /\ Notify(o, "captured")
  <2>1. /\ ChargeBecomes(o, "captured", {"captured"})
        /\ unanswered' \in [Order -> SUBSET ProviderEvent]
    BY <1>1, <1>2, <1>3, NotifyTypes DEF ChargeBecomes, ProviderEvent
  <2>2. Forward(o, "captured", {"captured"})
    BY <1>2 DEF Forward, WasCaptured, WasGivenBack
  <2>3. QED
    BY <1>1, <1>2, <2>1, <2>2, OnlyChargeMoves DEF Charge, ProviderEvent
<1>4. CASE charge' = [charge EXCEPT ![o] = "pending"] /\ UNCHANGED <<issued, unanswered>>
  <2>1. ChargeBecomes(o, "pending", {}) /\ unanswered' \in [Order -> SUBSET ProviderEvent]
    BY <1>1, <1>2, <1>4, NothingReported DEF Charge, IInv, TypeOK
  <2>2. Forward(o, "pending", {})
    BY <1>2 DEF Forward, WasCaptured, WasGivenBack
  <2>3. QED
    BY <1>1, <1>2, <2>1, <2>2, OnlyChargeMoves DEF Charge
<1>5. QED
  BY <1>3, <1>4 DEF CaptureForAnother

LEMMA ProviderDeclineInv ==
  ASSUME IInv, NEW o \in Order, ProviderDecline(o)
  PROVE  IInv' /\ Keeps
<1>1. PICK c \in {charge[o], "declined"} : charge' = [charge EXCEPT ![o] = c]
  BY DEF ProviderDecline, IInv, TypeOK
<1>2. ChargeBecomes(o, c, {"declined"}) /\ unanswered' \in [Order -> SUBSET ProviderEvent]
  BY <1>1, NotifyTypes, HistoryStays DEF ProviderDecline, ChargeBecomes, ProviderEvent
<1>3. OrderOk(o) /\ charge[o] \in {"pending", "open"} /\ c \in Charge
  BY <1>1 DEF IInv, OrderInv, TypeOK, ProviderDecline, Collecting, Reachable, Charge
<1>4. provider[o] # "MANUAL"
  BY <1>3 DEF ProviderDecline, Collecting, Reachable, OrderOk
<1>5. Forward(o, c, {"declined"})
  BY <1>1, <1>3, <1>4 DEF Forward, WasCaptured, WasGivenBack, OrderOk
<1>6. QED
  BY <1>2, <1>3, <1>5, HistoryStays, OnlyChargeMoves DEF ProviderDecline, ProviderEvent

LEMMA ProviderVoidInv ==
  ASSUME IInv, NEW o \in Order, ProviderVoid(o)
  PROVE  IInv' /\ Keeps
<1>1. CASE Reachable(o) /\ charge' = [charge EXCEPT ![o] = "voided"] /\ Notify(o, "voided")
  <2>1. ChargeBecomes(o, "voided", {"voided"}) /\ unanswered' \in [Order -> SUBSET ProviderEvent]
    BY <1>1, NotifyTypes, HistoryStays DEF ProviderVoid, ChargeBecomes, ProviderEvent
  <2>2. Forward(o, "voided", {"voided"})
    BY <1>1 DEF Reachable, Forward, WasCaptured, WasGivenBack
  <2>3. QED
    BY <2>1, <2>2, HistoryStays, OnlyChargeMoves DEF ProviderVoid, Charge, ProviderEvent
<1>2. CASE /\ charge[o] = "captured" /\ provider[o] = "PAYPAL"
           /\ charge' = [charge EXCEPT ![o] = "reversed"] /\ Notify(o, "reversed")
  <2>1. /\ ChargeBecomes(o, "reversed", {"reversed"})
        /\ unanswered' \in [Order -> SUBSET ProviderEvent]
    BY <1>2, NotifyTypes, HistoryStays DEF ProviderVoid, ChargeBecomes, ProviderEvent
  <2>2. Forward(o, "reversed", {"reversed"})
    BY <1>2 DEF Forward, WasCaptured, WasGivenBack
  <2>3. QED
    BY <2>1, <2>2, HistoryStays, OnlyChargeMoves DEF ProviderVoid, Charge, ProviderEvent
<1>3. QED
  BY <1>1, <1>2 DEF ProviderVoid

LEMMA ProviderRefundInv ==
  ASSUME IInv, NEW o \in Order, ProviderRefund(o)
  PROVE  IInv' /\ Keeps
<1>1. CASE /\ Refundable(o) /\ provider[o] = "PAWAPAY"
           /\ charge' = [charge EXCEPT ![o] = "refunding"] /\ UNCHANGED <<issued, unanswered>>
  <2>1. ChargeBecomes(o, "refunding", {}) /\ unanswered' \in [Order -> SUBSET ProviderEvent]
    BY <1>1, NothingReported, HistoryStays DEF ProviderRefund, Charge, IInv, TypeOK
  <2>2. Forward(o, "refunding", {})
    BY <1>1 DEF Refundable, Forward, WasCaptured, WasGivenBack
  <2>3. QED
    BY <2>1, <2>2, HistoryStays, OnlyChargeMoves DEF ProviderRefund, Charge
<1>2. CASE /\ charge[o] = "refunding" \/ Refundable(o)
           /\ charge' = [charge EXCEPT ![o] = "refunded"] /\ Notify(o, "refunded")
  <2>1. /\ ChargeBecomes(o, "refunded", {"refunded"})
        /\ unanswered' \in [Order -> SUBSET ProviderEvent]
    BY <1>2, NotifyTypes, HistoryStays DEF ProviderRefund, ChargeBecomes, ProviderEvent
  <2>2. Forward(o, "refunded", {"refunded"})
    BY <1>2 DEF ProviderRefund, Refundable, Forward, WasCaptured, WasGivenBack
  <2>3. QED
    BY <2>1, <2>2, HistoryStays, OnlyChargeMoves DEF ProviderRefund, Charge, ProviderEvent
<1>3. QED
  BY <1>1, <1>2 DEF ProviderRefund

LEMMA ProviderRefundFailsInv ==
  ASSUME IInv, NEW o \in Order, ProviderRefundFails(o)
  PROVE  IInv' /\ Keeps
<1>1. PICK e \in {"refundFailed", "voided"} : Notify(o, e)
  BY DEF ProviderRefundFails
<1>2. ChargeBecomes(o, "refundFailed", {e}) /\ unanswered' \in [Order -> SUBSET ProviderEvent]
  BY <1>1, NotifyTypes, HistoryStays DEF ProviderRefundFails, ChargeBecomes, ProviderEvent
<1>3. OrderOk(o)
  BY DEF IInv, OrderInv
<1>4. Forward(o, "refundFailed", {e})
  BY <1>1, <1>3 DEF ProviderRefundFails, Forward, WasCaptured, WasGivenBack, OrderOk
<1>5. QED
  BY <1>1, <1>2, <1>4, HistoryStays, OnlyChargeMoves DEF ProviderRefundFails, Charge, ProviderEvent

\* A call to the provider that moves the charge on, and returns or throws.
LEMMA CallMovesCharge ==
  ASSUME IInv, NEW r \in Task, NEW o \in Order, o = subject[r],
         NEW c \in Charge, NEW E \in SUBSET ProviderEvent,
         ChargeBecomes(o, c, E), Forward(o, c, E),
         Goto(r, "mark") \/ End(r), pc[r] \in {"capture", "refund"}, given[r] # "other",
         goal[r] = "SUCCEEDED" => c \in WasCaptured, goal[r] = "REFUNDED" => c \in WasGivenBack,
         UNCHANGED <<order, faults>>, HistoryTypes',
         unanswered' \in [Order -> SUBSET ProviderEvent],
         token' \in {"none", "good", "stale"}
  PROVE  IInv' /\ Keeps
<1>1. /\ OrderInv' /\ Keeps /\ charge'[o] = c
      /\ charge' \in [Order -> Charge] /\ issued' \in [Order -> SUBSET ProviderEvent]
  BY ChargeMoves
<1>2. UNCHANGED <<linked, row, intents, failures, elsewhere>>
  BY DEF ChargeBecomes
<1>3. /\ pc'[r] \in {"idle", "mark"} /\ TaskOk(r)'
      /\ \A u \in Task \ {r} : SameTask(u)
      /\ TaskTypes'
  <2>1. CASE End(r)
    BY <2>1, EndUpdates DEF IInv
  <2>2. CASE Goto(r, "mark")
    <3>1. /\ pc'[r] = "mark" /\ subject'[r] = o /\ goal'[r] = goal[r] /\ given'[r] = given[r]
          /\ \A u \in Task \ {r} : SameTask(u)
          /\ TaskTypes'
      BY <2>2, GotoUpdates DEF IInv
    <3>2. status[o] # Absent /\ goal[r] \in {"SUCCEEDED", "REFUNDED"}
      BY DEF IInv, TaskInv, TaskOk
    <3>3. Backed(o, goal[r])'
      BY <1>1, <3>1, <3>2 DEF Backed
    <3>4. TaskOk(r)'
      BY <1>2, <3>1, <3>2, <3>3 DEF TaskOk, GivenOk, row, Backed, Declined
    <3>5. QED
      BY <3>1, <3>4
  <2>3. QED
    BY <2>1, <2>2
<1>4. TaskInv' /\ OneIntent'
  BY <1>1, <1>2, <1>3, OneTaskMoves DEF IInv
<1>5. TypeOK'
  BY <1>1, <1>2, <1>3 DEF IInv, TypeOK, TaskTypes, HistoryTypes, row
<1>6. QED
  BY <1>1, <1>4, <1>5 DEF IInv

\* A call that throws and leaves the charge alone.
LEMMA CallThrows ==
  ASSUME IInv, NEW r \in Task, End(r),
         UNCHANGED <<order, linked, row, books, failures, faults, history>>,
         token' \in {"none", "good", "stale"}
  PROVE  IInv' /\ Keeps
<1>1. faults' \in 0 .. MaxFaults /\ order' \in [Order -> OrderStatus]
  BY DEF IInv, TypeOK
<1>2. HistoryTypes' /\ UNCHANGED elsewhere
  BY HistoryStays
<1>3. QED
  BY <1>1, <1>2, EndUpdates, OnlyTaskMoves DEF IInv

LEMMA CaptureInv ==
  ASSUME IInv, NEW r \in Task, Capture(r)
  PROVE  IInv' /\ Keeps
<1>1. PICK o \in Order : o = subject[r] /\ OrderOk(o)
  BY DEF IInv, TaskInv, TaskOk, OrderInv, Capture
<1>2. provider[o] = "PAYPAL" /\ goal[r] = "SUCCEEDED" /\ pc[r] = "capture" /\ given[r] # "other"
  BY <1>1 DEF IInv, TaskInv, TaskOk, GivenOk, Capture
<1>3. token' \in {"none", "good", "stale"}
  BY TokenType, <1>1 DEF Capture
<1>4. /\ UNCHANGED <<order, linked, row, intents, failures, faults, history, elsewhere>>
      /\ HistoryTypes'
  BY HistoryStays DEF Capture
<1>5. CASE /\ charge[o] = "open" /\ charge' = [charge EXCEPT ![o] = "captured"]
           /\ Notify(o, "captured") /\ (Goto(r, "mark") \/ End(r))
  <2>1. /\ ChargeBecomes(o, "captured", {"captured"})
        /\ unanswered' \in [Order -> SUBSET ProviderEvent]
    BY <1>4, <1>5, NotifyTypes DEF ChargeBecomes, ProviderEvent
  <2>2. Forward(o, "captured", {"captured"})
    BY <1>2, <1>5 DEF Forward, WasCaptured, WasGivenBack
  <2>3. "captured" \in WasCaptured /\ "captured" \in Charge /\ {"captured"} \in SUBSET ProviderEvent
    BY DEF WasCaptured, Charge, ProviderEvent
  <2>4. QED
    BY <1>1, <1>2, <1>3, <1>4, <1>5, <2>1, <2>2, <2>3, CallMovesCharge
<1>6. CASE /\ charge[o] = "open" /\ charge' = [charge EXCEPT ![o] = "pending"] /\ End(r)
           /\ UNCHANGED <<issued, unanswered>>
  <2>1. ChargeBecomes(o, "pending", {}) /\ unanswered' \in [Order -> SUBSET ProviderEvent]
    BY <1>4, <1>6, NothingReported DEF Charge, IInv, TypeOK
  <2>2. Forward(o, "pending", {})
    BY <1>2, <1>6 DEF Forward, WasCaptured, WasGivenBack
  <2>3. \A u \in Task \ {r} : SameTask(u)
    BY <1>6, EndUpdates DEF IInv
  <2>4. OrderInv' /\ Keeps /\ charge' \in [Order -> Charge]
    BY <2>1, <2>2, ChargeMoves DEF Charge
  <2>5. TaskInv' /\ OneIntent' /\ TaskTypes'
    BY <1>4, <1>6, <2>3, <2>4, EndUpdates, OneTaskMoves DEF IInv
  <2>6. TypeOK'
    BY <1>3, <1>4, <1>6, <2>4, <2>5 DEF IInv, TypeOK, TaskTypes, HistoryTypes, row
  <2>7. QED
    BY <2>4, <2>5, <2>6 DEF IInv
<1>7. CASE End(r) /\ UNCHANGED <<charge, issued, unanswered>>
  BY <1>3, <1>4, <1>7, CallThrows DEF books
<1>8. QED
  BY <1>1, <1>5, <1>6, <1>7 DEF Capture

\* The capture of another PayPal order is noted in the history.
LEMMA CaptureOtherInv ==
  ASSUME IInv, NEW r \in Task, CaptureOther(r)
  PROVE  IInv' /\ Keeps
<1>1. PICK o \in Order : o = subject[r] /\ OrderOk(o) /\ TaskOk(r)
  BY DEF IInv, TaskInv, TaskOk, OrderInv, CaptureOther
<1>2. /\ provider[o] = "PAYPAL" /\ goal[r] = "SUCCEEDED" /\ status[o] # Absent
      /\ UNCHANGED <<order, linked, row, books, failures, faults>>
      /\ UNCHANGED <<shared, reopened, lostEvents, halfLinked>>
  BY <1>1 DEF TaskOk, CaptureOther
<1>3. token' \in {"none", "good", "stale"}
  BY TokenType, <1>1 DEF CaptureOther
<1>4. CASE elsewhere' = elsewhere \cup {o} /\ Goto(r, "mark")
  <2>1. /\ pc'[r] = "mark" /\ subject'[r] = o /\ goal'[r] = "SUCCEEDED"
        /\ \A u \in Task \ {r} : SameTask(u)
        /\ TaskTypes'
    BY <1>1, <1>2, <1>4, GotoUpdates DEF IInv
  <2>2. OrderOk(o)' /\ Kept(o)
    BY <1>1, <1>2, <1>4 DEF OrderOk, BooksOk, RefOk, Declined, Kept, row, books
  <2>3. \A p \in Order \ {o} : SameOrder(p)
    BY <1>2, <1>4 DEF SameOrder, row, books
  <2>4. OrderInv' /\ Keeps
    BY <2>2, <2>3, OneOrderMoves DEF IInv
  <2>5. TaskOk(r)'
    BY <1>2, <1>4, <2>1 DEF TaskOk, GivenOk, Backed, row
  <2>6. TaskInv' /\ OneIntent'
    BY <1>2, <2>1, <2>4, <2>5, OneTaskMoves DEF IInv, books
  <2>7. TypeOK'
    BY <1>2, <1>3, <1>4, <2>1 DEF IInv, TypeOK, TaskTypes, row, books
  <2>8. QED
    BY <2>4, <2>6, <2>7 DEF IInv
<1>5. CASE End(r) /\ UNCHANGED elsewhere
  BY <1>2, <1>3, <1>5, CallThrows DEF history
<1>6. QED
  BY <1>1, <1>4, <1>5 DEF CaptureOther

LEMMA RefundCallInv ==
  ASSUME IInv, NEW r \in Task, NEW o \in Order, o = subject[r], pc[r] = "refund",
         NEW next \in {"refunding", "refunded"}, RefundCall(r, next), given[r] # "other",
         next = "refunding" => provider[o] = "PAWAPAY", provider[o] # "MANUAL",
         goal[r] = "REFUNDED",
         UNCHANGED <<order, linked, row, intents, failures, faults, history>>,
         token' \in {"none", "good", "stale"}
  PROVE  IInv' /\ Keeps
<1>0. HistoryTypes' /\ UNCHANGED elsewhere
  BY HistoryStays
<1>1. CASE /\ Refundable(o) /\ charge' = [charge EXCEPT ![o] = next]
           /\ IF next = "refunded" THEN Notify(o, "refunded") ELSE UNCHANGED <<issued, unanswered>>
           /\ Goto(r, "mark") \/ End(r)
  <2>1. /\ {} \in SUBSET ProviderEvent /\ {"refunded"} \in SUBSET ProviderEvent
        /\ next \in Charge /\ next \in WasGivenBack /\ next \in WasCaptured
    BY DEF ProviderEvent, Charge, WasGivenBack, WasCaptured
  <2>2. PICK E \in SUBSET ProviderEvent :
          /\ E = {} \/ (E = {"refunded"} /\ next = "refunded")
          /\ ChargeBecomes(o, next, E) /\ unanswered' \in [Order -> SUBSET ProviderEvent]
    <3>1. CASE next = "refunded"
      <4>1. /\ ChargeBecomes(o, next, {"refunded"})
            /\ unanswered' \in [Order -> SUBSET ProviderEvent]
        BY <1>0, <1>1, <3>1, NotifyTypes DEF ChargeBecomes, ProviderEvent
      <4>2. QED
        BY <2>1, <3>1, <4>1
    <3>2. CASE next = "refunding"
      <4>1. ChargeBecomes(o, next, {}) /\ unanswered' \in [Order -> SUBSET ProviderEvent]
        BY <1>0, <1>1, <2>1, <3>2, NothingReported DEF IInv, TypeOK
      <4>2. QED
        BY <2>1, <4>1
    <3>3. QED
      BY <3>1, <3>2
  <2>3. Forward(o, next, E)
    BY <1>1, <2>1, <2>2 DEF Refundable, Forward
  <2>4. QED
    BY <1>0, <1>1, <2>1, <2>2, <2>3, CallMovesCharge
<1>2. CASE End(r) /\ UNCHANGED <<charge, issued, unanswered>>
  BY <1>2, CallThrows DEF books
<1>3. QED
  BY <1>1, <1>2 DEF RefundCall

LEMMA CallRefundInv ==
  ASSUME IInv, NEW r \in Task, CallRefund(r)
  PROVE  IInv' /\ Keeps
<1>1. PICK o \in Order : o = subject[r] /\ TaskOk(r)
  BY DEF IInv, TaskInv, TaskOk, CallRefund
<1>2. /\ pc[r] = "refund" /\ goal[r] = "REFUNDED" /\ status[o] # Absent /\ given[r] # "other"
      /\ UNCHANGED <<order, linked, row, intents, failures, faults, history>>
  BY <1>1, PaymentsAssumption DEF TaskOk, GivenOk, CallRefund, Reference
<1>3. token \in {"none", "good", "stale"}
  BY DEF IInv, TypeOK
<1>4. CASE provider[o] = "MANUAL" /\ ManualRefund(r)
  <2>1. /\ pc'[r] = "mark" /\ subject'[r] = o /\ goal'[r] = "REFUNDED" /\ given'[r] = given[r]
        /\ \A u \in Task \ {r} : SameTask(u)
        /\ TaskTypes'
    BY <1>1, <1>2, <1>4, GotoUpdates DEF IInv, ManualRefund
  <2>2. TaskOk(r)'
    BY <1>2, <1>4, <2>1 DEF TaskOk, GivenOk, Backed, row
  <2>3. QED
    BY <1>2, <1>3, <1>4, <2>1, <2>2, HistoryStays, OnlyTaskMoves
    DEF ManualRefund, books, IInv, TypeOK
<1>5. CASE provider[o] = "STRIPE" /\ StripeRefund(r)
  BY <1>1, <1>2, <1>3, <1>5, RefundCallInv DEF StripeRefund
<1>6. CASE provider[o] = "PAWAPAY" /\ PawapayRefund(r)
  BY <1>1, <1>2, <1>3, <1>6, RefundCallInv DEF PawapayRefund
<1>7. CASE provider[o] = "PAYPAL" /\ PayPalRefund(r)
  BY <1>1, <1>2, <1>7, TokenType, CallThrows DEF PayPalRefund, books
<1>8. QED
  BY <1>1, <1>4, <1>5, <1>6, <1>7 DEF CallRefund

-----------------------------------------------------------------------------
(* What was decided is written: the payment, its order, the order's status.*)

LEMMA AnswerType ==
  ASSUME IInv, NEW r \in Task, Answer(r) \/ UNCHANGED unanswered
  PROVE  unanswered' \in [Order -> SUBSET ProviderEvent]
BY DEF Answer, IInv, TypeOK

LEMMA MarkInv ==
  ASSUME IInv, NEW r \in Task, Mark(r)
  PROVE  IInv' /\ Keeps
<1>1. PICK o \in Order : o = subject[r] /\ OrderOk(o) /\ TaskOk(r)
  BY DEF IInv, TaskInv, TaskOk, OrderInv, Mark
<1>2. /\ status[o] # Absent /\ Backed(o, goal[r])
      /\ goal[r] \in {"SUCCEEDED", "FAILED", "CANCELLED", "REFUNDED"}
  BY <1>1 DEF TaskOk, Mark
<1>3. /\ status' = [status EXCEPT ![o] = goal[r]]
      /\ failures' = [failures EXCEPT ![o] = IF goal[r] = "FAILED" THEN @ + 1 ELSE @]
      /\ \/ ref' = ref
         \/ /\ goal[r] = "SUCCEEDED" /\ given[r] # Null
            /\ ref' = [ref EXCEPT ![o] = given[r]]
      /\ UNCHANGED <<order, linked, provider, charge, issued, intents, token, faults, elsewhere>>
      /\ HistoryTypes'
  <2>1. /\ status' = [status EXCEPT ![o] = goal[r]]
        /\ failures' = [failures EXCEPT ![o] = IF goal[r] = "FAILED" THEN @ + 1 ELSE @]
        /\ UNCHANGED <<order, linked, provider, charge, issued, intents, token, faults, elsewhere>>
        /\ HistoryTypes'
    BY <1>1, HistoryStays DEF Mark, server
  <2>2. CASE goal[r] = "SUCCEEDED" /\ given[r] # Null
    <3>1. ref' = [ref EXCEPT ![o] = IF given[r] = Null THEN @ ELSE given[r]]
      BY <1>1, <2>2 DEF Mark
    <3>2. ref' = [ref EXCEPT ![o] = given[r]]
      BY <2>2, <3>1
    <3>3. QED
      BY <2>1, <2>2, <3>2
  <2>3. CASE goal[r] = "SUCCEEDED" /\ given[r] = Null
    <3>1. ref' = [ref EXCEPT ![o] = IF given[r] = Null THEN @ ELSE given[r]]
      BY <1>1, <2>3 DEF Mark
    <3>2. ref' = [ref EXCEPT ![o] = ref[o]]
      BY <2>3, <3>1
    <3>3. ref' = ref
      BY <3>2 DEF IInv, TypeOK
    <3>4. QED
      BY <2>1, <3>3
  <2>4. CASE goal[r] # "SUCCEEDED"
    BY <1>1, <2>1, <2>4 DEF Mark
  <2>5. QED
    BY <2>1, <2>2, <2>3, <2>4
<1>4. /\ status'[o] = goal[r]
      /\ ref'[o] = ref[o] \/ (ref'[o] = given[r] /\ given[r] # Null)
      /\ failures'[o] > 0 => failures[o] > 0 \/ goal[r] = "FAILED"
      /\ \A p \in Order \ {o} : SameOrder(p)
  BY <1>3 DEF IInv, TypeOK, SameOrder
<1>5. OrderOk(o)' /\ Kept(o)
  <2>1. BooksOk(o)'
    BY <1>1, <1>2, <1>3, <1>4 DEF OrderOk, BooksOk, Backed, WasCaptured, WasGivenBack
  <2>2. failures'[o] > 0 => Declined(o)'
    BY <1>1, <1>2, <1>3, <1>4 DEF OrderOk, Backed, Declined
  <2>3. status'[o] # Absent
    BY <1>2, <1>4 DEF Absent
  <2>4. RefOk(o)'
    BY <1>1, <1>2, <1>3, <1>4, <2>3 DEF OrderOk, RefOk, TaskOk, GivenOk, Mark
  <2>5. OrderOk(o)'
    BY <1>1, <1>2, <1>3, <2>1, <2>2, <2>3, <2>4 DEF OrderOk
  <2>6. Kept(o)
    BY <1>3, <1>4, <2>3 DEF Kept
  <2>7. QED
    BY <2>5, <2>6
<1>6. OrderInv' /\ Keeps
  BY <1>4, <1>5, OneOrderMoves DEF IInv
<1>7. /\ pc'[r] # "intent" /\ TaskOk(r)' /\ TaskTypes'
      /\ \A u \in Task \ {r} : SameTask(u)
  <2>1. CASE goal[r] = "SUCCEEDED"
    <3>1. /\ pc'[r] = "link" /\ subject'[r] = o /\ goal'[r] = "SUCCEEDED"
          /\ \A u \in Task \ {r} : SameTask(u)
          /\ TaskTypes'
      BY <1>1, <2>1, GotoUpdates DEF IInv, Mark
    <3>2. Backed(o, "SUCCEEDED")'
      BY <1>2, <1>3, <2>1 DEF Backed
    <3>3. TaskOk(r)'
      BY <1>4, <2>1, <3>1, <3>2 DEF TaskOk, GivenOk, Absent, Backed
    <3>4. QED
      BY <3>1, <3>3
  <2>2. CASE goal[r] # "SUCCEEDED"
    BY <2>2, EndUpdates DEF IInv, Mark
  <2>3. QED
    BY <2>1, <2>2
<1>8. TaskInv' /\ OneIntent'
  BY <1>3, <1>6, <1>7, OneTaskMoves DEF IInv
<1>9. unanswered' \in [Order -> SUBSET ProviderEvent]
  BY AnswerType DEF Mark
<1>10. TypeOK'
  <2>1. failures' \in [Order -> Nat]
    <3>1. failures \in [Order -> Nat]
      BY DEF IInv, TypeOK
    <3>2. failures' \in {failures, [failures EXCEPT ![o] = failures[o] + 1]}
      BY <1>3, <3>1
    <3>3. QED
      BY <3>1, <3>2
  <2>2. ref' \in [Order -> Reference \cup {Null}]
    BY <1>3 DEF IInv, TypeOK
  <2>3. status' \in [Order -> PaymentStatus \cup {Absent}]
    BY <1>2, <1>3 DEF IInv, TypeOK, PaymentStatus
  <2>4. UNCHANGED <<order, linked, provider, charge, issued, intents, token, faults>>
    BY <1>3
  <2>5. QED
    BY <1>3, <1>7, <1>9, <2>1, <2>2, <2>3, <2>4 DEF IInv, TypeOK, TaskTypes, HistoryTypes
<1>11. QED
  BY <1>6, <1>8, <1>10 DEF IInv

LEMMA LinkInv ==
  ASSUME IInv, NEW r \in Task, Link(r)
  PROVE  IInv' /\ Keeps
<1>1. PICK o \in Order : o = subject[r] /\ OrderOk(o) /\ TaskOk(r)
  BY DEF IInv, TaskInv, TaskOk, OrderInv, Link
<1>2. status[o] # Absent /\ Backed(o, "SUCCEEDED")
  BY <1>1 DEF TaskOk, Link
<1>3. /\ linked' = linked \cup {o} /\ End(r)
      /\ UNCHANGED <<order, status, provider, ref, charge, issued, intents>>
      /\ UNCHANGED <<failures, token, faults, elsewhere>> /\ HistoryTypes'
  BY <1>1, HistoryStays DEF Link, row, server
<1>4. OrderOk(o)' /\ Kept(o)
  BY <1>1, <1>2, <1>3 DEF OrderOk, BooksOk, RefOk, Backed, Declined, Kept
<1>5. \A p \in Order \ {o} : SameOrder(p)
  BY <1>3 DEF SameOrder
<1>6. OrderInv' /\ Keeps
  BY <1>4, <1>5, OneOrderMoves DEF IInv
<1>7. /\ pc'[r] = "idle" /\ TaskOk(r)'
      /\ \A u \in Task \ {r} : SameTask(u)
      /\ TaskTypes'
  BY <1>3, EndUpdates DEF IInv
<1>8. TaskInv' /\ OneIntent'
  BY <1>3, <1>6, <1>7, OneTaskMoves DEF IInv
<1>9. unanswered' \in [Order -> SUBSET ProviderEvent]
  BY AnswerType DEF Link
<1>10. TypeOK'
  BY <1>3, <1>7, <1>9 DEF IInv, TypeOK, TaskTypes, HistoryTypes
<1>11. QED
  BY <1>6, <1>8, <1>10 DEF IInv

LEMMA ListenInv ==
  ASSUME IInv, NEW t \in Task, NEW o \in Order, Listen(t, o)
  PROVE  IInv' /\ Keeps
<1>1. /\ failures[o] > 0 /\ failures' = [failures EXCEPT ![o] = @ - 1]
      /\ UNCHANGED <<order, linked, status, provider, ref, charge, issued, unanswered>>
      /\ UNCHANGED <<intents, token, faults, elsewhere>> /\ HistoryTypes'
  BY HistoryStays DEF Listen, row, books, server
<1>2. OrderOk(o) /\ Declined(o)
  BY <1>1 DEF IInv, OrderInv, OrderOk
<1>3. OrderOk(o)' /\ Kept(o)
  BY <1>1, <1>2 DEF OrderOk, BooksOk, RefOk, Declined, Kept
<1>4. \A p \in Order \ {o} : SameOrder(p)
  BY <1>1 DEF SameOrder, IInv, TypeOK
<1>5. OrderInv' /\ Keeps
  BY <1>3, <1>4, OneOrderMoves DEF IInv
<1>6. TaskInv' /\ OneIntent' /\ TaskTypes'
  <2>1. CASE Begin(t, "autoCancel", o, Null, Null, Null)
    <3>1. /\ pc'[t] = "autoCancel" /\ subject'[t] = o
          /\ \A u \in Task \ {t} : SameTask(u)
          /\ TaskTypes'
      BY <2>1, BeginUpdates DEF IInv
    <3>2. TaskOk(t)'
      BY <1>1, <1>2, <3>1 DEF TaskOk, GivenOk, Declined
    <3>3. QED
      BY <1>1, <1>5, <3>1, <3>2, OneTaskMoves DEF IInv
  <2>2. CASE UNCHANGED task
    BY <1>1, <1>5, <2>2, TasksStay DEF IInv
  <2>3. QED
    BY <2>1, <2>2 DEF Listen
<1>7. failures' \in [Order -> Nat]
  BY <1>1 DEF IInv, TypeOK
<1>8. TypeOK'
  BY <1>1, <1>6, <1>7 DEF IInv, TypeOK, TaskTypes, HistoryTypes
<1>9. QED
  BY <1>5, <1>6, <1>8 DEF IInv

LEMMA AutoCancelInv ==
  ASSUME IInv, NEW t \in Task, AutoCancel(t)
  PROVE  IInv' /\ Keeps
<1>1. End(t) /\ UNCHANGED <<linked, row, books, failures, token, faults, history>>
  BY DEF AutoCancel, server
<1>2. order' \in [Order -> OrderStatus]
  BY DEF AutoCancel, IInv, TypeOK, OrderStatus
<1>3. QED
  BY <1>1, <1>2, HistoryStays, EndUpdates, OnlyTaskMoves DEF IInv, TypeOK

-----------------------------------------------------------------------------
(* Orders, tokens and faults.                                              *)

LEMMA StartMoveInv ==
  ASSUME IInv, NEW r \in Task, NEW o \in Order, NEW to \in Moves, StartMove(r, o, to)
  PROVE  IInv' /\ Keeps
<1>1. to \in OrderStatus
  BY PaymentsAssumption DEF OrderStatus
<1>2. Begin(r, "move", o, to, Null, Null)
  BY DEF StartMove
<1>3. /\ pc'[r] = "move" /\ goal'[r] = to /\ subject'[r] = o
      /\ \A u \in Task \ {r} : SameTask(u)
      /\ TaskTypes'
  BY <1>1, <1>2, BeginUpdates DEF IInv
<1>4. TaskOk(r)'
  BY <1>1, <1>3 DEF TaskOk, GivenOk
<1>5. QED
  BY <1>3, <1>4, HistoryStays, OnlyTaskMoves DEF StartMove, server, IInv, TypeOK

LEMMA CommitMoveInv ==
  ASSUME IInv, NEW r \in Task, CommitMove(r)
  PROVE  IInv' /\ Keeps
<1>1. PICK o \in Order : o = subject[r] /\ goal[r] \in OrderStatus
  BY DEF IInv, TaskInv, TaskOk, CommitMove
<1>2. End(r) /\ UNCHANGED <<linked, row, books, failures, token, faults, elsewhere>>
  BY DEF CommitMove, server
<1>3. order' \in [Order -> OrderStatus] /\ HistoryTypes'
  BY <1>1 DEF CommitMove, IInv, TypeOK, HistoryTypes
<1>4. QED
  BY <1>2, <1>3, EndUpdates, OnlyTaskMoves DEF IInv, TypeOK

LEMMA TokenLostInv ==
  ASSUME IInv, RevokeToken \/ ExpireToken
  PROVE  IInv' /\ Keeps
<1>1. faults' \in 0 .. MaxFaults /\ token' \in {"none", "stale"}
  BY PaymentsAssumption DEF RevokeToken, ExpireToken, IInv, TypeOK
<1>2. UNCHANGED <<order, linked, row, books, failures, task, history>>
  BY DEF RevokeToken, ExpireToken
<1>3. QED
  BY <1>1, <1>2, HistoryStays, OnlyServerMoves DEF books, IInv, TypeOK

\* What a task that stops loses is an order's.
LEMMA LossTypes ==
  ASSUME IInv, NEW t \in Task
  PROVE  LosesCancellation(t) \subseteq Order /\ LosesLink(t) \subseteq Order
BY DEF IInv, TaskInv, TaskOk, LosesCancellation, LosesLink

\* A crash forgets what was decided and not written; nothing relies on it.
LEMMA CrashInv ==
  ASSUME IInv, Crash
  PROVE  IInv' /\ Keeps
<1>1. /\ UNCHANGED <<order, linked, status, provider, ref, charge, issued, unanswered, intents>>
      /\ failures' = [o \in Order |-> 0] /\ UNCHANGED <<elsewhere, shared, reopened>>
  BY DEF Crash, row, books
<1>2. OrderInv' /\ Keeps
  <2> SUFFICES ASSUME NEW o \in Order PROVE OrderOk(o)' /\ Kept(o)
    BY DEF OrderInv, Keeps
  <2>1. OrderOk(o)
    BY DEF IInv, OrderInv
  <2>2. QED
    BY <1>1, <2>1 DEF OrderOk, BooksOk, RefOk, Declined, Kept
<1>3. TaskInv' /\ OneIntent'
  BY DEF Crash, TaskInv, TaskOk, GivenOk, OneIntent
<1>4. TaskTypes' /\ token' = "none" /\ faults' \in 0 .. MaxFaults
  BY PaymentsAssumption DEF Crash, TaskTypes, IInv, TypeOK
<1>5. HistoryTypes'
  BY <1>1, LossTypes DEF Crash, HistoryTypes, IInv, TypeOK
<1>6. TypeOK'
  BY <1>1, <1>4, <1>5 DEF IInv, TypeOK, TaskTypes, HistoryTypes
<1>7. QED
  BY <1>2, <1>3, <1>6 DEF IInv

LEMMA ThrowInv ==
  ASSUME IInv, NEW t \in Task, Throw(t)
  PROVE  IInv' /\ Keeps
<1>1. faults' \in 0 .. MaxFaults
  BY PaymentsAssumption DEF Throw, IInv, TypeOK
<1>2. HistoryTypes' /\ UNCHANGED elsewhere
  BY LossTypes DEF Throw, HistoryTypes, IInv, TypeOK
<1>3. QED
  BY <1>1, <1>2, EndUpdates, OnlyTaskMoves DEF Throw, IInv, TypeOK

-----------------------------------------------------------------------------

LEMMA NextInv == IInv /\ [Next]_vars => IInv' /\ Keeps
<1> SUFFICES ASSUME IInv, [Next]_vars PROVE IInv' /\ Keeps
  OBVIOUS
<1>1. CASE BuyerStep
  BY <1>1, StartPaymentInv, StartConfirmInv DEF BuyerStep, Task
<1>2. CASE AdminStep
  BY <1>2, StartManualConfirmInv, StartRefundInv DEF AdminStep, Task
<1>3. CASE \E t \in Task : Continue(t)
  BY <1>3, InsertPaymentInv, CreateIntentInv, StoreRefInv, FailIntentInv, CaptureInv,
     CaptureOtherInv, CallRefundInv, MarkInv, LinkInv, AutoCancelInv, CommitMoveInv
     DEF Continue
<1>4. CASE \E o \in Order, e \in ProviderEvent : WebhookStep(o, e)
  BY <1>4, IgnoreWebhookInv, ReceiveWebhookInv DEF WebhookStep, Task
<1>5. CASE \E o \in Order : RefuseWebhook(o)
  BY <1>5, RefuseWebhookInv
<1>5a. CASE \E r \in Request, o \in Order : ReceiveWebhookOfOther(r, o)
  BY <1>5a, ReceiveWebhookOfOtherInv DEF Task
<1>6. CASE \E t \in Listener, o \in Order : Listen(t, o)
  BY <1>6, ListenInv DEF Task
<1>7. CASE ProviderStep
  BY <1>7, ProviderCaptureInv, CaptureForAnotherInv, ProviderDeclineInv, ProviderVoidInv,
     ProviderRefundInv, ProviderRefundFailsInv DEF ProviderStep
<1>8. CASE RevokeToken \/ ExpireToken
  BY <1>8, TokenLostInv
<1>9. CASE OrderStep
  BY <1>9, StartMoveInv DEF OrderStep, Task
<1>10. CASE Crash \/ \E t \in Task : Throw(t)
  BY <1>10, CrashInv, ThrowInv
<1>11. CASE UNCHANGED vars
  BY <1>11, HistoryStays, OnlyServerMoves DEF vars, books, server, IInv, TypeOK
<1>12. QED
  BY <1>1, <1>2, <1>3, <1>4, <1>5, <1>5a, <1>6, <1>7, <1>8, <1>9, <1>10, <1>11 DEF Next

\* What every request, listener and call in flight relies on between two of its steps
\* holds whatever the others do meanwhile.
THEOREM Invariance == Spec => []IInv
BY InitInv, NextInv, PTL DEF Spec

\* The types of the rows, of the provider's books and of what each task remembers.
THEOREM TypeCorrect == Spec => []TypeOK
<1>1. IInv => TypeOK
  BY DEF IInv
<1>2. QED
  BY <1>1, Invariance, PTL

\* Whatever webhooks, confirm, refund and crashes do at once, a payment the books call
\* SUCCEEDED or REFUNDED, and one linked to its order, was captured by its provider, and
\* a REFUNDED one given back (or promised to be), unless its confirm captured another
\* PayPal order.
THEOREM BooksAreRight == Spec => []BooksMatchProvider
<1>1. IInv => BooksMatchProvider
  BY DEF IInv, OrderInv, OrderOk, BooksOk, BooksMatchProvider, WasCaptured, WasGivenBack
<1>2. QED
  BY <1>1, Invariance, PTL

\* The provider is asked to charge for an order at most once.
THEOREM OneCharge == Spec => []ChargedOnce
<1>1. IInv => ChargedOnce
  BY DEF IInv, OrderInv, OrderOk, ChargedOnce
<1>2. QED
  BY <1>1, Invariance, PTL

\* An order is only ever cancelled by the system after its provider reported a decline or
\* a failed refund about a charge whose reference is stored here.
THEOREM CancelsAreJustified == Spec => []AutoCancelJustified
<1>1. IInv => AutoCancelJustified
  BY DEF IInv, OrderInv, OrderOk, TaskInv, TaskOk, Declined, AutoCancelJustified
<1>2. QED
  BY <1>1, Invariance, PTL

\* No step, a crash included, takes back what another one may have read before an await:
\* a payment stays inserted with its provider and with a reference, an event stays
\* reported, a captured charge stays one that was captured, a refund promised stays promised.
THEOREM NothingIsTakenBack == Spec => [][Keeps]_vars
<1>1. IInv /\ [Next]_vars => [Keeps]_vars
  BY NextInv
<1>2. QED
  BY <1>1, Invariance, PTL DEF Spec

-----------------------------------------------------------------------------
(* What follows a mark.  A payment that FAILED has its cancellation under  *)
(* way and one that SUCCEEDED its link, because whatever marks it comes    *)
(* after createForOrder has stored the reference: no mark fails a payment  *)
(* whose reference may still arrive.                                       *)

Intending == {"intent", "store", "intentFailed"}

\* No createForOrder is at work on o between its insert and its answer.
Answered(o) == \A t \in Task : pc[t] \in Intending => subject[t] # o

\* Task t knows the reference of its payment, or is going to fail it.
Informed(t) ==
  \/ pc[t] \in {"capture", "captureOther", "mark"} /\ given[t] = "own"
  \/ pc[t] = "mark" /\ goal[t] = "FAILED"

AnsweredInv ==
  \A o \in Order :
    /\ status[o] = Absent => ref[o] = Null
    /\ provider[o] # "MANUAL" /\ (ref[o] = "own" \/ status[o] = "FAILED") => Answered(o)

InformedInv ==
  \A t \in Task : Informed(t) /\ provider[subject[t]] # "MANUAL" => Answered(subject[t])

OneIntends ==
  \A t, u \in Task :
    pc[t] \in Intending /\ pc[u] \in Intending /\ subject[t] = subject[u] => t = u

FollowUpInv ==
  AnsweredInv /\ InformedInv /\ OneIntends /\ FailedIsBeingCancelled /\ SucceededIsBeingLinked

\* Only the insert of a payment brings a task to Intending.
GoesOn(r) ==
  pc'[r] \in Intending =>
    /\ subject'[r] = subject[r]
    /\ pc[r] \in Intending \/ (subject[r] \in Order /\ status[subject[r]] = Absent)

LEMMA InitFollows == Init => FollowUpInv
BY PaymentsAssumption
   DEF Init, FollowUpInv, AnsweredInv, InformedInv, OneIntends, Answered, Intending, Informed,
       FailedIsBeingCancelled, SucceededIsBeingLinked, Absent, Reference

\* Once createForOrder has answered it is not at work again.
LEMMA AnsweredStays ==
  ASSUME IInv, OneIntends, NEW r \in Task, \A u \in Task \ {r} : SameTask(u), GoesOn(r)
  PROVE  /\ OneIntends'
         /\ \A o \in Order : status[o] # Absent /\ Answered(o) => Answered(o)'
<1>1. \A u \in Task : pc[u] \in Intending => subject[u] \in Order /\ status[subject[u]] # Absent
  BY DEF IInv, TaskInv, TaskOk, Intending
<1>2. OneIntends'
  BY <1>1 DEF OneIntends, SameTask, GoesOn
<1>3. \A o \in Order : status[o] # Absent /\ Answered(o) => Answered(o)'
  BY DEF Answered, SameTask, GoesOn
<1>4. QED
  BY <1>2, <1>3

\* The other tasks are still informed, whatever task r does.
LEMMA OthersInformed ==
  ASSUME IInv, FollowUpInv, Keeps, NEW r \in Task, \A u \in Task \ {r} : SameTask(u), GoesOn(r),
         NEW u \in Task \ {r}, Informed(u)', provider'[subject'[u]] # "MANUAL"
  PROVE  Answered(subject[u])' /\ subject'[u] = subject[u]
<1>1. Informed(u) /\ subject'[u] = subject[u]
  BY DEF Informed, SameTask
<1>2. subject[u] \in Order /\ status[subject[u]] # Absent
  BY <1>1 DEF IInv, TaskInv, TaskOk, Informed
<1>3. provider[subject[u]] # "MANUAL"
  BY <1>1, <1>2 DEF Keeps, Kept
<1>4. Answered(subject[u])
  BY <1>1, <1>3 DEF FollowUpInv, InformedInv
<1>5. Answered(subject[u])'
  BY <1>1, <1>2, <1>4, AnsweredStays DEF FollowUpInv, Answered
<1>6. QED
  BY <1>1, <1>5

\* A step of no task, nor about the rows.
LEMMA NothingFollows ==
  ASSUME FollowUpInv,
         UNCHANGED <<order, linked, row, failures, task, reopened, lostEvents, halfLinked>>
  PROVE  FollowUpInv'
BY DEF FollowUpInv, AnsweredInv, InformedInv, OneIntends, Answered, Informed,
       FailedIsBeingCancelled, SucceededIsBeingLinked, CancellationUndone, row, task

\* A step of one task that neither marks nor follows up a mark.
LEMMA OnlyTaskFollows ==
  ASSUME IInv, FollowUpInv, Keeps, NEW r \in Task, \A u \in Task \ {r} : SameTask(u), GoesOn(r),
         UNCHANGED <<order, linked, row, failures, reopened, lostEvents, halfLinked>>,
         pc[r] \notin {"link", "autoCancel"},
         Informed(r)' /\ provider[subject'[r]] # "MANUAL" =>
           subject'[r] \in Order /\ status[subject'[r]] # Absent /\ Answered(subject'[r])
  PROVE  FollowUpInv'
<1>1. OneIntends' /\ \A o \in Order : status[o] # Absent /\ Answered(o) => Answered(o)'
  BY AnsweredStays DEF FollowUpInv
<1>2. AnsweredInv'
  <2>1. ASSUME NEW o \in Order, provider'[o] # "MANUAL", ref'[o] = "own" \/ status'[o] = "FAILED"
        PROVE  Answered(o)'
    <3>1. Answered(o) /\ status[o] # Absent
      BY <2>1, PaymentsAssumption DEF FollowUpInv, AnsweredInv, row, Absent, Reference
    <3>2. QED
      BY <1>1, <3>1
  <2>2. QED
    BY <2>1 DEF FollowUpInv, AnsweredInv, row
<1>3. InformedInv'
  <2> SUFFICES ASSUME NEW u \in Task, Informed(u)', provider'[subject'[u]] # "MANUAL"
               PROVE  Answered(subject[u])'
    BY DEF InformedInv
  <2>1. CASE u = r
    <3>1. subject'[r] \in Order /\ status[subject'[r]] # Absent /\ Answered(subject'[r])
      BY <2>1 DEF row
    <3>2. QED
      BY <1>1, <2>1, <3>1 DEF Answered
  <2>2. CASE u # r
    BY <2>2, OthersInformed DEF Answered
  <2>3. QED
    BY <2>1, <2>2
<1>4. FailedIsBeingCancelled'
  BY DEF FollowUpInv, FailedIsBeingCancelled, CancellationUndone, SameTask, row
<1>5. SucceededIsBeingLinked'
  BY DEF FollowUpInv, SucceededIsBeingLinked, SameTask, row
<1>6. QED
  BY <1>1, <1>2, <1>3, <1>4, <1>5 DEF FollowUpInv

\* The steps of createForOrder, confirm, refund and the webhooks before they mark.
LEMMA StartsFollow ==
  ASSUME IInv, FollowUpInv, Keeps, NEW r \in Task, NEW o \in Order,
         NEW step, NEW aim, NEW e, NEW g, Begin(r, step, o, aim, e, g),
         step \in {"create", "capture", "captureOther", "refund", "mark", "move"},
         aim \in PaymentStatus \cup OrderStatus \cup {Null},
         e \in ProviderEvent \cup {Null}, g \in Reference \cup {Null},
         step \in {"capture", "captureOther", "mark"} =>
           /\ status[o] # Absent
           /\ provider[o] # "MANUAL" =>
                (g = "own" => ref[o] = "own") /\ (aim = "FAILED" => ref[o] = "own"),
         UNCHANGED <<order, linked, row, failures, history>>
  PROVE  FollowUpInv'
<1>1. /\ pc'[r] = step /\ subject'[r] = o /\ goal'[r] = aim /\ given'[r] = g
      /\ \A u \in Task \ {r} : SameTask(u)
  BY BeginUpdates DEF IInv
<1>2. pc[r] = "idle" /\ GoesOn(r)
  BY <1>1 DEF Begin, GoesOn, Intending
<1>3. Informed(r)' /\ provider[o] # "MANUAL" => status[o] # Absent /\ Answered(o)
  BY <1>1 DEF Informed, FollowUpInv, AnsweredInv
<1>4. QED
  BY <1>1, <1>2, <1>3, OnlyTaskFollows DEF history

LEMMA StartPaymentFollows ==
  ASSUME IInv, FollowUpInv, Keeps, NEW r \in Task, NEW o \in Order, StartPayment(r, o)
  PROVE  FollowUpInv'
BY StartsFollow DEF StartPayment

LEMMA StartConfirmFollows ==
  ASSUME IInv, FollowUpInv, Keeps, NEW r \in Task, NEW o \in Order, NEW asked \in Reference,
         StartConfirm(r, o, asked)
  PROVE  FollowUpInv'
<1>1. status[o] # Absent
  BY DEF StartConfirm, Absent
<1>2. ref[o] \in Reference \cup {Null}
  BY DEF IInv, TypeOK
<1>3. PICK g \in Reference \cup {Null}, step \in {"capture", "captureOther"} :
        Begin(r, step, o, "SUCCEEDED", Null, g) /\ (g = "own" => ref[o] = "own")
  BY <1>2 DEF StartConfirm
<1>4. QED
  BY <1>1, <1>3, StartsFollow DEF StartConfirm, PaymentStatus

LEMMA StartManualConfirmFollows ==
  ASSUME IInv, FollowUpInv, Keeps, NEW r \in Task, NEW o \in Order, StartManualConfirm(r, o)
  PROVE  FollowUpInv'
<1>1. ref[o] \in Reference \cup {Null}
  BY DEF IInv, TypeOK
<1>2. PICK g \in Reference \cup {Null} : Begin(r, "mark", o, "SUCCEEDED", Null, g)
  BY <1>1 DEF StartManualConfirm, Reference
<1>3. QED
  BY <1>2, StartsFollow DEF StartManualConfirm, CanTransition, PaymentStatus

LEMMA StartRefundFollows ==
  ASSUME IInv, FollowUpInv, Keeps, NEW r \in Task, NEW o \in Order, StartRefund(r, o)
  PROVE  FollowUpInv'
BY StartsFollow DEF StartRefund, PaymentStatus

LEMMA StartMoveFollows ==
  ASSUME IInv, FollowUpInv, Keeps, NEW r \in Task, NEW o \in Order, NEW to \in Moves,
         StartMove(r, o, to)
  PROVE  FollowUpInv'
BY PaymentsAssumption, StartsFollow DEF StartMove, OrderStatus

LEMMA ReceiveWebhookFollows ==
  ASSUME IInv, FollowUpInv, Keeps, NEW r \in Task, NEW o \in Order, NEW e \in ProviderEvent,
         ReceiveWebhook(r, o, e)
  PROVE  FollowUpInv'
<1>1. status[o] # Absent /\ ref[o] = "own" /\ Target(o, e) \in PaymentTransitions[status[o]]
  BY DEF ReceiveWebhook, CanTransition
<1>2. Target(o, e) \in PaymentStatus
  BY <1>1 DEF PaymentTransitions, PaymentStatus, IInv, TypeOK
<1>3. Begin(r, "mark", o, Target(o, e), e, "own")
  BY <1>1 DEF ReceiveWebhook
<1>4. QED
  BY <1>1, <1>2, <1>3, StartsFollow DEF ReceiveWebhook, Reference

\* A payment with another one's reference is not PENDING, so that no call fails it.
LEMMA ReceiveWebhookOfOtherFollows ==
  ASSUME IInv, FollowUpInv, Keeps, NEW r \in Task, NEW o \in Order, ReceiveWebhookOfOther(r, o)
  PROVE  FollowUpInv'
<1>1. PICK e \in DOMAIN PayPalOutcome :
        CanTransition(o, Target(o, e)) /\ Begin(r, "mark", o, Target(o, e), Null, "other")
  BY DEF ReceiveWebhookOfOther
<1>2. status[o] \in PaymentStatus \ {"PENDING"}
  BY <1>1 DEF ReceiveWebhookOfOther, CanTransition, IInv, TypeOK, OrderInv, OrderOk, RefOk
<1>3. Target(o, e) = "REFUNDED"
  BY <1>1, <1>2 DEF CanTransition, PaymentTransitions, PaymentStatus
<1>4. QED
  BY <1>1, <1>2, <1>3, StartsFollow
     DEF ReceiveWebhookOfOther, PaymentStatus, Reference, Absent

LEMMA CreateIntentFollows ==
  ASSUME IInv, FollowUpInv, Keeps, NEW r \in Task, CreateIntent(r)
  PROVE  FollowUpInv'
<1>0. Goto(r, "store") \/ Goto(r, "intentFailed")
  BY CreateIntentUpdates
<1>1. /\ pc[r] = "intent" /\ pc'[r] \in {"store", "intentFailed"} /\ subject'[r] = subject[r]
      /\ \A u \in Task \ {r} : SameTask(u)
  BY <1>0, GotoUpdates DEF CreateIntent, IInv
<1>2. GoesOn(r) /\ ~Informed(r)'
  BY <1>1 DEF GoesOn, Intending, Informed
<1>3. UNCHANGED <<order, linked, row, failures, reopened, lostEvents, halfLinked>>
  BY DEF CreateIntent, history
<1>4. QED
  BY <1>1, <1>2, <1>3, OnlyTaskFollows

LEMMA CapturesFollow ==
  ASSUME IInv, FollowUpInv, Keeps, NEW r \in Task, Capture(r) \/ CaptureOther(r)
  PROVE  FollowUpInv'
<1>1. pc[r] \in {"capture", "captureOther"}
  BY DEF Capture, CaptureOther
<1>2. Goto(r, "mark") \/ End(r)
  BY DEF Capture, CaptureOther
<1>3. UNCHANGED <<order, linked, row, failures, reopened, lostEvents, halfLinked>>
  BY DEF Capture, CaptureOther, history
<1>4. TaskOk(r) /\ (Informed(r) /\ provider[subject[r]] # "MANUAL" => Answered(subject[r]))
  BY DEF IInv, TaskInv, FollowUpInv, InformedInv
<1>5. CASE Goto(r, "mark")
  <2>1. /\ pc'[r] = "mark" /\ subject'[r] = subject[r] /\ goal'[r] = goal[r]
        /\ given'[r] = given[r] /\ \A u \in Task \ {r} : SameTask(u)
    BY <1>5, GotoUpdates DEF IInv
  <2>2. goal[r] = "SUCCEEDED" /\ subject[r] \in Order /\ status[subject[r]] # Absent
    BY <1>1, <1>4 DEF TaskOk
  <2>3. Informed(r)' => Informed(r)
    BY <1>1, <2>1, <2>2 DEF Informed
  <2>4. GoesOn(r)
    BY <2>1 DEF GoesOn, Intending
  <2>5. QED
    BY <1>1, <1>3, <1>4, <2>1, <2>2, <2>3, <2>4, OnlyTaskFollows
<1>6. CASE End(r)
  <2>1. pc'[r] = "idle" /\ \A u \in Task \ {r} : SameTask(u)
    BY <1>6, EndUpdates DEF IInv
  <2>2. GoesOn(r) /\ ~Informed(r)'
    BY <2>1 DEF GoesOn, Intending, Informed
  <2>3. QED
    BY <1>1, <1>3, <2>1, <2>2, OnlyTaskFollows
<1>7. QED
  BY <1>2, <1>5, <1>6

LEMMA CallRefundFollows ==
  ASSUME IInv, FollowUpInv, Keeps, NEW r \in Task, CallRefund(r)
  PROVE  FollowUpInv'
<1>1. pc[r] = "refund" /\ given[r] = Null /\ goal[r] = "REFUNDED"
  BY DEF CallRefund, IInv, TaskInv, TaskOk, GivenOk
<1>2. Goto(r, "mark") \/ End(r)
  BY DEF CallRefund, ManualRefund, StripeRefund, PayPalRefund, PawapayRefund, RefundCall
<1>3. ~Informed(r)' /\ GoesOn(r) /\ \A u \in Task \ {r} : SameTask(u)
  <2>1. CASE Goto(r, "mark")
    BY <1>1, <2>1, GotoUpdates, PaymentsAssumption
       DEF IInv, GoesOn, Intending, Informed, Reference
  <2>2. CASE End(r)
    BY <2>2, EndUpdates DEF IInv, GoesOn, Intending, Informed
  <2>3. QED
    BY <1>2, <2>1, <2>2
<1>4. QED
  BY <1>1, <1>3, OnlyTaskFollows DEF CallRefund, history

\* The insert: nobody is at work on a payment that did not exist, or knows of it.
LEMMA InsertPaymentFollows ==
  ASSUME IInv, FollowUpInv, Keeps, NEW r \in Task, InsertPayment(r)
  PROVE  FollowUpInv'
<1>1. PICK o \in Order : o = subject[r]
  BY DEF IInv, TaskInv, TaskOk, InsertPayment
<1>2. UNCHANGED <<order, linked, ref, failures, reopened, lostEvents, halfLinked>>
  BY DEF InsertPayment, history
<1>3. CASE status[o] = Absent
  <2>1. /\ pc[r] = "create" /\ pc'[r] = "intent" /\ subject'[r] = o
        /\ \A u \in Task \ {r} : SameTask(u)
    BY <1>1, <1>3, GotoUpdates DEF IInv, InsertPayment
  <2>2. status' = [status EXCEPT ![o] = "PENDING"] /\ \A p \in Order \ {o} : provider'[p] = provider[p]
    BY <1>1, <1>3 DEF InsertPayment, IInv, TypeOK
  <2>3. GoesOn(r)
    BY <1>1, <1>3, <2>1 DEF GoesOn
  <2>4. OneIntends' /\ \A p \in Order : status[p] # Absent /\ Answered(p) => Answered(p)'
    BY <2>1, <2>3, AnsweredStays DEF FollowUpInv
  <2>5. status'[o] = "PENDING" /\ ref[o] = Null
    BY <1>3, <2>2 DEF IInv, TypeOK, FollowUpInv, AnsweredInv
  <2>6. AnsweredInv'
    <3> SUFFICES ASSUME NEW p \in Order
                 PROVE  /\ status'[p] = Absent => ref'[p] = Null
                        /\ provider'[p] # "MANUAL" /\ (ref'[p] = "own" \/ status'[p] = "FAILED")
                             => Answered(p)'
      BY DEF AnsweredInv
    <3>1. CASE p = o
      BY <1>2, <2>5, <3>1, PaymentsAssumption DEF Absent, Reference
    <3>2. CASE p # o
      BY <1>2, <2>2, <2>4, <3>2, PaymentsAssumption
         DEF FollowUpInv, AnsweredInv, IInv, TypeOK, Absent, Reference
    <3>3. QED
      BY <3>1, <3>2
  <2>7. InformedInv'
    <3> SUFFICES ASSUME NEW u \in Task, Informed(u)', provider'[subject'[u]] # "MANUAL"
                 PROVE  Answered(subject[u])'
      BY DEF InformedInv
    <3>1. u # r
      BY <2>1 DEF Informed
    <3>2. QED
      BY <2>1, <2>3, <3>1, OthersInformed DEF Answered
  <2>8. FailedIsBeingCancelled'
    <3> SUFFICES ASSUME NEW p \in Order,
                        status'[p] = "FAILED", ref'[p] = "own", provider'[p] # "MANUAL"
                 PROVE  \/ order'[p] \in Closed \/ failures'[p] > 0
                        \/ \E t \in Task : pc'[t] = "autoCancel" /\ subject'[t] = p
                        \/ CancellationUndone(p)'
      BY DEF FailedIsBeingCancelled
    <3>1. p # o /\ status[p] = "FAILED" /\ ref[p] = "own" /\ provider[p] # "MANUAL"
      BY <1>2, <2>2, <2>5 DEF IInv, TypeOK
    <3>2. QED
      BY <1>2, <2>1, <3>1
         DEF FollowUpInv, FailedIsBeingCancelled, CancellationUndone, SameTask
  <2>9. SucceededIsBeingLinked'
    BY <1>2, <2>1, <2>2, <2>5
       DEF FollowUpInv, SucceededIsBeingLinked, SameTask, IInv, TypeOK
  <2>10. QED
    BY <2>4, <2>6, <2>7, <2>8, <2>9 DEF FollowUpInv
<1>4. CASE status[o] # Absent
  <2>1. End(r) /\ UNCHANGED row /\ pc[r] = "create"
    BY <1>1, <1>4 DEF InsertPayment, row
  <2>2. GoesOn(r) /\ ~Informed(r)' /\ \A u \in Task \ {r} : SameTask(u)
    BY <2>1, EndUpdates DEF IInv, GoesOn, Intending, Informed
  <2>3. QED
    BY <1>2, <2>1, <2>2, OnlyTaskFollows
<1>5. QED
  BY <1>3, <1>4

\* A task that ends leaves every other one informed.
LEMMA EndInforms ==
  ASSUME IInv, FollowUpInv, Keeps, NEW r \in Task, End(r)
  PROVE  /\ OneIntends' /\ InformedInv'
         /\ \A u \in Task \ {r} : SameTask(u)
         /\ \A o \in Order : status[o] # Absent /\ Answered(o) => Answered(o)'
<1>1. /\ pc'[r] = "idle" /\ GoesOn(r) /\ ~Informed(r)'
      /\ \A u \in Task \ {r} : SameTask(u)
  BY EndUpdates DEF IInv, GoesOn, Intending, Informed
<1>2. OneIntends' /\ \A o \in Order : status[o] # Absent /\ Answered(o) => Answered(o)'
  BY <1>1, AnsweredStays DEF FollowUpInv
<1>3. InformedInv'
  <2> SUFFICES ASSUME NEW u \in Task, Informed(u)', provider'[subject'[u]] # "MANUAL"
               PROVE  Answered(subject[u])'
    BY DEF InformedInv
  <2>1. u # r
    BY <1>1
  <2>2. QED
    BY <1>1, <2>1, OthersInformed DEF Answered
<1>4. QED
  BY <1>1, <1>2, <1>3

\* createForOrder ends, with its reference stored or the payment failed; nobody else had
\* failed it, or knew its reference.
LEMMA IntentEndFollows ==
  ASSUME IInv, FollowUpInv, Keeps, NEW r \in Task, NEW o \in Order, o = subject[r],
         pc[r] \in Intending, End(r),
         \A p \in Order \ {o} : status'[p] = status[p] /\ ref'[p] = ref[p],
         \/ status'[o] = "FAILED" /\ ref'[o] = ref[o]
         \/ ref'[o] = "own" /\ status'[o] = status[o],
         UNCHANGED <<order, linked, provider, failures, reopened, lostEvents, halfLinked>>
  PROVE  FollowUpInv'
<1>1. /\ OneIntends' /\ InformedInv' /\ \A u \in Task \ {r} : SameTask(u)
      /\ \A p \in Order : status[p] # Absent /\ Answered(p) => Answered(p)'
  BY EndInforms
<1>2. ~Answered(o) /\ status[o] # Absent
  BY DEF Answered, IInv, TaskInv, TaskOk, Intending
<1>3. Answered(o)'
  BY EndUpdates DEF IInv, Answered, FollowUpInv, OneIntends, SameTask, Intending
<1>4. provider[o] # "MANUAL" => ref[o] # "own" /\ status[o] # "FAILED"
  BY <1>2 DEF FollowUpInv, AnsweredInv
<1>5. AnsweredInv'
  <2> SUFFICES ASSUME NEW p \in Order
               PROVE  /\ status'[p] = Absent => ref'[p] = Null
                      /\ provider'[p] # "MANUAL" /\ (ref'[p] = "own" \/ status'[p] = "FAILED")
                           => Answered(p)'
    BY DEF AnsweredInv
  <2>1. CASE p = o
    BY <1>2, <1>3, <2>1 DEF Absent
  <2>2. CASE p # o
    BY <1>1, <2>2, PaymentsAssumption DEF FollowUpInv, AnsweredInv, Absent, Reference
  <2>3. QED
    BY <2>1, <2>2
<1>6. FailedIsBeingCancelled'
  <2> SUFFICES ASSUME NEW p \in Order,
                      status'[p] = "FAILED", ref'[p] = "own", provider'[p] # "MANUAL"
               PROVE  \/ order'[p] \in Closed \/ failures'[p] > 0
                      \/ \E t \in Task : pc'[t] = "autoCancel" /\ subject'[t] = p
                      \/ CancellationUndone(p)'
    BY DEF FailedIsBeingCancelled
  <2>1. p # o /\ status[p] = "FAILED" /\ ref[p] = "own"
    BY <1>4
  <2>2. QED
    BY <1>1, <2>1
       DEF FollowUpInv, FailedIsBeingCancelled, CancellationUndone, SameTask, Intending
<1>7. SucceededIsBeingLinked'
  <2>1. \A p \in Order : status'[p] = "SUCCEEDED" => status[p] = "SUCCEEDED"
    OBVIOUS
  <2>2. QED
    BY <1>1, <2>1 DEF FollowUpInv, SucceededIsBeingLinked, SameTask, Intending
<1>8. QED
  BY <1>1, <1>5, <1>6, <1>7 DEF FollowUpInv

LEMMA StoreRefFollows ==
  ASSUME IInv, FollowUpInv, Keeps, NEW r \in Task, StoreRef(r)
  PROVE  FollowUpInv'
<1>1. PICK o \in Order : o = subject[r]
  BY DEF IInv, TaskInv, TaskOk, StoreRef
<1>2. /\ pc[r] = "store" /\ UNCHANGED <<order, linked, status, provider, failures>>
      /\ UNCHANGED <<reopened, lostEvents, halfLinked>>
  BY DEF StoreRef, history
<1>3. CASE End(r) /\ ref' = [ref EXCEPT ![o] = "own"]
  BY <1>1, <1>2, <1>3, IntentEndFollows DEF Intending, IInv, TypeOK
<1>4. CASE Goto(r, "intentFailed") /\ UNCHANGED ref
  <2>1. GoesOn(r) /\ ~Informed(r)' /\ \A u \in Task \ {r} : SameTask(u)
    BY <1>2, <1>4, GotoUpdates DEF IInv, GoesOn, Intending, Informed
  <2>2. QED
    BY <1>2, <1>4, <2>1, OnlyTaskFollows DEF row
<1>5. QED
  BY <1>1, <1>3, <1>4 DEF StoreRef

LEMMA FailIntentFollows ==
  ASSUME IInv, FollowUpInv, Keeps, NEW r \in Task, FailIntent(r)
  PROVE  FollowUpInv'
<1>1. PICK o \in Order : o = subject[r]
  BY DEF IInv, TaskInv, TaskOk, FailIntent
<1>2. pc[r] \in Intending /\ End(r) /\ status' = [status EXCEPT ![o] = "FAILED"]
  BY <1>1 DEF FailIntent, Intending
<1>3. UNCHANGED <<order, linked, provider, ref, failures, reopened, lostEvents, halfLinked>>
  BY DEF FailIntent, history
<1>4. /\ status'[o] = "FAILED" /\ ref'[o] = ref[o]
      /\ \A p \in Order \ {o} : status'[p] = status[p] /\ ref'[p] = ref[p]
  BY <1>2, <1>3 DEF IInv, TypeOK
<1>5. UNCHANGED <<order, linked, provider, failures, reopened, lostEvents, halfLinked>>
  BY <1>3
<1>6. QED
  BY <1>1, <1>2, <1>4, <1>5, IntentEndFollows

LEMMA MarkFollows ==
  ASSUME IInv, FollowUpInv, Keeps, NEW r \in Task, Mark(r)
  PROVE  FollowUpInv'
<1>1. PICK o \in Order :
        /\ o = subject[r] /\ status[o] # Absent
        /\ goal[r] \in {"SUCCEEDED", "FAILED", "CANCELLED", "REFUNDED"}
  BY DEF IInv, TaskInv, TaskOk, Mark
<1>2. /\ pc[r] = "mark" /\ UNCHANGED <<order, linked, provider, reopened, lostEvents, halfLinked>>
      /\ status'[o] = goal[r] /\ \A p \in Order \ {o} : status'[p] = status[p]
      /\ failures'[o] = (IF goal[r] = "FAILED" THEN failures[o] + 1 ELSE failures[o])
      /\ \A p \in Order \ {o} : failures'[p] = failures[p]
  BY <1>1 DEF Mark, history, IInv, TypeOK
<1>3. /\ \A p \in Order \ {o} : ref'[p] = ref[p]
      /\ goal[r] # "SUCCEEDED" \/ given[r] = Null => ref'[o] = ref[o]
      /\ goal[r] = "SUCCEEDED" /\ given[r] # Null => ref'[o] = given[r]
  BY <1>1 DEF Mark, IInv, TypeOK
<1>4. /\ pc'[r] = (IF goal[r] = "SUCCEEDED" THEN "link" ELSE "idle")
      /\ goal[r] = "SUCCEEDED" => subject'[r] = o
      /\ \A u \in Task \ {r} : SameTask(u)
  BY <1>1, GotoUpdates, EndUpdates DEF Mark, IInv
<1>5. GoesOn(r) /\ ~Informed(r)'
  BY <1>4 DEF GoesOn, Intending, Informed
<1>6. OneIntends' /\ \A p \in Order : status[p] # Absent /\ Answered(p) => Answered(p)'
  BY <1>4, <1>5, AnsweredStays DEF FollowUpInv
<1>7. (goal[r] = "FAILED" \/ given[r] = "own") /\ provider[o] # "MANUAL" => Answered(o)
  BY <1>1, <1>2 DEF FollowUpInv, InformedInv, Informed
<1>8. AnsweredInv'
  <2> SUFFICES ASSUME NEW p \in Order
               PROVE  /\ status'[p] = Absent => ref'[p] = Null
                      /\ provider'[p] # "MANUAL" /\ (ref'[p] = "own" \/ status'[p] = "FAILED")
                           => Answered(p)'
    BY DEF AnsweredInv
  <2>1. CASE p = o
    <3>1. status'[o] # Absent
      BY <1>1, <1>2 DEF Absent
    <3>2. ASSUME provider[o] # "MANUAL", ref'[o] = "own" \/ status'[o] = "FAILED"
          PROVE  Answered(o)
      BY <1>2, <1>3, <1>7, <3>2 DEF FollowUpInv, AnsweredInv
    <3>3. QED
      BY <1>1, <1>2, <1>6, <2>1, <3>1, <3>2
  <2>2. CASE p # o
    BY <1>2, <1>3, <1>6, <2>2, PaymentsAssumption
       DEF FollowUpInv, AnsweredInv, Absent, Reference
  <2>3. QED
    BY <2>1, <2>2
<1>9. InformedInv'
  <2> SUFFICES ASSUME NEW u \in Task, Informed(u)', provider'[subject'[u]] # "MANUAL"
               PROVE  Answered(subject[u])'
    BY DEF InformedInv
  <2>1. u # r
    BY <1>5
  <2>2. QED
    BY <1>4, <1>5, <2>1, OthersInformed DEF Answered
<1>10. FailedIsBeingCancelled'
  <2> SUFFICES ASSUME NEW p \in Order,
                      status'[p] = "FAILED", ref'[p] = "own", provider'[p] # "MANUAL"
               PROVE  \/ order'[p] \in Closed \/ failures'[p] > 0
                      \/ \E t \in Task : pc'[t] = "autoCancel" /\ subject'[t] = p
                      \/ CancellationUndone(p)'
    BY DEF FailedIsBeingCancelled
  <2>1. CASE p = o
    BY <1>2, <2>1 DEF IInv, TypeOK
  <2>2. CASE p # o
    BY <1>2, <1>3, <1>4, <2>2
       DEF FollowUpInv, FailedIsBeingCancelled, CancellationUndone, SameTask
  <2>3. QED
    BY <2>1, <2>2
<1>11. SucceededIsBeingLinked'
  <2> SUFFICES ASSUME NEW p \in Order, status'[p] = "SUCCEEDED"
               PROVE  \/ p \in (linked \cup halfLinked)'
                      \/ \E t \in Task : pc'[t] = "link" /\ subject'[t] = p
    BY DEF SucceededIsBeingLinked
  <2>1. CASE p = o
    BY <1>2, <1>4, <2>1
  <2>2. CASE p # o
    BY <1>2, <1>4, <2>2 DEF FollowUpInv, SucceededIsBeingLinked, SameTask
  <2>3. QED
    BY <2>1, <2>2
<1>12. QED
  BY <1>6, <1>8, <1>9, <1>10, <1>11 DEF FollowUpInv

\* A task that ends and leaves the rows of payments as they are.
LEMMA EndFollows ==
  ASSUME IInv, FollowUpInv, Keeps, NEW r \in Task, End(r), UNCHANGED row,
         FailedIsBeingCancelled', SucceededIsBeingLinked'
  PROVE  FollowUpInv'
<1>1. /\ OneIntends' /\ InformedInv'
      /\ \A p \in Order : status[p] # Absent /\ Answered(p) => Answered(p)'
  BY EndInforms
<1>2. AnsweredInv'
  BY <1>1, PaymentsAssumption DEF FollowUpInv, AnsweredInv, row, Absent, Reference
<1>3. QED
  BY <1>1, <1>2 DEF FollowUpInv

LEMMA LinkFollows ==
  ASSUME IInv, FollowUpInv, Keeps, NEW r \in Task, Link(r)
  PROVE  FollowUpInv'
<1>1. /\ pc[r] = "link" /\ linked' = linked \cup {subject[r]} /\ End(r)
      /\ UNCHANGED <<order, row, status, provider, ref, failures, reopened, lostEvents, halfLinked>>
  BY DEF Link, row, history
<1>2. \A u \in Task \ {r} : SameTask(u)
  BY <1>1, EndUpdates DEF IInv
<1>3. FailedIsBeingCancelled'
  BY <1>1, <1>2 DEF FollowUpInv, FailedIsBeingCancelled, CancellationUndone, SameTask
<1>4. SucceededIsBeingLinked'
  BY <1>1, <1>2 DEF FollowUpInv, SucceededIsBeingLinked, SameTask
<1>5. QED
  BY <1>1, <1>3, <1>4, EndFollows

\* The listener takes up the event, or finds the order closed.
LEMMA ListenFollows ==
  ASSUME IInv, FollowUpInv, Keeps, NEW t \in Task, NEW o \in Order, Listen(t, o)
  PROVE  FollowUpInv'
<1>1. /\ pc[t] = "idle" /\ \A p \in Order \ {o} : failures'[p] = failures[p]
      /\ UNCHANGED <<order, linked, row, status, provider, ref, reopened, lostEvents, halfLinked>>
  BY DEF Listen, Begin, row, history, IInv, TypeOK
<1>2. /\ \A u \in Task \ {t} : SameTask(u)
      /\ order[o] \in Closed \/ (pc'[t] = "autoCancel" /\ subject'[t] = o)
      /\ pc'[t] \in {"idle", "autoCancel"}
  <2>1. CASE order[o] \notin Closed
    <3>1. Begin(t, "autoCancel", o, Null, Null, Null)
      BY <2>1 DEF Listen
    <3>2. TypeOK /\ Null \in PaymentStatus \cup OrderStatus \cup {Null}
          /\ Null \in ProviderEvent \cup {Null} /\ Null \in Reference \cup {Null}
      BY DEF IInv
    <3>3. QED
      BY <3>1, <3>2, BeginUpdates
  <2>2. CASE order[o] \in Closed
    <3>1. UNCHANGED task
      BY <2>2 DEF Listen
    <3>2. UNCHANGED <<pc, subject, goal, given>>
      BY <3>1 DEF task
    <3>3. QED
      BY <1>1, <2>2, <3>2 DEF SameTask
  <2>3. QED
    BY <2>1, <2>2
<1>3. GoesOn(t) /\ ~Informed(t)'
  BY <1>2 DEF GoesOn, Intending, Informed
<1>4. OneIntends' /\ \A p \in Order : status[p] # Absent /\ Answered(p) => Answered(p)'
  BY <1>2, <1>3, AnsweredStays DEF FollowUpInv
<1>5. AnsweredInv'
  BY <1>1, <1>4, PaymentsAssumption DEF FollowUpInv, AnsweredInv, Absent, Reference
<1>6. InformedInv'
  <2> SUFFICES ASSUME NEW u \in Task, Informed(u)', provider'[subject'[u]] # "MANUAL"
               PROVE  Answered(subject[u])'
    BY DEF InformedInv
  <2>1. u # t
    BY <1>3
  <2>2. QED
    BY <1>2, <1>3, <2>1, OthersInformed DEF Answered
<1>7. FailedIsBeingCancelled'
  <2> SUFFICES ASSUME NEW p \in Order,
                      status'[p] = "FAILED", ref'[p] = "own", provider'[p] # "MANUAL"
               PROVE  \/ order'[p] \in Closed \/ failures'[p] > 0
                      \/ \E u \in Task : pc'[u] = "autoCancel" /\ subject'[u] = p
                      \/ CancellationUndone(p)'
    BY DEF FailedIsBeingCancelled
  <2>1. CASE p = o
    BY <1>1, <1>2, <2>1
  <2>2. CASE p # o
    BY <1>1, <1>2, <2>2
       DEF FollowUpInv, FailedIsBeingCancelled, CancellationUndone, SameTask
  <2>3. QED
    BY <2>1, <2>2
<1>8. SucceededIsBeingLinked'
  BY <1>1, <1>2 DEF FollowUpInv, SucceededIsBeingLinked, SameTask
<1>9. QED
  BY <1>4, <1>5, <1>6, <1>7, <1>8 DEF FollowUpInv

\* The cancellation, and the transitions and cancellations of people: they close the
\* order, or leave it open, or have reopened it.
LEMMA OrderMoveFollows ==
  ASSUME IInv, FollowUpInv, Keeps, NEW r \in Task, AutoCancel(r) \/ CommitMove(r)
  PROVE  FollowUpInv'
<1>1. PICK o \in Order : o = subject[r] /\ pc[r] \in {"autoCancel", "move"}
  BY DEF IInv, TaskInv, TaskOk, AutoCancel, CommitMove
<1>2. /\ End(r) /\ \A p \in Order \ {o} : order'[p] = order[p]
      /\ UNCHANGED <<linked, row, status, provider, ref, failures, lostEvents, halfLinked>>
      /\ reopened \subseteq reopened'
  BY <1>1 DEF AutoCancel, CommitMove, row, history, IInv, TypeOK
<1>3. \/ order'[o] \in Closed \/ o \in reopened'
      \/ order[o] \notin Closed /\ pc[r] = "move"
  BY <1>1 DEF AutoCancel, CommitMove, Closed, IInv, TypeOK
<1>4. \A u \in Task \ {r} : SameTask(u)
  BY <1>2, EndUpdates DEF IInv
<1>5. FailedIsBeingCancelled'
  <2> SUFFICES ASSUME NEW p \in Order,
                      status'[p] = "FAILED", ref'[p] = "own", provider'[p] # "MANUAL"
               PROVE  \/ order'[p] \in Closed \/ failures'[p] > 0
                      \/ \E t \in Task : pc'[t] = "autoCancel" /\ subject'[t] = p
                      \/ CancellationUndone(p)'
    BY DEF FailedIsBeingCancelled
  <2>1. \/ order[p] \in Closed \/ failures[p] > 0 \/ CancellationUndone(p)
        \/ \E t \in Task : pc[t] = "autoCancel" /\ subject[t] = p
    BY <1>2 DEF FollowUpInv, FailedIsBeingCancelled
  <2>2. CASE p = o
    BY <1>1, <1>2, <1>3, <1>4, <2>1, <2>2 DEF CancellationUndone, SameTask
  <2>3. CASE p # o
    BY <1>1, <1>2, <1>4, <2>1, <2>3 DEF CancellationUndone, SameTask
  <2>4. QED
    BY <2>2, <2>3
<1>6. SucceededIsBeingLinked'
  BY <1>1, <1>2, <1>4 DEF FollowUpInv, SucceededIsBeingLinked, SameTask
<1>7. QED
  BY <1>2, <1>5, <1>6, EndFollows

LEMMA ThrowFollows ==
  ASSUME IInv, FollowUpInv, Keeps, NEW t \in Task, Throw(t)
  PROVE  FollowUpInv'
<1>1. /\ End(t) /\ UNCHANGED <<order, linked, row, status, provider, ref, failures, reopened>>
      /\ lostEvents' = lostEvents \cup LosesCancellation(t)
      /\ halfLinked' = halfLinked \cup LosesLink(t)
  BY DEF Throw, row
<1>2. \A u \in Task \ {t} : SameTask(u)
  BY <1>1, EndUpdates DEF IInv
<1>3. FailedIsBeingCancelled'
  BY <1>1, <1>2 DEF FollowUpInv, FailedIsBeingCancelled, CancellationUndone, SameTask,
                    LosesCancellation
<1>4. SucceededIsBeingLinked'
  BY <1>1, <1>2 DEF FollowUpInv, SucceededIsBeingLinked, SameTask, LosesLink
<1>5. QED
  BY <1>1, <1>3, <1>4, EndFollows

LEMMA CrashFollows ==
  ASSUME IInv, FollowUpInv, Keeps, Crash
  PROVE  FollowUpInv'
<1>1. /\ UNCHANGED <<order, linked, status, provider, ref, reopened>>
      /\ \A t \in Task : pc'[t] = "idle"
  BY DEF Crash, row
<1>2. /\ \A o \in Order : failures[o] > 0 => o \in lostEvents'
      /\ \A t \in Task : LosesCancellation(t) \subseteq lostEvents'
      /\ \A t \in Task : LosesLink(t) \subseteq halfLinked'
      /\ lostEvents \subseteq lostEvents' /\ halfLinked \subseteq halfLinked'
  BY DEF Crash
<1>3. AnsweredInv' /\ InformedInv' /\ OneIntends'
  BY <1>1 DEF FollowUpInv, AnsweredInv, InformedInv, OneIntends, Answered, Informed, Intending
<1>4. FailedIsBeingCancelled'
  BY <1>1, <1>2 DEF FollowUpInv, FailedIsBeingCancelled, CancellationUndone, LosesCancellation
<1>5. SucceededIsBeingLinked'
  BY <1>1, <1>2 DEF FollowUpInv, SucceededIsBeingLinked, LosesLink
<1>6. QED
  BY <1>3, <1>4, <1>5 DEF FollowUpInv

\* What the provider, the token and ignored calls do is not about the rows.
LEMMA OutsideFollows ==
  ASSUME IInv, FollowUpInv,
         \/ ProviderStep \/ RevokeToken \/ ExpireToken \/ UNCHANGED vars
         \/ \E o \in Order : RefuseWebhook(o)
         \/ \E o \in Order, e \in ProviderEvent : IgnoreWebhook(o, e)
  PROVE  FollowUpInv'
<1>1. UNCHANGED <<order, linked, row, failures, task, reopened, lostEvents, halfLinked>>
  <2>1. CASE ProviderStep
    BY <2>1 DEF ProviderStep, ProviderCapture, CaptureForAnother, ProviderDecline, ProviderVoid,
                ProviderRefund, ProviderRefundFails, history
  <2>2. CASE RevokeToken \/ ExpireToken \/ UNCHANGED vars
    BY <2>2 DEF RevokeToken, ExpireToken, vars, history
  <2>3. CASE \E o \in Order : RefuseWebhook(o)
    BY <2>3 DEF RefuseWebhook, history
  <2>4. CASE \E o \in Order, e \in ProviderEvent : IgnoreWebhook(o, e)
    BY <2>4 DEF IgnoreWebhook, history
  <2>5. QED
    BY <2>1, <2>2, <2>3, <2>4
<1>2. QED
  BY <1>1, NothingFollows

LEMMA NextFollows == IInv /\ FollowUpInv /\ [Next]_vars => FollowUpInv'
<1> SUFFICES ASSUME IInv, FollowUpInv, [Next]_vars PROVE FollowUpInv'
  OBVIOUS
<1>0. Keeps
  BY NextInv
<1>1. CASE BuyerStep \/ AdminStep \/ OrderStep
  BY <1>0, <1>1, StartPaymentFollows, StartConfirmFollows, StartManualConfirmFollows,
     StartRefundFollows, StartMoveFollows DEF BuyerStep, AdminStep, OrderStep, Task
<1>2. CASE \E t \in Task : Continue(t)
  BY <1>0, <1>2, InsertPaymentFollows, CreateIntentFollows, StoreRefFollows, FailIntentFollows,
     CapturesFollow, CallRefundFollows, MarkFollows, LinkFollows, OrderMoveFollows DEF Continue
<1>3. CASE \E o \in Order, e \in ProviderEvent : WebhookStep(o, e)
  BY <1>0, <1>3, OutsideFollows, ReceiveWebhookFollows DEF WebhookStep, Task
<1>4. CASE \E r \in Request, o \in Order : ReceiveWebhookOfOther(r, o)
  BY <1>0, <1>4, ReceiveWebhookOfOtherFollows DEF Task
<1>5. CASE \E t \in Listener, o \in Order : Listen(t, o)
  BY <1>0, <1>5, ListenFollows DEF Task
<1>6. CASE Crash \/ \E t \in Task : Throw(t)
  BY <1>0, <1>6, CrashFollows, ThrowFollows
<1>7. QED
  BY <1>1, <1>2, <1>3, <1>4, <1>5, <1>6, OutsideFollows DEF Next

LEMMA FollowUpInvariance == Spec => []FollowUpInv
BY InitFollows, NextFollows, Invariance, PTL DEF Spec

\* Between failing a payment (mark, payments.service.ts) and cancelling its order
\* (onPaymentFailed, order-payment.listener.ts) nothing falls through, however webhooks,
\* transitions and faults overlap: the order is closed or its cancellation under way,
\* or what undid it is one of the exceptions the property names.
THEOREM FailuresAreFollowedUp == Spec => []FailedIsBeingCancelled
<1>1. FollowUpInv => FailedIsBeingCancelled
  BY DEF FollowUpInv
<1>2. QED
  BY <1>1, FollowUpInvariance, PTL

\* The second update of mark follows the first: the order of a payment that succeeded is
\* linked, or its task is about to link it, or died between the two.
THEOREM SuccessesAreFollowedUp == Spec => []SucceededIsBeingLinked
<1>1. FollowUpInv => SucceededIsBeingLinked
  BY DEF FollowUpInv
<1>2. QED
  BY <1>1, FollowUpInvariance, PTL

===============================================================================
