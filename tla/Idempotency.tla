----------------------------- MODULE Idempotency -----------------------------
(***************************************************************************)
(* The Idempotency-Key protocol of POST /orders and POST /orders/:id/      *)
(* payment: src/src/common/interceptors/idempotency.interceptor.ts over    *)
(* one Redis entry per cache key, with timeout.interceptor.ts inside it.   *)
(*                                                                         *)
(* A client may send the same request any number of times, at once or one  *)
(* after another.  Every Redis command is a step of its own; the handler   *)
(* behind the interceptor is whatever has the one effect of the request.   *)
(***************************************************************************)
EXTENDS Integers

CONSTANTS
  Actor, Route, Key,  \* who sends what under which Idempotency-Key
  Request,            \* HTTP requests that may be in flight at the same time
  MaxExpiries,        \* bound on the number of times one entry expires
  InFlight,           \* IN_FLIGHT_MARKER
  Null

\* What a client means to happen once.
Intent == [actor : Actor, route : Route, key : Key]

\* Mutant: the authenticated user is not part of the key.
CacheKeyWithoutActor(i) == <<i.route, i.key>>

\* buildCacheKey: the user, the route (method and path) and the client's key.
CacheKey(i) == <<i.actor, i.route, i.key>>

CacheKeys == {CacheKey(i) : i \in Intent}

\* The response of the n-th run of the handler for intent i.
Response(i, n) == [of |-> i, run |-> n]
Responses == [of : Intent, run : Nat]

ASSUME IdempotencyAssumption ==
  /\ MaxExpiries \in Nat
  /\ Null \notin Intent \cup Responses /\ InFlight \notin Responses
  /\ Null # InFlight

VARIABLES
  entry,    \* Redis: nothing, the marker or a response under each cache key
  pc, intent, response,  \* what each request is in the middle of
  runs,     \* history: how often the handler's effect happened
  answers,  \* history: the responses clients were given as a success
  expired   \* history: how often an entry's TTL ran out

request == <<pc, intent, response>>
vars == <<entry, request, runs, answers, expired>>

TypeOK ==
  /\ entry \in [CacheKeys -> Responses \cup {InFlight, Null}]
  /\ pc \in [Request -> {"idle", "handler", "late", "store", "get"}]
  /\ intent \in [Request -> Intent \cup {Null}]
  /\ response \in [Request -> Responses \cup {Null}]
  /\ runs \in [Intent -> Nat]
  /\ answers \in [Intent -> SUBSET Responses]
  /\ expired \in [CacheKeys -> 0 .. MaxExpiries]

Init ==
  /\ entry = [k \in CacheKeys |-> Null]
  /\ pc = [r \in Request |-> "idle"]
  /\ intent = [r \in Request |-> Null]
  /\ response = [r \in Request |-> Null]
  /\ runs = [i \in Intent |-> 0]
  /\ answers = [i \in Intent |-> {}]
  /\ expired = [k \in CacheKeys |-> 0]

-----------------------------------------------------------------------------

Arrive(r, i, step) ==
  /\ pc[r] = "idle"
  /\ pc' = [pc EXCEPT ![r] = step]
  /\ intent' = [intent EXCEPT ![r] = i]
  /\ UNCHANGED response

End(r) ==
  /\ pc' = [pc EXCEPT ![r] = "idle"]
  /\ intent' = [intent EXCEPT ![r] = Null]
  /\ response' = [response EXCEPT ![r] = Null]

\* Mutant: SET without NX.
AcquireAnyway(r, i) ==
  /\ entry' = [entry EXCEPT ![CacheKey(i)] = InFlight]
  /\ Arrive(r, i, "handler")
  /\ UNCHANGED <<runs, answers, expired>>

\* SET key marker EX ttl NX succeeds: the handler is called.
Acquire(r, i) ==
  /\ entry[CacheKey(i)] = Null
  /\ entry' = [entry EXCEPT ![CacheKey(i)] = InFlight]
  /\ Arrive(r, i, "handler")
  /\ UNCHANGED <<runs, answers, expired>>

\* SET ... NX finds an entry: the request goes on to read it.
FindEntry(r, i) ==
  /\ entry[CacheKey(i)] # Null
  /\ Arrive(r, i, "get")
  /\ UNCHANGED <<entry, runs, answers, expired>>

\* GET key: no entry any more, or the marker, is answered with 409; a response
\* is replayed.
Get(r) ==
  LET i == intent[r]
      stored == entry[CacheKey(i)]
  IN /\ pc[r] = "get"
     /\ answers' = IF stored \in {Null, InFlight}
                   THEN answers
                   ELSE [answers EXCEPT ![i] = @ \cup {stored}]
     /\ End(r)
     /\ UNCHANGED <<entry, runs, expired>>

\* The effect of the handler that request r is running.
TakeEffect(r) == runs' = [runs EXCEPT ![intent[r]] = @ + 1]

\* The handler returns: the client is answered while the response is stored.
Succeed(r) ==
  LET i == intent[r] IN
  /\ pc[r] = "handler"
  /\ TakeEffect(r)
  /\ answers' = [answers EXCEPT ![i] = @ \cup {Response(i, runs[i] + 1)}]
  /\ pc' = [pc EXCEPT ![r] = "store"]
  /\ response' = [response EXCEPT ![r] = Response(i, runs[i] + 1)]
  /\ UNCHANGED <<entry, intent, expired>>

\* The handler throws, before or after its effect: nothing clears the marker.
Fail(r) ==
  /\ pc[r] \in {"handler", "late"}
  /\ TakeEffect(r) \/ UNCHANGED runs
  /\ End(r)
  /\ UNCHANGED <<entry, answers, expired>>

\* TimeoutInterceptor answers with 408; the handler keeps running regardless.
TimeOut(r) ==
  /\ pc[r] = "handler"
  /\ pc' = [pc EXCEPT ![r] = "late"]
  /\ UNCHANGED <<entry, intent, response, runs, answers, expired>>

\* Mutant: an empty body is stored.
StoreNothing(r) ==
  /\ pc[r] = "store"
  /\ entry' = [entry EXCEPT ![CacheKey(intent[r])] = [of |-> intent[r], run |-> Null]]
  /\ End(r)
  /\ UNCHANGED <<runs, answers, expired>>

\* storeResponse: SET key response EX ttl, whatever the entry is by now; an
\* error of Redis is logged and leaves the marker.
Store(r) ==
  /\ pc[r] = "store"
  /\ entry' \in {entry, [entry EXCEPT ![CacheKey(intent[r])] = response[r]]}
  /\ End(r)
  /\ UNCHANGED <<runs, answers, expired>>

\* The TTL of an entry runs out.
Expire(k) ==
  /\ entry[k] # Null /\ expired[k] < MaxExpiries
  /\ entry' = [entry EXCEPT ![k] = Null]
  /\ expired' = [expired EXCEPT ![k] = @ + 1]
  /\ UNCHANGED <<request, runs, answers>>

\* The process dies in the middle of some requests; Redis keeps its entries.
Crash ==
  /\ \E r \in Request : pc[r] # "idle"
  /\ pc' = [r \in Request |-> "idle"]
  /\ intent' = [r \in Request |-> Null]
  /\ response' = [r \in Request |-> Null]
  /\ UNCHANGED <<entry, runs, answers, expired>>

Next ==
  \/ \E r \in Request, i \in Intent : Acquire(r, i) \/ FindEntry(r, i)
  \/ \E r \in Request : Get(r) \/ Succeed(r) \/ Fail(r) \/ TimeOut(r) \/ Store(r)
  \/ \E k \in CacheKeys : Expire(k)
  \/ Crash

Spec == Init /\ [][Next]_vars

-----------------------------------------------------------------------------
(* Properties.                                                             *)

\* However often a client repeats a request, concurrently, after errors and
\* across restarts, its effect happens once per life of the Redis entry.
OncePerKey == \A i \in Intent : runs[i] <= 1 + expired[CacheKey(i)]

\* A success a client is given comes from a run of its own request that took
\* effect, never from another user's request under the same key.
OwnAnswers ==
  \A i \in Intent : answers[i] \subseteq {Response(i, n) : n \in 1 .. runs[i]}

=============================================================================
