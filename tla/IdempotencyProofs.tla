-------------------------- MODULE IdempotencyProofs --------------------------
(***************************************************************************)
(* Proofs about Idempotency, for any number of users, keys and requests in *)
(* flight and any number of expiries.                                      *)
(*                                                                         *)
(* OncePerKey is not inductive: it has to count the handlers at work as    *)
(* well, each of which may have its effect yet, and the next handler, for  *)
(* which there is room while the entry is empty.  PermitsInv does.         *)
(* OwnAnswers rests on what Redis and the requests hold being responses of *)
(* runs that took effect: HeldInv.                                         *)
(***************************************************************************)
EXTENDS Idempotency, FiniteSetTheorems, TLAPS

\* The requests whose handler is at work on intent i, timed out or not.
AtWork(i) == {r \in Request : pc[r] \in {"handler", "late"} /\ intent[r] = i}

\* Whether the next request under key k would get to run the handler.
Room(k) == IF entry[k] = Null THEN 1 ELSE 0

\* Effects that happened, handlers that may have one yet, and the handler there is room
\* for, are together at most one per life of the entry.
PermitsInv ==
  \A i \in Intent :
    /\ IsFiniteSet(AtWork(i))
    /\ runs[i] + Cardinality(AtWork(i)) + Room(CacheKey(i)) <= 1 + expired[CacheKey(i)]

\* The responses of the runs of intent i so far.
Given(i) == {Response(i, n) : n \in 1 .. runs[i]}

\* A request that is not idle works for an intent; what it is about to store, and what
\* Redis has under the intent's key, come from runs of that intent.
HeldInv ==
  /\ \A r \in Request : pc[r] # "idle" => intent[r] \in Intent
  /\ \A r \in Request : pc[r] = "store" => response[r] \in Given(intent[r])
  /\ \A i \in Intent : entry[CacheKey(i)] \in Given(i) \cup {InFlight, Null}

IInv == TypeOK /\ PermitsInv /\ HeldInv /\ OwnAnswers

-----------------------------------------------------------------------------

\* No two intents share an entry: the key has the user, the route and the client's key.
LEMMA CacheKeyIsInjective ==
  ASSUME NEW i \in Intent, NEW j \in Intent, CacheKey(i) = CacheKey(j)
  PROVE  i = j
<1>1. /\ i.actor = j.actor /\ i.route = j.route /\ i.key = j.key
  BY DEF CacheKey
<1>2. QED
  BY <1>1 DEF Intent

LEMMA CacheKeyType == ASSUME NEW i \in Intent PROVE CacheKey(i) \in CacheKeys
BY DEF CacheKeys

LEMMA ResponseType ==
  ASSUME NEW i \in Intent, NEW n \in Nat
  PROVE  Response(i, n) \in Responses
BY DEF Response, Responses

\* More runs keep the responses of the earlier ones.
LEMMA GivenGrows ==
  ASSUME TypeOK, NEW i \in Intent, runs'[i] \in Nat, runs[i] <= runs'[i]
  PROVE  Given(i) \subseteq Given(i)'
<1> SUFFICES ASSUME NEW n \in 1 .. runs[i] PROVE n \in 1 .. runs'[i]
  BY DEF Given, Response
<1>1. runs[i] \in Nat
  BY DEF TypeOK
<1>2. QED
  BY <1>1

LEMMA GivenType == ASSUME TypeOK, NEW i \in Intent PROVE Given(i) \subseteq Responses
<1>1. runs[i] \in Nat
  BY DEF TypeOK
<1>2. QED
  BY <1>1, ResponseType DEF Given

\* The one fact about runs that matters to what is held: they grow by an effect.
LEMMA HeldStays ==
  ASSUME TypeOK, runs' \in [Intent -> Nat], \A i \in Intent : runs[i] <= runs'[i]
  PROVE  \A i \in Intent : Given(i) \subseteq Given(i)'
BY GivenGrows

LEMMA InitInv == Init => IInv
<1> SUFFICES ASSUME Init PROVE IInv
  OBVIOUS
<1> USE DEF Init
<1>1. TypeOK
  BY IdempotencyAssumption DEF TypeOK
<1>2. PermitsInv
  <2> SUFFICES ASSUME NEW i \in Intent
               PROVE  /\ IsFiniteSet(AtWork(i))
                      /\ runs[i] + Cardinality(AtWork(i)) + Room(CacheKey(i))
                           <= 1 + expired[CacheKey(i)]
    BY DEF PermitsInv
  <2>1. AtWork(i) = {}
    BY DEF AtWork
  <2>2. Room(CacheKey(i)) = 1 /\ expired[CacheKey(i)] = 0 /\ runs[i] = 0
    BY CacheKeyType DEF Room
  <2>3. QED
    BY <2>1, <2>2, FS_EmptySet
<1>3. HeldInv
  BY CacheKeyType DEF HeldInv
<1>4. OwnAnswers
  BY DEF OwnAnswers
<1>5. QED
  BY <1>1, <1>2, <1>3, <1>4 DEF IInv

-----------------------------------------------------------------------------
(* The arithmetic of permits, for each kind of step.                       *)

\* The numbers an intent's permits are counted in.
LEMMA PermitTypes ==
  ASSUME IInv, NEW i \in Intent
  PROVE  /\ runs[i] \in Nat /\ expired[CacheKey(i)] \in Nat
         /\ Room(CacheKey(i)) \in {0, 1}
         /\ IsFiniteSet(AtWork(i)) /\ Cardinality(AtWork(i)) \in Nat
         /\ runs[i] + Cardinality(AtWork(i)) + Room(CacheKey(i)) <= 1 + expired[CacheKey(i)]
<1>1. runs[i] \in Nat /\ expired[CacheKey(i)] \in Nat
  BY CacheKeyType, IdempotencyAssumption DEF IInv, TypeOK
<1>2. IsFiniteSet(AtWork(i)) /\ Cardinality(AtWork(i)) \in Nat
  BY FS_CardinalityType DEF IInv, PermitsInv
<1>3. QED
  BY <1>1, <1>2 DEF Room, IInv, PermitsInv

\* A step that empties no entry and lets no handler begin spends a permit at most on the
\* effect of a handler that ends.
LEMMA PermitsKept ==
  ASSUME IInv, UNCHANGED expired,
         \A k \in CacheKeys : entry'[k] = Null => entry[k] = Null,
         \A i \in Intent :
           \/ runs'[i] = runs[i] /\ AtWork(i)' \subseteq AtWork(i)
           \/ \E r \in AtWork(i) : runs'[i] = runs[i] + 1 /\ AtWork(i)' = AtWork(i) \ {r}
  PROVE  PermitsInv'
<1> SUFFICES ASSUME NEW i \in Intent
             PROVE  /\ IsFiniteSet(AtWork(i)')
                    /\ runs'[i] + Cardinality(AtWork(i)') + Room(CacheKey(i))'
                         <= 1 + expired'[CacheKey(i)]
  BY DEF PermitsInv
<1>1. /\ Room(CacheKey(i))' \in {0, 1} /\ Room(CacheKey(i))' <= Room(CacheKey(i))
      /\ expired'[CacheKey(i)] = expired[CacheKey(i)]
  BY CacheKeyType DEF Room
<1>2. CASE runs'[i] = runs[i] /\ AtWork(i)' \subseteq AtWork(i)
  <2>1. IsFiniteSet(AtWork(i)') /\ Cardinality(AtWork(i)') <= Cardinality(AtWork(i))
    BY <1>2, PermitTypes, FS_Subset
  <2>2. Cardinality(AtWork(i)') \in Nat
    BY <2>1, FS_CardinalityType
  <2>3. QED
    BY <1>1, <1>2, <2>1, <2>2, PermitTypes
<1>3. ASSUME NEW r \in AtWork(i), runs'[i] = runs[i] + 1, AtWork(i)' = AtWork(i) \ {r}
      PROVE  /\ IsFiniteSet(AtWork(i)')
             /\ runs'[i] + Cardinality(AtWork(i)') + Room(CacheKey(i))'
                  <= 1 + expired'[CacheKey(i)]
  <2>1. IsFiniteSet(AtWork(i)') /\ Cardinality(AtWork(i)') = Cardinality(AtWork(i)) - 1
    BY <1>3, PermitTypes, FS_RemoveElement
  <2>2. QED
    BY <1>1, <1>3, <2>1, PermitTypes
<1>4. QED
  BY <1>2, <1>3

\* A handler begins where there was room for it.
LEMMA AcquirePermits ==
  ASSUME IInv, NEW r \in Request, NEW i \in Intent, Acquire(r, i)
  PROVE  PermitsInv'
<1>1. /\ entry[CacheKey(i)] = Null /\ entry' = [entry EXCEPT ![CacheKey(i)] = InFlight]
      /\ pc[r] = "idle" /\ pc' = [pc EXCEPT ![r] = "handler"]
      /\ intent' = [intent EXCEPT ![r] = i]
      /\ UNCHANGED <<runs, expired>>
  BY DEF Acquire, Arrive
<1> SUFFICES ASSUME NEW j \in Intent
             PROVE  /\ IsFiniteSet(AtWork(j)')
                    /\ runs'[j] + Cardinality(AtWork(j)') + Room(CacheKey(j))'
                         <= 1 + expired'[CacheKey(j)]
  BY DEF PermitsInv
<1>2. CASE j = i
  <2>1. AtWork(i)' = AtWork(i) \cup {r} /\ r \notin AtWork(i)
    BY <1>1 DEF AtWork, IInv, TypeOK
  <2>2. IsFiniteSet(AtWork(i)') /\ Cardinality(AtWork(i)') = Cardinality(AtWork(i)) + 1
    BY <2>1, PermitTypes, FS_AddElement
  <2>3. Room(CacheKey(i)) = 1 /\ Room(CacheKey(i))' = 0
    BY <1>1, CacheKeyType, IdempotencyAssumption DEF Room, IInv, TypeOK
  <2>4. QED
    BY <1>1, <1>2, <2>2, <2>3, PermitTypes
<1>3. CASE j # i
  <2>1. AtWork(j)' = AtWork(j)
    BY <1>1, <1>3 DEF AtWork, IInv, TypeOK
  <2>2. CacheKey(j) # CacheKey(i)
    BY <1>3, CacheKeyIsInjective
  <2>3. Room(CacheKey(j))' = Room(CacheKey(j))
    BY <1>1, <2>2, CacheKeyType DEF Room, IInv, TypeOK
  <2>4. QED
    BY <1>1, <2>1, <2>3, PermitTypes
<1>4. QED
  BY <1>2, <1>3

\* An expiry makes room, and is counted.
LEMMA ExpirePermits ==
  ASSUME IInv, NEW k \in CacheKeys, Expire(k)
  PROVE  PermitsInv'
<1>1. /\ entry[k] # Null /\ entry' = [entry EXCEPT ![k] = Null]
      /\ expired' = [expired EXCEPT ![k] = @ + 1]
      /\ UNCHANGED <<pc, intent, runs>>
  BY DEF Expire, request
<1> SUFFICES ASSUME NEW i \in Intent
             PROVE  /\ IsFiniteSet(AtWork(i)')
                    /\ runs'[i] + Cardinality(AtWork(i)') + Room(CacheKey(i))'
                         <= 1 + expired'[CacheKey(i)]
  BY DEF PermitsInv
<1>2. AtWork(i)' = AtWork(i)
  BY <1>1 DEF AtWork
<1>3. CASE CacheKey(i) = k
  <2>1. Room(CacheKey(i)) = 0 /\ Room(CacheKey(i))' = 1
    BY <1>1, <1>3 DEF Room, IInv, TypeOK
  <2>2. expired'[CacheKey(i)] = expired[CacheKey(i)] + 1
    BY <1>1, <1>3 DEF IInv, TypeOK
  <2>3. QED
    BY <1>1, <1>2, <2>1, <2>2, PermitTypes
<1>4. CASE CacheKey(i) # k
  <2>1. /\ Room(CacheKey(i))' = Room(CacheKey(i))
        /\ expired'[CacheKey(i)] = expired[CacheKey(i)]
    BY <1>1, <1>4, CacheKeyType DEF Room, IInv, TypeOK
  <2>2. QED
    BY <1>1, <1>2, <2>1, PermitTypes
<1>5. QED
  BY <1>3, <1>4

-----------------------------------------------------------------------------
(* The steps.                                                              *)

LEMMA AcquireInv ==
  ASSUME IInv, NEW r \in Request, NEW i \in Intent, Acquire(r, i)
  PROVE  IInv'
<1>1. /\ entry' = [entry EXCEPT ![CacheKey(i)] = InFlight]
      /\ pc' = [pc EXCEPT ![r] = "handler"] /\ intent' = [intent EXCEPT ![r] = i]
      /\ UNCHANGED <<response, runs, answers, expired>>
  BY DEF Acquire, Arrive
<1>2. TypeOK'
  BY <1>1 DEF IInv, TypeOK
<1>3. HeldInv'
  BY <1>1, CacheKeyType DEF IInv, TypeOK, HeldInv, Given
<1>4. OwnAnswers'
  BY <1>1 DEF IInv, OwnAnswers
<1>5. QED
  BY <1>2, <1>3, <1>4, AcquirePermits DEF IInv

LEMMA FindEntryInv ==
  ASSUME IInv, NEW r \in Request, NEW i \in Intent, FindEntry(r, i)
  PROVE  IInv'
<1>1. /\ pc[r] = "idle" /\ pc' = [pc EXCEPT ![r] = "get"]
      /\ intent' = [intent EXCEPT ![r] = i]
      /\ UNCHANGED <<entry, response, runs, answers, expired>>
  BY DEF FindEntry, Arrive
<1>2. TypeOK'
  BY <1>1 DEF IInv, TypeOK
<1>3. PermitsInv'
  <2>1. \A j \in Intent : AtWork(j)' \subseteq AtWork(j)
    BY <1>1 DEF AtWork, IInv, TypeOK
  <2>2. QED
    BY <1>1, <2>1, PermitsKept
<1>4. HeldInv'
  BY <1>1, CacheKeyType DEF IInv, TypeOK, HeldInv, Given
<1>5. OwnAnswers'
  BY <1>1 DEF IInv, OwnAnswers
<1>6. QED
  BY <1>2, <1>3, <1>4, <1>5 DEF IInv

LEMMA GetInv == ASSUME IInv, NEW r \in Request, Get(r) PROVE IInv'
<1> DEFINE i == intent[r]
           stored == entry[CacheKey(i)]
<1>1. i \in Intent
  BY DEF Get, IInv, HeldInv
<1>2. /\ pc[r] = "get" /\ End(r) /\ UNCHANGED <<entry, runs, expired>>
      /\ answers' = IF stored \in {Null, InFlight} THEN answers
                    ELSE [answers EXCEPT ![i] = @ \cup {stored}]
  BY DEF Get
<1>3. stored \in {Null, InFlight} \/ stored \in Given(i)
  BY <1>1 DEF IInv, HeldInv
<1> HIDE DEF i, stored
<1>4. TypeOK'
  <2>1. stored \in {Null, InFlight} \/ stored \in Responses
    BY <1>1, <1>3, GivenType DEF IInv
  <2>2. answers' \in [Intent -> SUBSET Responses]
    BY <1>1, <1>2, <2>1 DEF IInv, TypeOK
  <2>3. QED
    BY <1>2, <2>2 DEF IInv, TypeOK, End
<1>5. PermitsInv'
  <2>1. \A j \in Intent : AtWork(j)' \subseteq AtWork(j)
    BY <1>2 DEF AtWork, IInv, TypeOK, End
  <2>2. QED
    BY <1>2, <2>1, PermitsKept
<1>6. HeldInv'
  BY <1>2 DEF IInv, TypeOK, HeldInv, Given, End
<1>7. OwnAnswers'
  <2>1. \A j \in Intent : answers[j] \subseteq Given(j)
    BY DEF IInv, OwnAnswers, Given
  <2>2. \A j \in Intent : answers'[j] \subseteq Given(j)
    BY <1>1, <1>2, <1>3, <2>1 DEF IInv, TypeOK
  <2>3. QED
    BY <1>2, <2>2 DEF OwnAnswers, Given
<1>8. QED
  BY <1>4, <1>5, <1>6, <1>7 DEF IInv

\* A handler of intent i that ends with its effect.
LEMMA EffectPermits ==
  ASSUME IInv, NEW r \in Request, pc[r] \in {"handler", "late"},
         TakeEffect(r), UNCHANGED <<entry, expired>>,
         \A q \in Request \ {r} : pc'[q] = pc[q] /\ intent'[q] = intent[q],
         pc'[r] \notin {"handler", "late"}
  PROVE  PermitsInv'
<1>1. intent[r] \in Intent
  BY DEF IInv, HeldInv
<1>2. runs' = [runs EXCEPT ![intent[r]] = @ + 1]
  BY DEF TakeEffect
<1>3. ASSUME NEW j \in Intent
      PROVE  \/ runs'[j] = runs[j] /\ AtWork(j)' \subseteq AtWork(j)
             \/ \E q \in AtWork(j) : runs'[j] = runs[j] + 1 /\ AtWork(j)' = AtWork(j) \ {q}
  <2>1. CASE j = intent[r]
    <3>1. r \in AtWork(j) /\ AtWork(j)' = AtWork(j) \ {r}
      BY <2>1 DEF AtWork
    <3>2. runs'[j] = runs[j] + 1
      BY <1>1, <1>2, <2>1 DEF IInv, TypeOK
    <3>3. QED
      BY <3>1, <3>2
  <2>2. CASE j # intent[r]
    BY <1>2, <2>2 DEF AtWork, IInv, TypeOK
  <2>3. QED
    BY <2>1, <2>2
<1>4. QED
  BY <1>3, PermitsKept

LEMMA SucceedInv == ASSUME IInv, NEW r \in Request, Succeed(r) PROVE IInv'
<1>1. PICK i \in Intent : i = intent[r]
  BY DEF Succeed, IInv, HeldInv
<1>2. PICK given : given = Response(i, runs[i] + 1)
  OBVIOUS
<1>3. /\ pc[r] = "handler" /\ TakeEffect(r)
      /\ answers' = [answers EXCEPT ![i] = @ \cup {given}]
      /\ pc' = [pc EXCEPT ![r] = "store"]
      /\ response' = [response EXCEPT ![r] = given]
      /\ UNCHANGED <<entry, intent, expired>>
  BY <1>1, <1>2 DEF Succeed
<1>4. /\ runs' = [runs EXCEPT ![i] = @ + 1] /\ runs[i] \in Nat
      /\ runs' \in [Intent -> Nat] /\ \A j \in Intent : runs[j] <= runs'[j]
  BY <1>1, <1>3 DEF TakeEffect, IInv, TypeOK
<1>5. given \in Given(i)' /\ given \in Responses
  BY <1>2, <1>4, ResponseType DEF Given
<1>6. \A j \in Intent : Given(j) \subseteq Given(j)'
  BY <1>4, HeldStays DEF IInv
<1>7. TypeOK'
  BY <1>1, <1>3, <1>4, <1>5 DEF IInv, TypeOK
<1>8. PermitsInv'
  BY <1>3, EffectPermits DEF IInv, TypeOK
<1>9. HeldInv'
  BY <1>1, <1>3, <1>5, <1>6 DEF IInv, TypeOK, HeldInv
<1>10. OwnAnswers'
  <2>1. \A j \in Intent : answers[j] \subseteq Given(j)
    BY DEF IInv, OwnAnswers, Given
  <2>2. \A j \in Intent : answers'[j] \subseteq Given(j)'
    BY <1>1, <1>3, <1>5, <1>6, <2>1 DEF IInv, TypeOK
  <2>3. QED
    BY <2>2 DEF OwnAnswers, Given
<1>11. QED
  BY <1>7, <1>8, <1>9, <1>10 DEF IInv

LEMMA FailInv == ASSUME IInv, NEW r \in Request, Fail(r) PROVE IInv'
<1>1. /\ pc[r] \in {"handler", "late"}
      /\ TakeEffect(r) \/ UNCHANGED runs
      /\ pc' = [pc EXCEPT ![r] = "idle"] /\ intent' = [intent EXCEPT ![r] = Null]
      /\ response' = [response EXCEPT ![r] = Null]
      /\ UNCHANGED <<entry, answers, expired>>
  BY DEF Fail, End
<1>2. runs' \in [Intent -> Nat] /\ \A j \in Intent : runs[j] <= runs'[j]
  <2>1. CASE TakeEffect(r)
    <3>1. intent[r] \in Intent
      BY <1>1 DEF IInv, HeldInv
    <3>2. QED
      BY <2>1, <3>1 DEF TakeEffect, IInv, TypeOK
  <2>2. CASE UNCHANGED runs
    BY <2>2 DEF IInv, TypeOK
  <2>3. QED
    BY <1>1, <2>1, <2>2
<1>3. \A j \in Intent : Given(j) \subseteq Given(j)'
  BY <1>2, HeldStays DEF IInv
<1>4. TypeOK'
  BY <1>1, <1>2 DEF IInv, TypeOK
<1>5. PermitsInv'
  <2>1. CASE TakeEffect(r)
    <3>1. /\ \A q \in Request \ {r} : pc'[q] = pc[q] /\ intent'[q] = intent[q]
          /\ pc'[r] \notin {"handler", "late"} /\ UNCHANGED <<entry, expired>>
      BY <1>1 DEF IInv, TypeOK
    <3>2. QED
      BY <1>1, <2>1, <3>1, EffectPermits
  <2>2. CASE UNCHANGED runs
    <3>1. \A j \in Intent : AtWork(j)' \subseteq AtWork(j)
      BY <1>1 DEF AtWork, IInv, TypeOK
    <3>2. QED
      BY <1>1, <2>2, <3>1, PermitsKept
  <2>3. QED
    BY <1>1, <2>1, <2>2
<1>6. HeldInv'
  BY <1>1, <1>3 DEF IInv, TypeOK, HeldInv
<1>7. OwnAnswers'
  BY <1>1, <1>3 DEF IInv, OwnAnswers, Given
<1>8. QED
  BY <1>4, <1>5, <1>6, <1>7 DEF IInv

LEMMA TimeOutInv == ASSUME IInv, NEW r \in Request, TimeOut(r) PROVE IInv'
<1>1. /\ pc[r] = "handler" /\ pc' = [pc EXCEPT ![r] = "late"]
      /\ UNCHANGED <<entry, intent, response, runs, answers, expired>>
  BY DEF TimeOut
<1>2. TypeOK' /\ OwnAnswers'
  BY <1>1 DEF IInv, TypeOK, OwnAnswers
<1>3. PermitsInv'
  <2>1. \A j \in Intent : AtWork(j)' \subseteq AtWork(j)
    BY <1>1 DEF AtWork, IInv, TypeOK
  <2>2. QED
    BY <1>1, <2>1, PermitsKept
<1>4. HeldInv'
  BY <1>1 DEF IInv, TypeOK, HeldInv, Given
<1>5. QED
  BY <1>2, <1>3, <1>4 DEF IInv

LEMMA StoreInv == ASSUME IInv, NEW r \in Request, Store(r) PROVE IInv'
<1> DEFINE k == CacheKey(intent[r])
<1>1. /\ pc[r] = "store" /\ End(r)
      /\ entry' \in {entry, [entry EXCEPT ![k] = response[r]]}
      /\ UNCHANGED <<runs, answers, expired>>
  BY DEF Store
<1>2. /\ intent[r] \in Intent /\ k \in CacheKeys
      /\ response[r] \in Given(intent[r]) /\ response[r] \in Responses
  BY <1>1, CacheKeyType, GivenType DEF IInv, HeldInv
<1>3. \A j \in Intent : CacheKey(j) = k => j = intent[r]
  BY <1>2, CacheKeyIsInjective
<1> HIDE DEF k
<1>4. TypeOK'
  BY <1>1, <1>2 DEF IInv, TypeOK, End
<1>5. PermitsInv'
  <2>1. \A j \in Intent : AtWork(j)' \subseteq AtWork(j)
    BY <1>1 DEF AtWork, IInv, TypeOK, End
  <2>2. \A m \in CacheKeys : entry'[m] = Null => entry[m] = Null
    BY <1>1, <1>2, IdempotencyAssumption DEF IInv, TypeOK
  <2>3. QED
    BY <1>1, <2>1, <2>2, PermitsKept
<1>6. HeldInv'
  <2>1. \A j \in Intent : entry'[CacheKey(j)] \in Given(j) \cup {InFlight, Null}
    BY <1>1, <1>2, <1>3, CacheKeyType DEF IInv, TypeOK, HeldInv
  <2>2. QED
    BY <1>1, <2>1 DEF IInv, TypeOK, HeldInv, Given, End
<1>7. OwnAnswers'
  BY <1>1 DEF IInv, OwnAnswers
<1>8. QED
  BY <1>4, <1>5, <1>6, <1>7 DEF IInv

LEMMA ExpireInv == ASSUME IInv, NEW k \in CacheKeys, Expire(k) PROVE IInv'
<1>1. /\ expired[k] < MaxExpiries /\ entry' = [entry EXCEPT ![k] = Null]
      /\ expired' = [expired EXCEPT ![k] = @ + 1]
      /\ UNCHANGED <<pc, intent, response, runs, answers>>
  BY DEF Expire, request
<1>2. TypeOK'
  BY <1>1, IdempotencyAssumption DEF IInv, TypeOK
<1>3. HeldInv' /\ OwnAnswers'
  BY <1>1, CacheKeyType DEF IInv, TypeOK, HeldInv, OwnAnswers, Given
<1>4. QED
  BY <1>2, <1>3, ExpirePermits DEF IInv

LEMMA CrashInv == ASSUME IInv, Crash PROVE IInv'
<1>1. /\ pc' = [r \in Request |-> "idle"] /\ intent' = [r \in Request |-> Null]
      /\ response' = [r \in Request |-> Null]
      /\ UNCHANGED <<entry, runs, answers, expired>>
  BY DEF Crash
<1>2. TypeOK' /\ HeldInv' /\ OwnAnswers'
  BY <1>1 DEF IInv, TypeOK, HeldInv, OwnAnswers, Given
<1>3. PermitsInv'
  <2>1. \A j \in Intent : AtWork(j)' \subseteq AtWork(j)
    BY <1>1 DEF AtWork
  <2>2. QED
    BY <1>1, <2>1, PermitsKept
<1>4. QED
  BY <1>2, <1>3 DEF IInv

LEMMA NextInv == IInv /\ [Next]_vars => IInv'
<1> SUFFICES ASSUME IInv, [Next]_vars PROVE IInv'
  OBVIOUS
<1>1. ASSUME NEW r \in Request, NEW i \in Intent, Acquire(r, i) \/ FindEntry(r, i)
      PROVE  IInv'
  BY <1>1, AcquireInv, FindEntryInv
<1>2. ASSUME NEW r \in Request, Get(r) \/ Succeed(r) \/ Fail(r) \/ TimeOut(r) \/ Store(r)
      PROVE  IInv'
  BY <1>2, GetInv, SucceedInv, FailInv, TimeOutInv, StoreInv
<1>3. CASE UNCHANGED vars
  <2>1. \A i \in Intent : AtWork(i)' = AtWork(i) /\ Room(CacheKey(i))' = Room(CacheKey(i))
    BY <1>3 DEF AtWork, Room, vars, request
  <2>2. QED
    BY <1>3, <2>1 DEF vars, request, IInv, TypeOK, PermitsInv, HeldInv, OwnAnswers, Given
<1>4. QED
  BY <1>1, <1>2, <1>3, ExpireInv, CrashInv DEF Next

-----------------------------------------------------------------------------
(* The invariant and what follows from it.                                 *)

\* The inductive invariant of the Idempotency-Key protocol.
THEOREM Invariance == Spec => []IInv
BY InitInv, NextInv, PTL DEF Spec

\* Redis and the requests keep to their types.
THEOREM TypeCorrect == Spec => []TypeOK
BY Invariance, PTL DEF IInv

\* The interceptor lets a request have its effect once per life of its Redis entry,
\* whatever retries, duplicates, errors, timeouts and restarts come together.
THEOREM EffectOncePerKey == Spec => []OncePerKey
<1>1. IInv => OncePerKey
  <2> SUFFICES ASSUME IInv, NEW i \in Intent
               PROVE  runs[i] <= 1 + expired[CacheKey(i)]
    BY DEF OncePerKey
  <2>1. QED
    BY PermitTypes
<1>2. QED
  BY <1>1, Invariance, PTL

\* What the interceptor answers or replays is the response of a run of the same user's
\* same request.
THEOREM AnswersAreOwn == Spec => []OwnAnswers
BY Invariance, PTL DEF IInv

=============================================================================
