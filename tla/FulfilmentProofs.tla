---------------------------- MODULE FulfilmentProofs ---------------------------
(***************************************************************************)
(* Proofs about Addresses and Delivery, for any number of addresses,       *)
(* persons and requests: where a user's orders go and who carries them.    *)
(* The two share no state.                                                 *)
(*                                                                         *)
(* AtMostOneDefault holds at the end of a transaction because of what the  *)
(* transaction holds before: the one that has entered its default in the   *)
(* index has written every default there is, so that its commit clears     *)
(* them (ClaimInv).  That the default is not lost rests on the ids being   *)
(* drawn once (FreshIds): a setDefault whose address has gone never finds  *)
(* it again.                                                               *)
(*                                                                         *)
(* CarrierIsAssigned is not inductive: an assignment must be known to find *)
(* an order that nobody has moved yet, and a transition to find the        *)
(* deliverer it was checked against, as long as what they read is fresh    *)
(* (Fresh); and an order that is PREPARING to have had no mover            *)
(* (NotMovedYet).                                                          *)
(***************************************************************************)
EXTENDS Addresses, Delivery, TLAPS

-----------------------------------------------------------------------------
(* Addresses.                                                              *)

\* Request r is in a transaction that changes the default.
Changing(r) == pc[r] \in {"clear", "set", "enter", "commit"} /\ req[r].isDefault

\* What request r has found or been asked, and what it has got.
RequestOk(r) ==
  pc[r] # "idle" =>
    /\ req[r].address \in drawn
    /\ req[r].creates \/ req[r].isDefault
    /\ pc[r] = "set" => ~req[r].creates
    /\ pc[r] \in {"clear", "set", "enter"} => req[r].isDefault
    /\ pc[r] = "commit" /\ req[r].isDefault =>
         claim = r \/ (~req[r].creates /\ req[r].address \notin addresses)
    /\ ~req[r].creates /\ (pc[r] = "enter" \/ claim = r) => lock[req[r].address] = r

\* An address that is being created is no other request's, and not there yet.
FreshId(r) ==
  pc[r] # "idle" /\ req[r].creates =>
    /\ req[r].address \notin addresses
    /\ \A q \in Request \ {r} : pc[q] # "idle" => req[q].address # req[r].address

RequestsInv == \A r \in Request : RequestOk(r)
FreshIds == \A r \in Request : FreshId(r)

\* Whoever has entered a default in the index has written every committed one.
ClaimInv == claim # Null => pc[claim] = "commit" /\ defaults \subseteq Written(claim)

\* Only a change of the default locks anything.
LocksInv == \A r \in Request : Written(r) # {} => Changing(r)

IInv == TypeOK /\ RequestsInv /\ FreshIds /\ ClaimInv /\ LocksInv /\ AtMostOneDefault

-----------------------------------------------------------------------------

RequestRecord ==
  [creates : BOOLEAN, address : Address \cup {Null}, isDefault : BOOLEAN, todo : SUBSET Address]

LEMMA NoRequestType == NoRequest \in RequestRecord
BY DEF NoRequest, RequestRecord

LEMMA InitInv == Init => IInv
<1> SUFFICES ASSUME Init PROVE IInv
  OBVIOUS
<1>1. TypeOK
  BY NoRequestType DEF Init, TypeOK, RequestRecord
<1>2. RequestsInv /\ FreshIds /\ ClaimInv
  BY DEF Init, RequestsInv, RequestOk, FreshIds, FreshId, ClaimInv
<1>3. LocksInv /\ AtMostOneDefault
  BY AddressesAssumption DEF Init, LocksInv, Written, AtMostOneDefault
<1>4. QED
  BY <1>1, <1>2, <1>3 DEF IInv

\* A step of request r that leaves the addresses and the flags alone, and of the locks and
\* the claim those of the others, and takes none that another one has.
LEMMA OneRequestMoves ==
  ASSUME IInv, NEW r \in Request, UNCHANGED <<addresses, defaults>>,
         NEW step \in {"idle", "begin", "clear", "set", "enter", "commit"},
         NEW o \in RequestRecord,
         pc' = [pc EXCEPT ![r] = step], req' = [req EXCEPT ![r] = o],
         drawn \subseteq drawn', drawn' \subseteq Address,
         lock' \in [Address -> Request \cup {Null}],
         \A a \in Address : lock'[a] = lock[a] \/ (lock[a] \in {r, Null} /\ lock'[a] \in {r, Null}),
         \A a \in Address : lock'[a] = r => a \in addresses,
         claim' = claim \/ (claim \in {r, Null} /\ claim' \in {r, Null}),
         claim' = r => step = "commit" /\ defaults \subseteq Written(r)',
         RequestOk(r)', FreshId(r)',
         step # "idle" => \A q \in Request \ {r} : pc[q] # "idle" /\ req[q].creates =>
                            req[q].address # o.address,
         Written(r)' # {} => Changing(r)'
  PROVE  IInv'
<1>1. /\ pc'[r] = step /\ req'[r] = o
      /\ \A q \in Request \ {r} : pc'[q] = pc[q] /\ req'[q] = req[q]
  BY DEF IInv, TypeOK
<1>2. ASSUME NEW q \in Request, q # r
      PROVE  q # Null /\ (claim' = q <=> claim = q) /\ Written(q)' = Written(q)
  <2>1. q # Null
    BY AddressesAssumption
  <2>2. \A a \in Address : lock'[a] = q <=> lock[a] = q
    BY <1>2, <2>1
  <2>3. QED
    BY <1>2, <2>1, <2>2 DEF Written
<1>3. TypeOK'
  <2>1. /\ pc' \in [Request -> {"idle", "begin", "clear", "set", "enter", "commit"}]
        /\ req' \in [Request -> RequestRecord] /\ claim' \in Request \cup {Null}
    BY DEF IInv, TypeOK, RequestRecord
  <2>2. \A a \in Address : lock'[a] # Null => a \in addresses
    BY DEF IInv, TypeOK
  <2>3. QED
    BY <2>1, <2>2 DEF IInv, TypeOK, RequestRecord
<1>4. ASSUME NEW q \in Request, q # r PROVE RequestOk(q)' /\ FreshId(q)'
  <2>1. /\ pc'[q] = pc[q] /\ req'[q] = req[q]
        /\ RequestOk(q) /\ FreshId(q) /\ q # Null /\ (claim' = q <=> claim = q)
    BY <1>1, <1>2, <1>4 DEF IInv, RequestsInv, FreshIds
  <2>2. \A a \in Address : lock'[a] = q <=> lock[a] = q
    BY <1>4, <2>1
  <2>3. RequestOk(q)'
    BY <2>1, <2>2 DEF RequestOk, IInv, TypeOK
  <2>4. FreshId(q)'
    BY <1>1, <1>4, <2>1 DEF FreshId
  <2>5. QED
    BY <2>3, <2>4
<1>5. RequestsInv' /\ FreshIds'
  BY <1>4 DEF RequestsInv, FreshIds
<1>6. LocksInv'
  <2> SUFFICES ASSUME NEW q \in Request, Written(q)' # {} PROVE Changing(q)'
    BY DEF LocksInv
  <2>1. CASE q = r
    BY <2>1 DEF Written
  <2>2. CASE q # r
    <3>1. Changing(q)
      BY <1>2, <2>2 DEF IInv, LocksInv
    <3>2. QED
      BY <1>1, <2>2, <3>1 DEF Changing
  <2>3. QED
    BY <2>1, <2>2
<1>7. ClaimInv'
  <2> SUFFICES ASSUME NEW q \in Request, claim' = q
               PROVE  pc'[q] = "commit" /\ defaults' \subseteq Written(q)'
    BY <1>3 DEF ClaimInv, TypeOK
  <2>1. CASE q = r
    BY <1>1, <2>1
  <2>2. CASE q # r
    <3>1. claim = q /\ q # Null /\ Written(q)' = Written(q)
      BY <1>2, <2>2
    <3>2. pc[q] = "commit" /\ defaults \subseteq Written(q)
      BY <3>1 DEF IInv, ClaimInv
    <3>3. QED
      BY <1>1, <2>2, <3>1, <3>2
  <2>3. QED
    BY <2>1, <2>2
<1>8. AtMostOneDefault'
  BY DEF AtMostOneDefault, IInv
<1>9. QED
  BY <1>3, <1>5, <1>6, <1>7, <1>8 DEF IInv

-----------------------------------------------------------------------------
(* The steps before COMMIT.                                                *)

\* An idle request holds nothing.
LEMMA IdleHoldsNothing ==
  ASSUME IInv, NEW r \in Request, pc[r] \in {"idle", "begin"}
  PROVE  Written(r) = {} /\ claim # r
<1>1. Written(r) = {}
  BY DEF IInv, LocksInv, Changing
<1>2. claim # r
  BY AddressesAssumption DEF IInv, ClaimInv
<1>3. QED
  BY <1>1, <1>2

LEMMA CreateInv ==
  ASSUME IInv, NEW r \in Request, NEW a \in Address, NEW isDefault \in BOOLEAN \cup {Null},
         Create(r, a, isDefault)
  PROVE  IInv'
<1>1. PICK o \in RequestRecord :
        /\ req' = [req EXCEPT ![r] = o]
        /\ o.creates /\ o.address = a /\ o.todo = {}
  <2>1. PICK asked \in BOOLEAN : asked = (IF isDefault = Null THEN addresses = {} ELSE isDefault)
    OBVIOUS
  <2>2. [creates |-> TRUE, address |-> a, todo |-> {}, isDefault |-> asked] \in RequestRecord
    BY DEF RequestRecord
  <2>3. QED
    BY <2>1, <2>2 DEF Create
<1>2. /\ pc' = [pc EXCEPT ![r] = "begin"] /\ drawn' = drawn \cup {a} /\ a \notin drawn
      /\ UNCHANGED <<addresses, defaults, lock, claim>> /\ pc[r] = "idle"
  BY DEF Create, Goto
<1>3. /\ pc'[r] = "begin" /\ req'[r] = o
      /\ \A q \in Request \ {r} : pc'[q] = pc[q] /\ req'[q] = req[q]
  BY <1>1, <1>2 DEF IInv, TypeOK
<1>4. \A q \in Request : pc[q] # "idle" => req[q].address # a
  BY <1>2 DEF IInv, RequestsInv, RequestOk
<1>5. Written(r)' = {} /\ claim' # r
  BY <1>2, IdleHoldsNothing DEF Written
<1>6. RequestOk(r)'
  BY <1>1, <1>2, <1>3, <1>5 DEF RequestOk
<1>7. FreshId(r)'
  BY <1>1, <1>2, <1>3, <1>4 DEF FreshId, IInv, TypeOK
<1>8. /\ drawn \subseteq drawn' /\ drawn' \subseteq Address
      /\ lock' \in [Address -> Request \cup {Null}]
      /\ \A b \in Address : lock'[b] = lock[b]
      /\ \A b \in Address : lock'[b] # r
  BY <1>2, <1>5 DEF IInv, TypeOK, Written
<1>9. QED
  BY <1>1, <1>2, <1>4, <1>5, <1>6, <1>7, <1>8, OneRequestMoves

LEMMA SetDefaultInv ==
  ASSUME IInv, NEW r \in Request, NEW a \in Address, SetDefault(r, a)
  PROVE  IInv'
<1>1. PICK o \in RequestRecord :
        /\ req' = [req EXCEPT ![r] = o]
        /\ ~o.creates /\ o.isDefault /\ o.address = a /\ o.todo = {}
  <2>1. [creates |-> FALSE, address |-> a, todo |-> {}, isDefault |-> TRUE] \in RequestRecord
    BY DEF RequestRecord
  <2>2. QED
    BY <2>1 DEF SetDefault
<1>2. /\ pc' = [pc EXCEPT ![r] = "begin"] /\ a \in addresses /\ pc[r] = "idle"
      /\ UNCHANGED <<addresses, defaults, drawn, lock, claim>>
  BY DEF SetDefault, Goto
<1>3. /\ pc'[r] = "begin" /\ req'[r] = o
      /\ \A q \in Request \ {r} : pc'[q] = pc[q] /\ req'[q] = req[q]
  BY <1>1, <1>2 DEF IInv, TypeOK
<1>4. \A q \in Request : pc[q] # "idle" /\ req[q].creates => req[q].address # a
  BY <1>2 DEF IInv, FreshIds, FreshId
<1>5. Written(r)' = {} /\ claim' # r
  BY <1>2, IdleHoldsNothing DEF Written
<1>6. RequestOk(r)'
  BY <1>1, <1>2, <1>3, <1>5 DEF RequestOk, IInv, TypeOK
<1>7. FreshId(r)'
  BY <1>1, <1>3 DEF FreshId
<1>8. /\ drawn \subseteq drawn' /\ drawn' \subseteq Address
      /\ lock' \in [Address -> Request \cup {Null}]
      /\ \A b \in Address : lock'[b] = lock[b]
      /\ \A b \in Address : lock'[b] # r
  BY <1>2, <1>5 DEF IInv, TypeOK, Written
<1>9. QED
  BY <1>1, <1>2, <1>4, <1>5, <1>6, <1>7, <1>8, OneRequestMoves

LEMMA TodoRecord ==
  ASSUME NEW o \in RequestRecord, NEW todo \in SUBSET Address
  PROVE  /\ [o EXCEPT !.todo = todo] \in RequestRecord
         /\ [o EXCEPT !.todo = todo].creates = o.creates
         /\ [o EXCEPT !.todo = todo].address = o.address
         /\ [o EXCEPT !.todo = todo].isDefault = o.isDefault
BY DEF RequestRecord

\* A request that goes on in its transaction: it keeps what it was asked and what it holds.
LEMMA TransactionGoesOn ==
  ASSUME IInv, NEW r \in Request, pc[r] # "idle",
         UNCHANGED <<addresses, defaults, drawn>>,
         NEW step \in {"begin", "clear", "set", "enter", "commit"}, NEW todo \in SUBSET Address,
         pc' = [pc EXCEPT ![r] = step], req' = [req EXCEPT ![r] = [req[r] EXCEPT !.todo = todo]],
         lock' \in [Address -> Request \cup {Null}],
         \A a \in Address : lock'[a] = lock[a] \/ (lock[a] = Null /\ lock'[a] = r /\ a \in addresses),
         claim' = claim \/ (claim = Null /\ claim' = r),
         claim' = r => step = "commit" /\ defaults \subseteq Written(r)',
         step = "set" => ~req[r].creates,
         step \in {"clear", "set", "enter"} \/ Written(r)' # {} =>
           step # "begin" /\ req[r].isDefault,
         step = "commit" /\ req[r].isDefault =>
           claim' = r \/ (~req[r].creates /\ req[r].address \notin addresses),
         ~req[r].creates /\ (step = "enter" \/ claim' = r) => lock'[req[r].address] = r
  PROVE  IInv'
<1>1. PICK o \in RequestRecord :
        /\ o = [req[r] EXCEPT !.todo = todo] /\ o.creates = req[r].creates
        /\ o.address = req[r].address /\ o.isDefault = req[r].isDefault
  BY TodoRecord DEF IInv, TypeOK, RequestRecord
<1>2. /\ pc'[r] = step /\ req'[r] = o
      /\ \A q \in Request \ {r} : pc'[q] = pc[q] /\ req'[q] = req[q]
  BY <1>1 DEF IInv, TypeOK
<1>3. RequestOk(r) /\ FreshId(r)
  BY DEF IInv, RequestsInv, FreshIds
<1>4. RequestOk(r)'
  <2>1. /\ req'[r].address = req[r].address
        /\ req'[r].creates <=> req[r].creates
        /\ req'[r].isDefault <=> req[r].isDefault
    BY <1>1, <1>2
  <2>2. QED
    BY <1>2, <1>3, <2>1 DEF RequestOk
<1>5. FreshId(r)'
  BY <1>1, <1>2, <1>3 DEF FreshId
<1>6. Written(r)' # {} => Changing(r)'
  BY <1>1, <1>2 DEF Changing
<1>7. \A q \in Request \ {r} : pc[q] # "idle" /\ req[q].creates => req[q].address # o.address
  BY <1>1 DEF IInv, FreshIds, FreshId
<1>8. \A a \in Address : lock'[a] = r => a \in addresses
  BY AddressesAssumption DEF IInv, TypeOK
<1>9. drawn \subseteq drawn' /\ drawn' \subseteq Address
  BY DEF IInv, TypeOK
<1>10. QED
  BY <1>1, <1>4, <1>5, <1>6, <1>7, <1>8, <1>9, OneRequestMoves

LEMMA ClearInv ==
  ASSUME IInv, NEW r \in Request, Clear(r)
  PROVE  IInv'
<1>1. /\ pc[r] = "begin" /\ UNCHANGED <<addresses, defaults, drawn, lock, claim>>
      /\ lock' \in [Address -> Request \cup {Null}] /\ addresses \subseteq Address
  BY DEF Clear, IInv, TypeOK
<1>2. Written(r)' = {} /\ claim' # r
  BY <1>1, IdleHoldsNothing DEF Written
<1>3. CASE req[r].isDefault
  <2>1. /\ pc' = [pc EXCEPT ![r] = "clear"]
        /\ req' = [req EXCEPT ![r] = [req[r] EXCEPT !.todo = RowsToClear(r)]]
    BY <1>3 DEF Clear, Goto
  <2>2. RowsToClear(r) \in SUBSET Address
    BY <1>1 DEF RowsToClear
  <2>3. QED
    BY <1>1, <1>2, <1>3, <2>1, <2>2, TransactionGoesOn
<1>4. CASE ~req[r].isDefault
  <2>1. /\ pc' = [pc EXCEPT ![r] = "commit"]
        /\ req' = [req EXCEPT ![r] = [req[r] EXCEPT !.todo = {}]]
    BY <1>4 DEF Clear, Goto
  <2>2. req[r].creates
    BY <1>1, <1>4 DEF IInv, RequestsInv, RequestOk
  <2>3. QED
    BY <1>1, <1>2, <1>4, <2>1, <2>2, TransactionGoesOn
<1>5. QED
  BY <1>3, <1>4

\* A request that has not yet come to the index has no claim.
LEMMA NoClaimYet ==
  ASSUME IInv, NEW r \in Request, pc[r] \in {"clear", "set", "enter"} PROVE claim # r
BY AddressesAssumption DEF IInv, ClaimInv

LEMMA ClearRowInv ==
  ASSUME IInv, NEW r \in Request, NEW a \in Address, ClearRow(r, a)
  PROVE  IInv'
<1> DEFINE todo == req[r].todo \ {a}
<1>1. /\ pc[r] = "clear" /\ a \in req[r].todo /\ lock[a] = Null
      /\ lock' = IF a \in addresses THEN [lock EXCEPT ![a] = r] ELSE lock
      /\ req' = [req EXCEPT ![r] = [req[r] EXCEPT !.todo = todo]]
      /\ UNCHANGED <<addresses, defaults, drawn, claim, pc>>
  BY DEF ClearRow
<1>2. pc' = [pc EXCEPT ![r] = "clear"]
  BY <1>1 DEF IInv, TypeOK
<1>3. /\ req[r].isDefault /\ todo \in SUBSET Address
      /\ claim' # r
  BY <1>1, NoClaimYet DEF IInv, RequestsInv, RequestOk, TypeOK
<1>4. lock' \in [Address -> Request \cup {Null}]
  BY <1>1 DEF IInv, TypeOK
<1>5. \A b \in Address :
        lock'[b] = lock[b] \/ (lock[b] = Null /\ lock'[b] = r /\ b \in addresses)
  BY <1>1 DEF IInv, TypeOK
<1> HIDE DEF todo
<1>6. QED
  BY <1>1, <1>2, <1>3, <1>4, <1>5, TransactionGoesOn

LEMMA ClearedInv ==
  ASSUME IInv, NEW r \in Request, Cleared(r)
  PROVE  IInv'
<1>1. /\ pc[r] = "clear" /\ req[r].todo = {}
      /\ UNCHANGED <<addresses, defaults, drawn, lock, claim, req>>
      /\ pc' = [pc EXCEPT ![r] = IF req[r].creates THEN "enter" ELSE "set"]
  BY DEF Cleared, Goto
<1>2. req' = [req EXCEPT ![r] = [req[r] EXCEPT !.todo = {}]]
  BY <1>1 DEF IInv, TypeOK
<1>3. /\ req[r].isDefault /\ lock' \in [Address -> Request \cup {Null}]
      /\ \A a \in Address : lock'[a] = lock[a]
      /\ claim' # r
  BY <1>1, NoClaimYet DEF IInv, RequestsInv, RequestOk, TypeOK
<1>4. CASE req[r].creates
  BY <1>1, <1>2, <1>3, <1>4, TransactionGoesOn
<1>5. CASE ~req[r].creates
  BY <1>1, <1>2, <1>3, <1>5, TransactionGoesOn
<1>6. QED
  BY <1>4, <1>5

LEMMA SetRowInv ==
  ASSUME IInv, NEW r \in Request, SetRow(r)
  PROVE  IInv'
<1>1. PICK a \in Address : a = req[r].address
  BY DEF SetRow, IInv, RequestsInv, RequestOk, TypeOK
<1>2. /\ pc[r] = "set" /\ lock[a] = Null
      /\ UNCHANGED <<addresses, defaults, drawn, claim, req>>
  BY <1>1 DEF SetRow
<1>3. req[r].isDefault /\ claim' # r
  BY <1>2, NoClaimYet DEF IInv, RequestsInv, RequestOk
<1>4. PICK todo \in SUBSET Address : todo = req[r].todo
  BY DEF IInv, TypeOK
<1>5. req' = [req EXCEPT ![r] = [req[r] EXCEPT !.todo = todo]]
  BY <1>2, <1>4 DEF IInv, TypeOK
<1>6. CASE a \in addresses
  <2>1. lock' = [lock EXCEPT ![a] = r] /\ pc' = [pc EXCEPT ![r] = "enter"]
    BY <1>1, <1>6 DEF SetRow, Goto
  <2>2. /\ lock' \in [Address -> Request \cup {Null}]
        /\ \A b \in Address :
             lock'[b] = lock[b] \/ (lock[b] = Null /\ lock'[b] = r /\ b \in addresses)
        /\ lock'[a] = r
    BY <1>2, <1>6, <2>1 DEF IInv, TypeOK
  <2>3. QED
    BY <1>1, <1>2, <1>3, <1>5, <2>1, <2>2, TransactionGoesOn
<1>7. CASE a \notin addresses
  <2>1. lock' = lock /\ pc' = [pc EXCEPT ![r] = "commit"]
    BY <1>1, <1>7 DEF SetRow, Goto
  <2>2. /\ lock' \in [Address -> Request \cup {Null}]
        /\ \A b \in Address : lock'[b] = lock[b]
    BY <2>1 DEF IInv, TypeOK
  <2>3. ~req[r].creates
    BY <1>2 DEF IInv, RequestsInv, RequestOk
  <2>4. QED
    BY <1>1, <1>2, <1>3, <1>5, <1>7, <2>1, <2>2, <2>3, TransactionGoesOn
<1>8. QED
  BY <1>6, <1>7

\* Nothing but its own rows is in the way of the new entry.
LEMMA EnterDefaultInv ==
  ASSUME IInv, NEW r \in Request, EnterDefault(r)
  PROVE  IInv'
<1>1. /\ pc[r] = "enter" /\ claim = Null /\ claim' = r
      /\ UNCHANGED <<addresses, defaults, drawn, lock, req>>
      /\ pc' = [pc EXCEPT ![r] = "commit"]
      /\ defaults \subseteq Written(r)
  BY DEF EnterDefault, Goto, Entries
<1>2. PICK todo \in SUBSET Address : todo = req[r].todo
  BY DEF IInv, TypeOK
<1>3. req' = [req EXCEPT ![r] = [req[r] EXCEPT !.todo = todo]]
  BY <1>1, <1>2 DEF IInv, TypeOK
<1>4. /\ req[r].isDefault
      /\ ~req[r].creates => lock'[req[r].address] = r
      /\ lock' \in [Address -> Request \cup {Null}]
      /\ \A b \in Address : lock'[b] = lock[b]
      /\ defaults \subseteq Written(r)'
  BY <1>1 DEF IInv, RequestsInv, RequestOk, TypeOK, Written
<1>5. QED
  BY <1>1, <1>3, <1>4, TransactionGoesOn

\* A transaction that ends without effect.
LEMMA RollbackInv ==
  ASSUME IInv, NEW r \in Request, End(r), UNCHANGED <<addresses, defaults, drawn>>
  PROVE  IInv'
<1>1. /\ pc' = [pc EXCEPT ![r] = "idle"] /\ req' = [req EXCEPT ![r] = NoRequest]
      /\ lock' = [a \in Address |-> IF lock[a] = r THEN Null ELSE lock[a]]
      /\ claim' = IF claim = r THEN Null ELSE claim
  BY DEF End, Goto
<1>2. r # Null
  BY AddressesAssumption
<1>3. pc'[r] = "idle" /\ Written(r)' = {} /\ claim' # r
  BY <1>1, <1>2 DEF IInv, TypeOK, Written
<1>4. RequestOk(r)' /\ FreshId(r)'
  BY <1>3 DEF RequestOk, FreshId
<1>5. /\ lock' \in [Address -> Request \cup {Null}]
      /\ \A a \in Address :
           lock'[a] = lock[a] \/ (lock[a] \in {r, Null} /\ lock'[a] \in {r, Null})
      /\ \A a \in Address : lock'[a] # r
      /\ claim' = claim \/ (claim \in {r, Null} /\ claim' \in {r, Null})
  BY <1>1, <1>3 DEF IInv, TypeOK, Written
<1>6. drawn \subseteq drawn' /\ drawn' \subseteq Address
  BY DEF IInv, TypeOK
<1>7. QED
  BY <1>1, <1>3, <1>4, <1>5, <1>6, NoRequestType, OneRequestMoves

-----------------------------------------------------------------------------
(* COMMIT, and the DELETE of remove.                                       *)

\* A commit with the claim leaves its own address the only default; one without it can
\* only clear flags.
LEMMA CommitUpdates ==
  ASSUME IInv, NEW r \in Request, Commit(r), NEW a \in Address, a = req[r].address
  PROVE  /\ pc[r] = "commit"
         /\ addresses' = IF req[r].creates THEN addresses \cup {a} ELSE addresses
         /\ claim = r => defaults' = {a} /\ a \in addresses'
         /\ claim # r => defaults' = defaults \ Written(r)
         /\ pc' = [pc EXCEPT ![r] = "idle"] /\ req' = [req EXCEPT ![r] = NoRequest]
         /\ lock' = [b \in Address |-> IF lock[b] = r THEN Null ELSE lock[b]]
         /\ claim' = IF claim = r THEN Null ELSE claim
         /\ drawn' = drawn
<1>1. /\ pc[r] = "commit"
      /\ addresses' = IF req[r].creates THEN addresses \cup {a} ELSE addresses
      /\ defaults' = (defaults \ Written(r)) \cup {b \in {a} : claim = r}
      /\ pc' = [pc EXCEPT ![r] = "idle"] /\ req' = [req EXCEPT ![r] = NoRequest]
      /\ lock' = [b \in Address |-> IF lock[b] = r THEN Null ELSE lock[b]]
      /\ claim' = IF claim = r THEN Null ELSE claim
      /\ drawn' = drawn
  BY DEF Commit, End, Goto
<1>2. ASSUME claim = r PROVE defaults' = {a} /\ a \in addresses'
  <2>1. defaults \subseteq Written(r)
    BY <1>2, AddressesAssumption DEF IInv, ClaimInv
  <2>2. ~req[r].creates => lock[a] = r
    BY <1>1, <1>2 DEF IInv, RequestsInv, RequestOk
  <2>3. ~req[r].creates => a \in addresses
    BY <2>2, AddressesAssumption DEF IInv, TypeOK
  <2>4. QED
    BY <1>1, <1>2, <2>1, <2>3
<1>3. QED
  BY <1>1, <1>2

LEMMA CommitInv ==
  ASSUME IInv, NEW r \in Request, Commit(r)
  PROVE  IInv'
<1>1. PICK a \in Address : a = req[r].address /\ a \in drawn
  BY DEF Commit, IInv, RequestsInv, RequestOk, TypeOK
<1>2. /\ pc[r] = "commit"
      /\ addresses' = IF req[r].creates THEN addresses \cup {a} ELSE addresses
      /\ claim = r => defaults' = {a} /\ a \in addresses'
      /\ claim # r => defaults' = defaults \ Written(r)
      /\ pc' = [pc EXCEPT ![r] = "idle"] /\ req' = [req EXCEPT ![r] = NoRequest]
      /\ lock' = [b \in Address |-> IF lock[b] = r THEN Null ELSE lock[b]]
      /\ claim' = IF claim = r THEN Null ELSE claim
      /\ drawn' = drawn
  BY <1>1, CommitUpdates
<1>3. /\ pc'[r] = "idle" /\ req'[r] = NoRequest
      /\ \A q \in Request \ {r} : pc'[q] = pc[q] /\ req'[q] = req[q]
      /\ addresses \subseteq addresses' /\ addresses' \subseteq addresses \cup {a}
  BY <1>2 DEF IInv, TypeOK
<1>4. ASSUME NEW q \in Request, q # r PROVE Written(q)' = Written(q) /\ (claim' = q <=> claim = q)
  BY <1>2, <1>4, AddressesAssumption DEF Written
<1>5. Written(r)' = {} /\ claim' # r
  BY <1>2, AddressesAssumption DEF Written
<1>6. TypeOK'
  <2>1. /\ pc' \in [Request -> {"idle", "begin", "clear", "set", "enter", "commit"}]
        /\ req' \in [Request -> RequestRecord] /\ claim' \in Request \cup {Null}
    BY <1>2, NoRequestType DEF IInv, TypeOK, RequestRecord
  <2>2. lock' \in [Address -> Request \cup {Null}]
    BY <1>2 DEF IInv, TypeOK
  <2>3. \A b \in Address : lock'[b] # Null => b \in addresses'
    BY <1>2, <1>3 DEF IInv, TypeOK
  <2>4. drawn' \subseteq Address /\ addresses' \subseteq drawn'
    BY <1>1, <1>2, <1>3 DEF IInv, TypeOK
  <2>5. defaults' \subseteq addresses'
    BY <1>2, <1>3 DEF IInv, TypeOK
  <2>6. QED
    BY <1>2, <2>1, <2>2, <2>3, <2>4, <2>5 DEF TypeOK, RequestRecord
<1>7. ASSUME NEW q \in Request, q # r PROVE RequestOk(q)' /\ FreshId(q)'
  <2>1. RequestOk(q) /\ FreshId(q) /\ FreshId(r)
    BY DEF IInv, RequestsInv, FreshIds
  <2>2. pc'[q] = pc[q] /\ req'[q] = req[q] /\ (claim' = q <=> claim = q)
    BY <1>3, <1>4, <1>7
  <2>3. pc[q] # "idle" => req[q].address \notin addresses' \/ req[q].address \in addresses
    <3>1. CASE req[r].creates
      BY <1>1, <1>2, <1>3, <1>7, <2>1, <3>1 DEF FreshId
    <3>2. CASE ~req[r].creates
      BY <1>2, <3>2
    <3>3. QED
      BY <3>1, <3>2
  <2>4. pc[q] # "idle" /\ lock[req[q].address] = q => lock'[req[q].address] = q
    BY <1>2, <1>7, <2>1 DEF RequestOk, IInv, TypeOK
  <2>5. RequestOk(q)'
    BY <1>2, <2>1, <2>2, <2>3, <2>4 DEF RequestOk
  <2>6. FreshId(q)'
    BY <1>3, <2>1, <2>2, <2>3 DEF FreshId
  <2>7. QED
    BY <2>5, <2>6
<1>8. RequestOk(r)' /\ FreshId(r)'
  BY <1>3 DEF RequestOk, FreshId
<1>9. RequestsInv' /\ FreshIds'
  BY <1>7, <1>8 DEF RequestsInv, FreshIds
<1>10. LocksInv'
  BY <1>3, <1>4, <1>5 DEF IInv, LocksInv, Changing
<1>11. ClaimInv'
  <2> SUFFICES ASSUME NEW q \in Request, claim' = q
               PROVE  pc'[q] = "commit" /\ defaults' \subseteq Written(q)'
    BY <1>6 DEF ClaimInv, TypeOK
  <2>1. q # r /\ claim = q /\ q # Null
    BY <1>4, <1>5, AddressesAssumption
  <2>2. pc[q] = "commit" /\ defaults \subseteq Written(q)
    BY <2>1 DEF IInv, ClaimInv
  <2>3. QED
    BY <1>2, <1>3, <1>4, <2>1, <2>2
<1>12. AtMostOneDefault'
  BY <1>2 DEF IInv, AtMostOneDefault
<1>13. QED
  BY <1>6, <1>9, <1>10, <1>11, <1>12 DEF IInv

LEMMA RemoveInv ==
  ASSUME IInv, NEW a \in Address, Remove(a)
  PROVE  IInv'
<1>1. /\ lock[a] = Null /\ addresses' = addresses \ {a} /\ defaults' = defaults \ {a}
      /\ UNCHANGED <<drawn, lock, claim, pc, req>>
  BY DEF Remove, request
<1>2. TypeOK'
  BY <1>1 DEF IInv, TypeOK
<1>3. \A r \in Request : Written(r)' = Written(r) /\ (Changing(r)' <=> Changing(r))
  BY <1>1 DEF Written, Changing
<1>4. RequestsInv' /\ FreshIds'
  BY <1>1 DEF IInv, RequestsInv, RequestOk, FreshIds, FreshId
<1>5. ClaimInv'
  BY <1>1 DEF IInv, ClaimInv, Written
<1>6. LocksInv' /\ AtMostOneDefault'
  BY <1>1, <1>3 DEF IInv, LocksInv, AtMostOneDefault
<1>7. QED
  BY <1>2, <1>4, <1>5, <1>6 DEF IInv

-----------------------------------------------------------------------------

LEMMA NextInv == IInv /\ [Next]_vars => IInv'
<1> SUFFICES ASSUME IInv, [Next]_vars PROVE IInv'
  OBVIOUS
<1>1. ASSUME NEW r \in Request, NEW a \in Address, NEW isDefault \in BOOLEAN \cup {Null},
             Create(r, a, isDefault)
      PROVE  IInv'
  BY <1>1, CreateInv
<1>2. ASSUME NEW r \in Request, NEW a \in Address, SetDefault(r, a) \/ ClearRow(r, a)
      PROVE  IInv'
  BY <1>2, SetDefaultInv, ClearRowInv
<1>3. ASSUME NEW r \in Request,
             \/ Clear(r) \/ Cleared(r) \/ SetRow(r) \/ EnterDefault(r) \/ Refuse(r)
             \/ Commit(r) \/ Abort(r)
      PROVE  IInv'
  <2>1. CASE Refuse(r) \/ Abort(r)
    BY <2>1, RollbackInv DEF Refuse, Abort
  <2>2. QED
    BY <1>3, <2>1, ClearInv, ClearedInv, SetRowInv, EnterDefaultInv, CommitInv
<1>4. ASSUME NEW a \in Address, Remove(a) PROVE IInv'
  BY <1>4, RemoveInv
<1>5. CASE UNCHANGED vars
  BY <1>5 DEF vars, request, IInv, TypeOK, RequestsInv, RequestOk, FreshIds, FreshId, ClaimInv,
     Changing, Written, LocksInv, AtMostOneDefault
<1>6. QED
  BY <1>1, <1>2, <1>3, <1>4, <1>5 DEF Next

\* The default of a user is only cleared by removing it or by a commit that has no other to
\* offer: one whose own address was removed meanwhile.
LEMMA NextKeepsDefault ==
  ASSUME IInv, [Next]_vars, defaults # {}, defaults' = {}
  PROVE  \/ \E a \in defaults : a \notin addresses'
         \/ \E r \in Request : Commit(r) /\ ~req[r].creates /\ req[r].address \notin addresses
<1>1. ASSUME NEW a \in Address, Remove(a)
      PROVE  \E b \in defaults : b \notin addresses'
  BY <1>1 DEF Remove
<1>2. ASSUME NEW r \in Request, Commit(r)
      PROVE  ~req[r].creates /\ req[r].address \notin addresses
  <2>1. PICK a \in Address : a = req[r].address
    BY <1>2 DEF Commit, IInv, RequestsInv, RequestOk, TypeOK
  <2>2. pc[r] = "commit" /\ claim # r /\ defaults \subseteq Written(r)
    BY <1>2, <2>1, CommitUpdates
  <2>3. req[r].isDefault
    BY <2>2 DEF IInv, LocksInv, Changing
  <2>4. QED
    BY <2>1, <2>2, <2>3 DEF IInv, RequestsInv, RequestOk
<1>3. defaults' # defaults
  OBVIOUS
<1>4. QED
  BY <1>1, <1>2, <1>3
  DEF Next, Create, SetDefault, ClearRow, Clear, Cleared, SetRow, EnterDefault, Refuse, Abort,
      vars

\* What each transaction holds and has found, between any two statements of the others.
THEOREM Invariance == Spec => []IInv
BY InitInv, NextInv, PTL DEF Spec

\* The types; flags and locks are on rows that exist.
THEOREM TypeCorrect == Spec => []TypeOK
<1>1. IInv => TypeOK
  BY DEF IInv
<1>2. QED
  BY <1>1, Invariance, PTL

\* At most one address of a user is the default: whatever an UPDATE of the others misses,
\* the index makes wait or fail.
THEOREM OneDefault == Spec => []AtMostOneDefault
<1>1. IInv => AtMostOneDefault
  BY DEF IInv
<1>2. QED
  BY <1>1, Invariance, PTL

\* No abort, deadlock or interleaving costs a user the default: only its removal does, or
\* a setDefault whose address was removed after it was found.
THEOREM DefaultStays == Spec => DefaultIsNotLost
<1>1. IInv /\ [Next]_vars =>
        [defaults # {} /\ defaults' = {} =>
          \/ \E a \in defaults : a \notin addresses'
          \/ \E r \in Request : Commit(r) /\ ~req[r].creates /\ req[r].address \notin addresses]_vars
  BY NextKeepsDefault
<1>2. QED
  BY <1>1, Invariance, PTL DEF Spec, DefaultIsNotLost

-----------------------------------------------------------------------------
(* Delivery.                                                               *)

\* What request r has checked and nothing can undo.
Checked(r) ==
  /\ stage[r] \in {"create", "find"} => call[r].deliverer \in Person
  /\ stage[r] = "assign" => call[r].deliverer \in profiles
  /\ stage[r] = "transition" =>
       /\ call[r].actor \in Person \cup {Seller}
       /\ call[r].to \in {"ON_THE_WAY", "DELIVERED"}

\* What it has checked of the order, which a write of another one undoes.
Fresh(r) ==
  call[r].fresh =>
    /\ stage[r] \in {"find", "assign"} => order.status = "PREPARING"
    /\ stage[r] = "transition" => call[r].actor \in {Seller, order.deliverer}

CallsInv == \A r \in Call : Checked(r) /\ Fresh(r)

NotMovedYet == order.status = "PREPARING" => mover = Nobody

CarrierInv == DeliveryTypeOK /\ CallsInv /\ NotMovedYet /\ CarrierIsAssigned

-----------------------------------------------------------------------------

LEMMA InitCarrierInv == DeliveryInit => CarrierInv
<1> SUFFICES ASSUME DeliveryInit PROVE CarrierInv
  OBVIOUS
<1>1. DeliveryTypeOK
  BY DEF DeliveryInit, DeliveryTypeOK, Order, OrderStatus, NoCall
<1>2. CallsInv
  BY DEF DeliveryInit, CallsInv, Checked, Fresh
<1>3. NotMovedYet /\ CarrierIsAssigned
  BY DEF DeliveryInit, NotMovedYet, CarrierIsAssigned
<1>4. QED
  BY <1>1, <1>2, <1>3 DEF CarrierInv

\* The requests a read may start with.
CallRecord ==
  [actor : Person \cup {Seller, Buyer, Nobody}, deliverer : Person \cup {Nobody},
   to : OrderStatus, fresh : BOOLEAN]

LEMMA NoCallType == NoCall \in CallRecord
BY DEF NoCall, CallRecord, OrderStatus

\* A step in which one request moves and the order stays.
LEMMA OneCallMoves ==
  ASSUME CarrierInv, NEW r \in Call, UNCHANGED <<available, fulfillment, order, history>>,
         NEW step \in {"idle", "create", "find", "assign", "transition", "cancel"},
         NEW o \in CallRecord, stage' = [stage EXCEPT ![r] = step], call' = [call EXCEPT ![r] = o],
         profiles \subseteq profiles', profiles' \subseteq Person, Checked(r)', Fresh(r)'
  PROVE  CarrierInv'
<1>1. DeliveryTypeOK'
  BY DEF CarrierInv, DeliveryTypeOK, CallRecord, history
<1>2. CallsInv'
  <2> SUFFICES ASSUME NEW q \in Call PROVE Checked(q)' /\ Fresh(q)'
    BY DEF CallsInv
  <2>1. CASE q = r
    BY <2>1
  <2>2. CASE q # r
    <3>1. stage'[q] = stage[q] /\ call'[q] = call[q] /\ order' = order
      BY <2>2 DEF CarrierInv, DeliveryTypeOK
    <3>2. Checked(q) /\ Fresh(q)
      BY DEF CarrierInv, CallsInv
    <3>3. QED
      BY <3>1, <3>2 DEF Checked, Fresh
  <2>3. QED
    BY <2>1, <2>2
<1>3. NotMovedYet' /\ CarrierIsAssigned'
  BY DEF CarrierInv, NotMovedYet, CarrierIsAssigned, history
<1>4. QED
  BY <1>1, <1>2, <1>3 DEF CarrierInv

LEMMA CheckedAtBegin ==
  ASSUME CarrierInv, NEW r \in Call, NEW step, NEW o, Begin(r, step, o)
  PROVE  stage'[r] = step /\ call'[r] = o
BY DEF Begin, CarrierInv, DeliveryTypeOK

LEMMA EndInv ==
  ASSUME CarrierInv, NEW r \in Call, UNCHANGED <<available, fulfillment, order, history>>, EndCall(r),
         profiles \subseteq profiles', profiles' \subseteq Person
  PROVE  CarrierInv'
<1>1. stage'[r] = "idle"
  BY DEF EndCall, CarrierInv, DeliveryTypeOK
<1>2. Checked(r)' /\ Fresh(r)'
  BY <1>1 DEF Checked, Fresh
<1>3. QED
  BY <1>2, NoCallType, OneCallMoves DEF EndCall

-----------------------------------------------------------------------------
(* What starts.                                                            *)

LEMMA SetMyAvailableInv ==
  ASSUME CarrierInv, NEW d \in Person, NEW value \in BOOLEAN, SetMyAvailable(d, value)
  PROVE  CarrierInv'
<1>1. UNCHANGED <<profiles, fulfillment, order, stage, call, mover, stale>>
  BY DEF SetMyAvailable, calls, history
<1>2. DeliveryTypeOK'
  BY <1>1 DEF CarrierInv, DeliveryTypeOK, SetMyAvailable
<1>3. QED
  BY <1>1, <1>2 DEF CarrierInv, CallsInv, Checked, Fresh, NotMovedYet, CarrierIsAssigned

LEMMA CreateByAdminInv ==
  ASSUME CarrierInv, NEW r \in Call, NEW d \in Person, CreateByAdmin(r, d)
  PROVE  CarrierInv'
<1> DEFINE o == [NoCall EXCEPT !.deliverer = d]
<1>1. o \in CallRecord /\ o.deliverer = d
  BY DEF NoCall, CallRecord, OrderStatus
<1>2. stage'[r] = "create" /\ call'[r] = o
  BY CheckedAtBegin DEF CreateByAdmin
<1>3. Checked(r)' /\ Fresh(r)'
  BY <1>1, <1>2 DEF Checked, Fresh
<1>4. QED
  BY <1>1, <1>3, OneCallMoves DEF CreateByAdmin, Begin, CarrierInv, DeliveryTypeOK

LEMMA AssignToOrderInv ==
  ASSUME CarrierInv, NEW r \in Call, NEW d \in Person, AssignToOrder(r, d)
  PROVE  CarrierInv'
<1> DEFINE o == [NoCall EXCEPT !.deliverer = d]
<1>1. o \in CallRecord /\ o.deliverer = d
  BY DEF NoCall, CallRecord, OrderStatus
<1>2. stage'[r] = "find" /\ call'[r] = o /\ order' = order /\ order.status = "PREPARING"
  BY CheckedAtBegin DEF AssignToOrder, Assignable
<1>3. Checked(r)' /\ Fresh(r)'
  BY <1>1, <1>2 DEF Checked, Fresh
<1>4. QED
  BY <1>1, <1>3, OneCallMoves DEF AssignToOrder, Begin, CarrierInv, DeliveryTypeOK

LEMMA TransitionInv ==
  ASSUME CarrierInv, NEW r \in Call, NEW p \in Person \cup {Seller}, NEW to \in OrderStatus,
         Transition(r, p, to)
  PROVE  CarrierInv'
<1> DEFINE o == [NoCall EXCEPT !.actor = p, !.to = to]
<1>1. o \in CallRecord /\ o.actor = p /\ o.to = to
  BY DEF NoCall, CallRecord, OrderStatus
<1>2. /\ stage'[r] = "transition" /\ call'[r] = o /\ order' = order
      /\ p \in {Seller, order.deliverer} /\ to \in {"ON_THE_WAY", "DELIVERED"}
  BY CheckedAtBegin DEF Transition, MayMove, Forward
<1>3. Checked(r)' /\ Fresh(r)'
  BY <1>1, <1>2 DEF Checked, Fresh
<1>4. QED
  BY <1>1, <1>3, OneCallMoves DEF Transition, Begin, CarrierInv, DeliveryTypeOK

LEMMA CancelInv ==
  ASSUME CarrierInv, NEW r \in Call, NEW p \in {Seller, Buyer}, Cancel(r, p)
  PROVE  CarrierInv'
<1> DEFINE o == [NoCall EXCEPT !.actor = p]
<1>1. o \in CallRecord
  BY DEF NoCall, CallRecord, OrderStatus
<1>2. stage'[r] = "cancel"
  BY CheckedAtBegin DEF Cancel
<1>3. Checked(r)' /\ Fresh(r)'
  BY <1>2 DEF Checked, Fresh
<1>4. QED
  BY <1>1, <1>3, OneCallMoves DEF Cancel, Begin, CarrierInv, DeliveryTypeOK

-----------------------------------------------------------------------------
(* What goes on.                                                           *)

LEMMA CreateProfileInv ==
  ASSUME CarrierInv, NEW r \in Call, CreateProfile(r)
  PROVE  CarrierInv'
<1>1. call[r].deliverer \in Person /\ profiles \subseteq Person
  BY DEF CreateProfile, CarrierInv, DeliveryTypeOK, CallsInv, Checked
<1>2. profiles \subseteq profiles' /\ profiles' \subseteq Person
  BY <1>1 DEF CreateProfile
<1>3. QED
  BY <1>2, EndInv DEF CreateProfile

LEMMA FindDelivererInv ==
  ASSUME CarrierInv, NEW r \in Call, FindDeliverer(r)
  PROVE  CarrierInv'
<1>1. UNCHANGED <<profiles, available, fulfillment, order, history>> /\ profiles \subseteq Person
  BY DEF FindDeliverer, CarrierInv, DeliveryTypeOK
<1>2. CASE call[r].deliverer \in profiles
  <2>1. stage' = [stage EXCEPT ![r] = "assign"] /\ call' = [call EXCEPT ![r] = call[r]]
    BY <1>2 DEF FindDeliverer, CarrierInv, DeliveryTypeOK
  <2>2. call[r] \in CallRecord
    BY DEF CarrierInv, DeliveryTypeOK, CallRecord
  <2>3. stage'[r] = "assign" /\ call'[r] = call[r] /\ stage[r] = "find"
    BY <2>1 DEF FindDeliverer, CarrierInv, DeliveryTypeOK
  <2>4. Checked(r)' /\ Fresh(r)'
    BY <1>1, <1>2, <2>3 DEF Checked, Fresh, CarrierInv, CallsInv
  <2>5. QED
    BY <1>1, <2>1, <2>2, <2>4, OneCallMoves
<1>3. CASE call[r].deliverer \notin profiles
  BY <1>1, <1>3, EndInv DEF FindDeliverer
<1>4. QED
  BY <1>2, <1>3

LEMMA OutdatedRecord ==
  ASSUME NEW o \in CallRecord, NEW fresh \in BOOLEAN
  PROVE  /\ [o EXCEPT !.fresh = fresh] \in CallRecord
         /\ [o EXCEPT !.fresh = fresh].fresh = fresh
         /\ [o EXCEPT !.fresh = fresh].actor = o.actor
         /\ [o EXCEPT !.fresh = fresh].to = o.to
         /\ [o EXCEPT !.fresh = fresh].deliverer = o.deliverer
BY DEF CallRecord

\* A write of the order leaves nothing that others have read of it fresh.
LEMMA WriteInv ==
  ASSUME CarrierInv, NEW r \in Call, NEW o \in Order, Write(r, o),
         o.deliverer \in profiles \cup {Nobody}, UNCHANGED <<profiles, available, fulfillment>>,
         mover' \in Person \cup {Seller, Nobody}, NotMovedYet',
         call[r].fresh => CarrierIsAssigned'
  PROVE  CarrierInv'
<1>1. /\ order' = o /\ stale' = (stale \/ ~call[r].fresh)
      /\ \A q \in Call \ {r} :
           /\ stage'[q] = stage[q]
           /\ call'[q] = [call[q] EXCEPT !.fresh = stage[q] \in {"idle", "create"}]
      /\ stage'[r] = "idle" /\ call'[r] = NoCall
  BY DEF Write, CarrierInv, DeliveryTypeOK
<1>2. DeliveryTypeOK'
  <2>1. stage' \in [Call -> {"idle", "create", "find", "assign", "transition", "cancel"}]
    BY DEF Write, CarrierInv, DeliveryTypeOK
  <2>2. call' \in [Call -> CallRecord]
    <3>1. call \in [Call -> CallRecord]
      BY DEF CarrierInv, DeliveryTypeOK, CallRecord
    <3>2. ASSUME NEW q \in Call
          PROVE  [call[q] EXCEPT !.fresh = stage[q] \in {"idle", "create"}] \in CallRecord
      <4>1. (stage[q] \in {"idle", "create"}) \in BOOLEAN /\ call[q] \in CallRecord
        BY <3>1
      <4>2. QED
        BY <4>1, OutdatedRecord, Zenon
    <3>3. QED
      BY <3>2, NoCallType DEF Write
  <2>3. stale' \in BOOLEAN
    BY <1>1 DEF CarrierInv, DeliveryTypeOK
  <2>4. QED
    BY <1>1, <2>1, <2>2, <2>3 DEF CarrierInv, DeliveryTypeOK, CallRecord
<1>3. CallsInv'
  <2> SUFFICES ASSUME NEW q \in Call PROVE Checked(q)' /\ Fresh(q)'
    BY DEF CallsInv
  <2>1. CASE q = r
    BY <1>1, <2>1 DEF Checked, Fresh
  <2>2. CASE q # r
    <3>1. /\ stage'[q] = stage[q] /\ (call'[q].fresh => stage[q] \in {"idle", "create"})
          /\ call'[q].actor = call[q].actor /\ call'[q].to = call[q].to
          /\ call'[q].deliverer = call[q].deliverer
      <4>1. call[q] \in CallRecord
        BY DEF CarrierInv, DeliveryTypeOK, CallRecord
      <4>2. PICK fresh \in BOOLEAN : fresh <=> stage[q] \in {"idle", "create"}
        OBVIOUS
      <4>3. stage'[q] = stage[q] /\ call'[q] = [call[q] EXCEPT !.fresh = fresh]
        BY <1>1, <2>2, <4>2
      <4>4. QED
        BY <4>1, <4>2, <4>3, OutdatedRecord
    <3>2. Checked(q)
      BY DEF CarrierInv, CallsInv
    <3>3. QED
      BY <3>1, <3>2 DEF Checked, Fresh
  <2>3. QED
    BY <2>1, <2>2
<1>4. CarrierIsAssigned'
  BY <1>1 DEF CarrierIsAssigned, CarrierInv, DeliveryTypeOK
<1>5. QED
  BY <1>2, <1>3, <1>4 DEF CarrierInv

LEMMA AssignInv ==
  ASSUME CarrierInv, NEW r \in Call, Assign(r)
  PROVE  CarrierInv'
<1> DEFINE o == [order EXCEPT !.deliverer = call[r].deliverer]
<1>1. call[r].deliverer \in profiles /\ order \in Order /\ profiles \subseteq Person
  BY DEF Assign, CarrierInv, DeliveryTypeOK, CallsInv, Checked
<1>2. o \in Order /\ o.deliverer = call[r].deliverer /\ o.status = order.status
  BY <1>1 DEF Order
<1>3. Write(r, o) /\ UNCHANGED <<profiles, available, fulfillment, mover>> /\ order' = o
  BY DEF Assign, Write
<1>4. NotMovedYet'
  BY <1>2, <1>3 DEF NotMovedYet, CarrierInv
<1>5. call[r].fresh => CarrierIsAssigned'
  <2>1. call[r].fresh => order.status = "PREPARING"
    BY DEF Assign, CarrierInv, CallsInv, Fresh
  <2>2. QED
    BY <1>3, <2>1 DEF NotMovedYet, CarrierIsAssigned, CarrierInv
<1>6. mover' \in Person \cup {Seller, Nobody}
  BY <1>3 DEF CarrierInv, DeliveryTypeOK
<1>7. QED
  BY <1>1, <1>2, <1>3, <1>4, <1>5, <1>6, WriteInv

LEMMA MoveInv ==
  ASSUME CarrierInv, NEW r \in Call, Move(r)
  PROVE  CarrierInv'
<1> DEFINE o == [order EXCEPT !.status = call[r].to]
<1>1. /\ call[r].actor \in Person \cup {Seller} /\ call[r].to \in {"ON_THE_WAY", "DELIVERED"}
      /\ call[r].fresh => call[r].actor \in {Seller, order.deliverer}
      /\ order \in Order /\ order.deliverer \in profiles \cup {Nobody}
  BY DEF Move, CarrierInv, DeliveryTypeOK, CallsInv, Checked, Fresh
<1>2. o \in Order /\ o.deliverer = order.deliverer /\ o.status = call[r].to
  BY <1>1 DEF Order, OrderStatus
<1>3. /\ Write(r, o) /\ UNCHANGED <<profiles, available, fulfillment>> /\ order' = o
      /\ mover' = call[r].actor
  BY DEF Move, Write
<1>4. NotMovedYet'
  BY <1>1, <1>2, <1>3 DEF NotMovedYet
<1>5. call[r].fresh => CarrierIsAssigned'
  BY <1>1, <1>2, <1>3 DEF CarrierIsAssigned
<1>6. mover' \in Person \cup {Seller, Nobody}
  BY <1>1, <1>3
<1>7. QED
  BY <1>1, <1>2, <1>3, <1>4, <1>5, <1>6, WriteInv

LEMMA CancelOrderInv ==
  ASSUME CarrierInv, NEW r \in Call, CancelOrder(r)
  PROVE  CarrierInv'
<1> DEFINE o == [order EXCEPT !.status = "CANCELLED"]
<1>1. order \in Order /\ order.deliverer \in profiles \cup {Nobody}
  BY DEF CarrierInv, DeliveryTypeOK
<1>2. o \in Order /\ o.deliverer = order.deliverer /\ o.status = "CANCELLED"
  BY <1>1 DEF Order, OrderStatus
<1>3. Write(r, o) /\ UNCHANGED <<profiles, available, fulfillment, mover>> /\ order' = o
  BY DEF CancelOrder, Write
<1>4. NotMovedYet'
  BY <1>2, <1>3 DEF NotMovedYet
<1>5. call[r].fresh => CarrierIsAssigned'
  BY <1>2, <1>3 DEF CarrierIsAssigned, CarrierInv, DeliveryTypeOK, Write
<1>6. mover' \in Person \cup {Seller, Nobody}
  BY <1>3 DEF CarrierInv, DeliveryTypeOK
<1>7. QED
  BY <1>1, <1>2, <1>3, <1>4, <1>5, <1>6, WriteInv

-----------------------------------------------------------------------------

LEMMA NextCarrierInv == CarrierInv /\ [DeliveryNext]_deliveryVars => CarrierInv'
<1> SUFFICES ASSUME CarrierInv, [DeliveryNext]_deliveryVars PROVE CarrierInv'
  OBVIOUS
<1>1. CASE DelivererStep
  BY <1>1, SetMyAvailableInv DEF DelivererStep
<1>2. CASE AdminStep
  BY <1>2, CreateByAdminInv, AssignToOrderInv DEF AdminStep
<1>3. CASE OrderStep
  BY <1>3, TransitionInv, CancelInv DEF OrderStep
<1>4. ASSUME NEW r \in Call, Continue(r) PROVE CarrierInv'
  <2>1. CASE Fail(r)
    BY <2>1, EndInv DEF Fail, CarrierInv, DeliveryTypeOK
  <2>2. QED
    BY <1>4, <2>1, CreateProfileInv, FindDelivererInv, AssignInv, MoveInv, CancelOrderInv
    DEF Continue
<1>5. CASE UNCHANGED deliveryVars
  BY <1>5 DEF deliveryVars, calls, history, CarrierInv, DeliveryTypeOK, CallsInv, Checked, Fresh, NotMovedYet,
     CarrierIsAssigned
<1>6. QED
  BY <1>1, <1>2, <1>3, <1>4, <1>5 DEF DeliveryNext

\* What each request has checked holds until it writes, or until another one has.
THEOREM CarrierInvariance == DeliverySpec => []CarrierInv
BY InitCarrierInv, NextCarrierInv, PTL DEF DeliverySpec

\* The types; and an order only ever names a deliverer who has a profile.
THEOREM DeliveryTypeCorrect == DeliverySpec => []DeliveryTypeOK
<1>1. CarrierInv => DeliveryTypeOK
  BY DEF CarrierInv
<1>2. QED
  BY <1>1, CarrierInvariance, PTL

\* Whoever else than the seller moved the order last is the deliverer it names, unless a
\* request wrote it after it had changed since the request's check.
THEOREM CarrierStaysAssigned == DeliverySpec => []CarrierIsAssigned
<1>1. CarrierInv => CarrierIsAssigned
  BY DEF CarrierInv
<1>2. QED
  BY <1>1, CarrierInvariance, PTL

===============================================================================
