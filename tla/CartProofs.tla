------------------------------- MODULE CartProofs -------------------------------
(***************************************************************************)
(* Proofs about Cart, for any listings, sellers, currencies, requests and  *)
(* quantities.                                                             *)
(*                                                                         *)
(* Until a request commits a change of a cart that another has read, what *)
(* each request in flight has read of the cart is still so, but for a      *)
(* first read that creates the empty row (Stage); the lines it has deleted *)
(* and not yet committed are the ones its next steps reckon with, and the  *)
(* row locks keep them out of the others' way.  After a crossing only the  *)
(* types are left to hold.                                                 *)
(***************************************************************************)
EXTENDS Cart, TLAPS

\* What the lines say of the cart row.
Matching ==
  IF Present = {}
  THEN row \in {Null, EmptyRow}
  ELSE \A l \in Present : row = [seller |-> SellerOf[l], currency |-> line[l].currency]

\* A line is there with the currency it was added in.
LinesInv == \A l \in Present : line[l].currency \in Currency

\* Of the lines, request r has deleted none, or all that there are.
NothingDeleted(r) == \A l \in Listing : lineLock[l] # r
AllDeleted(r) == \A l \in Present : lineLock[l] = r

\* What request r knows of what it was asked; a checkout was asked nothing.
OpOk(r) ==
  /\ pc[r] \in {"add", "upsert", "commitAdd", "replace", "insert", "remove", "count",
                "release", "update"} => op[r].listing \in Listing
  /\ pc[r] \in {"add", "upsert", "commitAdd", "replace", "insert"} => op[r].currency \in Currency
  /\ pc[r] = "delete" /\ op[r].listing # Null =>
       op[r].listing \in Listing /\ op[r].currency \in Currency

OpsInv == \A r \in Request : OpOk(r)

\* What request r may rely on between two of its steps.
Stage(r) ==
  /\ pc[r] \notin {"insert", "clear", "count", "release"} => NothingDeleted(r)
  /\ pc[r] \in {"upsert", "commitAdd"} => Accepts(op[r])
  /\ pc[r] \in {"insert", "clear"} => AllDeleted(r)
  /\ pc[r] \in {"remove", "count", "release", "update"} => op[r].id # 0
  /\ pc[r] \in {"count", "release"} =>
       /\ op[r].listing \in Present
       /\ \A l \in Listing : lineLock[l] = r <=> l = op[r].listing
  /\ pc[r] = "release" => Present = {op[r].listing}

\* The lines match the row, and no request is misled by what it has read.
ReadsInv == ~crossed => Matching /\ LinesInv /\ \A r \in Request : Stage(r)

IInv == TypeOK /\ OpsInv /\ ReadsInv

Step == {"idle", "add", "upsert", "commitAdd", "replace", "delete", "insert",
         "clear", "remove", "count", "release", "update"}
Op == [listing : Listing \cup {Null}, quantity : Nat, id : Nat,
       currency : Currency \cup {Null}, existing : BOOLEAN]
Row == [seller : Seller \cup {Null}, currency : Currency \cup {Null}]

LEMMA Types ==
  TypeOK <=>
    /\ currency \in [Listing -> Currency] /\ row \in Row \cup {Null}
    /\ line \in [Listing -> Line] /\ rowLock \in Request \cup {Null}
    /\ lineLock \in [Listing -> Request \cup {Null}]
    /\ pc \in [Request -> Step] /\ op \in [Request -> Op]
    /\ lastId \in Nat /\ crossed \in BOOLEAN
BY DEF TypeOK, Step, Op, Row

LEMMA Nothing ==
  /\ NoOp \in Op /\ NoLine \in Line /\ NoLine.id = 0
  /\ EmptyRow \in Row /\ EmptyRow # Null
  /\ EmptyRow.seller = Null /\ EmptyRow.currency = Null
<1>1. NoOp \in Op
  BY DEF NoOp, Op
<1>2. NoLine \in Line /\ NoLine.id = 0
  BY DEF NoLine, Line
<1>3. EmptyRow \in Row /\ EmptyRow.seller = Null /\ EmptyRow.currency = Null
  BY DEF EmptyRow, Row
<1>4. EmptyRow # Null
  BY <1>3, CartAssumption DEF Row
<1>5. QED
  BY <1>1, <1>2, <1>3, <1>4

LEMMA InitInv == Init => IInv
<1> SUFFICES ASSUME Init PROVE IInv
  OBVIOUS
<1>1. TypeOK
  BY Nothing, CartAssumption DEF Init, TypeOK, Op, Row
<1>2. Present = {}
  BY Nothing DEF Init, Present
<1>3. Matching /\ LinesInv
  BY <1>2 DEF Init, Matching, LinesInv
<1>4. \A r \in Request : Stage(r) /\ pc[r] = "idle"
  BY CartAssumption DEF Init, Stage, NothingDeleted
<1>5. OpsInv
  BY <1>4 DEF OpsInv, OpOk
<1>6. QED
  BY <1>1, <1>3, <1>4, <1>5 DEF IInv, ReadsInv

-----------------------------------------------------------------------------
(* Requests side by side.                                                  *)

LEMMA MatchingStays ==
  ASSUME IInv, UNCHANGED <<row, line>>
  PROVE  ~crossed => Matching' /\ LinesInv'
BY DEF IInv, ReadsInv, Matching, LinesInv, Present

\* A request that does not move relies on the lines that are there and the locks it holds.
LEMMA StageStays ==
  ASSUME NEW q \in Request, Stage(q), pc'[q] = pc[q], op'[q] = op[q], row' = row,
         \A l \in Listing : line'[l].id = line[l].id,
         \A l \in Listing : lineLock'[l] = q <=> lineLock[l] = q
  PROVE  Stage(q)'
<1>1. Present' = Present
  BY DEF Present
<1>2. /\ NothingDeleted(q) => NothingDeleted(q)'
      /\ AllDeleted(q) => AllDeleted(q)'
  BY <1>1 DEF NothingDeleted, AllDeleted, Present
<1>3. Accepts(op[q]) => Accepts(op[q])'
  BY DEF Accepts
<1>4. QED
  BY <1>1, <1>2, <1>3 DEF Stage

\* A request that has not read the cart relies on no line, and on no row.
LEMMA UnreadStage ==
  ASSUME NEW q \in Request, Stage(q), pc[q] \notin HasRead, pc'[q] = pc[q], op'[q] = op[q],
         \A l \in Listing : lineLock'[l] = q <=> lineLock[l] = q
  PROVE  Stage(q)'
BY DEF Stage, NothingDeleted, HasRead

\* Where a request ends, the others hold what they held.
LEMMA EndUpdates ==
  ASSUME IInv, NEW r \in Request, pc[r] # "idle", End(r)
  PROVE  /\ pc' \in [Request -> Step] /\ op' \in [Request -> Op]
         /\ rowLock' \in Request \cup {Null} /\ lineLock' \in [Listing -> Request \cup {Null}]
         /\ Stage(r)' /\ OpsInv'
         /\ \A q \in Request \ {r} :
              /\ pc'[q] = pc[q] /\ op'[q] = op[q]
              /\ \A l \in Listing : lineLock'[l] = q <=> lineLock[l] = q
<1>1. /\ pc \in [Request -> Step] /\ op \in [Request -> Op]
      /\ rowLock \in Request \cup {Null} /\ lineLock \in [Listing -> Request \cup {Null}]
  BY Types DEF IInv
<1>2. /\ pc' \in [Request -> Step] /\ op' \in [Request -> Op]
      /\ rowLock' \in Request \cup {Null} /\ lineLock' \in [Listing -> Request \cup {Null}]
      /\ pc'[r] = "idle" /\ \A q \in Request \ {r} : pc'[q] = pc[q] /\ op'[q] = op[q]
      /\ \A l \in Listing : lineLock'[l] = IF lineLock[l] = r THEN Null ELSE lineLock[l]
  BY <1>1, Nothing DEF End, Step
<1>3. Stage(r)'
  BY <1>2, CartAssumption DEF Stage, NothingDeleted
<1>4. \A q \in Request \ {r}, l \in Listing : lineLock'[l] = q <=> lineLock[l] = q
  BY <1>2, CartAssumption
<1>5. OpsInv'
  <2> SUFFICES ASSUME NEW q \in Request PROVE OpOk(q)'
    BY DEF OpsInv
  <2>1. CASE q = r
    BY <1>2, <2>1 DEF OpOk
  <2>2. CASE q # r
    BY <1>2, <2>2 DEF IInv, OpsInv, OpOk
  <2>3. QED
    BY <2>1, <2>2
<1>6. QED
  BY <1>2, <1>3, <1>4, <1>5

\* A request goes on, and takes locks that are free.
LEMMA StepReads ==
  ASSUME IInv, NEW r \in Request, UNCHANGED <<row, line, crossed>>,
         \A q \in Request \ {r} : pc'[q] = pc[q] /\ op'[q] = op[q],
         \A l \in Listing : lineLock'[l] = lineLock[l] \/ (lineLock[l] = Null /\ lineLock'[l] = r),
         ~crossed => Stage(r)'
  PROVE  ReadsInv'
<1> SUFFICES ASSUME ~crossed
             PROVE  Matching' /\ LinesInv' /\ \A q \in Request : Stage(q)'
  BY DEF ReadsInv
<1>1. Matching' /\ LinesInv'
  BY MatchingStays
<1>2. ASSUME NEW q \in Request \ {r}
      PROVE  Stage(q)'
  <2>1. Stage(q)
    BY DEF IInv, ReadsInv
  <2>2. \A l \in Listing : lineLock'[l] = q <=> lineLock[l] = q
    BY CartAssumption
  <2>3. QED
    BY <2>1, <2>2, StageStays
<1>3. QED
  BY <1>1, <1>2

\* What the other requests were asked stays.
LEMMA OthersOps ==
  ASSUME IInv, NEW r \in Request, OpOk(r)',
         \A q \in Request \ {r} : pc'[q] = pc[q] /\ op'[q] = op[q]
  PROVE  OpsInv'
<1> SUFFICES ASSUME NEW q \in Request PROVE OpOk(q)'
  BY DEF OpsInv
<1>1. CASE q = r
  BY <1>1
<1>2. CASE q # r
  BY <1>2 DEF IInv, OpsInv, OpOk
<1>3. QED
  BY <1>1, <1>2

LEMMA Begins ==
  ASSUME IInv, NEW r \in Request, NEW step \in Step \ {"idle"}, NEW o \in Op, Begin(r, step, o),
         UNCHANGED <<row, line, rowLock, lineLock, lastId>>, currency' \in [Listing -> Currency],
         OpOk(r)', ~crossed => Stage(r)'
  PROVE  IInv'
<1>1. /\ pc[r] = "idle" /\ pc' = [pc EXCEPT ![r] = step] /\ op' = [op EXCEPT ![r] = o]
      /\ crossed' = crossed
  BY DEF Begin
<1>2. /\ pc' \in [Request -> Step] /\ op' \in [Request -> Op]
      /\ \A q \in Request \ {r} : pc'[q] = pc[q] /\ op'[q] = op[q]
  BY <1>1, Types DEF IInv
<1>3. TypeOK'
  BY <1>1, <1>2 DEF IInv, TypeOK, Step, Op
<1>4. ReadsInv' /\ OpsInv'
  BY <1>1, <1>2, StepReads, OthersOps
<1>5. QED
  BY <1>3, <1>4 DEF IInv

-----------------------------------------------------------------------------
(* Requests that begin.                                                    *)

LEMMA ReadListingInv ==
  ASSUME IInv, NEW r \in Request, NEW l \in Listing, NEW n \in Quantity,
         NEW kind \in {"add", "replace"}, ReadListing(r, l, n, kind)
  PROVE  IInv'
<1>1. currency[l] \in Currency /\ n \in Nat
  BY CartAssumption DEF IInv, TypeOK
<1>2. PICK o \in Op :
        /\ o = [NoOp EXCEPT !.listing = l, !.quantity = n, !.currency = currency[l]]
        /\ o.listing = l /\ o.currency = currency[l]
  <2>1. LET new == [NoOp EXCEPT !.listing = l, !.quantity = n, !.currency = currency[l]] IN
          new \in Op /\ new.listing = l /\ new.currency = currency[l]
    BY <1>1 DEF NoOp, Op
  <2>2. QED
    BY <2>1
<1>3. /\ Begin(r, kind, o) /\ kind \in Step \ {"idle"}
      /\ UNCHANGED <<row, line, rowLock, lineLock, lastId>>
      /\ UNCHANGED currency
  BY <1>2 DEF ReadListing, Step
<1>4. pc'[r] = kind /\ op'[r] = o /\ pc[r] = "idle"
  BY <1>3, Types DEF IInv, Begin
<1>5. OpOk(r)'
  BY <1>1, <1>2, <1>4 DEF OpOk
<1>6. ASSUME ~crossed
      PROVE  Stage(r)'
  <2>1. NothingDeleted(r)
    BY <1>4, <1>6 DEF IInv, ReadsInv, Stage
  <2>2. QED
    BY <1>1, <1>2, <1>3, <1>4, <2>1 DEF Stage, NothingDeleted
<1>7. QED
  BY <1>3, <1>5, <1>6, Begins DEF IInv, TypeOK

LEMMA FindLineInv ==
  ASSUME IInv, NEW r \in Request, NEW l \in Listing, NEW n \in Quantity,
         NEW kind \in {"remove", "update"}, FindLine(r, l, n, kind)
  PROVE  IInv'
<1>1. line[l].id \in Nat /\ line[l].id # 0 /\ n \in Nat
  BY CartAssumption DEF FindLine, Present, IInv, TypeOK, Line
<1>2. PICK o \in Op :
        /\ o = [NoOp EXCEPT !.listing = l, !.quantity = n, !.id = line[l].id]
        /\ o.listing = l /\ o.id # 0
  <2>1. LET new == [NoOp EXCEPT !.listing = l, !.quantity = n, !.id = line[l].id] IN
          new \in Op /\ new.listing = l /\ new.id = line[l].id
    BY <1>1 DEF NoOp, Op
  <2>2. QED
    BY <1>1, <2>1
<1>3. /\ Begin(r, kind, o) /\ kind \in Step \ {"idle"}
      /\ UNCHANGED <<row, line, rowLock, lineLock, lastId>>
      /\ UNCHANGED currency
  BY <1>2 DEF FindLine, Step
<1>4. pc'[r] = kind /\ op'[r] = o /\ pc[r] = "idle"
  BY <1>3, Types DEF IInv, Begin
<1>5. OpOk(r)'
  BY <1>1, <1>2, <1>4 DEF OpOk
<1>6. ASSUME ~crossed
      PROVE  Stage(r)'
  <2>1. NothingDeleted(r)
    BY <1>4, <1>6 DEF IInv, ReadsInv, Stage
  <2>2. QED
    BY <1>1, <1>2, <1>3, <1>4, <2>1 DEF Stage, NothingDeleted
<1>7. QED
  BY <1>3, <1>5, <1>6, Begins DEF IInv, TypeOK

LEMMA StartClearInv ==
  ASSUME IInv, NEW r \in Request, StartClear(r)
  PROVE  IInv'
<1>1. /\ Begin(r, "delete", NoOp) /\ "delete" \in Step \ {"idle"} /\ NoOp \in Op
      /\ NoOp.listing = Null
      /\ UNCHANGED <<row, line, rowLock, lineLock, lastId>>
      /\ UNCHANGED currency
  BY Nothing DEF StartClear, Step, NoOp
<1>2. pc'[r] = "delete" /\ op'[r] = NoOp /\ pc[r] = "idle"
  BY <1>1, Types DEF IInv, Begin
<1>3. OpOk(r)'
  BY <1>1, <1>2 DEF OpOk
<1>4. ASSUME ~crossed
      PROVE  Stage(r)'
  <2>1. NothingDeleted(r)
    BY <1>2, <1>4 DEF IInv, ReadsInv, Stage
  <2>2. QED
    BY <1>1, <1>2, <2>1 DEF Stage, NothingDeleted
<1>5. QED
  BY <1>1, <1>3, <1>4, Begins DEF IInv, TypeOK

-----------------------------------------------------------------------------
(* Steps that write no line.                                               *)

\* A request ends and the cart is as it was, but for a quantity.
LEMMA EndInv ==
  ASSUME IInv, NEW r \in Request, pc[r] # "idle", GiveUp(r),
         UNCHANGED <<currency, row, lastId>>, line' \in [Listing -> Line],
         \A l \in Listing : line'[l].id = line[l].id /\ line'[l].currency = line[l].currency
  PROVE  IInv'
<1>1. End(r) /\ crossed' = crossed
  BY DEF GiveUp
<1>2. /\ pc' \in [Request -> Step] /\ op' \in [Request -> Op]
      /\ rowLock' \in Request \cup {Null} /\ lineLock' \in [Listing -> Request \cup {Null}]
      /\ Stage(r)' /\ OpsInv'
      /\ \A q \in Request \ {r} :
           /\ pc'[q] = pc[q] /\ op'[q] = op[q]
           /\ \A l \in Listing : lineLock'[l] = q <=> lineLock[l] = q
  BY <1>1, EndUpdates
<1>3. TypeOK'
  BY <1>1, <1>2 DEF IInv, TypeOK, Step, Op
<1>4. ReadsInv'
  <2> SUFFICES ASSUME ~crossed
               PROVE  Matching' /\ LinesInv' /\ \A q \in Request : Stage(q)'
    BY <1>1 DEF ReadsInv
  <2>1. Present' = Present /\ Present \subseteq Listing
    BY DEF Present
  <2>2. Matching' /\ LinesInv'
    BY <2>1 DEF IInv, ReadsInv, Matching, LinesInv
  <2>3. \A q \in Request \ {r} : Stage(q)'
    BY <1>2, StageStays DEF IInv, ReadsInv
  <2>4. QED
    BY <1>2, <2>2, <2>3
<1>5. QED
  BY <1>2, <1>3, <1>4 DEF IInv

\* A request goes on and the cart is as it was.
LEMMA GoesOn ==
  ASSUME IInv, NEW r \in Request, pc[r] # "idle", NEW step \in Step, NEW o \in Op,
         pc' = [pc EXCEPT ![r] = step], op' = [op EXCEPT ![r] = o],
         UNCHANGED <<currency, row, line, lastId, crossed>>,
         rowLock' \in Request \cup {Null}, lineLock' \in [Listing -> Request \cup {Null}],
         \A l \in Listing : lineLock'[l] = lineLock[l] \/ (lineLock[l] = Null /\ lineLock'[l] = r),
         OpOk(r)', ~crossed => Stage(r)'
  PROVE  IInv'
<1>1. /\ pc' \in [Request -> Step] /\ op' \in [Request -> Op]
      /\ \A q \in Request \ {r} : pc'[q] = pc[q] /\ op'[q] = op[q]
  BY Types DEF IInv
<1>2. TypeOK'
  BY <1>1 DEF IInv, TypeOK, Step, Op
<1>3. ReadsInv' /\ OpsInv'
  BY <1>1, StepReads, OthersOps
<1>4. QED
  BY <1>2, <1>3 DEF IInv

LEMMA AbortInv ==
  ASSUME IInv, NEW r \in Request, Abort(r)
  PROVE  IInv'
BY EndInv, Types DEF Abort, IInv

LEMMA ReadCartToAddInv ==
  ASSUME IInv, NEW r \in Request, ReadCartToAdd(r)
  PROVE  IInv'
<1>1. pc[r] = "add" /\ UNCHANGED <<currency, row, line, lastId>>
  BY DEF ReadCartToAdd
<1>2. CASE GiveUp(r)
  BY <1>1, <1>2, EndInv, Types DEF IInv
<1>3. CASE /\ Accepts(op[r])
           /\ pc' = [pc EXCEPT ![r] = "upsert"]
           /\ op' = [op EXCEPT ![r].existing = row # Null]
           /\ UNCHANGED <<rowLock, lineLock, crossed>>
  <2>1. PICK old \in Op : old = op[r]
    BY Types DEF IInv
  <2>2. PICK existing \in BOOLEAN : existing = (row # Null)
    <3>1. (row # Null) \in BOOLEAN
      OBVIOUS
    <3>2. QED
      BY <3>1, Zenon
  <2>3. PICK o \in Op :
          /\ o = [old EXCEPT !.existing = existing]
          /\ o.listing = old.listing /\ o.currency = old.currency
    <3>1. LET new == [old EXCEPT !.existing = existing] IN
            new \in Op /\ new.listing = old.listing /\ new.currency = old.currency
      BY DEF Op
    <3>2. QED
      BY <3>1
  <2>4. /\ op' = [op EXCEPT ![r] = o] /\ op'[r] = o /\ pc'[r] = "upsert"
        /\ "upsert" \in Step
    BY <1>3, <2>1, <2>2, <2>3, Types DEF IInv, Step
  <2>5. OpOk(r)'
    BY <1>1, <2>1, <2>3, <2>4 DEF IInv, OpsInv, OpOk
  <2>6. ASSUME ~crossed
        PROVE  Stage(r)'
    <3>1. NothingDeleted(r)
      BY <1>1, <2>1, <2>6 DEF IInv, ReadsInv, Stage
    <3>2. Accepts(o)'
      BY <1>1, <1>3, <2>1, <2>3 DEF Accepts
    <3>3. Accepts(op[r])'
      BY <2>4, <3>2 DEF Accepts
    <3>4. QED
      BY <1>3, <2>3, <2>4, <3>1, <3>3 DEF Stage, NothingDeleted
  <2>7. QED
    BY <1>1, <1>3, <2>4, <2>5, <2>6, GoesOn, Types DEF IInv
<1>4. QED
  BY <1>2, <1>3 DEF ReadCartToAdd

LEMMA WriteCartInv ==
  ASSUME IInv, NEW r \in Request, WriteCart(r)
  PROVE  IInv'
<1>1. pc[r] = "upsert" /\ UNCHANGED <<currency, row, line, lastId>>
  BY DEF WriteCart
<1>2. CASE GiveUp(r)
  BY <1>1, <1>2, EndInv, Types DEF IInv
<1>3. CASE rowLock' = r /\ Goto(r, "commitAdd") /\ UNCHANGED lineLock
  <2>1. PICK o \in Op : o = op[r]
    BY Types DEF IInv
  <2>2. /\ pc' = [pc EXCEPT ![r] = "commitAdd"] /\ op' = [op EXCEPT ![r] = o]
        /\ pc'[r] = "commitAdd" /\ op' = op /\ crossed' = crossed /\ "commitAdd" \in Step
    BY <1>3, <2>1, Types DEF Goto, IInv, Step
  <2>3. ASSUME ~crossed
        PROVE  Stage(r)'
    <3>1. Stage(r)
      BY <2>3 DEF IInv, ReadsInv
    <3>2. QED
      BY <1>1, <1>3, <2>2, <3>1 DEF Stage, NothingDeleted, Accepts
  <2>4. OpOk(r)'
    BY <1>1, <2>2 DEF IInv, OpsInv, OpOk
  <2>5. QED
    BY <1>1, <1>3, <2>2, <2>3, <2>4, GoesOn, Types DEF IInv
<1>4. QED
  BY <1>2, <1>3 DEF WriteCart

LEMMA ReadCartToReplaceInv ==
  ASSUME IInv, NEW r \in Request, ReadCartToReplace(r)
  PROVE  IInv'
<1>1. /\ pc[r] = "replace"
      /\ op' = [op EXCEPT ![r].existing = row # Null]
      /\ UNCHANGED <<currency, row, line, rowLock, lineLock, lastId, crossed>>
  BY DEF ReadCartToReplace
<1>2. PICK step \in {"delete", "insert"} :
        /\ pc' = [pc EXCEPT ![r] = step]
        /\ step = IF row # Null THEN "delete" ELSE "insert"
  BY DEF ReadCartToReplace
<1>3. PICK old \in Op : old = op[r]
  BY Types DEF IInv
<1>4. PICK existing \in BOOLEAN : existing = (row # Null)
  <2>1. (row # Null) \in BOOLEAN
    OBVIOUS
  <2>2. QED
    BY <2>1, Zenon
<1>5. PICK o \in Op :
        /\ o = [old EXCEPT !.existing = existing]
        /\ o.listing = old.listing /\ o.currency = old.currency
  <2>1. LET new == [old EXCEPT !.existing = existing] IN
          new \in Op /\ new.listing = old.listing /\ new.currency = old.currency
    BY DEF Op
  <2>2. QED
    BY <2>1
<1>6. /\ op' = [op EXCEPT ![r] = o] /\ op'[r] = o /\ pc'[r] = step /\ step \in Step
  BY <1>1, <1>2, <1>3, <1>4, <1>5, Types DEF IInv, Step
<1>7. OpOk(r)'
  BY <1>1, <1>3, <1>5, <1>6 DEF IInv, OpsInv, OpOk
<1>8. ASSUME ~crossed
      PROVE  Stage(r)'
  <2>1. NothingDeleted(r)
    BY <1>1, <1>3, <1>8 DEF IInv, ReadsInv, Stage
  <2>2. CASE row # Null
    BY <1>1, <1>2, <1>5, <1>6, <2>1, <2>2 DEF Stage, NothingDeleted
  <2>3. CASE row = Null
    <3>1. Present = {}
      <4>1. ASSUME NEW l \in Present PROVE FALSE
        <5>1. Present # {} /\ ~crossed
          BY <1>8, <4>1
        <5>2. row = [seller |-> SellerOf[l], currency |-> line[l].currency]
          BY <4>1, <5>1 DEF IInv, ReadsInv, Matching
        <5>3. row \in Row
          BY <4>1, <5>2, CartAssumption, Types DEF IInv, Row, Line, Present
        <5>4. QED
          BY <2>3, <5>3, CartAssumption DEF Row
      <4>2. QED
        BY <4>1
    <3>2. AllDeleted(r)'
      BY <1>1, <3>1 DEF AllDeleted, Present
    <3>3. QED
      BY <1>2, <1>5, <1>6, <2>1, <2>3, <3>2 DEF Stage
  <2>4. QED
    BY <2>2, <2>3
<1>9. QED
  BY <1>1, <1>2, <1>6, <1>7, <1>8, GoesOn, Types DEF IInv

LEMMA DeleteLinesInv ==
  ASSUME IInv, NEW r \in Request, DeleteLines(r)
  PROVE  IInv'
<1>1. /\ pc[r] = "delete" /\ \A l \in Present : lineLock[l] = Null
      /\ lineLock' = [l \in Listing |-> IF l \in Present THEN r ELSE lineLock[l]]
      /\ UNCHANGED <<currency, row, line, rowLock, lastId>>
  BY DEF DeleteLines
<1>2. PICK o \in Op : o = op[r]
  BY Types DEF IInv
<1>3. PICK step \in {"clear", "insert"} :
        Goto(r, step) /\ step = IF o.listing = Null THEN "clear" ELSE "insert"
  BY <1>2 DEF DeleteLines
<1>4. /\ pc' = [pc EXCEPT ![r] = step] /\ op' = [op EXCEPT ![r] = o] /\ op' = op
      /\ pc'[r] = step /\ crossed' = crossed /\ step \in Step
  BY <1>2, <1>3, Types DEF Goto, IInv, Step
<1>5. /\ lineLock' \in [Listing -> Request \cup {Null}]
      /\ \A l \in Listing :
           lineLock'[l] = lineLock[l] \/ (lineLock[l] = Null /\ lineLock'[l] = r)
      /\ \A l \in Present : lineLock'[l] = r
  BY <1>1, Types DEF IInv, Present
<1>6. OpOk(r)'
  BY <1>1, <1>2, <1>3, <1>4 DEF IInv, OpsInv, OpOk
<1>7. Stage(r)'
  <2>1. AllDeleted(r)'
    BY <1>1, <1>5 DEF AllDeleted, Present
  <2>2. QED
    BY <1>4, <2>1 DEF Stage
<1>8. QED
  BY <1>1, <1>4, <1>5, <1>6, <1>7, GoesOn, Types DEF IInv

LEMMA DeleteLineInv ==
  ASSUME IInv, NEW r \in Request, DeleteLine(r)
  PROVE  IInv'
<1>1. pc[r] = "remove" /\ UNCHANGED <<currency, row, line, lastId>>
  BY DEF DeleteLine
<1>2. CASE GiveUp(r)
  BY <1>1, <1>2, EndInv, Types DEF IInv
<1>3. CASE /\ line[op[r].listing].id = op[r].id /\ lineLock[op[r].listing] = Null
           /\ lineLock' = [lineLock EXCEPT ![op[r].listing] = r]
           /\ Goto(r, "count") /\ UNCHANGED rowLock
  <2>1. PICK o \in Op : o = op[r]
    BY Types DEF IInv
  <2>2. /\ pc' = [pc EXCEPT ![r] = "count"] /\ op' = [op EXCEPT ![r] = o] /\ op' = op
        /\ pc'[r] = "count" /\ crossed' = crossed /\ "count" \in Step
    BY <1>3, <2>1, Types DEF Goto, IInv, Step
  <2>3. /\ lineLock' \in [Listing -> Request \cup {Null}]
        /\ \A l \in Listing : lineLock'[l] = IF l = o.listing THEN r ELSE lineLock[l]
    BY <1>3, <2>1, Types DEF IInv
  <2>4. OpOk(r)' /\ o.listing \in Listing
    BY <1>1, <2>1, <2>2 DEF IInv, OpsInv, OpOk
  <2>5. ASSUME ~crossed
        PROVE  Stage(r)'
    <3>1. NothingDeleted(r) /\ o.listing \in Listing /\ o.id # 0
      BY <1>1, <2>1, <2>4, <2>5 DEF IInv, ReadsInv, Stage
    <3>2. o.listing \in Present'
      BY <1>1, <1>3, <2>1, <3>1 DEF Present
    <3>3. \A l \in Listing : lineLock'[l] = r <=> l = o.listing
      BY <2>3, <3>1 DEF NothingDeleted
    <3>4. QED
      BY <2>1, <2>2, <3>1, <3>2, <3>3 DEF Stage
  <2>6. QED
    BY <1>1, <1>3, <2>2, <2>3, <2>4, <2>5, GoesOn, Types DEF IInv
<1>4. QED
  BY <1>2, <1>3 DEF DeleteLine

-----------------------------------------------------------------------------
(* Steps that commit.                                                      *)

\* Request r commits: the lines it leaves match the row, or there are none, and nobody has
\* read the cart it changes.
LEMMA Commits ==
  ASSUME IInv, NEW r \in Request, pc[r] # "idle", CommitChange(r), currency' = currency,
         row' \in Row \cup {Null}, line' \in [Listing -> Line], lastId' \in Nat,
         ~crossed => Matching' /\ LinesInv'
  PROVE  IInv'
<1>1. /\ End(r) /\ crossed' \in BOOLEAN
      /\ ~crossed' => ~crossed /\ \A q \in Request \ {r} : pc[q] \notin HasRead
  BY DEF CommitChange
<1>2. /\ pc' \in [Request -> Step] /\ op' \in [Request -> Op]
      /\ rowLock' \in Request \cup {Null} /\ lineLock' \in [Listing -> Request \cup {Null}]
      /\ Stage(r)' /\ OpsInv'
      /\ \A q \in Request \ {r} :
           /\ pc'[q] = pc[q] /\ op'[q] = op[q]
           /\ \A l \in Listing : lineLock'[l] = q <=> lineLock[l] = q
  BY <1>1, EndUpdates
<1>3. TypeOK'
  BY <1>1, <1>2 DEF IInv, TypeOK, Step, Op, Row
<1>4. ReadsInv'
  <2> SUFFICES ASSUME ~crossed'
               PROVE  Matching' /\ LinesInv' /\ \A q \in Request : Stage(q)'
    BY DEF ReadsInv
  <2>1. \A q \in Request \ {r} : Stage(q)'
    BY <1>1, <1>2, UnreadStage DEF IInv, ReadsInv
  <2>2. QED
    BY <1>1, <1>2, <2>1
<1>5. QED
  BY <1>2, <1>3, <1>4 DEF IInv

LEMMA RemainingLines ==
  ASSUME TypeOK, NEW r \in Request
  PROVE  /\ Remaining(r) \in [Listing -> Line]
         /\ \A l \in Listing : Remaining(r)[l].id # 0 <=> l \in Present /\ lineLock[l] # r
         /\ \A l \in Listing : lineLock[l] # r => Remaining(r)[l] = line[l]
<1>1. Remaining(r) \in [Listing -> Line]
  BY Nothing DEF Remaining, TypeOK
<1>2. \A l \in Listing : Remaining(r)[l] = IF lineLock[l] = r THEN NoLine ELSE line[l]
  BY DEF Remaining
<1>3. QED
  BY <1>1, <1>2, Nothing DEF Present

LEMMA NewLineType ==
  ASSUME TypeOK, NEW o \in Op
  PROVE  /\ NewLine(o) \in Line /\ NewLine(o).id # 0
         /\ NewLine(o).currency = o.currency /\ lastId + 1 \in Nat
BY DEF NewLine, Line, Op, TypeOK

\* Nothing is left, and the cart is released.
LEMMA EmptyMatches ==
  ASSUME row' = EmptyRow, \A l \in Listing : line'[l].id = 0
  PROVE  Matching' /\ LinesInv'
BY DEF Matching, LinesInv, Present, EmptyRow

LEMMA CommitAddInv ==
  ASSUME IInv, NEW r \in Request, CommitAdd(r)
  PROVE  IInv'
<1>1. PICK o \in Op : o = op[r]
  BY Types DEF IInv
<1>2. /\ pc[r] = "commitAdd" /\ CommitChange(r) /\ currency' = currency
      /\ row' = [seller |-> SellerOf[o.listing], currency |-> o.currency]
      /\ \/ /\ line[o.listing].id = 0
            /\ line' = [line EXCEPT ![o.listing] = NewLine(o)]
            /\ lastId' = lastId + 1
         \/ /\ line[o.listing].id # 0
            /\ line' = [line EXCEPT ![o.listing].quantity = @ + o.quantity]
            /\ lastId' = lastId
  BY <1>1 DEF CommitAdd
<1>3. /\ o.listing \in Listing /\ o.currency \in Currency /\ o.quantity \in Nat
      /\ SellerOf[o.listing] \in Seller
  BY <1>1, <1>2, CartAssumption DEF IInv, OpsInv, OpOk, Op
<1>4. /\ row' \in Row /\ row'.seller = SellerOf[o.listing] /\ row'.currency = o.currency
  BY <1>2, <1>3 DEF Row
<1>5. PICK new \in Line :
        /\ line' = [line EXCEPT ![o.listing] = new] /\ new.id # 0
        /\ IF line[o.listing].id = 0 THEN new.currency = o.currency
           ELSE new.currency = line[o.listing].currency
  <2>1. CASE line[o.listing].id = 0
    BY <1>2, <2>1, NewLineType DEF IInv
  <2>2. CASE line[o.listing].id # 0
    <3>1. PICK old \in Line : old = line[o.listing]
      BY <1>3, Types DEF IInv
    <3>2. LET added == [old EXCEPT !.quantity = @ + o.quantity] IN
            added \in Line /\ added.id = old.id /\ added.currency = old.currency
      BY <1>3 DEF Line
    <3>3. line' = [line EXCEPT ![o.listing] = [old EXCEPT !.quantity = @ + o.quantity]]
      BY <1>2, <2>2, <3>1
    <3>4. QED
      BY <2>2, <3>1, <3>2, <3>3
  <2>3. QED
    BY <2>1, <2>2
<1>6. /\ line' \in [Listing -> Line] /\ lastId' \in Nat
      /\ line'[o.listing] = new /\ \A l \in Listing \ {o.listing} : line'[l] = line[l]
  BY <1>2, <1>3, <1>5, Types DEF IInv
<1>7. ASSUME ~crossed
      PROVE  Matching' /\ LinesInv'
  <2>1. Accepts(o) /\ Matching /\ LinesInv
    BY <1>1, <1>2, <1>7 DEF IInv, ReadsInv, Stage
  <2>2. ASSUME NEW l \in Present
        PROVE  SellerOf[l] = SellerOf[o.listing] /\ line[l].currency = o.currency
    <3>1. SellerOf[l] \in Seller /\ line[l].currency \in Currency
      BY <2>1, CartAssumption DEF LinesInv, Present
    <3>2. row = [seller |-> SellerOf[l], currency |-> line[l].currency]
      BY <2>1 DEF Matching
    <3>3. row # Null /\ row.seller = SellerOf[l] /\ row.currency = line[l].currency
      BY <3>1, <3>2, CartAssumption
    <3>4. QED
      BY <2>1, <3>1, <3>3, CartAssumption DEF Accepts
  <2>3. Present' = Present \cup {o.listing}
    BY <1>3, <1>5, <1>6 DEF Present
  <2>4. \A l \in Present' : SellerOf[l] = SellerOf[o.listing] /\ line'[l].currency = o.currency
    <3>1. CASE line[o.listing].id = 0
      BY <1>5, <1>6, <2>2, <2>3, <3>1 DEF Present
    <3>2. CASE line[o.listing].id # 0
      BY <1>3, <1>5, <1>6, <2>2, <2>3, <3>2 DEF Present
    <3>3. QED
      BY <3>1, <3>2
  <2>5. QED
    BY <1>2, <1>3, <2>3, <2>4 DEF Matching, LinesInv
<1>8. QED
  BY <1>2, <1>4, <1>6, <1>7, Commits

LEMMA CommitReplaceInv ==
  ASSUME IInv, NEW r \in Request, CommitReplace(r)
  PROVE  IInv'
<1>1. PICK o \in Op : o = op[r]
  BY Types DEF IInv
<1>2. pc[r] = "insert" /\ currency' = currency
  BY DEF CommitReplace
<1>3. CASE GiveUp(r) /\ UNCHANGED <<row, line, lastId>>
  BY <1>2, <1>3, EndInv, Types DEF IInv
<1>4. CASE /\ CommitChange(r)
           /\ row' = [seller |-> SellerOf[o.listing], currency |-> o.currency]
           /\ line' = [Remaining(r) EXCEPT ![o.listing] = NewLine(o)]
           /\ lastId' = lastId + 1
  <2>1. o.listing \in Listing /\ o.currency \in Currency /\ SellerOf[o.listing] \in Seller
    BY <1>1, <1>2, CartAssumption DEF IInv, OpsInv, OpOk
  <2>2. row' \in Row
    BY <1>4, <2>1 DEF Row
  <2>3. PICK new \in Line : /\ line' = [Remaining(r) EXCEPT ![o.listing] = new]
                            /\ new.id # 0 /\ new.currency = o.currency
    BY <1>4, NewLineType DEF IInv
  <2>4. /\ line' \in [Listing -> Line] /\ line'[o.listing] = new
        /\ \A l \in Listing \ {o.listing} : line'[l] = Remaining(r)[l]
    BY <2>1, <2>3, RemainingLines DEF IInv
  <2>5. ASSUME ~crossed
        PROVE  Matching' /\ LinesInv'
    <3>1. AllDeleted(r)
      BY <1>2, <2>5 DEF IInv, ReadsInv, Stage
    <3>2. \A l \in Listing : Remaining(r)[l].id = 0
      BY <3>1, RemainingLines DEF AllDeleted, IInv
    <3>3. Present' = {o.listing}
      BY <2>1, <2>3, <2>4, <3>2 DEF Present
    <3>4. QED
      BY <1>4, <2>1, <2>3, <2>4, <3>3 DEF Matching, LinesInv
  <2>6. lastId' \in Nat
    BY <1>4, Types DEF IInv
  <2>7. QED
    BY <1>2, <1>4, <2>2, <2>4, <2>5, <2>6, Commits
<1>5. QED
  BY <1>1, <1>3, <1>4 DEF CommitReplace

\* A commit that releases the cart, of a request that has deleted every line there is.
LEMMA ReleasesCart ==
  ASSUME IInv, NEW r \in Request, pc[r] # "idle", CommitChange(r),
         UNCHANGED <<currency, lastId>>,
         row' = EmptyRow, line' = Remaining(r), ~crossed => AllDeleted(r)
  PROVE  IInv'
<1>1. /\ row' \in Row \cup {Null} /\ line' \in [Listing -> Line] /\ lastId' \in Nat
  BY Nothing, RemainingLines, Types DEF IInv
<1>2. ASSUME ~crossed
      PROVE  Matching' /\ LinesInv'
  <2>1. \A l \in Listing : line'[l].id = 0
    BY <1>2, RemainingLines DEF AllDeleted, IInv
  <2>2. QED
    BY <2>1, EmptyMatches
<1>3. QED
  BY <1>1, <1>2, Commits

LEMMA CommitClearInv ==
  ASSUME IInv, NEW r \in Request, CommitClear(r)
  PROVE  IInv'
<1>1. ~crossed => AllDeleted(r)
  BY DEF CommitClear, IInv, ReadsInv, Stage
<1>2. QED
  BY <1>1, ReleasesCart DEF CommitClear

LEMMA ReleaseCartInv ==
  ASSUME IInv, NEW r \in Request, ReleaseCart(r)
  PROVE  IInv'
<1>1. ASSUME ~crossed
      PROVE  AllDeleted(r)
  <2>1. Stage(r) /\ pc[r] = "release"
    BY <1>1 DEF ReleaseCart, IInv, ReadsInv
  <2>2. /\ Present = {op[r].listing}
        /\ \A l \in Listing : lineLock[l] = r <=> l = op[r].listing
    BY <2>1 DEF Stage
  <2>3. QED
    BY <2>2 DEF AllDeleted, Present
<1>2. QED
  BY <1>1, ReleasesCart DEF ReleaseCart

LEMMA UpdateLineInv ==
  ASSUME IInv, NEW r \in Request, UpdateLine(r)
  PROVE  IInv'
<1>1. pc[r] = "update" /\ GiveUp(r) /\ UNCHANGED <<currency, row, lastId>>
  BY DEF UpdateLine
<1>2. PICK o \in Op, l \in Listing : o = op[r] /\ l = o.listing
  BY <1>1, Types DEF IInv, OpsInv, OpOk
<1>3. CASE line' = line
  BY <1>1, <1>3, EndInv, Types DEF IInv
<1>4. CASE line' = [line EXCEPT ![l].quantity = o.quantity]
  <2>1. PICK old \in Line : old = line[l]
    BY Types DEF IInv
  <2>2. PICK new \in Line : /\ new = [old EXCEPT !.quantity = o.quantity]
                            /\ new.id = old.id /\ new.currency = old.currency
    <3>1. LET updated == [old EXCEPT !.quantity = o.quantity] IN
            updated \in Line /\ updated.id = old.id /\ updated.currency = old.currency
      BY DEF Line, Op
    <3>2. QED
      BY <3>1
  <2>3. line' = [line EXCEPT ![l] = new]
    BY <1>4, <2>1, <2>2
  <2>4. line' \in [Listing -> Line]
    BY <2>3, Types DEF IInv
  <2>5. \A k \in Listing : line'[k].id = line[k].id /\ line'[k].currency = line[k].currency
    BY <2>1, <2>2, <2>3, Types DEF IInv
  <2>6. QED
    BY <1>1, <2>4, <2>5, EndInv
<1>5. QED
  BY <1>2, <1>3, <1>4 DEF UpdateLine

LEMMA CountLinesInv ==
  ASSUME IInv, NEW r \in Request, CountLines(r)
  PROVE  IInv'
<1>1. pc[r] = "count" /\ UNCHANGED <<currency, row, lastId>>
  BY DEF CountLines
<1>2. PICK o \in Op, l \in Listing : o = op[r] /\ l = o.listing
  BY <1>1, Types DEF IInv, OpsInv, OpOk
<1>3. CASE Present # {l} /\ line' = Remaining(r) /\ CommitChange(r)
  <2>1. line' \in [Listing -> Line] /\ row' \in Row \cup {Null} /\ lastId' \in Nat
    BY <1>1, <1>3, RemainingLines, Types DEF IInv
  <2>2. ASSUME ~crossed
        PROVE  Matching' /\ LinesInv'
    <3>1. Matching /\ LinesInv /\ l \in Present /\ \A k \in Listing : lineLock[k] = r <=> k = l
      BY <1>1, <1>2, <2>2 DEF IInv, ReadsInv, Stage
    <3>2. Present' = Present \ {l}
      BY <1>3, <3>1, RemainingLines DEF Present, IInv
    <3>3. \A k \in Present \ {l} : line'[k] = line[k]
      BY <1>3, <3>1, RemainingLines DEF Present, IInv
    <3>4. Present \ {l} # {}
      BY <1>3, <3>1
    <3>5. QED
      BY <1>1, <3>1, <3>2, <3>3, <3>4 DEF Matching, LinesInv
  <2>3. QED
    BY <1>1, <1>3, <2>1, <2>2, Commits
<1>4. CASE Present = {l} /\ Goto(r, "release") /\ UNCHANGED <<line, rowLock, lineLock>>
  <2>1. /\ pc' = [pc EXCEPT ![r] = "release"] /\ op' = [op EXCEPT ![r] = o] /\ op' = op
        /\ pc'[r] = "release" /\ crossed' = crossed /\ "release" \in Step
    BY <1>2, <1>4, Types DEF Goto, IInv, Step
  <2>2. OpOk(r)'
    BY <1>2, <2>1 DEF OpOk
  <2>3. ASSUME ~crossed
        PROVE  Stage(r)'
    <3>1. Stage(r)
      BY <2>3 DEF IInv, ReadsInv
    <3>2. Present' = Present
      BY <1>4 DEF Present
    <3>3. QED
      BY <1>1, <1>2, <1>4, <2>1, <3>1, <3>2 DEF Stage
  <2>4. QED
    BY <1>1, <1>4, <2>1, <2>2, <2>3, GoesOn, Types DEF IInv
<1>5. QED
  BY <1>2, <1>3, <1>4 DEF CountLines

-----------------------------------------------------------------------------
(* The first read, and the sellers.                                        *)

LEMMA OpenCartInv == ASSUME IInv, OpenCart PROVE IInv'
<1>1. /\ row = Null /\ row' = EmptyRow
      /\ UNCHANGED <<currency, line, rowLock, lineLock, pc, op, lastId, crossed>>
  BY DEF OpenCart, request
<1>2. TypeOK'
  BY <1>1, Nothing DEF IInv, TypeOK, Row
<1>3. OpsInv'
  BY <1>1 DEF IInv, OpsInv, OpOk
<1>4. ASSUME ~crossed
      PROVE  ReadsInv'
  <2>1. Present = {}
    <3>1. ASSUME NEW l \in Present PROVE FALSE
      <4>1. row = [seller |-> SellerOf[l], currency |-> line[l].currency]
        BY <1>4, <3>1 DEF IInv, ReadsInv, Matching
      <4>2. row \in Row
        BY <3>1, <4>1, CartAssumption, Types DEF IInv, Row, Line, Present
      <4>3. QED
        BY <1>1, <4>2, CartAssumption DEF Row
    <3>2. QED
      BY <3>1
  <2>2. Matching' /\ LinesInv'
    BY <1>1, <2>1 DEF Matching, LinesInv, Present
  <2>3. ASSUME NEW r \in Request
        PROVE  Stage(r)'
    <3>1. Stage(r)
      BY <1>4 DEF IInv, ReadsInv
    <3>2. \A o \in Op : Accepts(o)'
      BY <1>1, Nothing DEF Accepts
    <3>3. Accepts(op[r])'
      BY <1>1, <3>2, Types DEF IInv, Accepts
    <3>4. QED
      BY <1>1, <3>1, <3>3 DEF Stage, NothingDeleted, AllDeleted, Present
  <2>4. QED
    BY <2>2, <2>3 DEF ReadsInv
<1>5. QED
  BY <1>1, <1>2, <1>3, <1>4 DEF IInv, ReadsInv

\* Nothing a request relies on is changed by a seller, or by a step of no one.
LEMMA ChangeCurrencyInv ==
  ASSUME IInv, currency' \in [Listing -> Currency],
         UNCHANGED <<row, line, rowLock, lineLock, pc, op, lastId, crossed>>
  PROVE  IInv'
<1>1. TypeOK' /\ OpsInv'
  BY DEF IInv, TypeOK, OpsInv, OpOk
<1>2. ASSUME ~crossed
      PROVE  ReadsInv'
  <2>1. Matching' /\ LinesInv'
    BY <1>2, MatchingStays
  <2>2. ASSUME NEW r \in Request
        PROVE  Stage(r)'
    BY <1>2, StageStays DEF IInv, ReadsInv
  <2>3. QED
    BY <2>1, <2>2 DEF ReadsInv
<1>3. QED
  BY <1>1, <1>2 DEF IInv, ReadsInv

-----------------------------------------------------------------------------

LEMMA NextInv == IInv /\ [Next]_vars => IInv'
<1> SUFFICES ASSUME IInv, [Next]_vars PROVE IInv'
  OBVIOUS
<1>1. CASE OpenCart
  BY <1>1, OpenCartInv
<1>2. CASE \E r \in Request, l \in Listing, n \in Quantity :
             \/ \E kind \in {"add", "replace"} : ReadListing(r, l, n, kind)
             \/ \E kind \in {"remove", "update"} : FindLine(r, l, n, kind)
  BY <1>2, ReadListingInv, FindLineInv
<1>3. CASE \E r \in Request :
             \/ ReadCartToAdd(r) \/ WriteCart(r) \/ CommitAdd(r)
             \/ ReadCartToReplace(r) \/ StartClear(r) \/ DeleteLines(r)
             \/ CommitReplace(r) \/ CommitClear(r)
             \/ UpdateLine(r) \/ DeleteLine(r) \/ CountLines(r) \/ ReleaseCart(r)
             \/ Abort(r)
  BY <1>3, ReadCartToAddInv, WriteCartInv, CommitAddInv, ReadCartToReplaceInv, StartClearInv,
     DeleteLinesInv, CommitReplaceInv, CommitClearInv, UpdateLineInv, DeleteLineInv,
     CountLinesInv, ReleaseCartInv, AbortInv
<1>4. CASE \E l \in Listing, c \in Currency : ChangeCurrency(l, c)
  <2>1. PICK l \in Listing, c \in Currency : ChangeCurrency(l, c)
    BY <1>4
  <2>2. /\ currency' \in [Listing -> Currency]
        /\ UNCHANGED <<row, line, rowLock, lineLock, pc, op, lastId, crossed>>
    BY <2>1, Types DEF ChangeCurrency, request, IInv
  <2>3. QED
    BY <2>2, ChangeCurrencyInv
<1>5. CASE UNCHANGED vars
  <2>1. /\ currency' \in [Listing -> Currency]
        /\ UNCHANGED <<row, line, rowLock, lineLock, pc, op, lastId, crossed>>
    BY <1>5, Types DEF vars, request, IInv
  <2>2. QED
    BY <2>1, ChangeCurrencyInv
<1>6. QED
  BY <1>1, <1>2, <1>3, <1>4, <1>5 DEF Next

\* However the requests of the user interleave, with sellers editing and transactions
\* aborting meanwhile: until one changes a cart that another has read, each finds the cart
\* as it has read it.
THEOREM Invariance == Spec => []IInv
<1>1. Init => IInv
  BY InitInv
<1>2. IInv /\ [Next]_vars => IInv'
  BY NextInv
<1>3. QED
  BY <1>1, <1>2, PTL DEF Spec

\* The cart, its lines and the locks have their types; no request goes on without knowing
\* the listing it was asked for.
THEOREM TypeCorrect == Spec => []TypeOK
<1>1. IInv => TypeOK
  BY DEF IInv
<1>2. QED
  BY <1>1, Invariance, PTL

\* Unless a request has changed the cart between another's read and its commit, every line
\* belongs to the seller and the currency the cart is locked to, and an empty cart to none,
\* whatever else crosseds (cart.service.ts, addItem, replace and removeItem).
THEOREM LinesMatch == Spec => []LinesMatchCart
<1>1. IInv => LinesMatchCart
  BY DEF IInv, ReadsInv, Matching, LinesMatchCart
<1>2. QED
  BY <1>1, Invariance, PTL

===============================================================================
