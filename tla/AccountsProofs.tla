----------------------------- MODULE AccountsProofs -----------------------------
(***************************************************************************)
(* Proofs about Accounts, for any number of accounts, numbers, requests    *)
(* and changes of a record.                                                *)
(*                                                                         *)
(* What decides the mirror is which copies of a record are on their way:   *)
(* with a call of the webhook, with a request, or taken over in the row.   *)
(* Supabase never takes a confirmation back, so a copy that says           *)
(* "confirmed" is newer than every copy that says "unconfirmed"            *)
(* (CopiesInv): a row loses its verification to an older copy only.  The   *)
(* row agrees with the record unless the call about the record's last      *)
(* change has yet to come (MirrorInv).                                     *)
(***************************************************************************)
EXTENDS Accounts, TLAPS

Step == {"idle", "password", "provision", "upsert"}

\* The steps of a request that holds a copy of what is known of an account.
Carrying == {"password", "provision"}
Call == [account : Account, record : Record]
Work == [account : Account, input : Input \cup {Null}]

\* Request r is about to write what it knows of account a.
Carries(r, a) == pc[r] \in Carrying /\ req[r].account = a

\* Some copy of the record of a, of that version, says that the email is confirmed, or a
\* row is verified and was last written from one.
SaysConfirmed(a, version) ==
  \/ Known(a) /\ auth[a].confirmed /\ auth[a].version = version
  \/ \E call \in hooks :
       call.account = a /\ call.record.confirmed /\ call.record.version = version
  \/ \E r \in Request :
       Carries(r, a) /\ req[r].input.verified = TRUE /\ req[r].input.version = version
  \/ users[a] # Null /\ users[a].verified /\ users[a].seen = version

\* Some copy of the record of a, of that version, says that the email is not confirmed.
SaysUnconfirmed(a, version) ==
  \/ Known(a) /\ ~auth[a].confirmed /\ auth[a].version = version
  \/ \E call \in hooks :
       call.account = a /\ ~call.record.confirmed /\ call.record.version = version
  \/ \E r \in Request :
       Carries(r, a) /\ req[r].input.verified = FALSE /\ req[r].input.version = version

CopiesInv ==
  \A a \in Account, v \in Nat :
    /\ SaysConfirmed(a, v) \/ SaysUnconfirmed(a, v) => Known(a) /\ v \in 1 .. auth[a].version
    /\ \A w \in Nat : SaysConfirmed(a, v) /\ SaysUnconfirmed(a, w) => w < v

\* A request that provisions knows for whom and from what, and no more than the record says.
RequestOk(r) ==
  /\ pc[r] # "idle" => req[r] \in Work
  /\ pc[r] \in Carrying =>
       /\ req[r].input # Null /\ Known(req[r].account)
       /\ req[r].input.version <= auth[req[r].account].version

RequestsInv == \A r \in Request : RequestOk(r)

\* A row is written from records that are there.
RowsInv ==
  \A a \in Account : users[a] # Null => Known(a) /\ users[a].seen <= auth[a].version

\* The row was written from the record of a as it is.
Agrees(a) ==
  /\ users[a] # Null /\ users[a].seen = auth[a].version
  /\ users[a].verified <=> auth[a].confirmed

\* The call about the last change of a's record is on its way, or the row has taken it over.
Mirrored(a) == [account |-> a, record |-> auth[a]] \in hooks \/ Agrees(a)

MirrorInv ==
  \A a \in Account \ (PhoneOnly \cup late \cup lost \cup conflict) : Known(a) => Mirrored(a)

IInv == TypeOK /\ RequestsInv /\ CopiesInv /\ RowsInv /\ MirrorInv

LEMMA Types ==
  TypeOK <=>
    /\ auth \in [Account -> Record \cup {Null}] /\ hooks \subseteq Call
    /\ users \in [Account -> User \cup {Null}]
    /\ sellers \subseteq Account /\ stats = sellers
    /\ pc \in [Request -> Step] /\ req \in [Request -> Work \cup {Null}]
    /\ late \subseteq Account /\ lost \subseteq Account /\ conflict \subseteq Account
BY DEF TypeOK, Step, Call, Work

LEMMA InitInv == Init => IInv
<1> SUFFICES ASSUME Init PROVE IInv
  OBVIOUS
<1> USE DEF Init
<1>1. TypeOK
  BY DEF TypeOK
<1>2. RequestsInv /\ RowsInv /\ MirrorInv
  BY DEF RequestsInv, RequestOk, RowsInv, MirrorInv, Known, Carrying
<1>3. CopiesInv
  BY DEF CopiesInv, SaysConfirmed, SaysUnconfirmed, Known, Carries, Carrying
<1>4. QED
  BY <1>1, <1>2, <1>3 DEF IInv

-----------------------------------------------------------------------------
(* The upsert.                                                             *)

\* The row that an upsert leaves.
LEMMA UpsertedRow ==
  ASSUME TypeOK, NEW a \in Account, NEW input \in Input
  PROVE  LET new == Upserted(a, input) IN
         /\ new \in User
         /\ input.verified = TRUE => new.verified
         /\ input.verified = FALSE => ~new.verified
         /\ input.verified = Absent => (new.verified <=> users[a] # Null /\ users[a].verified)
         /\ new.seen = IF users[a] # Null /\ users[a].seen > input.version
                       THEN users[a].seen ELSE input.version
<1> DEFINE new == Upserted(a, input)
<1>1. /\ input.phone \in Number \cup {Null, Empty}
      /\ input.verified \in BOOLEAN \cup {Absent} /\ input.version \in 0 .. MaxVersion
  BY DEF Input
<1>2. users[a] # Null => users[a].verified \in BOOLEAN /\ users[a].seen \in 0 .. MaxVersion
  BY DEF TypeOK, User
<1>3. PICK seen \in 0 .. MaxVersion :
        /\ seen = IF users[a] = Null THEN input.version ELSE NewerOf(users[a].seen, input.version)
        /\ seen = IF users[a] # Null /\ users[a].seen > input.version
                  THEN users[a].seen ELSE input.version
  BY <1>1, <1>2 DEF NewerOf
<1>4. CASE input.verified = Absent
  <2>1. PICK verified \in BOOLEAN : verified = (users[a] # Null /\ users[a].verified)
    <3>1. (users[a] # Null /\ users[a].verified) \in BOOLEAN
      OBVIOUS
    <3>2. QED
      BY <3>1, Zenon
  <2>2. verified <=> (users[a] # Null /\ users[a].verified)
    BY <2>1
  <2>3. new = [phone |-> input.phone, verified |-> verified, seen |-> seen]
    BY <1>3, <1>4, <2>1 DEF Upserted
  <2>4. new \in User /\ new.verified = verified /\ new.seen = seen
    BY <1>1, <2>3 DEF User
  <2>5. input.verified # TRUE /\ input.verified # FALSE
    BY <1>4, AccountsAssumption
  <2>6. QED
    BY <1>3, <2>2, <2>4, <2>5
<1>5. CASE input.verified # Absent
  <2>1. new = [phone |-> input.phone, verified |-> input.verified, seen |-> seen]
    BY <1>3, <1>5 DEF Upserted
  <2>2. new \in User /\ new.verified = input.verified /\ new.seen = seen
    BY <1>1, <1>5, <2>1 DEF User
  <2>3. QED
    BY <1>3, <1>5, <2>2
<1>6. QED
  BY <1>4, <1>5

LEMMA RecordOf ==
  ASSUME TypeOK, NEW a \in Account, Known(a)
  PROVE  /\ auth[a] \in Record /\ auth[a].confirmed \in BOOLEAN
         /\ auth[a].version \in 1 .. MaxVersion /\ auth[a].version \in Nat
         /\ auth[a].phone \in Number \cup {Null}
BY AccountsAssumption DEF TypeOK, Known, Record

LEMMA RowOf ==
  ASSUME TypeOK, NEW a \in Account, users[a] # Null
  PROVE  users[a] \in User /\ users[a].verified \in BOOLEAN /\ users[a].seen \in Nat
BY AccountsAssumption DEF TypeOK, User

\* A step after which nothing is said of an account that was not said before, except that
\* a verified row may count as newer.
LEMMA NothingNew ==
  ASSUME CopiesInv, auth' = auth,
         \A b \in Account, v \in Nat :
           /\ SaysConfirmed(b, v)' => /\ v <= auth[b].version
                                      /\ \E u \in Nat : u <= v /\ SaysConfirmed(b, u)
           /\ SaysUnconfirmed(b, v)' => SaysUnconfirmed(b, v),
         TypeOK
  PROVE  CopiesInv'
<1> SUFFICES ASSUME NEW b \in Account, NEW v \in Nat
             PROVE  /\ SaysConfirmed(b, v)' \/ SaysUnconfirmed(b, v)' =>
                         Known(b)' /\ v \in 1 .. auth'[b].version
                    /\ \A w \in Nat : SaysConfirmed(b, v)' /\ SaysUnconfirmed(b, w)' => w < v
  BY DEF CopiesInv
<1>1. ASSUME SaysConfirmed(b, v)'
      PROVE  Known(b)' /\ v \in 1 .. auth'[b].version
  <2>1. PICK u \in Nat : u <= v /\ SaysConfirmed(b, u)
    BY <1>1
  <2>2. Known(b) /\ u \in 1 .. auth[b].version /\ v <= auth[b].version
    BY <1>1, <2>1 DEF CopiesInv
  <2>3. QED
    BY <2>1, <2>2, RecordOf DEF Known
<1>2. ASSUME SaysUnconfirmed(b, v)'
      PROVE  Known(b)' /\ v \in 1 .. auth'[b].version
  BY <1>2 DEF CopiesInv, Known
<1>3. ASSUME NEW w \in Nat, SaysConfirmed(b, v)', SaysUnconfirmed(b, w)'
      PROVE  w < v
  <2>1. PICK u \in Nat : u <= v /\ SaysConfirmed(b, u)
    BY <1>3
  <2>2. w < u
    BY <1>3, <2>1 DEF CopiesInv
  <2>3. QED
    BY <2>1, <2>2
<1>4. QED
  BY <1>1, <1>2, <1>3

\* What requests are about to write they were before.
OldCopies ==
  \A r \in Request, b \in Account : Carries(r, b)' => Carries(r, b) /\ req'[r] = req[r]

\* No row loses its verification, but for an older copy.
Kept ==
  \A a \in Account :
    users[a] # Null /\ users[a].verified /\ ~users'[a].verified => a \in late'

\* What holds after a row was written, or refused for a unique column.
LEMMA Provisioned ==
  ASSUME IInv, NEW a \in Account, NEW input \in Input, Provision(a, input),
         Known(a), input.version <= auth[a].version,
         input.verified = TRUE => SaysConfirmed(a, input.version),
         input.verified = FALSE => SaysUnconfirmed(a, input.version),
         auth' = auth, hooks' \subseteq hooks, OldCopies
  PROVE  /\ users' \in [Account -> User \cup {Null}]
         /\ late' \subseteq Account /\ conflict' \subseteq Account
         /\ late \subseteq late' /\ conflict \subseteq conflict'
         /\ RowsInv' /\ CopiesInv'
         /\ \A b \in Account \ (late' \cup conflict') : Agrees(b) => Agrees(b)'
         /\ a \notin conflict' /\ input = CopyOf(auth[a]) => Agrees(a)'
         /\ Kept
<1> DEFINE new == Upserted(a, input)
<1>1. TypeOK /\ CopiesInv /\ RowsInv
  BY DEF IInv
<1>2. input.version \in Nat /\ input.verified \in BOOLEAN \cup {Absent}
  BY AccountsAssumption DEF Input
<1>3. /\ new \in User /\ new # Null /\ new.seen \in Nat
      /\ input.verified = TRUE => new.verified
      /\ input.verified = FALSE => ~new.verified
      /\ input.verified = Absent => (new.verified <=> users[a] # Null /\ users[a].verified)
      /\ new.seen = IF users[a] # Null /\ users[a].seen > input.version
                    THEN users[a].seen ELSE input.version
  <2>1. new \in User
    BY <1>1, UpsertedRow
  <2> HIDE DEF new
  <2>2. new # Null
    BY <2>1, NullAssumption
  <2>3. new.seen \in Nat
    BY <2>1, AccountsAssumption DEF User
  <2>4. QED
    BY <1>1, <2>1, <2>2, <2>3, UpsertedRow DEF new
<1> HIDE DEF new
<1>4. auth[a].version \in Nat /\ auth[a].confirmed \in BOOLEAN
  BY <1>1, RecordOf
<1>5. CASE Taken(a, input.phone)
  <2>1. users' = users /\ late' = late /\ conflict' = conflict \cup {a}
    BY <1>5 DEF Provision
  <2>2. RowsInv'
    BY <1>1, <2>1 DEF RowsInv, Known
  <2>3. \A b \in Account, v \in Nat :
          /\ SaysConfirmed(b, v)' => SaysConfirmed(b, v)
          /\ SaysUnconfirmed(b, v)' => SaysUnconfirmed(b, v)
    <3>1. ASSUME NEW b \in Account, NEW v \in Nat, SaysConfirmed(b, v)'
          PROVE  SaysConfirmed(b, v)
      BY <2>1, <3>1 DEF SaysConfirmed, Known, OldCopies
    <3>2. ASSUME NEW b \in Account, NEW v \in Nat, SaysUnconfirmed(b, v)'
          PROVE  SaysUnconfirmed(b, v)
      BY <2>1, <3>2 DEF SaysUnconfirmed, Known, OldCopies
    <3>3. QED
      BY <3>1, <3>2
  <2>4. \A b \in Account, v \in Nat : SaysConfirmed(b, v) => v <= auth[b].version
    <3>1. ASSUME NEW b \in Account, NEW v \in Nat, SaysConfirmed(b, v)
          PROVE  v <= auth[b].version
      BY <1>1, <3>1, RecordOf DEF CopiesInv
    <3>2. QED
      BY <3>1
  <2>5. CopiesInv'
    <3>1. ASSUME NEW b \in Account, NEW v \in Nat, SaysConfirmed(b, v)'
          PROVE  v <= auth[b].version /\ \E u \in Nat : u <= v /\ SaysConfirmed(b, u)
      BY <2>3, <2>4, <3>1
    <3>2. QED
      BY <1>1, <2>3, <3>1, NothingNew
  <2>6. \A b \in Account : Agrees(b) => Agrees(b)'
    BY <2>1 DEF Agrees
  <2>7. Kept
    BY <2>1 DEF Kept
  <2>8. QED
    BY <1>1, <2>1, <2>2, <2>5, <2>6, <2>7 DEF TypeOK
<1>6. CASE ~Taken(a, input.phone)
  <2>1. /\ users' = [users EXCEPT ![a] = new] /\ conflict' = conflict
        /\ late' = IF users[a] # Null /\ input.version \in 1 .. users[a].seen - 1
                   THEN late \cup {a} ELSE late
    BY <1>6 DEF Provision, new
  <2>2. /\ users' \in [Account -> User \cup {Null}] /\ users'[a] = new
        /\ \A b \in Account \ {a} : users'[b] = users[b]
        /\ late \subseteq late' /\ late' \subseteq Account
    BY <1>1, <1>3, <2>1 DEF TypeOK
  <2>3. new.seen <= auth[a].version
    BY <1>1, <1>3 DEF RowsInv
  <2>4. RowsInv'
    <3> SUFFICES ASSUME NEW b \in Account, users'[b] # Null
                 PROVE  Known(b)' /\ users'[b].seen <= auth'[b].version
      BY DEF RowsInv
    <3>1. CASE b = a
      BY <2>2, <2>3, <3>1 DEF Known
    <3>2. CASE b # a
      BY <1>1, <2>2, <3>2 DEF RowsInv, Known
    <3>3. QED
      BY <3>1, <3>2
  <2>5. ASSUME new.verified
        PROVE  \E u \in Nat : u <= new.seen /\ SaysConfirmed(a, u)
    <3>1. CASE input.verified = TRUE
      <4>1. users[a] # Null => users[a].seen \in Nat
        BY <1>1, RowOf
      <4>2. input.version <= new.seen
        BY <1>2, <1>3, <4>1
      <4>3. QED
        BY <1>2, <3>1, <4>2
    <3>2. CASE input.verified = Absent
      <4>1. users[a] # Null /\ users[a].verified
        BY <1>3, <2>5, <3>2
      <4>2. users[a].seen \in Nat /\ SaysConfirmed(a, users[a].seen)
        BY <1>1, <4>1, RowOf DEF SaysConfirmed
      <4>3. users[a].seen <= new.seen
        BY <1>2, <1>3, <4>1, <4>2
      <4>4. QED
        BY <4>2, <4>3
    <3>3. QED
      BY <1>2, <1>3, <2>5, <3>1, <3>2
  <2>6. CopiesInv'
    <3>1. ASSUME NEW b \in Account, NEW v \in Nat, SaysConfirmed(b, v)'
          PROVE  v <= auth[b].version /\ \E u \in Nat : u <= v /\ SaysConfirmed(b, u)
      <4>1. CASE SaysConfirmed(b, v)
        <5>1. Known(b) /\ v \in 1 .. auth[b].version
          BY <1>1, <4>1 DEF CopiesInv
        <5>2. QED
          BY <1>1, <4>1, <5>1, RecordOf
      <4>2. CASE ~SaysConfirmed(b, v)
        <5>1. b = a /\ new.verified /\ new.seen = v
          BY <2>2, <3>1, <4>2 DEF SaysConfirmed, Known, OldCopies
        <5>2. QED
          BY <2>3, <2>5, <5>1
      <4>3. QED
        BY <4>1, <4>2
    <3>2. \A b \in Account, v \in Nat : SaysUnconfirmed(b, v)' => SaysUnconfirmed(b, v)
      BY DEF SaysUnconfirmed, Known, OldCopies
    <3>3. QED
      BY <1>1, <3>1, <3>2, NothingNew
  <2>7. auth[a].confirmed => SaysConfirmed(a, auth[a].version)
    BY DEF SaysConfirmed
  <2>8. ~auth[a].confirmed => SaysUnconfirmed(a, auth[a].version)
    BY DEF SaysUnconfirmed
  <2>9. ASSUME NEW b \in Account \ (late' \cup conflict'), Agrees(b)
        PROVE  Agrees(b)'
    <3>1. CASE b # a
      BY <2>2, <2>9, <3>1 DEF Agrees
    <3>2. CASE b = a
      <4>1. users[a] # Null /\ users[a].seen = auth[a].version /\ users[a].seen \in Nat
        BY <1>1, <2>9, <3>2, RowOf DEF Agrees
      <4>2. input.version = 0 \/ input.version = auth[a].version
        BY <1>2, <2>1, <2>9, <3>2, <4>1
      <4>3. new.seen = auth[a].version
        BY <1>2, <1>3, <4>1
      <4>4. new.verified <=> auth[a].confirmed
        <5>1. CASE input.verified = Absent
          BY <1>3, <2>9, <3>2, <5>1 DEF Agrees
        <5>2. CASE input.verified = TRUE
          <6>1. input.version \in 1 .. auth[a].version
            BY <1>1, <1>2, <5>2 DEF CopiesInv
          <6>2. input.version = auth[a].version
            BY <4>2, <6>1
          <6>3. auth[a].confirmed
            BY <1>1, <1>4, <2>8, <5>2, <6>2 DEF CopiesInv
          <6>4. QED
            BY <1>3, <5>2, <6>3
        <5>3. CASE input.verified = FALSE
          <6>1. input.version \in 1 .. auth[a].version
            BY <1>1, <1>2, <5>3 DEF CopiesInv
          <6>2. input.version = auth[a].version
            BY <4>2, <6>1
          <6>3. ~auth[a].confirmed
            BY <1>1, <1>4, <2>7, <5>3, <6>2 DEF CopiesInv
          <6>4. QED
            BY <1>3, <5>3, <6>3
        <5>4. QED
          BY <1>2, <5>1, <5>2, <5>3
      <4>5. QED
        BY <1>3, <2>2, <3>2, <4>3, <4>4 DEF Agrees
    <3>3. QED
      BY <3>1, <3>2
  <2>10. ASSUME input = CopyOf(auth[a])
         PROVE  Agrees(a)'
    <3>1. input.version = auth[a].version /\ input.verified = auth[a].confirmed
      BY <2>10 DEF CopyOf
    <3>2. new.seen = auth[a].version
      BY <1>1, <1>3, <1>4, <3>1, RowOf DEF RowsInv
    <3>3. new.verified <=> auth[a].confirmed
      BY <1>3, <1>4, <3>1
    <3>4. QED
      BY <1>3, <2>2, <3>2, <3>3 DEF Agrees
  <2>11. Kept
    <3> SUFFICES ASSUME NEW b \in Account, users[b] # Null, users[b].verified, ~users'[b].verified
                 PROVE  b \in late'
      BY DEF Kept
    <3>1. b = a /\ ~new.verified /\ input.verified = FALSE
      BY <1>2, <1>3, <2>2
    <3>2. SaysConfirmed(a, users[a].seen) /\ users[a].seen \in Nat
      BY <1>1, <3>1, RowOf DEF SaysConfirmed
    <3>3. SaysUnconfirmed(a, input.version)
      BY <3>1
    <3>4. input.version < users[a].seen /\ input.version \in 1 .. auth[a].version
      BY <1>1, <1>2, <3>2, <3>3 DEF CopiesInv
    <3>5. input.version \in 1 .. users[a].seen - 1
      BY <1>4, <3>2, <3>4
    <3>6. QED
      BY <2>1, <3>1, <3>5
  <2>12. QED
    BY <1>1, <2>1, <2>2, <2>4, <2>6, <2>9, <2>10, <2>11 DEF TypeOK
<1>7. QED
  BY <1>5, <1>6

-----------------------------------------------------------------------------
(* Supabase.                                                               *)

\* A request stays fit to be carried on while records only change for newer ones.
LEMMA RequestStays ==
  ASSUME TypeOK, TypeOK', NEW r \in Request, RequestOk(r), pc'[r] = pc[r], req'[r] = req[r],
         \A b \in Account : Known(b) => Known(b)' /\ auth[b].version <= auth'[b].version
  PROVE  RequestOk(r)'
<1>1. CASE pc[r] \in Carrying
  <2>1. PICK o \in Work : o = req[r]
    BY <1>1 DEF RequestOk, Carrying
  <2>2. o.account \in Account /\ o.input \in Input
    BY <1>1, <2>1 DEF RequestOk, Work
  <2>3. /\ Known(o.account) /\ o.input.version <= auth[o.account].version
        /\ Known(o.account)' /\ auth[o.account].version <= auth'[o.account].version
    BY <1>1, <2>1, <2>2 DEF RequestOk
  <2>4. auth[o.account].version \in Nat /\ o.input.version \in Nat
    BY <2>2, <2>3, RecordOf, AccountsAssumption DEF Input
  <2>5. auth'[o.account].version \in Nat
    BY <2>2, <2>3, AccountsAssumption DEF TypeOK, Known, Record
  <2>6. o.input.version <= auth'[o.account].version
    BY <2>3, <2>4, <2>5
  <2>7. QED
    BY <1>1, <2>1, <2>2, <2>3, <2>6 DEF RequestOk, Known
<1>2. CASE pc[r] \notin Carrying
  BY <1>2 DEF RequestOk
<1>3. QED
  BY <1>1, <1>2

\* What requests are about to write they were before, or it is the newest copy of a's record.
NewestCopies(a, confirmed) ==
  \A r \in Request, b \in Account : Carries(r, b)' =>
    \/ Carries(r, b) /\ req'[r] = req[r]
    \/ /\ b = a /\ req'[r].input.version = auth'[a].version
       /\ req'[r].input.verified = TRUE => confirmed
       /\ req'[r].input.verified = FALSE => ~confirmed

\* A record changes, and a confirmed one stays so: the copies taken of it, by the call of
\* the webhook or by a request, are the newest of all.
LEMMA RecordChanges ==
  ASSUME IInv, NEW a \in Account, NEW phone \in Number \cup {Null}, NEW confirmed \in BOOLEAN,
         Changed(a, phone, confirmed), Known(a) /\ auth[a].confirmed => confirmed,
         UNCHANGED <<users, late, lost, conflict>>, NewestCopies(a, confirmed)
  PROVE  /\ auth' \in [Account -> Record \cup {Null}] /\ hooks' \subseteq Call
         /\ auth'[a] \in Record /\ auth'[a] # Null /\ (auth'[a].confirmed <=> confirmed)
         /\ \A b \in Account : Known(b) =>
              Known(b)' /\ auth[b].version <= auth'[b].version
         /\ CopiesInv' /\ RowsInv' /\ MirrorInv'
<1>1. TypeOK /\ CopiesInv /\ RowsInv /\ MirrorInv
  BY DEF IInv
<1>2. PICK version \in 1 .. MaxVersion :
        /\ version = IF Known(a) THEN auth[a].version + 1 ELSE 1
        /\ auth' = [auth EXCEPT ![a] =
             [phone |-> phone, confirmed |-> confirmed, version |-> version]]
  <2>1. Known(a) => auth[a].version \in Nat
    BY <1>1, RecordOf
  <2>2. PICK version \in Nat : version = IF Known(a) THEN auth[a].version + 1 ELSE 1
    BY <2>1
  <2>3. /\ version <= MaxVersion
        /\ auth' = [auth EXCEPT ![a] =
             [phone |-> phone, confirmed |-> confirmed, version |-> version]]
    BY <2>2 DEF Changed
  <2>4. version >= 1
    BY <2>1, <2>2
  <2>5. version \in 1 .. MaxVersion
    BY <2>3, <2>4, AccountsAssumption
  <2>6. QED
    BY <2>2, <2>3, <2>5
<1>3. PICK record \in Record :
        /\ record = [phone |-> phone, confirmed |-> confirmed, version |-> version]
        /\ record.confirmed = confirmed /\ record.version = version /\ record # Null
  <2>1. [phone |-> phone, confirmed |-> confirmed, version |-> version] \in Record
    BY DEF Record
  <2>2. QED
    BY <2>1, NullAssumption
<1>4. /\ auth' \in [Account -> Record \cup {Null}] /\ auth'[a] = record
      /\ \A b \in Account \ {a} : auth'[b] = auth[b]
  BY <1>1, <1>2, <1>3 DEF TypeOK
<1>5. hooks' = hooks \cup {[account |-> a, record |-> record]} /\ hooks' \subseteq Call
  BY <1>1, <1>4 DEF Changed, TypeOK, Call
<1>6. \A b \in Account : Known(b) => Known(b)' /\ auth[b].version <= auth'[b].version
  <2> SUFFICES ASSUME NEW b \in Account, Known(b)
               PROVE  Known(b)' /\ auth[b].version <= auth'[b].version
    OBVIOUS
  <2>1. auth[b].version \in Nat
    BY <1>1, RecordOf
  <2>2. CASE b = a
    BY <1>2, <1>3, <1>4, <2>1, <2>2 DEF Known
  <2>3. CASE b # a
    BY <1>4, <2>1, <2>3 DEF Known
  <2>4. QED
    BY <2>2, <2>3
<1>7. ASSUME NEW b \in Account, NEW v \in Nat, SaysConfirmed(b, v)'
      PROVE  SaysConfirmed(b, v) \/ (b = a /\ confirmed /\ v = version)
  <2>1. CASE Known(b)' /\ auth'[b].confirmed /\ auth'[b].version = v
    BY <1>3, <1>4, <2>1 DEF SaysConfirmed, Known
  <2>2. CASE \E call \in hooks' :
               call.account = b /\ call.record.confirmed /\ call.record.version = v
    BY <1>3, <1>5, <2>2 DEF SaysConfirmed
  <2>3. CASE \E r \in Request :
               Carries(r, b)' /\ req'[r].input.verified = TRUE /\ req'[r].input.version = v
    BY <1>3, <1>4, <2>3 DEF SaysConfirmed, NewestCopies
  <2>4. CASE users'[b] # Null /\ users'[b].verified /\ users'[b].seen = v
    BY <2>4 DEF SaysConfirmed
  <2>5. QED
    BY <1>7, <2>1, <2>2, <2>3, <2>4 DEF SaysConfirmed
<1>8. ASSUME NEW b \in Account, NEW v \in Nat, SaysUnconfirmed(b, v)'
      PROVE  SaysUnconfirmed(b, v) \/ (b = a /\ ~confirmed /\ v = version)
  <2>1. CASE Known(b)' /\ ~auth'[b].confirmed /\ auth'[b].version = v
    BY <1>3, <1>4, <2>1 DEF SaysUnconfirmed, Known
  <2>2. CASE \E call \in hooks' :
               call.account = b /\ ~call.record.confirmed /\ call.record.version = v
    BY <1>3, <1>5, <2>2 DEF SaysUnconfirmed
  <2>3. CASE \E r \in Request :
               Carries(r, b)' /\ req'[r].input.verified = FALSE /\ req'[r].input.version = v
    BY <1>3, <1>4, <2>3 DEF SaysUnconfirmed, NewestCopies
  <2>4. QED
    BY <1>8, <2>1, <2>2, <2>3 DEF SaysUnconfirmed
<1>9. ASSUME NEW v \in Nat, SaysConfirmed(a, v) \/ SaysUnconfirmed(a, v)
      PROVE  v \in 1 .. version - 1 /\ Known(a)
  <2>1. Known(a) /\ v \in 1 .. auth[a].version
    BY <1>1, <1>9 DEF CopiesInv
  <2>2. QED
    BY <1>1, <1>2, <2>1, RecordOf
<1>10. ASSUME NEW v \in Nat, SaysConfirmed(a, v)
       PROVE  confirmed
  <2>1. Known(a) /\ v \in 1 .. auth[a].version /\ auth[a].version \in Nat
    BY <1>1, <1>10, RecordOf DEF CopiesInv
  <2>2. ~auth[a].confirmed => SaysUnconfirmed(a, auth[a].version)
    BY <2>1 DEF SaysUnconfirmed
  <2>3. ~auth[a].confirmed => auth[a].version < v
    BY <1>1, <1>10, <2>1, <2>2 DEF CopiesInv
  <2>4. QED
    BY <2>1, <2>3
<1>11. CopiesInv'
  <2> SUFFICES ASSUME NEW b \in Account, NEW v \in Nat
               PROVE  /\ SaysConfirmed(b, v)' \/ SaysUnconfirmed(b, v)' =>
                           Known(b)' /\ v \in 1 .. auth'[b].version
                      /\ \A w \in Nat : SaysConfirmed(b, v)' /\ SaysUnconfirmed(b, w)' => w < v
    BY DEF CopiesInv
  <2>1. CASE b # a
    <3>1. auth'[b] = auth[b]
      BY <1>4, <2>1
    <3>2. QED
      BY <1>1, <1>7, <1>8, <2>1, <3>1 DEF CopiesInv, Known
  <2>2. CASE b = a
    <3>1. Known(a)' /\ auth'[a].version = version
      BY <1>3, <1>4 DEF Known
    <3>2. ASSUME SaysConfirmed(a, v)' \/ SaysUnconfirmed(a, v)'
          PROVE  v \in 1 .. version
      BY <1>7, <1>8, <1>9, <3>2
    <3>3. ASSUME NEW w \in Nat, SaysConfirmed(a, v)', SaysUnconfirmed(a, w)'
          PROVE  w < v
      <4>1. CASE SaysConfirmed(a, v)
        <5>1. SaysUnconfirmed(a, w)
          BY <1>8, <1>10, <3>3, <4>1
        <5>2. QED
          BY <1>1, <4>1, <5>1 DEF CopiesInv
      <4>2. CASE confirmed /\ v = version
        <5>1. SaysUnconfirmed(a, w)
          BY <1>8, <3>3, <4>2
        <5>2. QED
          BY <1>9, <4>2, <5>1
      <4>3. QED
        BY <1>7, <3>3, <4>1, <4>2
    <3>4. QED
      BY <2>2, <3>1, <3>2, <3>3
  <2>3. QED
    BY <2>1, <2>2
<1>12. RowsInv'
  <2> SUFFICES ASSUME NEW b \in Account, users[b] # Null
               PROVE  Known(b)' /\ users[b].seen <= auth'[b].version
    BY DEF RowsInv
  <2>1. Known(b) /\ users[b].seen <= auth[b].version /\ users[b].seen \in Nat
    BY <1>1, RowOf DEF RowsInv
  <2>2. Known(b)' /\ auth[b].version <= auth'[b].version
    BY <1>6, <2>1
  <2>3. auth[b].version \in Nat
    BY <1>1, <2>1, RecordOf
  <2>4. auth'[b].version \in Nat
    BY <1>3, <1>4, <2>3
  <2>5. QED
    BY <2>1, <2>2, <2>3, <2>4
<1>13. MirrorInv'
  <2> SUFFICES ASSUME NEW b \in Account \ (PhoneOnly \cup late \cup lost \cup conflict), Known(b)'
               PROVE  Mirrored(b)'
    BY DEF MirrorInv
  <2>1. CASE b = a
    BY <1>4, <1>5, <2>1 DEF Mirrored
  <2>2. CASE b # a
    <3>1. auth'[b] = auth[b] /\ Mirrored(b)
      BY <1>1, <1>4, <2>2 DEF MirrorInv, Known
    <3>2. QED
      BY <1>5, <3>1 DEF Mirrored, Agrees
  <2>3. QED
    BY <2>1, <2>2
<1>14. auth'[a] \in Record /\ auth'[a] # Null /\ (auth'[a].confirmed <=> confirmed)
  BY <1>3, <1>4
<1>15. QED
  BY <1>4, <1>5, <1>6, <1>11, <1>12, <1>13, <1>14

\* An account is created by an SMS code.
LEMMA PhoneOtpVerifyInv ==
  ASSUME IInv, NEW a \in Account, NEW n \in Number, PhoneOtpVerify(a, n)
  PROVE  IInv'
<1>1. /\ ~Known(a) /\ Changed(a, n, FALSE)
      /\ UNCHANGED <<users, sellers, stats, pc, req, late, lost, conflict>>
  BY DEF PhoneOtpVerify, request, history
<1>2. \A r \in Request, b \in Account : Carries(r, b)' => Carries(r, b) /\ req'[r] = req[r]
  BY <1>1 DEF Carries
<1>3. /\ auth' \in [Account -> Record \cup {Null}] /\ hooks' \subseteq Call
      /\ \A b \in Account : Known(b) => Known(b)' /\ auth[b].version <= auth'[b].version
      /\ CopiesInv' /\ RowsInv' /\ MirrorInv'
  <2>1. n \in Number \cup {Null} /\ FALSE \in BOOLEAN
    OBVIOUS
  <2>2. Known(a) /\ auth[a].confirmed => FALSE
    BY <1>1
  <2>3. NewestCopies(a, FALSE)
    BY <1>2 DEF NewestCopies
  <2>4. QED
    BY <1>1, <2>1, <2>2, <2>3, RecordChanges
<1>4. TypeOK'
  BY <1>1, <1>3 DEF IInv, TypeOK, Call
<1>5. RequestsInv'
  BY <1>1, <1>3, <1>4, RequestStays DEF IInv, RequestsInv
<1>6. QED
  BY <1>3, <1>4, <1>5 DEF IInv

\* Request r takes up a piece of work, and the others go on.
LEMMA TakesUp ==
  ASSUME TypeOK, NEW r \in Request, NEW step \in {"password", "provision", "upsert"}, NEW o \in Work,
         pc' = [pc EXCEPT ![r] = step], req' = [req EXCEPT ![r] = o]
  PROVE  /\ pc' \in [Request -> Step] /\ req' \in [Request -> Work \cup {Null}]
         /\ pc'[r] = step /\ req'[r] = o
         /\ \A q \in Request \ {r} : pc'[q] = pc[q] /\ req'[q] = req[q]
<1>1. pc \in [Request -> Step] /\ req \in [Request -> Work \cup {Null}]
  BY Types
<1>2. /\ pc' \in [Request -> Step] /\ req' \in [Request -> Work \cup {Null}]
      /\ pc'[r] = step /\ req'[r] = o
      /\ \A q \in Request \ {r} : pc'[q] = pc[q] /\ req'[q] = req[q]
  BY <1>1 DEF Step
<1>3. QED
  BY <1>2

\* Request r holds a copy of what it has just read, or what is claimed, of a's record.
LEMMA RequestReady ==
  ASSUME TypeOK, NEW r \in Request, NEW a \in Account, NEW input \in Input,
         pc'[r] \in Carrying, req'[r] = [account |-> a, input |-> input],
         Known(a)', input.version <= auth'[a].version
  PROVE  RequestOk(r)'
<1>1. input # Null /\ [account |-> a, input |-> input] \in Work
  BY NullAssumption DEF Work
<1>2. QED
  BY <1>1 DEF RequestOk, Known

LEMMA ChangesAndProvisions ==
  ASSUME IInv, NEW r \in Request, NEW a \in Account, NEW phone \in Number \cup {Null},
         NEW confirmed \in BOOLEAN, Changed(a, phone, confirmed),
         Known(a) /\ auth[a].confirmed => confirmed,
         NEW input \in Input, input.version = auth'[a].version,
         input.verified = TRUE => confirmed, input.verified = FALSE => ~confirmed,
         NEW step \in Carrying, Take(r, step, a, input), UNCHANGED <<users, sellers, stats, history>>
  PROVE  IInv'
<1>1. PICK o \in Work : o = [account |-> a, input |-> input]
  BY DEF Work
<1>2. /\ TypeOK /\ pc' = [pc EXCEPT ![r] = step] /\ req' = [req EXCEPT ![r] = o]
      /\ UNCHANGED <<users, sellers, stats, late, lost, conflict>>
  BY <1>1 DEF IInv, Take, history
<1>3. /\ pc' \in [Request -> Step] /\ req' \in [Request -> Work \cup {Null}]
      /\ pc'[r] = step /\ req'[r] = o
      /\ \A q \in Request \ {r} : pc'[q] = pc[q] /\ req'[q] = req[q]
  BY <1>2, TakesUp DEF Carrying
<1>4. o.account = a /\ o.input = input
  BY <1>1
<1>5. /\ auth' \in [Account -> Record \cup {Null}] /\ hooks' \subseteq Call
      /\ auth'[a] # Null
      /\ \A b \in Account : Known(b) => Known(b)' /\ auth[b].version <= auth'[b].version
      /\ CopiesInv' /\ RowsInv' /\ MirrorInv'
  <2>1. NewestCopies(a, confirmed)
    BY <1>3, <1>4 DEF NewestCopies, Carries
  <2>2. QED
    BY <1>2, <2>1, RecordChanges
<1>6. TypeOK'
  BY <1>2, <1>3, <1>5 DEF TypeOK, Call, Step, Work
<1>7. RequestsInv'
  <2> SUFFICES ASSUME NEW q \in Request PROVE RequestOk(q)'
    BY DEF RequestsInv
  <2>1. CASE q = r
    <3>1. input.version \in Nat /\ input.version <= auth'[a].version /\ Known(a)'
      BY <1>5, AccountsAssumption DEF Input, Known
    <3>2. QED
      BY <1>1, <1>2, <1>3, <2>1, <3>1, RequestReady
  <2>2. CASE q # r
    BY <1>2, <1>3, <1>5, <1>6, <2>2, RequestStays DEF IInv, RequestsInv
  <2>3. QED
    BY <2>1, <2>2
<1>8. QED
  BY <1>5, <1>6, <1>7 DEF IInv

LEMMA NewVersion ==
  ASSUME TypeOK, NEW a \in Account, NEW phone, NEW confirmed, Changed(a, phone, confirmed)
  PROVE  /\ auth'[a].version \in 0 .. MaxVersion
         /\ auth'[a].confirmed = confirmed /\ auth'[a].phone = phone
<1>1. PICK version : /\ version = IF Known(a) THEN auth[a].version + 1 ELSE 1
                     /\ version <= MaxVersion
                     /\ auth' = [auth EXCEPT ![a] =
                          [phone |-> phone, confirmed |-> confirmed, version |-> version]]
  BY DEF Changed
<1>2. version \in 0 .. MaxVersion
  <2>1. Known(a) => auth[a].version \in Nat
    BY RecordOf
  <2>2. QED
    BY <1>1, <2>1, AccountsAssumption
<1>3. auth'[a] = [phone |-> phone, confirmed |-> confirmed, version |-> version]
  BY <1>1 DEF TypeOK
<1>4. QED
  BY <1>2, <1>3

LEMMA SignupInv ==
  ASSUME IInv, NEW r \in Request, NEW a \in Account, NEW phone \in Number \cup {Null},
         Signup(r, a, phone)
  PROVE  IInv'
<1>1. /\ Known(a) => ~auth[a].confirmed
      /\ Changed(a, Null, FALSE)
      /\ Take(r, "provision", a, [phone |-> phone, verified |-> FALSE, version |-> auth'[a].version])
      /\ UNCHANGED <<users, sellers, stats, history>>
  BY DEF Signup, WillProvision
<1>2. auth'[a].version \in 0 .. MaxVersion
  BY <1>1, NewVersion DEF IInv
<1>3. PICK input \in Input :
        /\ input = [phone |-> phone, verified |-> FALSE, version |-> auth'[a].version]
        /\ input.verified = FALSE /\ input.version = auth'[a].version
  <2>1. [phone |-> phone, verified |-> FALSE, version |-> auth'[a].version] \in Input
    BY <1>2 DEF Input
  <2>2. QED
    BY <2>1
<1>4. input.verified # TRUE
  BY <1>3
<1>5. QED
  BY <1>1, <1>3, <1>4, ChangesAndProvisions DEF Carrying

LEMMA LetInInv ==
  ASSUME IInv, NEW r \in Request, NEW a \in Account, NEW step \in Carrying,
         LetIn(r, a, step)
  PROVE  IInv'
<1>1. /\ Changed(a, Null, TRUE) /\ Take(r, step, a, CopyOf(auth'[a]))
      /\ UNCHANGED <<users, sellers, stats, history>>
  BY DEF LetIn
<1>2. /\ auth'[a].version \in 0 .. MaxVersion
      /\ auth'[a].confirmed = TRUE /\ auth'[a].phone = Null
  BY <1>1, NewVersion DEF IInv
<1>3. PICK input \in Input :
        /\ input = CopyOf(auth'[a])
        /\ input.verified = TRUE /\ input.version = auth'[a].version
  <2>1. CopyOf(auth'[a]) \in Input
    BY <1>2 DEF Input, CopyOf
  <2>2. QED
    BY <1>2, <2>1 DEF CopyOf
<1>4. input.verified # FALSE
  BY <1>3
<1>5. QED
  BY <1>1, <1>3, <1>4, ChangesAndProvisions

\* The record changes under the copy that request r has taken.
LEMMA SetPasswordInv ==
  ASSUME IInv, NEW r \in Request, SetPassword(r)
  PROVE  IInv'
<1>1. PICK o \in Work : o = req[r]
  BY DEF SetPassword, IInv, RequestsInv, RequestOk
<1>2. PICK a \in Account : a = o.account
  BY DEF Work
<1>3. RequestOk(r) /\ pc[r] = "password" /\ Known(a)
      /\ Changed(a, auth[a].phone, auth[a].confirmed)
      /\ pc' = [pc EXCEPT ![r] = "provision"]
      /\ UNCHANGED <<users, sellers, stats, req, late, lost, conflict>>
  BY <1>1, <1>2 DEF SetPassword, IInv, RequestsInv, RequestOk, Carrying, history
<1>4. PICK phone \in Number \cup {Null}, confirmed \in BOOLEAN :
        phone = auth[a].phone /\ confirmed = auth[a].confirmed
  BY <1>3 DEF IInv, TypeOK, Known, Record
<1>5. /\ pc' \in [Request -> Step] /\ pc'[r] = "provision"
      /\ \A q \in Request \ {r} : pc'[q] = pc[q]
  BY <1>3 DEF IInv, TypeOK, Step
<1>6. /\ auth' \in [Account -> Record \cup {Null}] /\ hooks' \subseteq Call
      /\ \A b \in Account : Known(b) => Known(b)' /\ auth[b].version <= auth'[b].version
      /\ CopiesInv' /\ RowsInv' /\ MirrorInv'
  <2>1. NewestCopies(a, confirmed)
    BY <1>3, <1>5 DEF NewestCopies, Carries, Carrying
  <2>2. Changed(a, phone, confirmed) /\ (Known(a) /\ auth[a].confirmed => confirmed)
    BY <1>3, <1>4
  <2>3. QED
    BY <1>3, <2>1, <2>2, RecordChanges
<1>7. TypeOK'
  BY <1>3, <1>5, <1>6 DEF IInv, TypeOK, Call, Step
<1>8. RequestOk(r)'
  <2>1. o.input \in Input /\ o.input # Null /\ o.input.version <= auth[a].version
    BY <1>1, <1>2, <1>3 DEF RequestOk, Carrying, Work
  <2>2. auth[a].version \in Nat /\ o.input.version \in Nat
    BY <1>3, <2>1, RecordOf, AccountsAssumption DEF IInv, Input
  <2>3. Known(a)' /\ auth[a].version <= auth'[a].version
    BY <1>3, <1>6
  <2>4. auth'[a].version \in Nat
    BY <1>6, <2>3, AccountsAssumption DEF Known, Record
  <2>5. o.input.version <= auth'[a].version
    BY <2>1, <2>2, <2>3, <2>4
  <2>6. req'[r] = o
    BY <1>1, <1>3
  <2>7. QED
    BY <1>2, <1>5, <2>1, <2>3, <2>5, <2>6 DEF RequestOk, Known
<1>9. RequestsInv'
  <2> SUFFICES ASSUME NEW q \in Request \ {r} PROVE RequestOk(q)'
    BY <1>8 DEF RequestsInv
  <2>1. QED
    BY <1>3, <1>5, <1>6, <1>7, RequestStays DEF IInv, RequestsInv
<1>10. QED
  BY <1>6, <1>7, <1>9 DEF IInv

-----------------------------------------------------------------------------
(* Requests that take a copy, or write nothing but a profile.              *)

\* What requests are about to write they were before, or a copy of it is about.
KnownCopies ==
  \A r \in Request, b \in Account : Carries(r, b)' =>
    \/ Carries(r, b) /\ req'[r] = req[r]
    \/ /\ req'[r].input.verified = TRUE => SaysConfirmed(b, req'[r].input.version)
       /\ req'[r].input.verified = FALSE => SaysUnconfirmed(b, req'[r].input.version)

LEMMA CopiesStay ==
  ASSUME IInv, UNCHANGED <<auth, users, late, conflict>>, lost \subseteq lost',
         hooks' \subseteq hooks, KnownCopies,
         \A a \in Account \ (PhoneOnly \cup late \cup lost' \cup conflict) :
           Known(a) /\ [account |-> a, record |-> auth[a]] \in hooks =>
             [account |-> a, record |-> auth[a]] \in hooks'
  PROVE  CopiesInv' /\ RowsInv' /\ MirrorInv'
<1>1. TypeOK /\ CopiesInv
  BY DEF IInv
<1>2. ASSUME NEW b \in Account, NEW v \in Nat, SaysConfirmed(b, v)'
      PROVE  v <= auth[b].version /\ \E u \in Nat : u <= v /\ SaysConfirmed(b, u)
  <2>1. SaysConfirmed(b, v)
    <3>1. CASE \E r \in Request :
                 /\ Carries(r, b)'
                 /\ req'[r].input.verified = TRUE /\ req'[r].input.version = v
      BY <3>1 DEF KnownCopies, SaysConfirmed
    <3>2. CASE ~\E r \in Request :
                 /\ Carries(r, b)'
                 /\ req'[r].input.verified = TRUE /\ req'[r].input.version = v
      BY <1>2, <3>2 DEF SaysConfirmed, Known
    <3>3. QED
      BY <3>1, <3>2
  <2>2. Known(b) /\ v \in 1 .. auth[b].version
    BY <1>1, <2>1 DEF CopiesInv
  <2>3. QED
    BY <1>1, <2>1, <2>2, RecordOf
<1>3. ASSUME NEW b \in Account, NEW v \in Nat, SaysUnconfirmed(b, v)'
      PROVE  SaysUnconfirmed(b, v)
  <2>1. CASE \E r \in Request :
               /\ Carries(r, b)'
               /\ req'[r].input.verified = FALSE /\ req'[r].input.version = v
    BY <2>1 DEF KnownCopies, SaysUnconfirmed
  <2>2. CASE ~\E r \in Request :
               /\ Carries(r, b)'
               /\ req'[r].input.verified = FALSE /\ req'[r].input.version = v
    BY <1>3, <2>2 DEF SaysUnconfirmed, Known
  <2>3. QED
    BY <2>1, <2>2
<1>4. CopiesInv'
  BY <1>1, <1>2, <1>3, NothingNew
<1>5. RowsInv'
  BY DEF IInv, RowsInv, Known
<1>6. MirrorInv'
  <2> SUFFICES ASSUME NEW a \in Account \ (PhoneOnly \cup late \cup lost' \cup conflict), Known(a)
               PROVE  Mirrored(a)'
    BY DEF MirrorInv, Known
  <2>1. Mirrored(a)
    BY DEF IInv, MirrorInv
  <2>2. QED
    BY <2>1 DEF Mirrored, Agrees
<1>7. QED
  BY <1>4, <1>5, <1>6

\* Requests go on while nothing of Supabase changes.
LEMMA RequestsStay ==
  ASSUME IInv, NEW r \in Request, RequestOk(r)', auth' = auth,
         \A q \in Request \ {r} : pc'[q] = pc[q] /\ req'[q] = req[q]
  PROVE  RequestsInv'
<1> SUFFICES ASSUME NEW q \in Request PROVE RequestOk(q)'
  BY DEF RequestsInv
<1>1. CASE q = r
  BY <1>1
<1>2. CASE q # r
  BY <1>2 DEF IInv, RequestsInv, RequestOk, Known
<1>3. QED
  BY <1>1, <1>2

LEMMA Provisions ==
  ASSUME IInv, NEW r \in Request, NEW a \in Account, NEW input \in Input,
         WillProvision(r, a, input), Known(a), input.version <= auth[a].version,
         input.verified = TRUE => SaysConfirmed(a, input.version),
         input.verified = FALSE => SaysUnconfirmed(a, input.version),
         UNCHANGED <<auth, hooks, users, sellers, stats, history>>
  PROVE  IInv'
<1>1. PICK o \in Work : o = [account |-> a, input |-> input]
  BY DEF Work
<1>2. /\ TypeOK /\ pc' = [pc EXCEPT ![r] = "provision"] /\ req' = [req EXCEPT ![r] = o]
      /\ UNCHANGED <<auth, hooks, users, sellers, stats, late, lost, conflict>>
  BY <1>1 DEF IInv, WillProvision, Take, history
<1>3. /\ pc' \in [Request -> Step] /\ req' \in [Request -> Work \cup {Null}]
      /\ pc'[r] = "provision" /\ req'[r] = o
      /\ \A q \in Request \ {r} : pc'[q] = pc[q] /\ req'[q] = req[q]
  BY <1>2, TakesUp
<1>4. o.account = a /\ o.input = input
  BY <1>1
<1>5. KnownCopies
  BY <1>3, <1>4 DEF KnownCopies, Carries
<1>6. CopiesInv' /\ RowsInv' /\ MirrorInv'
  BY <1>2, <1>5, CopiesStay
<1>7. TypeOK'
  BY <1>2, <1>3 DEF TypeOK, Step, Work
<1>8. RequestOk(r)'
  BY <1>1, <1>2, <1>3, RequestReady DEF Known, Carrying
<1>9. RequestsInv'
  BY <1>2, <1>3, <1>8, RequestsStay
<1>10. QED
  BY <1>6, <1>7, <1>9 DEF IInv

LEMMA RefreshInv ==
  ASSUME IInv, NEW r \in Request, NEW a \in Account, Refresh(r, a)
  PROVE  IInv'
<1>1. /\ Known(a) /\ WillProvision(r, a, CopyOf(auth[a]))
      /\ UNCHANGED <<auth, hooks, users, sellers, stats, history>>
  BY DEF Refresh
<1>2. /\ auth[a].confirmed \in BOOLEAN /\ auth[a].version \in 0 .. MaxVersion
      /\ auth[a].phone \in Number \cup {Null} /\ auth[a].version \in Nat
  BY <1>1, RecordOf DEF IInv
<1>3. PICK input \in Input :
        /\ input = CopyOf(auth[a])
        /\ input.verified = auth[a].confirmed /\ input.version = auth[a].version
  <2>1. CopyOf(auth[a]) \in Input
    BY <1>2 DEF Input, CopyOf
  <2>2. QED
    BY <2>1 DEF CopyOf
<1>4. /\ auth[a].confirmed => SaysConfirmed(a, auth[a].version)
      /\ ~auth[a].confirmed => SaysUnconfirmed(a, auth[a].version)
  BY <1>1 DEF SaysConfirmed, SaysUnconfirmed
<1>5. /\ input.verified = TRUE => SaysConfirmed(a, input.version)
      /\ input.verified = FALSE => SaysUnconfirmed(a, input.version)
      /\ input.version <= auth[a].version
  BY <1>2, <1>3, <1>4
<1>6. QED
  BY <1>1, <1>3, <1>5, Provisions

LEMMA ValidateInv ==
  ASSUME IInv, NEW r \in Request, NEW a \in Account, Validate(r, a)
  PROVE  IInv'
<1>1. /\ Known(a) /\ WillProvision(r, a, ClaimsOf(a))
      /\ UNCHANGED <<auth, hooks, users, sellers, stats, history>>
  BY DEF Validate
<1>2. auth[a].phone \in Number \cup {Null} /\ auth[a].version \in Nat
  BY <1>1, RecordOf DEF IInv
<1>3. PICK input \in Input :
        input = ClaimsOf(a) /\ input.verified = Absent /\ input.version = 0
  <2>1. ClaimsOf(a) \in Input
    BY <1>2, AccountsAssumption DEF Input, ClaimsOf
  <2>2. QED
    BY <2>1 DEF ClaimsOf
<1>4. input.version <= auth[a].version /\ input.verified # TRUE /\ input.verified # FALSE
  <2>1. input.version <= auth[a].version
    BY <1>2, <1>3
  <2>2. input.verified # TRUE /\ input.verified # FALSE
    BY <1>3, AccountsAssumption
  <2>3. QED
    BY <2>1, <2>2
<1>5. QED
  BY <1>1, <1>3, <1>4, Provisions

LEMMA UpsertProfileInv ==
  ASSUME IInv, NEW r \in Request, NEW a \in Account, UpsertProfile(r, a)
  PROVE  IInv'
<1>1. PICK o \in Work : o = [account |-> a, input |-> Null]
  BY DEF Work
<1>2. /\ TypeOK /\ pc' = [pc EXCEPT ![r] = "upsert"] /\ req' = [req EXCEPT ![r] = o]
      /\ UNCHANGED <<auth, hooks, users, sellers, stats, late, lost, conflict>>
  BY <1>1 DEF IInv, UpsertProfile, history
<1>3. /\ pc' \in [Request -> Step] /\ req' \in [Request -> Work \cup {Null}]
      /\ pc'[r] = "upsert" /\ req'[r] = o
      /\ \A q \in Request \ {r} : pc'[q] = pc[q] /\ req'[q] = req[q]
  BY <1>2, TakesUp
<1>4. KnownCopies
  BY <1>3 DEF KnownCopies, Carries, Carrying
<1>5. CopiesInv' /\ RowsInv' /\ MirrorInv'
  BY <1>2, <1>4, CopiesStay
<1>6. TypeOK'
  BY <1>2, <1>3 DEF TypeOK, Step, Work
<1>7. RequestsInv'
  <2>1. RequestOk(r)'
    BY <1>3 DEF RequestOk, Carrying
  <2>2. QED
    BY <1>2, <1>3, <2>1, RequestsStay
<1>8. QED
  BY <1>5, <1>6, <1>7 DEF IInv

\* A request ends: the others go on.
LEMMA Finishes ==
  ASSUME IInv, NEW r \in Request, Finish(r), auth' = auth
  PROVE  /\ pc' \in [Request -> Step] /\ req' \in [Request -> Work \cup {Null}]
         /\ RequestsInv' /\ KnownCopies /\ OldCopies
<1>1. pc \in [Request -> Step] /\ req \in [Request -> Work \cup {Null}]
  BY Types DEF IInv
<1>2. /\ pc' \in [Request -> Step] /\ req' \in [Request -> Work \cup {Null}]
      /\ pc'[r] = "idle"
      /\ \A q \in Request \ {r} : pc'[q] = pc[q] /\ req'[q] = req[q]
  BY <1>1 DEF Finish, Step
<1>3. OldCopies
  BY <1>2 DEF OldCopies, Carries, Carrying
<1>4. RequestOk(r)'
  BY <1>2 DEF RequestOk, Carrying
<1>5. RequestsInv'
  BY <1>2, <1>4, RequestsStay
<1>6. QED
  BY <1>2, <1>3, <1>5 DEF KnownCopies, OldCopies

LEMMA FailInv ==
  ASSUME IInv, NEW r \in Request, Fail(r)
  PROVE  IInv'
<1>1. Finish(r) /\ UNCHANGED <<auth, hooks, users, sellers, stats, late, lost, conflict>>
  BY DEF Fail, history
<1>2. /\ pc' \in [Request -> Step] /\ req' \in [Request -> Work \cup {Null}]
      /\ RequestsInv' /\ KnownCopies
  BY <1>1, Finishes
<1>3. CopiesInv' /\ RowsInv' /\ MirrorInv'
  BY <1>1, <1>2, CopiesStay
<1>4. TypeOK'
  BY <1>1, <1>2 DEF IInv, TypeOK, Step, Work
<1>5. QED
  BY <1>2, <1>3, <1>4 DEF IInv

LEMMA InsertProfileInv ==
  ASSUME IInv, NEW r \in Request, InsertProfile(r)
  PROVE  IInv'
<1>1. Finish(r) /\ UNCHANGED <<auth, hooks, users, late, lost, conflict>>
  BY DEF InsertProfile, history
<1>2. /\ pc' \in [Request -> Step] /\ req' \in [Request -> Work \cup {Null}]
      /\ RequestsInv' /\ KnownCopies
  BY <1>1, Finishes
<1>3. CopiesInv' /\ RowsInv' /\ MirrorInv'
  BY <1>1, <1>2, CopiesStay
<1>4. req[r].account \in Account
  BY DEF InsertProfile, IInv, RequestsInv, RequestOk, Work
<1>5. sellers' \subseteq Account /\ stats' = sellers'
  BY <1>4 DEF InsertProfile, NewProfile, IInv, TypeOK
<1>6. TypeOK'
  BY <1>1, <1>2, <1>5 DEF IInv, TypeOK, Step, Work
<1>7. QED
  BY <1>2, <1>3, <1>6 DEF IInv

LEMMA LoseHookInv == ASSUME IInv, LoseHook PROVE IInv'
<1>1. PICK call \in hooks : hooks' = hooks \ {call} /\ lost' = lost \cup {call.account}
  BY DEF LoseHook
<1>2. UNCHANGED <<auth, users, sellers, stats, pc, req, late, conflict>>
  BY DEF LoseHook, request
<1>3. call \in Call
  BY DEF IInv, TypeOK, Call
<1>4. KnownCopies
  BY <1>2 DEF KnownCopies, Carries
<1>5. ASSUME NEW a \in Account \ (PhoneOnly \cup late \cup lost' \cup conflict),
             [account |-> a, record |-> auth[a]] \in hooks
      PROVE  [account |-> a, record |-> auth[a]] \in hooks'
  BY <1>1, <1>5
<1>6. CopiesInv' /\ RowsInv' /\ MirrorInv'
  BY <1>1, <1>2, <1>4, <1>5, CopiesStay
<1>7. TypeOK'
  BY <1>1, <1>2, <1>3 DEF IInv, TypeOK, Call
<1>8. RequestsInv'
  BY <1>2 DEF IInv, RequestsInv, RequestOk, Known
<1>9. QED
  BY <1>6, <1>7, <1>8 DEF IInv

-----------------------------------------------------------------------------
(* The two paths that write rows.                                          *)

LEMMA DoProvisionInv ==
  ASSUME IInv, NEW r \in Request, DoProvision(r)
  PROVE  IInv' /\ Kept
<1>1. /\ pc[r] = "provision" /\ Provision(req[r].account, req[r].input) /\ Finish(r)
      /\ UNCHANGED <<auth, hooks, sellers, stats, lost>>
  BY DEF DoProvision
<1>2. PICK o \in Work :
        /\ o = req[r] /\ o.input # Null /\ Known(o.account)
        /\ o.input.version <= auth[o.account].version
  BY <1>1 DEF IInv, RequestsInv, RequestOk, Carrying
<1>3. PICK a \in Account, input \in Input : a = o.account /\ input = o.input
  BY <1>2 DEF Work
<1>4. Carries(r, a) /\ req[r].input = input /\ input.version \in Nat
  BY <1>1, <1>2, <1>3, AccountsAssumption DEF Carries, Input, Carrying
<1>5. /\ input.verified = TRUE => SaysConfirmed(a, input.version)
      /\ input.verified = FALSE => SaysUnconfirmed(a, input.version)
  BY <1>4 DEF SaysConfirmed, SaysUnconfirmed
<1>6. /\ pc' \in [Request -> Step] /\ req' \in [Request -> Work \cup {Null}]
      /\ RequestsInv' /\ OldCopies
  BY <1>1, Finishes
<1>7. /\ users' \in [Account -> User \cup {Null}]
      /\ late' \subseteq Account /\ conflict' \subseteq Account
      /\ late \subseteq late' /\ conflict \subseteq conflict'
      /\ RowsInv' /\ CopiesInv' /\ Kept
      /\ \A b \in Account \ (late' \cup conflict') : Agrees(b) => Agrees(b)'
  BY <1>1, <1>2, <1>3, <1>5, <1>6, Provisioned
<1>8. MirrorInv'
  <2> SUFFICES ASSUME NEW b \in Account \ (PhoneOnly \cup late' \cup lost \cup conflict'), Known(b)
               PROVE  Mirrored(b)'
    BY <1>1 DEF MirrorInv, Known
  <2>1. Mirrored(b)
    BY <1>7 DEF IInv, MirrorInv
  <2>2. QED
    BY <1>1, <1>7, <2>1 DEF Mirrored
<1>9. TypeOK'
  BY <1>1, <1>6, <1>7 DEF IInv, TypeOK, Step, Work
<1>10. QED
  BY <1>6, <1>7, <1>8, <1>9 DEF IInv

LEMMA DeliverInv ==
  ASSUME IInv, Deliver
  PROVE  IInv' /\ Kept
<1>1. PICK call \in hooks :
        /\ hooks' = hooks \ {call}
        /\ IF Accepted(call)
             THEN Provision(call.account, CopyOf(call.record))
             ELSE UNCHANGED <<users, late, conflict>>
        /\ UNCHANGED <<auth, sellers, stats, pc, req, lost>>
  BY DEF Deliver, request
<1>2. PICK a \in Account, record \in Record :
        /\ call = [account |-> a, record |-> record]
        /\ call.account = a /\ call.record = record
  BY DEF IInv, TypeOK
<1>3. OldCopies /\ KnownCopies
  BY <1>1 DEF OldCopies, KnownCopies, Carries
<1>4. RequestsInv'
  BY <1>1 DEF IInv, RequestsInv, RequestOk, Known
<1>5. CASE ~Accepted(call)
  <2>1. UNCHANGED <<users, late, conflict>> /\ a \in PhoneOnly
    BY <1>1, <1>2, <1>5 DEF Accepted, HasEmail
  <2>2. ASSUME NEW b \in Account \ (PhoneOnly \cup late \cup lost' \cup conflict),
               [account |-> b, record |-> auth[b]] \in hooks
        PROVE  [account |-> b, record |-> auth[b]] \in hooks'
    BY <1>1, <1>2, <2>1, <2>2
  <2>3. CopiesInv' /\ RowsInv' /\ MirrorInv'
    BY <1>1, <1>3, <2>1, <2>2, CopiesStay
  <2>4. TypeOK' /\ Kept
    BY <1>1, <2>1 DEF IInv, TypeOK, Kept
  <2>5. QED
    BY <1>4, <2>3, <2>4 DEF IInv
<1>6. CASE Accepted(call)
  <2>1. /\ record.confirmed \in BOOLEAN /\ record.version \in 0 .. MaxVersion
        /\ record.phone \in Number \cup {Null} /\ record.version \in Nat
    BY AccountsAssumption DEF Record
  <2>2. PICK input \in Input :
          /\ input = CopyOf(record)
          /\ input.verified = record.confirmed /\ input.version = record.version
    <3>1. CopyOf(record) \in Input
      BY <2>1 DEF Input, CopyOf
    <3>2. QED
      BY <3>1 DEF CopyOf
  <2>3. /\ record.confirmed => SaysConfirmed(a, record.version)
        /\ ~record.confirmed => SaysUnconfirmed(a, record.version)
    BY <1>2 DEF SaysConfirmed, SaysUnconfirmed
  <2>4. /\ input.verified = TRUE => SaysConfirmed(a, input.version)
        /\ input.verified = FALSE => SaysUnconfirmed(a, input.version)
    BY <2>1, <2>2, <2>3
  <2>5. Known(a) /\ record.version \in 1 .. auth[a].version
    BY <2>1, <2>3 DEF IInv, CopiesInv
  <2>6. input.version <= auth[a].version
    BY <2>1, <2>2, <2>5, RecordOf DEF IInv
  <2>7. Provision(a, input)
    BY <1>1, <1>2, <1>6, <2>2
  <2>8. /\ users' \in [Account -> User \cup {Null}]
        /\ late' \subseteq Account /\ conflict' \subseteq Account
        /\ late \subseteq late' /\ conflict \subseteq conflict'
        /\ RowsInv' /\ CopiesInv' /\ Kept
        /\ \A b \in Account \ (late' \cup conflict') : Agrees(b) => Agrees(b)'
        /\ a \notin conflict' /\ input = CopyOf(auth[a]) => Agrees(a)'
    BY <1>1, <1>3, <2>4, <2>5, <2>6, <2>7, Provisioned
  <2>9. MirrorInv'
    <3> SUFFICES ASSUME NEW b \in Account \ (PhoneOnly \cup late' \cup lost \cup conflict'), Known(b)
                 PROVE  Mirrored(b)'
      BY <1>1 DEF MirrorInv, Known
    <3>1. Mirrored(b)
      BY <2>8 DEF IInv, MirrorInv
    <3>2. CASE call = [account |-> b, record |-> auth[b]]
      <4>1. a = b /\ record = auth[a]
        BY <1>2, <3>2
      <4>2. QED
        BY <2>2, <2>8, <4>1 DEF Mirrored
    <3>3. CASE call # [account |-> b, record |-> auth[b]]
      BY <1>1, <2>8, <3>1, <3>3 DEF Mirrored
    <3>4. QED
      BY <3>2, <3>3
  <2>10. TypeOK'
    BY <1>1, <2>8 DEF IInv, TypeOK
  <2>11. QED
    BY <1>4, <2>8, <2>9, <2>10 DEF IInv
<1>7. QED
  BY <1>5, <1>6

-----------------------------------------------------------------------------

LEMMA NextInv == IInv /\ [Next]_vars => IInv' /\ Kept
<1> SUFFICES ASSUME IInv, [Next]_vars PROVE IInv' /\ Kept
  OBVIOUS
<1>1. users' = users => Kept
  BY DEF Kept
<1>2. CASE \E a \in Account, n \in Number : PhoneOtpVerify(a, n)
  BY <1>1, <1>2, PhoneOtpVerifyInv DEF PhoneOtpVerify
<1>3. ASSUME NEW r \in Request, NEW a \in Account,
             \/ \E phone \in Number \cup {Null} : Signup(r, a, phone)
             \/ VerifyEmailOtp(r, a) \/ LoginWithPassword(r, a)
             \/ ResetPassword(r, a) \/ ExchangeOAuthIdToken(r, a)
             \/ Refresh(r, a)
             \/ Validate(r, a)
             \/ UpsertProfile(r, a)
      PROVE  IInv' /\ Kept
  <2>1. CASE \E phone \in Number \cup {Null} : Signup(r, a, phone)
    BY <1>1, <2>1, SignupInv DEF Signup
  <2>2. CASE \E step \in Carrying : LetIn(r, a, step)
    BY <1>1, <2>2, LetInInv DEF LetIn
  <2>3. CASE Refresh(r, a)
    BY <1>1, <2>3, RefreshInv DEF Refresh
  <2>4. CASE Validate(r, a)
    BY <1>1, <2>4, ValidateInv DEF Validate
  <2>5. CASE UpsertProfile(r, a)
    BY <1>1, <2>5, UpsertProfileInv DEF UpsertProfile
  <2>6. QED
    BY <1>3, <2>1, <2>2, <2>3, <2>4, <2>5
       DEF VerifyEmailOtp, LoginWithPassword, ResetPassword, ExchangeOAuthIdToken, SignIn,
           Carrying
<1>4. ASSUME NEW r \in Request,
             SetPassword(r) \/ DoProvision(r) \/ InsertProfile(r) \/ Fail(r)
      PROVE  IInv' /\ Kept
  <2>1. CASE DoProvision(r)
    BY <2>1, DoProvisionInv
  <2>2. CASE InsertProfile(r)
    BY <1>1, <2>2, InsertProfileInv DEF InsertProfile
  <2>3. CASE Fail(r)
    BY <1>1, <2>3, FailInv DEF Fail
  <2>4. CASE SetPassword(r)
    BY <1>1, <2>4, SetPasswordInv DEF SetPassword
  <2>5. QED
    BY <1>4, <2>1, <2>2, <2>3, <2>4
<1>5. CASE Deliver
  BY <1>5, DeliverInv
<1>6. CASE LoseHook
  BY <1>1, <1>6, LoseHookInv DEF LoseHook
<1>7. CASE UNCHANGED vars
  <2>1. /\ UNCHANGED <<auth, hooks, users, sellers, stats, pc, req, late, lost, conflict>>
        /\ KnownCopies
    BY <1>7 DEF vars, request, history, KnownCopies, Carries
  <2>2. CopiesInv' /\ RowsInv' /\ MirrorInv'
    BY <2>1, CopiesStay
  <2>3. TypeOK' /\ RequestsInv'
    BY <2>1 DEF IInv, TypeOK, RequestsInv, RequestOk, Known
  <2>4. QED
    BY <1>1, <2>1, <2>2, <2>3 DEF IInv
<1>8. QED
  BY <1>2, <1>3, <1>4, <1>5, <1>6, <1>7 DEF Next

\* Whatever the paths that provision a user do, and however the calls of the auth webhook
\* are delayed, reordered or lost, the copies in flight stay ordered as the record changed.
THEOREM Invariance == Spec => []IInv
<1>1. Init => IInv
  BY InitInv
<1>2. IInv /\ [Next]_vars => IInv'
  BY NextInv
<1>3. QED
  BY <1>1, <1>2, PTL DEF Spec

\* The rows agree with their types, and every seller profile has its statistics
\* (sellers.repository.ts, one transaction).
THEOREM TypeCorrect == Spec => []TypeOK
<1>1. IInv => TypeOK
  BY DEF IInv
<1>2. QED
  BY <1>1, Invariance, PTL

\* Once every call has arrived, in order and without a conflict, and no request is in
\* flight, users says of the email what Supabase says (users.service.ts, supabase-webhook).
THEOREM MirrorHolds == Spec => []MirrorSettles
<1>1. IInv => MirrorSettles
  <2> SUFFICES ASSUME IInv, hooks = {},
                      NEW a \in Account \ (PhoneOnly \cup late \cup lost \cup conflict), Known(a)
               PROVE  users[a] # Null /\ users[a].verified = auth[a].confirmed
    BY DEF MirrorSettles
  <2>1. Agrees(a)
    BY DEF IInv, MirrorInv, Mirrored
  <2>2. users[a].verified \in BOOLEAN /\ auth[a].confirmed \in BOOLEAN
    BY <2>1, RowOf, RecordOf DEF IInv, Agrees
  <2>3. QED
    BY <2>1, <2>2 DEF Agrees
<1>2. QED
  BY <1>1, Invariance, PTL

\* No path that provisions clears a verification, unless it overwrites the row from an older
\* copy of the record (users.service.ts:100-110).
THEOREM VerificationStays == Spec => VerificationKept
<1>1. IInv /\ [Next]_vars =>
        [\A a \in Account :
           users[a] # Null /\ users[a].verified /\ ~users'[a].verified => a \in late']_vars
  BY NextInv DEF Kept
<1>2. QED
  BY <1>1, Invariance, PTL DEF Spec, VerificationKept

===============================================================================
