------------------------------- MODULE Addresses -------------------------------
(***************************************************************************)
(* The addresses of one user, and which of them is the default:            *)
(* src/src/modules/users/addresses/.                                       *)
(*                                                                         *)
(* create and setDefault are transactions at READ COMMITTED.  Their UPDATE *)
(* of the other addresses takes its snapshot when the statement starts: it *)
(* locks the rows of the snapshot one by one, waits for a row another      *)
(* transaction holds, then looks at that row again, and never sees a row   *)
(* inserted later.  The unique index addresses_user_default_unique has one *)
(* entry per default: whoever enters one waits for a transaction that has  *)
(* entered or is about to drop another, and fails if that one stays.       *)
(* Every statement names the user, so that the rows of other users are     *)
(* left out; so is update, which edits other columns.                      *)
(***************************************************************************)
EXTENDS FiniteSets

CONSTANTS
  Address,  \* the ids create may draw
  Request,  \* requests of the user that may be in flight at once
  Null

ASSUME AddressesAssumption == Null \notin Address \cup Request

VARIABLES
  addresses,  \* the rows of the user
  defaults,   \* those with isDefault
  drawn,      \* ids drawn so far
  lock,       \* which transaction has written a row and not committed
  claim,      \* which transaction has entered a default in the index and not committed
  pc, req     \* what each request is in the middle of

request == <<pc, req>>
vars == <<addresses, defaults, drawn, lock, claim, request>>

NoRequest == [creates |-> FALSE, address |-> Null, isDefault |-> FALSE, todo |-> {}]

\* Whatever is deleted under a request that has read it, the default flags, the locks and
\* what requests remember are about rows that exist or are about to.
TypeOK ==
  /\ drawn \subseteq Address /\ addresses \subseteq drawn /\ defaults \subseteq addresses
  /\ lock \in [Address -> Request \cup {Null}]
  /\ \A a \in Address : lock[a] # Null => a \in addresses
  /\ claim \in Request \cup {Null}
  /\ pc \in [Request -> {"idle", "begin", "clear", "set", "enter", "commit"}]
  /\ req \in [Request -> [creates : BOOLEAN, address : Address \cup {Null},
                          isDefault : BOOLEAN, todo : SUBSET Address]]

Init ==
  /\ addresses = {} /\ defaults = {} /\ drawn = {}
  /\ lock = [a \in Address |-> Null] /\ claim = Null
  /\ pc = [r \in Request |-> "idle"] /\ req = [r \in Request |-> NoRequest]

-----------------------------------------------------------------------------

Goto(r, step) == pc' = [pc EXCEPT ![r] = step]

\* The rows request r has written and not yet committed.
Written(r) == {a \in Address : lock[a] = r}

End(r) ==
  /\ Goto(r, "idle")
  /\ req' = [req EXCEPT ![r] = NoRequest]
  /\ lock' = [a \in Address |-> IF lock[a] = r THEN Null ELSE lock[a]]
  /\ claim' = IF claim = r THEN Null ELSE claim

\* Mutant: the writes so far are not undone.
AbortKeepsWrites(r) ==
  /\ pc[r] # "idle"
  /\ defaults' = defaults \ Written(r)
  /\ End(r)
  /\ UNCHANGED <<addresses, drawn>>

\* The transaction fails, is the victim of a deadlock or dies with the process.
Abort(r) ==
  /\ pc[r] # "idle"
  /\ End(r)
  /\ UNCHANGED <<addresses, defaults, drawn>>

\* create: isDefault as asked, and where nothing is asked TRUE for a first address,
\* by a read before the transaction.
Create(r, a, isDefault) ==
  /\ pc[r] = "idle" /\ a \notin drawn
  /\ drawn' = drawn \cup {a}
  /\ Goto(r, "begin")
  /\ req' = [req EXCEPT ![r] =
       [creates |-> TRUE, address |-> a, todo |-> {},
        isDefault |-> IF isDefault = Null THEN addresses = {} ELSE isDefault]]
  /\ UNCHANGED <<addresses, defaults, lock, claim>>

\* setDefault: the address is found.
SetDefault(r, a) ==
  /\ pc[r] = "idle" /\ a \in addresses
  /\ Goto(r, "begin")
  /\ req' = [req EXCEPT ![r] =
       [creates |-> FALSE, address |-> a, todo |-> {}, isDefault |-> TRUE]]
  /\ UNCHANGED <<addresses, defaults, drawn, lock, claim>>

\* The snapshot of the UPDATE that clears the flag.
RowsToClear(r) == addresses \ {req[r].address}

Clear(r) ==
  /\ pc[r] = "begin"
  /\ Goto(r, IF req[r].isDefault THEN "clear" ELSE "commit")
  /\ req' = [req EXCEPT ![r].todo = IF req[r].isDefault THEN RowsToClear(r) ELSE {}]
  /\ UNCHANGED <<addresses, defaults, drawn, lock, claim>>

\* One row of the snapshot, if it still exists; otherwise the UPDATE waits for its lock.
ClearRow(r, a) ==
  /\ pc[r] = "clear" /\ a \in req[r].todo /\ lock[a] = Null
  /\ lock' = IF a \in addresses THEN [lock EXCEPT ![a] = r] ELSE lock
  /\ req' = [req EXCEPT ![r].todo = @ \ {a}]
  /\ UNCHANGED <<addresses, defaults, drawn, claim, pc>>

\* Every row is cleared.  create inserts its row, setDefault updates its own address.
Cleared(r) ==
  /\ pc[r] = "clear" /\ req[r].todo = {}
  /\ Goto(r, IF req[r].creates THEN "enter" ELSE "set")
  /\ UNCHANGED <<addresses, defaults, drawn, lock, claim, req>>

\* The second UPDATE of setDefault; it finds no row if the address is gone.
SetRow(r) ==
  LET a == req[r].address IN
  /\ pc[r] = "set" /\ lock[a] = Null
  /\ IF a \in addresses
     THEN lock' = [lock EXCEPT ![a] = r] /\ Goto(r, "enter")
     ELSE lock' = lock /\ Goto(r, "commit")
  /\ UNCHANGED <<addresses, defaults, drawn, claim, req>>

\* Mutant: there is no unique index.
NoEntries(r) == {}

\* The entries of the index that the one of r would collide with.
Entries(r) == defaults \ Written(r)

\* The new default is entered in the index; r waits for a transaction that has written one
\* of the rows found there.
EnterDefault(r) ==
  /\ pc[r] = "enter" /\ claim = Null /\ Entries(r) = {}
  /\ claim' = r
  /\ Goto(r, "commit")
  /\ UNCHANGED <<addresses, defaults, drawn, lock, req>>

\* The index has a committed default that nobody is clearing: the statement fails, and the
\* transaction with it.
Refuse(r) ==
  /\ pc[r] = "enter" /\ claim = Null
  /\ \E a \in Entries(r) : lock[a] = Null
  /\ End(r)
  /\ UNCHANGED <<addresses, defaults, drawn>>

\* COMMIT: the row create has inserted and the flags written become visible.
Commit(r) ==
  LET a == req[r].address IN
  /\ pc[r] = "commit"
  /\ addresses' = IF req[r].creates THEN addresses \cup {a} ELSE addresses
  /\ defaults' = (defaults \ Written(r)) \cup {b \in {a} : claim = r}
  /\ End(r)
  /\ UNCHANGED drawn

\* Mutant: the DELETE does not wait.
RemoveAtOnce(a) ==
  /\ a \in addresses
  /\ addresses' = addresses \ {a}
  /\ defaults' = defaults \ {a}
  /\ UNCHANGED <<drawn, lock, claim, request>>

\* remove: one DELETE, which waits for the row's lock.
Remove(a) ==
  /\ a \in addresses /\ lock[a] = Null
  /\ addresses' = addresses \ {a}
  /\ defaults' = defaults \ {a}
  /\ UNCHANGED <<drawn, lock, claim, request>>

Next ==
  \/ \E r \in Request, a \in Address :
       \/ \E isDefault \in BOOLEAN \cup {Null} : Create(r, a, isDefault)
       \/ SetDefault(r, a) \/ ClearRow(r, a)
  \/ \E r \in Request :
       \/ Clear(r) \/ Cleared(r) \/ SetRow(r) \/ EnterDefault(r) \/ Refuse(r)
       \/ Commit(r) \/ Abort(r)
  \/ \E a \in Address : Remove(a)

Spec == Init /\ [][Next]_vars

-----------------------------------------------------------------------------
(* Properties.                                                             *)

\* At most one address is the default, however create, setDefault, remove, failures and
\* deadlocks interleave: the UPDATE of the others (addresses.repository.ts:88, :145) misses
\* rows inserted after its snapshot, and what it misses the unique index refuses.
AtMostOneDefault == \A a, b \in defaults : a = b

\* A user with a default loses it only when that address is removed, or to a
\* setDefault whose address was removed after it was found: it is answered 404 but has
\* cleared the others (addresses.service.ts:74-75).  A failure in the middle costs
\* nobody the default, and no more does a change the index refuses.
DefaultIsNotLost ==
  [][defaults # {} /\ defaults' = {} =>
       \/ \E a \in defaults : a \notin addresses'
       \/ \E r \in Request : Commit(r) /\ ~req[r].creates /\ req[r].address \notin addresses]_vars

=============================================================================
