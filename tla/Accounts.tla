-------------------------------- MODULE Accounts --------------------------------
(***************************************************************************)
(* The users table as the mirror of Supabase Auth:                         *)
(* src/src/modules/auth/, provisionFromSupabase of users.service.ts and    *)
(* the creation of seller profiles in src/src/modules/sellers/.            *)
(*                                                                         *)
(* Four paths provision a user: signup, the sessions of AuthService        *)
(* (materialize), the JWT strategy for a token without a user (JIT), and   *)
(* the auth webhook.  Each carries a copy of what Supabase knew when it    *)
(* was taken; a call of the webhook is not repeated, may be lost and may   *)
(* be overtaken by another.                                                *)
(***************************************************************************)
EXTENDS Naturals

CONSTANTS
  Account,    \* the identities of Supabase Auth
  PhoneOnly,  \* those that sign in by SMS and have no email
  Number,     \* phone numbers
  Request,    \* requests that may be in flight at once
  MaxVersion, \* bound on the changes of a record of Supabase
  Null,
  Empty,      \* the empty string: the phone claim of a token without a phone
  Absent      \* undefined: the caller does not know the value

ASSUME AccountsAssumption ==
  /\ PhoneOnly \subseteq Account
  /\ MaxVersion \in Nat \ {0}
  /\ Null \notin Account \cup Number /\ Empty \notin Number \cup {Null}
  /\ Absent \notin BOOLEAN

VARIABLES
  auth,      \* auth.users of Supabase: the record of each account, or Null
  hooks,     \* webhook calls on their way
  users,     \* the users row of each account, or Null
  sellers,   \* accounts with a seller_profiles row
  stats,     \* accounts whose profile has its seller_stats row
  pc, req,   \* what each request is in the middle of
  late,      \* history: accounts whose row was overwritten from an older copy of the record
  lost,      \* history: accounts of whom a webhook call was lost
  conflict   \* history: accounts whose upsert failed on a unique column

request == <<pc, req>>
history == <<late, lost, conflict>>
vars == <<auth, hooks, users, sellers, stats, request, history>>

\* A record: its phone, whether its email is confirmed, and a count of its changes.
Record == [phone : Number \cup {Null}, confirmed : BOOLEAN, version : 1 .. MaxVersion]

\* A row, with (as history) the version of the newest record it was written from.
User == [phone : Number \cup {Null, Empty}, verified : BOOLEAN, seen : 0 .. MaxVersion]

\* ProvisionInput; version 0 when it is not a copy of a record.
Input == [phone : Number \cup {Null, Empty}, verified : BOOLEAN \cup {Absent},
          version : 0 .. MaxVersion]

\* A row that is not there is none of the rows; so for records and inputs.
ASSUME NullAssumption == Null \notin Record \cup User \cup Input

\* The rows agree with their types, and every seller profile has its statistics.
TypeOK ==
  /\ auth \in [Account -> Record \cup {Null}]
  /\ hooks \subseteq [account : Account, record : Record]
  /\ users \in [Account -> User \cup {Null}]
  /\ sellers \subseteq Account /\ stats = sellers
  /\ pc \in [Request -> {"idle", "password", "provision", "upsert"}]
  /\ req \in [Request -> [account : Account, input : Input \cup {Null}] \cup {Null}]
  /\ late \subseteq Account /\ lost \subseteq Account /\ conflict \subseteq Account

Init ==
  /\ auth = [a \in Account |-> Null] /\ hooks = {}
  /\ users = [a \in Account |-> Null]
  /\ sellers = {} /\ stats = {}
  /\ pc = [r \in Request |-> "idle"] /\ req = [r \in Request |-> Null]
  /\ late = {} /\ lost = {} /\ conflict = {}

-----------------------------------------------------------------------------
(* Supabase: a record changes and the database webhook is called about it. *)

Known(a) == auth[a] # Null
HasEmail(a) == a \notin PhoneOnly

\* The next record of a, when the bound allows one.
Changed(a, phone, confirmed) ==
  LET version == IF Known(a) THEN auth[a].version + 1 ELSE 1 IN
  /\ version <= MaxVersion
  /\ auth' = [auth EXCEPT ![a] = [phone |-> phone, confirmed |-> confirmed, version |-> version]]
  /\ hooks' = hooks \cup {[account |-> a, record |-> auth'[a]]}

\* verifyOtp of an SMS code: Supabase creates the account, the server passes the session on.
PhoneOtpVerify(a, n) ==
  /\ ~HasEmail(a) /\ ~Known(a)
  /\ \A b \in Account : Known(b) => auth[b].phone # n
  /\ Changed(a, n, FALSE)
  /\ UNCHANGED <<users, sellers, stats, request, history>>

-----------------------------------------------------------------------------
(* UsersService.provisionFromSupabase: one INSERT ... ON CONFLICT DO UPDATE. *)

NewerOf(m, n) == IF m > n THEN m ELSE n

\* Another row has the phone, or the empty email that every account without one gets.
Taken(a, phone) ==
  \E b \in Account \ {a} :
    /\ users[b] # Null
    /\ \/ phone # Null /\ users[b].phone = phone
       \/ ~HasEmail(a) /\ ~HasEmail(b)

\* Mutant: a verification the caller does not know is written as none.
UpsertedAll(a, input) ==
  LET row == users[a] IN
  [phone    |-> input.phone,
   verified |-> IF input.verified = Absent THEN FALSE ELSE input.verified,
   seen     |-> IF row = Null THEN input.version ELSE NewerOf(row.seen, input.version)]

\* The phone is always written; the verification only when the caller knows it.
Upserted(a, input) ==
  LET row == users[a] IN
  [phone    |-> input.phone,
   verified |-> IF input.verified = Absent THEN (row # Null /\ row.verified) ELSE input.verified,
   seen     |-> IF row = Null THEN input.version ELSE NewerOf(row.seen, input.version)]

Provision(a, input) ==
  IF Taken(a, input.phone)
    THEN conflict' = conflict \cup {a} /\ UNCHANGED <<users, late>>
    ELSE /\ users' = [users EXCEPT ![a] = Upserted(a, input)]
         /\ late' = IF users[a] # Null /\ input.version \in 1 .. users[a].seen - 1
                      THEN late \cup {a} ELSE late
         /\ UNCHANGED conflict

\* What AuthService.materialize and the webhook copy from a record.
CopyOf(record) ==
  [phone |-> record.phone, verified |-> record.confirmed, version |-> record.version]

\* Request r goes to step with a copy of what is known of a.
Take(r, step, a, input) ==
  /\ pc[r] = "idle"
  /\ pc' = [pc EXCEPT ![r] = step]
  /\ req' = [req EXCEPT ![r] = [account |-> a, input |-> input]]

\* Request r is about to provision a from input.
WillProvision(r, a, input) == Take(r, "provision", a, input)

Finish(r) == pc' = [pc EXCEPT ![r] = "idle"] /\ req' = [req EXCEPT ![r] = Null]

\* AuthService.signup: the link (and the account), then the row with the phone typed in.
Signup(r, a, phone) ==
  /\ HasEmail(a) /\ (Known(a) => ~auth[a].confirmed)
  /\ Changed(a, Null, FALSE)
  /\ WillProvision(r, a, [phone |-> phone, verified |-> FALSE, version |-> auth'[a].version])
  /\ UNCHANGED <<users, sellers, stats, history>>

\* Supabase lets a in: the email is confirmed and the sign-in recorded.
LetIn(r, a, step) ==
  /\ HasEmail(a)
  /\ Changed(a, Null, TRUE)
  /\ Take(r, step, a, CopyOf(auth'[a]))
  /\ UNCHANGED <<users, sellers, stats, history>>

SignIn(r, a) == LetIn(r, a, "provision")

\* The code of the signup mail.
VerifyEmailOtp(r, a) == Known(a) /\ ~auth[a].confirmed /\ SignIn(r, a)

LoginWithPassword(r, a) == Known(a) /\ auth[a].confirmed /\ SignIn(r, a)

\* The code of the recovery mail, which proves the email as well.
ResetPassword(r, a) == Known(a) /\ LetIn(r, a, "password")

\* The new password: the record changes once more, the copy of the sign-in is kept.
SetPassword(r) ==
  LET a == req[r].account IN
  /\ pc[r] = "password"
  /\ Changed(a, auth[a].phone, auth[a].confirmed)
  /\ pc' = [pc EXCEPT ![r] = "provision"]
  /\ UNCHANGED <<users, sellers, stats, req, history>>

\* A first sign-in with Google or Apple creates the account.
ExchangeOAuthIdToken(r, a) == SignIn(r, a)

\* refresh: a session of any kind, of an account without an email too.
Refresh(r, a) ==
  /\ Known(a) /\ (HasEmail(a) => auth[a].confirmed)
  /\ WillProvision(r, a, CopyOf(auth[a]))
  /\ UNCHANGED <<auth, hooks, users, sellers, stats, history>>

\* What a token says of its account.
ClaimsOf(a) ==
  [phone    |-> IF auth[a].phone = Null THEN Empty ELSE auth[a].phone,
   verified |-> Absent,
   version  |-> 0]

\* SupabaseJwtStrategy.validate of a token whose user is not found.
Validate(r, a) ==
  /\ Known(a) /\ users[a] = Null
  /\ HasEmail(a)
  /\ auth[a].confirmed
  /\ WillProvision(r, a, ClaimsOf(a))
  /\ UNCHANGED <<auth, hooks, users, sellers, stats, history>>

DoProvision(r) ==
  /\ pc[r] = "provision"
  /\ Provision(req[r].account, req[r].input)
  /\ Finish(r)
  /\ UNCHANGED <<auth, hooks, sellers, stats, lost>>

\* The process stops, or the database does not answer.
Fail(r) ==
  /\ pc[r] # "idle"
  /\ Finish(r)
  /\ UNCHANGED <<auth, hooks, users, sellers, stats, history>>

-----------------------------------------------------------------------------
(* SupabaseWebhookController.handle.                                       *)

\* Mutant: the webhook leaves the rows it finds as they are.
AcceptedNew(call) == HasEmail(call.account) /\ users[call.account] = Null

Accepted(call) == HasEmail(call.account)

\* Mutant: a call about an unconfirmed account is put off.
DeliverConfirmed ==
  \E call \in hooks :
    /\ call.record.confirmed
    /\ hooks' = hooks \ {call}
    /\ Provision(call.account, CopyOf(call.record))
    /\ UNCHANGED <<auth, sellers, stats, request, lost>>

Deliver ==
  \E call \in hooks :
    /\ hooks' = hooks \ {call}
    /\ IF Accepted(call)
         THEN Provision(call.account, CopyOf(call.record))
         ELSE UNCHANGED <<users, late, conflict>>
    /\ UNCHANGED <<auth, sellers, stats, request, lost>>

LoseHook ==
  /\ \E call \in hooks : hooks' = hooks \ {call} /\ lost' = lost \cup {call.account}
  /\ UNCHANGED <<auth, users, sellers, stats, request, late, conflict>>

-----------------------------------------------------------------------------
(* SellersRepository.upsert: the profile and its statistics in one          *)
(* transaction; of two first calls the second fails on the unique userId.   *)

\* upsertMyProfile: the user is read, and has no profile yet (an update of one that is
\* there changes neither row set).
UpsertProfile(r, a) ==
  /\ pc[r] = "idle" /\ users[a] # Null
  /\ a \notin sellers
  /\ pc' = [pc EXCEPT ![r] = "upsert"]
  /\ req' = [req EXCEPT ![r] = [account |-> a, input |-> Null]]
  /\ UNCHANGED <<auth, hooks, users, sellers, stats, history>>

\* Mutant: the statistics come with the first sale.
ProfileAlone(a) == sellers' = sellers \cup {a} /\ UNCHANGED stats

\* The statistics row refers to the id of the profile this transaction inserted.
NewProfile(a) == sellers' = sellers \cup {a} /\ stats' = stats \cup {a}

InsertProfile(r) ==
  /\ pc[r] = "upsert"
  /\ IF req[r].account \in sellers
       THEN UNCHANGED <<sellers, stats>>
       ELSE NewProfile(req[r].account)
  /\ Finish(r)
  /\ UNCHANGED <<auth, hooks, users, history>>

-----------------------------------------------------------------------------

Next ==
  \/ \E a \in Account, n \in Number : PhoneOtpVerify(a, n)
  \/ \E r \in Request, a \in Account :
       \/ \E phone \in Number \cup {Null} : Signup(r, a, phone)
       \/ VerifyEmailOtp(r, a) \/ LoginWithPassword(r, a)
       \/ ResetPassword(r, a) \/ ExchangeOAuthIdToken(r, a)
       \/ Refresh(r, a)
       \/ Validate(r, a)
       \/ UpsertProfile(r, a)
  \/ \E r \in Request : SetPassword(r) \/ DoProvision(r) \/ InsertProfile(r) \/ Fail(r)
  \/ Deliver \/ LoseHook

Spec == Init /\ [][Next]_vars

\* A webhook call that is not lost arrives in the end.
FairSpec == Spec /\ WF_vars(Deliver)

-----------------------------------------------------------------------------

\* A path that does not know whether the email is verified does not clear the
\* verification: it is lost only when an older copy of the record overwrites a newer
\* one (users.service.ts:100-110).
VerificationKept ==
  [][\A a \in Account :
       users[a] # Null /\ users[a].verified /\ ~users'[a].verified => a \in late']_vars

\* Once every call has arrived, in order and without a conflict, the rows say of the
\* email what Supabase says, whichever requests failed or raced with the calls.
MirrorSettles ==
  hooks = {} /\ (\A r \in Request : pc[r] = "idle") =>
    \A a \in Account \ (PhoneOnly \cup late \cup lost \cup conflict) : Known(a) =>
      users[a] # Null /\ users[a].verified = auth[a].confirmed

\* An account with an email gets its row, even when the request that created it failed.
EmailUsersAreProvisioned ==
  \A a \in Account \ PhoneOnly :
    Known(a) ~> users[a] # Null \/ a \in lost \cup conflict

=============================================================================
