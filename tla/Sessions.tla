------------------------------ MODULE Sessions ------------------------------
(***************************************************************************)
(* Accounts and their sessions: register, verify_login_otp and logout of   *)
(* userController.js and providerController.js, getUserLogin and           *)
(* createData of userService.js and providerService.js, the token cache in *)
(* Redis and authCheck.                                                    *)
(*                                                                         *)
(* A token is stored twice: in Redis, where authCheck compares it, and in  *)
(* the account's document, from where a login takes the token it answers   *)
(* with.  Each access is an await, and other requests run in between.      *)
(* A token holds its time of creation in milliseconds; here tokens are     *)
(* numbered, which takes it that no two are made in the same millisecond.  *)
(* The one-time code was checked before: a wrong one is an early return.   *)
(***************************************************************************)
EXTENDS Integers

CONSTANTS
  Ids,             \* _ids of accounts, numbers in the order of creation
  Phones, Issuers, \* {"USER", "PROVIDER"}: the collection and the cache prefix
  Requests,
  MaxTokens,       \* bound: tokens generated
  Null

ASSUME SessionsAssumption ==
  /\ Ids \subseteq Nat /\ MaxTokens \in Nat
  /\ Issuers \subseteq {"USER", "PROVIDER"}
  /\ Null \notin Nat

VARIABLES
  accounts,  \* the documents of both collections
  cache,     \* Redis: the token cached for each account, or Null
  active,    \* the requests in progress, each with the step it awaits next
  issued,    \* the number of tokens generated
  answered,  \* history: the tokens that clients of an account were given
  ended      \* history: those of them that were given before the start of a
             \* login or logout that has succeeded since

vars == <<accounts, cache, active, issued, answered, ended>>

Put(map, key, value) ==
  [k \in DOMAIN map \cup {key} |-> IF k = key THEN value ELSE map[k]]

Remove(map, key) == [k \in DOMAIN map \ {key} |-> map[k]]

Init ==
  /\ accounts = [a \in {} |-> Null]
  /\ cache = [a \in Ids |-> Null]
  /\ active = [r \in {} |-> Null]
  /\ issued = 0
  /\ answered = [a \in Ids |-> {}]
  /\ ended = [a \in Ids |-> {}]

\* The accounts that a query by phone finds.
Registered(issuer, phone) ==
  {a \in DOMAIN accounts :
     accounts[a].issuer = issuer /\ accounts[a].phone = phone}

At(r, step) == r \in DOMAIN active /\ active[r].step = step

\* Request r begins.  history: it and the other requests in progress for the
\* same phone are marked as overlapping.
Begin(r, request) ==
  LET others == {q \in DOMAIN active : /\ active[q].issuer = request.issuer
                                       /\ active[q].phone = request.phone}
  IN  /\ r \notin DOMAIN active
      /\ active' = [q \in DOMAIN active \cup {r} |->
                      IF q = r
                      THEN [request EXCEPT !.overlap = others # {}]
                      ELSE [active[q] EXCEPT !.overlap = @ \/ q \in others]]

Proceed(r, step) ==
  active' = Put(active, r, [active[r] EXCEPT !.step = step])

\* Mutation: the token is not stored.
AfterStep_NotStored(step) ==
  IF step = "invalidate" THEN "setToken" ELSE "findById"

\* The order of the accesses in getUserLogin, after its query.
AfterStep(step) ==
  CASE step = "invalidate" -> "setToken"
    [] step = "setToken"   -> "storeToken"
    [] step = "storeToken" -> "findById"

-----------------------------------------------------------------------------
\* Mutation: the accounts with the phone are not counted.
register_Uncounted(r, issuer, phone) ==
  /\ Begin(r, [step |-> "create", issuer |-> issuer, phone |-> phone,
               account |-> Null, token |-> Null, before |-> {},
               overlap |-> FALSE])
  /\ UNCHANGED <<accounts, cache, issued, answered, ended>>

\* register: no account has the phone.  (The id it takes: Booking.tla.)
register(r, issuer, phone) ==
  /\ Registered(issuer, phone) = {}
  /\ Begin(r, [step |-> "create", issuer |-> issuer, phone |-> phone,
               account |-> Null, token |-> Null, before |-> {},
               overlap |-> FALSE])
  /\ UNCHANGED <<accounts, cache, issued, answered, ended>>

\* createData: a provider's goes on to make a token, a user's clears the
\* cache of the new account first and leaves the token to getUserLogin.
createData(r, a) ==
  /\ At(r, "create")
  /\ a \notin DOMAIN accounts /\ \A b \in DOMAIN accounts : b < a
  /\ accounts' = Put(accounts, a,
                     [issuer |-> active[r].issuer, phone |-> active[r].phone,
                      token |-> Null, overlap |-> active[r].overlap])
  /\ active' = Put(active, r,
                   [active[r] EXCEPT !.account = a,
                      !.step = IF active[r].issuer = "USER"
                               THEN "invalidateNew" ELSE "generateToken"])
  /\ UNCHANGED <<cache, issued, answered, ended>>

invalidateNew(r) ==
  /\ At(r, "invalidateNew")
  /\ cache' = [cache EXCEPT ![active[r].account] = Null]
  /\ Proceed(r, "generateToken")
  /\ UNCHANGED <<accounts, issued, answered, ended>>

\* verify_login_otp with the right code: getUserLogin finds the account.
verify_login_otp(r, a) ==
  /\ a \in DOMAIN accounts
  /\ \A b \in Registered(accounts[a].issuer, accounts[a].phone) : a <= b
  /\ Begin(r, [step |-> "generateToken", issuer |-> accounts[a].issuer,
               phone |-> accounts[a].phone, account |-> a, token |-> Null,
               before |-> answered[a], overlap |-> FALSE])
  /\ UNCHANGED <<accounts, cache, issued, answered, ended>>

generateToken(r) ==
  /\ At(r, "generateToken")
  /\ issued < MaxTokens
  /\ issued' = issued + 1
  /\ active' = Put(active, r, [active[r] EXCEPT !.token = issued',
                                               !.step = "invalidate"])
  /\ UNCHANGED <<accounts, cache, answered, ended>>

invalidate(r) ==
  /\ At(r, "invalidate")
  /\ cache' = [cache EXCEPT ![active[r].account] = Null]
  /\ Proceed(r, AfterStep("invalidate"))
  /\ UNCHANGED <<accounts, issued, answered, ended>>

setToken(r) ==
  /\ At(r, "setToken")
  /\ cache' = [cache EXCEPT ![active[r].account] = active[r].token]
  /\ Proceed(r, AfterStep("setToken"))
  /\ UNCHANGED <<accounts, issued, answered, ended>>

storeToken(r) ==
  /\ At(r, "storeToken")
  /\ LET a == active[r].account IN
       accounts' = Put(accounts, a, [accounts[a] EXCEPT !.token = active[r].token])
  /\ Proceed(r, AfterStep("storeToken"))
  /\ UNCHANGED <<cache, issued, answered, ended>>

\* The answer has the token that the document holds now.
findById(r) ==
  /\ At(r, "findById")
  /\ LET a == active[r].account IN
       /\ answered' = [answered EXCEPT ![a] =
                         @ \cup ({accounts[a].token} \ {Null})]
       /\ ended' = [ended EXCEPT ![a] = @ \cup active[r].before]
  /\ active' = Remove(active, r)
  /\ UNCHANGED <<accounts, cache, issued>>

\* authCheck: a client presents a token it was given, and it is the cached one.
authCheck(a) == cache[a] \in answered[a]

logout(r, a) ==
  /\ a \in DOMAIN accounts
  /\ authCheck(a)
  /\ Begin(r, [step |-> "logoutInvalidate", issuer |-> accounts[a].issuer,
               phone |-> accounts[a].phone, account |-> a, token |-> Null,
               before |-> answered[a], overlap |-> FALSE])
  /\ UNCHANGED <<accounts, cache, issued, answered, ended>>

\* Mutation: only the document is updated.
logoutInvalidate_Forgotten(r) ==
  /\ At(r, "logoutInvalidate")
  /\ Proceed(r, "logoutUpdate")
  /\ UNCHANGED <<accounts, cache, issued, answered, ended>>

logoutInvalidate(r) ==
  /\ At(r, "logoutInvalidate")
  /\ cache' = [cache EXCEPT ![active[r].account] = Null]
  /\ Proceed(r, "logoutUpdate")
  /\ UNCHANGED <<accounts, issued, answered, ended>>

\* Both logouts update the users: a provider's document keeps its token.
logoutUpdate(r) ==
  /\ At(r, "logoutUpdate")
  /\ LET a == active[r].account IN
       /\ accounts' = IF active[r].issuer = "USER"
                      THEN Put(accounts, a, [accounts[a] EXCEPT !.token = Null])
                      ELSE accounts
       /\ ended' = [ended EXCEPT ![a] = @ \cup active[r].before]
  /\ active' = Remove(active, r)
  /\ UNCHANGED <<cache, issued, answered>>

\* An access fails: ERROR_SERVER_ERROR, what was done before it stays done.
serverError(r) ==
  /\ r \in DOMAIN active
  /\ active' = Remove(active, r)
  /\ UNCHANGED <<accounts, cache, issued, answered, ended>>

Step(r) ==
  \/ \E a \in Ids : createData(r, a)
  \/ invalidateNew(r) \/ generateToken(r)
  \/ invalidate(r) \/ setToken(r) \/ storeToken(r) \/ findById(r)
  \/ logoutInvalidate(r) \/ logoutUpdate(r)
  \/ serverError(r)

Next ==
  \E r \in Requests :
    \/ \E issuer \in Issuers, phone \in Phones : register(r, issuer, phone)
    \/ \E a \in Ids : verify_login_otp(r, a) \/ logout(r, a)
    \/ Step(r)

Spec == Init /\ [][Next]_vars

-----------------------------------------------------------------------------
(* Properties *)

Token == 1 .. issued

Steps == {"create", "invalidateNew", "generateToken", "invalidate", "setToken",
          "storeToken", "findById", "logoutInvalidate", "logoutUpdate"}

IsAccount(doc) ==
  /\ DOMAIN doc = {"issuer", "phone", "token", "overlap"}
  /\ doc.issuer \in Issuers
  /\ doc.token \in Token \cup {Null}

\* From createData on, a request has an account.
IsRequest(request) ==
  /\ DOMAIN request = {"step", "issuer", "phone", "account", "token",
                       "before", "overlap"}
  /\ request.step \in Steps
  /\ request.issuer \in Issuers
  /\ request.step # "create" => request.account \in DOMAIN accounts
  /\ request.token \in Token \cup {Null}
  /\ request.step \in {"invalidate", "setToken", "storeToken", "findById"}
       => request.token # Null

\* Documents, cached tokens and requests have their types; every token
\* anywhere is one that was generated, and every request past createData
\* works on an account that exists.
TypeOK ==
  /\ DOMAIN accounts \subseteq Ids
  /\ \A a \in DOMAIN accounts : IsAccount(accounts[a])
  /\ cache \in [Ids -> Token \cup {Null}]
  /\ \A r \in DOMAIN active : IsRequest(active[r])
  /\ issued \in Nat
  /\ answered \in [Ids -> SUBSET Token]
  /\ ended \in [Ids -> SUBSET Token]

\* A login or a logout ends the sessions before it: once it has succeeded, no
\* token that a client was given before it started passes authCheck again,
\* whatever logins, logouts and failures overlap with it.  ("single device
\* login check", authCheck.js)
EarlierSessionsEnd == \A a \in Ids : cache[a] \notin ended[a]

\* A client can present only tokens that were cached before: the token in an
\* answer, even one that an overlapping login has stored, is never one that
\* is still to be cached.
AnsweredWereCached ==
  \A r \in DOMAIN active :
    active[r].step \in {"invalidate", "setToken"}
      => active[r].token \notin answered[active[r].account]

\* A login that no other request for the phone overlaps answers with its own
\* token, and authCheck accepts it.
LoginWorks ==
  \A r \in DOMAIN active :
    At(r, "findById") /\ ~active[r].overlap =>
      LET a == active[r].account IN
      accounts[a].token = active[r].token /\ cache[a] = active[r].token

\* A phone has one account, unless registrations overlap: register counts
\* the accounts with the phone before it creates one.
OneAccountPerPhone ==
  \A a, b \in DOMAIN accounts :
    /\ accounts[a].issuer = accounts[b].issuer
    /\ accounts[a].phone = accounts[b].phone
    /\ a < b
    => accounts[b].overlap
=============================================================================
