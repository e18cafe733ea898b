--------------------------- MODULE SessionsProofs ---------------------------
(***************************************************************************)
(* EarlierSessionsEnd for any accounts and any number of requests.  What   *)
(* makes it inductive is where a token may be while its login is still     *)
(* before setToken: nowhere.  It is not stored, so nobody was answered     *)
(* with it, so it is in no request's `before`; when it is cached at last,  *)
(* it ends no promise that was made about older tokens.                    *)
(***************************************************************************)
EXTENDS Sessions, TLAPS

\* A leaf is left to Zenon unless it names SMTT (or PTL).
USE ZenonT(60)

\* Past its own invalidation, nobody's earlier token is cached.
Cleared == {"setToken", "storeToken", "findById", "logoutUpdate"}

\* Its token is generated and not yet cached.
Uncached == {"invalidate", "setToken"}

SInv ==
  /\ TypeOK
  /\ EarlierSessionsEnd
  /\ \A a \in Ids : ended[a] \subseteq answered[a]
  /\ \A r \in DOMAIN active : active[r].step # "create" =>
       active[r].before \subseteq answered[active[r].account]
  /\ \A r \in DOMAIN active : active[r].step = "create" =>
       active[r].before = {}
  /\ \A r \in DOMAIN active : active[r].step \in Cleared =>
       cache[active[r].account] \notin active[r].before
  /\ \A r \in DOMAIN active : active[r].step \in Uncached =>
       /\ \A a \in Ids : active[r].token \notin answered[a]
       /\ \A a \in DOMAIN accounts : active[r].token # accounts[a].token
  /\ \A r, q \in DOMAIN active : r # q /\ active[r].token # Null =>
       active[r].token # active[q].token

\* No account, no request, no token: nothing to show.
LEMMA InitSInv == Init => SInv
BY SessionsAssumption, SMTT(60)
DEF Init, SInv, TypeOK, EarlierSessionsEnd, Token

\* A request that begins holds no token and has cleared nothing yet.
LEMMA BeginSInv ==
  ASSUME SInv, NEW r \in Requests, NEW request,
         Begin(r, request),
         UNCHANGED <<accounts, cache, issued, answered, ended>>,
         IsRequest(request), request.token = Null,
         request.step \notin Cleared \cup Uncached,
         request.step # "create" =>
           request.before \subseteq answered[request.account],
         request.step = "create" => request.before = {}
  PROVE  SInv'
<1>1. DOMAIN active' = DOMAIN active \cup {r} /\ r \notin DOMAIN active
  BY DEF Begin
<1>2. \A q \in DOMAIN active :
        /\ DOMAIN active'[q] = DOMAIN active[q]
        /\ \A f \in DOMAIN active[q] : f # "overlap" =>
             active'[q][f] = active[q][f]
  BY <1>1 DEF Begin
<1>3. /\ DOMAIN active'[r] = DOMAIN request
      /\ \A f \in DOMAIN request : f # "overlap" =>
           active'[r][f] = request[f]
  BY DEF Begin
<1>4. \A q \in DOMAIN active :
        /\ DOMAIN active[q] = {"step", "issuer", "phone", "account", "token",
                               "before", "overlap"}
        /\ active'[q].step = active[q].step
        /\ active'[q].issuer = active[q].issuer
        /\ active'[q].account = active[q].account
        /\ active'[q].token = active[q].token
        /\ active'[q].before = active[q].before
  BY <1>2, SMTT(60) DEF SInv, TypeOK, IsRequest
<1>5. /\ active'[r].step = request.step
      /\ active'[r].issuer = request.issuer
      /\ active'[r].account = request.account
      /\ active'[r].token = Null
      /\ active'[r].before = request.before
      /\ DOMAIN active'[r] = {"step", "issuer", "phone", "account", "token",
                              "before", "overlap"}
  BY <1>3 DEF IsRequest
<1>6. TypeOK'
  BY <1>1, <1>2, <1>4, <1>5, SMTT(60)
  DEF SInv, TypeOK, IsRequest, IsAccount, Token
<1>7. \A q \in DOMAIN active' : active'[q].step # "create" =>
        active'[q].before \subseteq answered[active'[q].account]
  BY <1>1, <1>4, <1>5, SMTT(60) DEF SInv
<1>8. \A q \in DOMAIN active' : active'[q].step = "create" =>
        active'[q].before = {}
  BY <1>1, <1>4, <1>5, SMTT(60) DEF SInv
<1>9. \A q \in DOMAIN active' : active'[q].step \in Cleared =>
        cache[active'[q].account] \notin active'[q].before
  BY <1>1, <1>4, <1>5, SMTT(60) DEF SInv
<1>10. \A q \in DOMAIN active' : active'[q].step \in Uncached =>
         /\ \A a \in Ids : active'[q].token \notin answered[a]
         /\ \A a \in DOMAIN accounts : active'[q].token # accounts[a].token
  BY <1>1, <1>4, <1>5, SMTT(60) DEF SInv
<1>11. \A p, q \in DOMAIN active' : p # q /\ active'[p].token # Null =>
         active'[p].token # active'[q].token
  BY <1>1, <1>4, <1>5, SMTT(60) DEF SInv
<1> QED BY <1>6, <1>7, <1>8, <1>9, <1>10, <1>11, SMTT(60) DEF SInv, EarlierSessionsEnd

\* A step of a request rewrites that request and no other.
LEMMA PutRequest ==
  ASSUME NEW r \in DOMAIN active, NEW new, active' = Put(active, r, new)
  PROVE  /\ DOMAIN active' = DOMAIN active
         /\ active'[r] = new
         /\ \A q \in DOMAIN active : q # r => active'[q] = active[q]
BY DEF Put

\* A request that ends leaves the others as they are.
LEMMA RemoveRequest ==
  ASSUME NEW r, active' = Remove(active, r)
  PROVE  /\ DOMAIN active' \subseteq DOMAIN active
         /\ \A q \in DOMAIN active' : active'[q] = active[q]
BY DEF Remove

\* What TypeOK says of a request.
LEMMA RequestTyped ==
  ASSUME SInv, NEW r \in DOMAIN active
  PROVE  /\ DOMAIN active[r] = {"step", "issuer", "phone", "account", "token",
                                "before", "overlap"}
         /\ IsRequest(active[r])
BY DEF SInv, TypeOK, IsRequest

\* A step that only clears the cache of the request's account.
LEMMA ClearSInv ==
  ASSUME SInv, NEW r \in DOMAIN active, NEW step \in Steps,
         active[r].step # "create",
         \/ active[r].step = "invalidateNew" /\ step = "generateToken"
         \/ active[r].step = "invalidate" /\ step = "setToken"
         \/ active[r].step = "logoutInvalidate" /\ step = "logoutUpdate",
         cache' = [cache EXCEPT ![active[r].account] = Null],
         Proceed(r, step),
         UNCHANGED <<accounts, issued, answered, ended>>
  PROVE  SInv'
<1> DEFINE new == [active[r] EXCEPT !.step = step]
<1>1. active' = Put(active, r, new)
  BY DEF Proceed
<1>2. /\ DOMAIN new = {"step", "issuer", "phone", "account", "token",
                       "before", "overlap"}
      /\ new.step = step /\ new.issuer = active[r].issuer
      /\ new.account = active[r].account /\ new.token = active[r].token
      /\ new.before = active[r].before
  BY RequestTyped
<1> HIDE DEF new
<1>3. /\ DOMAIN active' = DOMAIN active /\ active'[r] = new
      /\ \A q \in DOMAIN active : q # r => active'[q] = active[q]
  BY <1>1, PutRequest
<1>4. /\ IsRequest(active[r]) /\ active[r].account \in Ids
      /\ active[r].account \in DOMAIN accounts
  BY RequestTyped DEF SInv, TypeOK, IsRequest
<1>5. /\ DOMAIN cache = Ids /\ DOMAIN cache' = Ids
      /\ cache'[active[r].account] = Null
      /\ \A a \in Ids : cache'[a] = Null \/ cache'[a] = cache[a]
  BY <1>4 DEF SInv, TypeOK
<1>6. \A a \in Ids : Null \notin answered[a]
  BY SessionsAssumption, SMTT(60) DEF SInv, TypeOK, Token
<1>7. IsRequest(active[r])'
  BY <1>2, <1>3, <1>4 DEF IsRequest, Token
<1>8. TypeOK'
  <2>1. \A q \in DOMAIN active' : IsRequest(active[q])'
    BY <1>3, <1>7, SMTT(60) DEF SInv, TypeOK, IsRequest, Token
  <2>2. cache' \in [Ids -> Token \cup {Null}]'
    BY <1>5 DEF SInv, TypeOK, Token
  <2> QED BY <2>1, <2>2 DEF SInv, TypeOK, IsAccount, Token
<1>9. EarlierSessionsEnd'
  BY <1>5, <1>6 DEF SInv, EarlierSessionsEnd
<1>10. \A q \in DOMAIN active' : active'[q].step # "create" =>
         active'[q].before \subseteq answered[active'[q].account]
  BY <1>2, <1>3, SMTT(60) DEF SInv
<1>11. \A q \in DOMAIN active' : active'[q].step = "create" =>
         active'[q].before = {}
  BY <1>2, <1>3, SMTT(60) DEF SInv
<1>12. \A q \in DOMAIN active' : active'[q].step \in Cleared =>
         cache'[active'[q].account] \notin active'[q].before
  <2>1. ASSUME NEW q \in DOMAIN active, q # r, active[q].step \in Cleared
        PROVE  cache'[active[q].account] \notin active[q].before
    <3>1. active[q].account \in Ids
      BY <2>1, RequestTyped DEF SInv, TypeOK, IsRequest, Cleared
    <3>2. active[q].before \subseteq answered[active[q].account]
      BY <2>1 DEF SInv, Cleared
    <3> QED BY <2>1, <3>1, <3>2, <1>5, <1>6 DEF SInv
  <2>2. cache'[new.account] \notin new.before
    <3>1. new.before \subseteq answered[active[r].account]
      BY <1>2 DEF SInv
    <3> QED BY <3>1, <1>2, <1>4, <1>5, <1>6
  <2> QED BY <2>1, <2>2, <1>3
<1>13. \A q \in DOMAIN active' : active'[q].step \in Uncached =>
         /\ \A a \in Ids : active'[q].token \notin answered[a]
         /\ \A a \in DOMAIN accounts : active'[q].token # accounts[a].token
  BY <1>2, <1>3, SMTT(60) DEF SInv, Uncached
<1>14. \A p, q \in DOMAIN active' : p # q /\ active'[p].token # Null =>
         active'[p].token # active'[q].token
  BY <1>2, <1>3, SMTT(60) DEF SInv
<1> QED BY <1>8, <1>9, <1>10, <1>11, <1>12, <1>13, <1>14, SMTT(60) DEF SInv

\* A request that ends: what it leaves behind concerns its account only.
LEMMA EndSInv ==
  ASSUME SInv, NEW r \in DOMAIN active, active' = Remove(active, r),
         NEW a \in Ids, NEW given, NEW past,
         answered' = [answered EXCEPT ![a] = @ \cup given],
         ended' = [ended EXCEPT ![a] = @ \cup past],
         given \subseteq Token, past \subseteq answered[a],
         cache[a] \notin past,
         \A q \in DOMAIN active : active[q].step \in Uncached =>
           active[q].token \notin given,
         UNCHANGED <<cache, issued>>,
         DOMAIN accounts' = DOMAIN accounts,
         \A b \in DOMAIN accounts :
           /\ IsAccount(accounts[b])'
           /\ accounts'[b].token = accounts[b].token \/ accounts'[b].token = Null
  PROVE  SInv'
<1>1. /\ DOMAIN active' \subseteq DOMAIN active
      /\ \A q \in DOMAIN active' : active'[q] = active[q]
  BY RemoveRequest
<1>2. /\ DOMAIN answered = Ids /\ DOMAIN answered' = Ids
      /\ DOMAIN ended = Ids /\ DOMAIN ended' = Ids
      /\ answered'[a] = answered[a] \cup given
      /\ ended'[a] = ended[a] \cup past
      /\ \A b \in Ids \ {a} : answered'[b] = answered[b] /\ ended'[b] = ended[b]
      /\ \A b \in Ids : answered[b] \subseteq answered'[b]
  BY SMTT(60) DEF SInv, TypeOK
<1>3. TypeOK'
  <2>1. \A q \in DOMAIN active' : IsRequest(active[q])'
    BY <1>1, SMTT(60) DEF SInv, TypeOK, IsRequest, Token
  <2>2. answered' \in [Ids -> SUBSET Token]'
    <3>1. \A b \in Ids : answered'[b] \subseteq Token
      BY <1>2, SMTT(60) DEF SInv, TypeOK
    <3> QED BY <3>1, <1>2 DEF Token
  <2>3. ended' \in [Ids -> SUBSET Token]'
    <3>1. \A b \in Ids : ended'[b] \subseteq Token
      BY <1>2, SMTT(60) DEF SInv, TypeOK
    <3> QED BY <3>1, <1>2 DEF Token
  <2> QED BY <2>1, <2>2, <2>3 DEF SInv, TypeOK, Token
<1>4. EarlierSessionsEnd'
  BY <1>2 DEF SInv, EarlierSessionsEnd
<1>5. \A b \in Ids : ended'[b] \subseteq answered'[b]
  BY <1>2 DEF SInv
<1>6. \A q \in DOMAIN active' : active'[q].step # "create" =>
        active'[q].before \subseteq answered'[active'[q].account]
  <2>1. \A q \in DOMAIN active : active[q].step # "create" =>
          active[q].account \in Ids
    BY DEF SInv, TypeOK, IsRequest
  <2> QED BY <1>1, <1>2, <2>1, SMTT(60) DEF SInv
<1>7. \A q \in DOMAIN active' : active'[q].step = "create" =>
        active'[q].before = {}
  BY <1>1, SMTT(60) DEF SInv
<1>8. \A q \in DOMAIN active' : active'[q].step \in Cleared =>
        cache'[active'[q].account] \notin active'[q].before
  BY <1>1 DEF SInv
<1>9. \A q \in DOMAIN active' : active'[q].step \in Uncached =>
        /\ \A b \in Ids : active'[q].token \notin answered'[b]
        /\ \A b \in DOMAIN accounts' : active'[q].token # accounts'[b].token
  <2>1. ASSUME NEW q \in DOMAIN active, active[q].step \in Uncached
        PROVE  /\ active[q].token # Null
               /\ \A b \in Ids : active[q].token \notin answered'[b]
               /\ \A b \in DOMAIN accounts : active[q].token # accounts'[b].token
    <3>1. active[q].token # Null
      BY <2>1 DEF SInv, TypeOK, IsRequest, Uncached
    <3>2. \A b \in Ids : active[q].token \notin answered'[b]
      BY <2>1, <1>2 DEF SInv
    <3>3. \A b \in DOMAIN accounts : active[q].token # accounts'[b].token
      BY <2>1, <3>1, SMTT(60) DEF SInv
    <3> QED BY <3>1, <3>2, <3>3
  <2> QED BY <2>1, <1>1, SMTT(60)
<1>10. \A p, q \in DOMAIN active' : p # q /\ active'[p].token # Null =>
         active'[p].token # active'[q].token
  BY <1>1, SMTT(60) DEF SInv
<1> QED BY <1>3, <1>4, <1>5, <1>6, <1>7, <1>8, <1>9, <1>10 DEF SInv

\* findById: the answer's token is stored, so it is nobody's uncached one.
LEMMA FindByIdSInv ==
  ASSUME SInv, NEW r \in Requests, findById(r)
  PROVE  SInv'
<1> DEFINE a == active[r].account
           given == {accounts[a].token} \ {Null}
<1>1. r \in DOMAIN active /\ active[r].step = "findById"
  BY DEF findById, At
<1>2. a \in Ids /\ a \in DOMAIN accounts
  BY <1>1, RequestTyped DEF SInv, TypeOK, IsRequest
<1>3. given \subseteq Token
  BY <1>2, SMTT(60) DEF SInv, TypeOK, IsAccount
<1>4. active[r].before \subseteq answered[a]
  BY <1>1 DEF SInv
<1>5. cache[a] \notin active[r].before
  BY <1>1 DEF SInv, Cleared
<1>6. \A q \in DOMAIN active : active[q].step \in Uncached =>
        active[q].token \notin given
  BY <1>2 DEF SInv
<1>7. /\ answered' = [answered EXCEPT ![a] = @ \cup given]
      /\ ended' = [ended EXCEPT ![a] = @ \cup active[r].before]
      /\ active' = Remove(active, r)
      /\ UNCHANGED <<accounts, cache, issued>>
  BY DEF findById
<1>8. \A b \in DOMAIN accounts : IsAccount(accounts[b])'
  BY <1>7 DEF SInv, TypeOK, IsAccount, Token
<1> HIDE DEF a, given
<1> QED BY <1>1, <1>2, <1>3, <1>4, <1>5, <1>6, <1>7, <1>8, EndSInv

\* logoutUpdate: at most removes a token.
LEMMA LogoutUpdateSInv ==
  ASSUME SInv, NEW r \in Requests, logoutUpdate(r)
  PROVE  SInv'
<1> DEFINE a == active[r].account
           given == {}
<1>1. r \in DOMAIN active /\ active[r].step = "logoutUpdate"
  BY DEF logoutUpdate, At
<1>2. a \in Ids /\ a \in DOMAIN accounts
  BY <1>1, RequestTyped DEF SInv, TypeOK, IsRequest
<1>3. active[r].before \subseteq answered[a]
  BY <1>1 DEF SInv
<1>4. cache[a] \notin active[r].before
  BY <1>1 DEF SInv, Cleared
<1>5. /\ ended' = [ended EXCEPT ![a] = @ \cup active[r].before]
      /\ active' = Remove(active, r)
      /\ UNCHANGED <<cache, issued, answered>>
  BY DEF logoutUpdate
<1>6. answered' = [answered EXCEPT ![a] = @ \cup given]
  BY <1>5, SMTT(60) DEF SInv, TypeOK
<1>7. DOMAIN accounts' = DOMAIN accounts
  BY <1>2 DEF logoutUpdate, Put
<1>8. ASSUME NEW b \in DOMAIN accounts
      PROVE  /\ IsAccount(accounts[b])'
             /\ accounts'[b].token = accounts[b].token \/ accounts'[b].token = Null
  <2>1. IsAccount(accounts[b])
    BY DEF SInv, TypeOK
  <2>2. \/ accounts'[b] = accounts[b]
        \/ accounts'[b] = [accounts[b] EXCEPT !.token = Null]
    BY <1>2 DEF logoutUpdate, Put
  <2> QED BY <2>1, <2>2, <1>5 DEF IsAccount, Token
<1> HIDE DEF a, given
<1>9. given \subseteq Token /\ \A x : x \notin given
  BY DEF given
<1> QED BY <1>1, <1>2, <1>3, <1>4, <1>5, <1>6, <1>7, <1>8, <1>9, EndSInv, ZenonT(30)

\* serverError leaves everything but the request as it is.
LEMMA ServerErrorSInv ==
  ASSUME SInv, NEW r \in Requests, serverError(r)
  PROVE  SInv'
<1>1. /\ DOMAIN active' \subseteq DOMAIN active
      /\ \A q \in DOMAIN active' : active'[q] = active[q]
      /\ UNCHANGED <<accounts, cache, issued, answered, ended>>
  BY RemoveRequest DEF serverError
<1>2. TypeOK'
  BY <1>1, SMTT(60) DEF SInv, TypeOK, IsRequest, IsAccount, Token
<1> QED BY <1>1, <1>2, SMTT(60) DEF SInv, EarlierSessionsEnd

\* createData: the new account has no token yet, and its request none either.
LEMMA CreateSInv ==
  ASSUME SInv, NEW r \in Requests, NEW a \in Ids, createData(r, a)
  PROVE  SInv'
<1> DEFINE step == IF active[r].issuer = "USER"
                   THEN "invalidateNew" ELSE "generateToken"
           new == [active[r] EXCEPT !.account = a, !.step = step]
           doc == [issuer |-> active[r].issuer, phone |-> active[r].phone,
                   token |-> Null, overlap |-> active[r].overlap]
<1>1. /\ r \in DOMAIN active /\ active[r].step = "create"
      /\ active' = Put(active, r, new) /\ accounts' = Put(accounts, a, doc)
      /\ UNCHANGED <<cache, issued, answered, ended>>
      /\ a \notin DOMAIN accounts
  BY DEF createData, At
<1>2. /\ DOMAIN new = {"step", "issuer", "phone", "account", "token",
                       "before", "overlap"}
      /\ new.step \in {"invalidateNew", "generateToken"}
      /\ new.issuer = active[r].issuer
      /\ new.account = a /\ new.token = active[r].token
      /\ new.before = active[r].before
  BY <1>1, RequestTyped
<1>3. /\ DOMAIN doc = {"issuer", "phone", "token", "overlap"}
      /\ doc.issuer = active[r].issuer /\ doc.token = Null
  OBVIOUS
<1> HIDE DEF new, doc
<1>4. /\ DOMAIN active' = DOMAIN active /\ active'[r] = new
      /\ \A q \in DOMAIN active : q # r => active'[q] = active[q]
  BY <1>1, PutRequest
<1>5. /\ DOMAIN accounts' = DOMAIN accounts \cup {a} /\ accounts'[a] = doc
      /\ \A b \in DOMAIN accounts : accounts'[b] = accounts[b]
  BY <1>1 DEF Put
<1>6. IsRequest(active[r])
  BY <1>1, RequestTyped
<1>7. TypeOK'
  <2>1. IsRequest(active[r])'
    BY <1>1, <1>2, <1>4, <1>5, <1>6, SMTT(60) DEF IsRequest, Token, Steps
  <2>2. \A q \in DOMAIN active' : IsRequest(active[q])'
    BY <1>1, <1>4, <1>5, <2>1, SMTT(60) DEF SInv, TypeOK, IsRequest, Token
  <2>3. IsAccount(accounts[a])'
    BY <1>1, <1>3, <1>5, <1>6 DEF IsRequest, IsAccount, Token
  <2>4. \A b \in DOMAIN accounts' : IsAccount(accounts[b])'
    BY <1>1, <1>5, <2>3, SMTT(60) DEF SInv, TypeOK, IsAccount, Token
  <2> QED BY <1>1, <1>5, <2>2, <2>4, SMTT(60) DEF SInv, TypeOK, Token
<1>8. new.before = {}
  BY <1>1, <1>2 DEF SInv
<1>9. \A q \in DOMAIN active' : active'[q].step # "create" =>
        active'[q].before \subseteq answered[active'[q].account]
  BY <1>4, <1>8 DEF SInv
<1>10. \A q \in DOMAIN active' : active'[q].step = "create" =>
         active'[q].before = {}
  BY <1>4, <1>8 DEF SInv
<1>11. \A q \in DOMAIN active' : active'[q].step \in Cleared =>
         cache[active'[q].account] \notin active'[q].before
  BY <1>4, <1>8 DEF SInv
<1>12. \A q \in DOMAIN active' : active'[q].step \in Uncached =>
         /\ \A b \in Ids : active'[q].token \notin answered[b]
         /\ \A b \in DOMAIN accounts' : active'[q].token # accounts'[b].token
  <2>1. ASSUME NEW q \in DOMAIN active, q # r, active[q].step \in Uncached
        PROVE  active[q].token # Null
    BY <2>1 DEF SInv, TypeOK, IsRequest, Uncached
  <2>2. new.step \notin Uncached
    BY <1>2 DEF Uncached
  <2> QED BY <2>1, <2>2, <1>3, <1>4, <1>5, SMTT(60) DEF SInv
<1>13. \A p, q \in DOMAIN active' : p # q /\ active'[p].token # Null =>
         active'[p].token # active'[q].token
  BY <1>2, <1>4, SMTT(60) DEF SInv
<1> QED BY <1>1, <1>7, <1>9, <1>10, <1>11, <1>12, <1>13, SMTT(60)
        DEF SInv, EarlierSessionsEnd

\* generateToken: the new token is larger than any other, so it is nowhere.
LEMMA GenerateSInv ==
  ASSUME SInv, NEW r \in Requests, generateToken(r)
  PROVE  SInv'
<1> DEFINE new == [active[r] EXCEPT !.token = issued', !.step = "invalidate"]
<1>1. /\ r \in DOMAIN active /\ active[r].step = "generateToken"
      /\ active' = Put(active, r, new) /\ issued' = issued + 1
      /\ UNCHANGED <<accounts, cache, answered, ended>>
  BY DEF generateToken, At
<1>2. /\ DOMAIN new = {"step", "issuer", "phone", "account", "token",
                       "before", "overlap"}
      /\ new.step = "invalidate" /\ new.issuer = active[r].issuer
      /\ new.account = active[r].account /\ new.token = issued'
      /\ new.before = active[r].before
  BY <1>1, RequestTyped
<1> HIDE DEF new
<1>3. /\ DOMAIN active' = DOMAIN active /\ active'[r] = new
      /\ \A q \in DOMAIN active : q # r => active'[q] = active[q]
  BY <1>1, PutRequest
<1>4. /\ issued \in Nat /\ issued' \in Nat /\ Token \subseteq Token'
      /\ issued' \in Token' /\ issued' \notin Token /\ issued' # Null
  BY <1>1, SessionsAssumption, SMTT(60) DEF SInv, TypeOK, Token
<1>5. IsRequest(active[r])
  BY <1>1, RequestTyped
<1>6. TypeOK'
  <2>1. IsRequest(active[r])'
    BY <1>1, <1>2, <1>3, <1>4, <1>5 DEF IsRequest, Steps
  <2>2. ASSUME NEW q \in DOMAIN active, q # r
        PROVE  IsRequest(active[q])'
    <3>1. active'[q] = active[q] /\ accounts' = accounts
      BY <2>2, <1>1, <1>3
    <3>2. IsRequest(active[q])
      BY DEF SInv, TypeOK
    <3>3. active[q].token \in Token' \cup {Null}
      BY <3>2, <1>4 DEF IsRequest
    <3> QED BY <3>1, <3>2, <3>3 DEF IsRequest
  <2>3. \A b \in DOMAIN accounts' : IsAccount(accounts[b])'
    BY <1>1, <1>4 DEF SInv, TypeOK, IsAccount
  <2>4. /\ cache' \in [Ids -> Token \cup {Null}]'
        /\ answered' \in [Ids -> SUBSET Token]'
        /\ ended' \in [Ids -> SUBSET Token]'
    BY <1>1, <1>4 DEF SInv, TypeOK
  <2> QED BY <1>1, <1>3, <1>4, <2>1, <2>2, <2>3, <2>4 DEF SInv, TypeOK
<1>7. \A q \in DOMAIN active' : active'[q].step # "create" =>
        active'[q].before \subseteq answered[active'[q].account]
  BY <1>1, <1>2, <1>3, SMTT(60) DEF SInv
<1>8. \A q \in DOMAIN active' : active'[q].step = "create" =>
        active'[q].before = {}
  BY <1>2, <1>3, SMTT(60) DEF SInv
<1>9. \A q \in DOMAIN active' : active'[q].step \in Cleared =>
        cache[active'[q].account] \notin active'[q].before
  BY <1>2, <1>3 DEF SInv, Cleared
<1>10. \A q \in DOMAIN active' : active'[q].step \in Uncached =>
         /\ \A b \in Ids : active'[q].token \notin answered[b]
         /\ \A b \in DOMAIN accounts : active'[q].token # accounts[b].token
  <2>1. \A b \in Ids : issued' \notin answered[b]
    BY <1>4 DEF SInv, TypeOK
  <2>2. \A b \in DOMAIN accounts : issued' # accounts[b].token
    BY <1>4, SMTT(60) DEF SInv, TypeOK, IsAccount
  <2> QED BY <2>1, <2>2, <1>2, <1>3, SMTT(60) DEF SInv
<1>11. \A p, q \in DOMAIN active' : p # q /\ active'[p].token # Null =>
         active'[p].token # active'[q].token
  <2>1. \A q \in DOMAIN active : active[q].token # issued'
    BY <1>4, SMTT(60) DEF SInv, TypeOK, IsRequest
  <2> QED BY <2>1, <1>2, <1>3, SMTT(60) DEF SInv
<1> QED BY <1>1, <1>6, <1>7, <1>8, <1>9, <1>10, <1>11, SMTT(60)
        DEF SInv, EarlierSessionsEnd

\* setToken: nobody was given the token that it caches.
LEMMA SetTokenSInv ==
  ASSUME SInv, NEW r \in Requests, setToken(r)
  PROVE  SInv'
<1> DEFINE new == [active[r] EXCEPT !.step = "storeToken"]
<1>1. /\ r \in DOMAIN active /\ active[r].step = "setToken"
      /\ active' = Put(active, r, new)
      /\ UNCHANGED <<accounts, issued, answered, ended>>
  BY DEF setToken, At, Proceed, AfterStep
<1>2. /\ DOMAIN new = {"step", "issuer", "phone", "account", "token",
                       "before", "overlap"}
      /\ new.step = "storeToken" /\ new.issuer = active[r].issuer
      /\ new.account = active[r].account /\ new.token = active[r].token
      /\ new.before = active[r].before
  BY <1>1, RequestTyped
<1> HIDE DEF new
<1>3. /\ DOMAIN active' = DOMAIN active /\ active'[r] = new
      /\ \A q \in DOMAIN active : q # r => active'[q] = active[q]
  BY <1>1, PutRequest
<1>4. /\ IsRequest(active[r]) /\ active[r].account \in Ids
      /\ active[r].token \in Token
  BY <1>1, RequestTyped DEF SInv, TypeOK, IsRequest
<1>5. /\ DOMAIN cache' = Ids
      /\ \A a \in Ids : cache'[a] = active[r].token \/ cache'[a] = cache[a]
  BY <1>4 DEF SInv, TypeOK, setToken
<1>6. \A a \in Ids : active[r].token \notin answered[a]
  BY <1>1 DEF SInv, Uncached
<1>7. TypeOK'
  <2>1. IsRequest(active[r])'
    BY <1>1, <1>2, <1>3, <1>4 DEF IsRequest, Token, Steps
  <2>2. \A q \in DOMAIN active' : IsRequest(active[q])'
    BY <1>1, <1>3, <2>1, SMTT(60) DEF SInv, TypeOK, IsRequest, Token
  <2>3. cache' \in [Ids -> Token \cup {Null}]'
    <3>1. cache' = [cache EXCEPT ![active[r].account] = active[r].token]
      BY DEF setToken
    <3> QED BY <3>1, <1>1, <1>4 DEF SInv, TypeOK, Token
  <2> QED BY <1>1, <2>2, <2>3 DEF SInv, TypeOK, IsAccount, Token
<1>8. EarlierSessionsEnd'
  BY <1>1, <1>5, <1>6 DEF SInv, EarlierSessionsEnd
<1>9. \A q \in DOMAIN active' : active'[q].step # "create" =>
        active'[q].before \subseteq answered[active'[q].account]
  BY <1>1, <1>2, <1>3, SMTT(60) DEF SInv
<1>10. \A q \in DOMAIN active' : active'[q].step = "create" =>
         active'[q].before = {}
  BY <1>2, <1>3, SMTT(60) DEF SInv
<1>11. \A q \in DOMAIN active' : active'[q].step \in Cleared =>
         cache'[active'[q].account] \notin active'[q].before
  <2>1. ASSUME NEW q \in DOMAIN active, active[q].step \in Cleared
        PROVE  cache'[active[q].account] \notin active[q].before
    <3>1. active[q].account \in Ids
      BY <2>1, RequestTyped DEF SInv, TypeOK, IsRequest, Cleared
    <3>2. active[q].before \subseteq answered[active[q].account]
      BY <2>1 DEF SInv, Cleared
    <3> QED BY <2>1, <3>1, <3>2, <1>5, <1>6 DEF SInv
  <2>2. active[r].step \in Cleared
    BY <1>1 DEF Cleared
  <2> QED BY <2>1, <2>2, <1>1, <1>2, <1>3, SMTT(60)
<1>12. \A q \in DOMAIN active' : active'[q].step \in Uncached =>
         /\ \A a \in Ids : active'[q].token \notin answered[a]
         /\ \A a \in DOMAIN accounts : active'[q].token # accounts[a].token
  BY <1>2, <1>3, SMTT(60) DEF SInv, Uncached
<1>13. \A p, q \in DOMAIN active' : p # q /\ active'[p].token # Null =>
         active'[p].token # active'[q].token
  BY <1>2, <1>3, SMTT(60) DEF SInv
<1> QED BY <1>1, <1>7, <1>8, <1>9, <1>10, <1>11, <1>12, <1>13, SMTT(60) DEF SInv

\* storeToken: the token it stores is no other request's.
LEMMA StoreTokenSInv ==
  ASSUME SInv, NEW r \in Requests, storeToken(r)
  PROVE  SInv'
<1> DEFINE new == [active[r] EXCEPT !.step = "findById"]
           a == active[r].account
           doc == [accounts[a] EXCEPT !.token = active[r].token]
<1>1. /\ r \in DOMAIN active /\ active[r].step = "storeToken"
      /\ active' = Put(active, r, new) /\ accounts' = Put(accounts, a, doc)
      /\ UNCHANGED <<cache, issued, answered, ended>>
  BY DEF storeToken, At, Proceed, AfterStep
<1>2. /\ DOMAIN new = {"step", "issuer", "phone", "account", "token",
                       "before", "overlap"}
      /\ new.step = "findById" /\ new.issuer = active[r].issuer
      /\ new.account = active[r].account /\ new.token = active[r].token
      /\ new.before = active[r].before
  BY <1>1, RequestTyped
<1>3. /\ IsRequest(active[r]) /\ a \in DOMAIN accounts
      /\ active[r].token \in Token /\ active[r].token # Null
  BY <1>1, RequestTyped DEF SInv, TypeOK, IsRequest
<1>4. /\ DOMAIN doc = {"issuer", "phone", "token", "overlap"}
      /\ doc.issuer = accounts[a].issuer /\ doc.token = active[r].token
      /\ doc.issuer \in Issuers
  BY <1>3, SMTT(60) DEF SInv, TypeOK, IsAccount
<1> HIDE DEF new, doc, a
<1>5. /\ DOMAIN active' = DOMAIN active /\ active'[r] = new
      /\ \A q \in DOMAIN active : q # r => active'[q] = active[q]
  BY <1>1, PutRequest
<1>6. /\ DOMAIN accounts' = DOMAIN accounts /\ accounts'[a] = doc
      /\ \A b \in DOMAIN accounts : b # a => accounts'[b] = accounts[b]
  BY <1>1, <1>3 DEF Put
<1>7. TypeOK'
  <2>1. IsRequest(active[r])'
    BY <1>1, <1>2, <1>3, <1>5, <1>6, SMTT(60) DEF IsRequest, Token, Steps
  <2>2. \A q \in DOMAIN active' : IsRequest(active[q])'
    BY <1>1, <1>5, <1>6, <2>1, SMTT(60) DEF SInv, TypeOK, IsRequest, Token
  <2>3. ASSUME NEW b \in DOMAIN accounts, b = a
        PROVE  IsAccount(accounts[b])'
    BY <2>3, <1>1, <1>3, <1>4, <1>6 DEF IsAccount, Token
  <2>4. ASSUME NEW b \in DOMAIN accounts, b # a
        PROVE  IsAccount(accounts[b])'
    BY <2>4, <1>1, <1>6, SMTT(60) DEF SInv, TypeOK, IsAccount, Token
  <2> QED BY <1>1, <1>6, <2>2, <2>3, <2>4 DEF SInv, TypeOK, Token
<1>8. \A q \in DOMAIN active' : active'[q].step # "create" =>
        active'[q].before \subseteq answered[active'[q].account]
  BY <1>1, <1>2, <1>5, SMTT(60) DEF SInv
<1>9. \A q \in DOMAIN active' : active'[q].step = "create" =>
        active'[q].before = {}
  BY <1>2, <1>5, SMTT(60) DEF SInv
<1>10. \A q \in DOMAIN active' : active'[q].step \in Cleared =>
         cache[active'[q].account] \notin active'[q].before
  BY <1>1, <1>2, <1>5, SMTT(60) DEF SInv, Cleared
<1>11. \A q \in DOMAIN active' : active'[q].step \in Uncached =>
         /\ \A b \in Ids : active'[q].token \notin answered[b]
         /\ \A b \in DOMAIN accounts' : active'[q].token # accounts'[b].token
  <2>1. new.step \notin Uncached
    BY <1>2 DEF Uncached
  <2>2. \A q \in DOMAIN active : q # r => active[q].token # active[r].token
    BY <1>1, <1>3 DEF SInv
  <2> QED BY <2>1, <2>2, <1>4, <1>5, <1>6, SMTT(60) DEF SInv
<1>12. \A p, q \in DOMAIN active' : p # q /\ active'[p].token # Null =>
         active'[p].token # active'[q].token
  BY <1>2, <1>5, SMTT(60) DEF SInv
<1> QED BY <1>1, <1>7, <1>8, <1>9, <1>10, <1>11, <1>12, SMTT(60)
        DEF SInv, EarlierSessionsEnd

-----------------------------------------------------------------------------
\* Every step of every request keeps the invariant.
LEMMA NextSInv == SInv /\ [Next]_vars => SInv'
<1> SUFFICES ASSUME SInv, [Next]_vars PROVE SInv'
  OBVIOUS
<1>1. CASE UNCHANGED vars
  BY <1>1, SMTT(60) DEF vars, SInv, TypeOK, EarlierSessionsEnd, IsRequest, IsAccount, Token
<1>2. ASSUME NEW r \in Requests, NEW issuer \in Issuers, NEW phone \in Phones,
             register(r, issuer, phone)
      PROVE  SInv'
  <2> DEFINE request == [step |-> "create", issuer |-> issuer, phone |-> phone,
                         account |-> Null, token |-> Null, before |-> {},
                         overlap |-> FALSE]
  <2>1. /\ IsRequest(request) /\ request.token = Null
        /\ request.step = "create" /\ request.before = {}
    BY DEF IsRequest, Steps
  <2>2. Begin(r, request) /\ UNCHANGED <<accounts, cache, issued, answered, ended>>
    BY <1>2 DEF register
  <2>3. request.step \notin Cleared \cup Uncached
    BY <2>1 DEF Cleared, Uncached
  <2> HIDE DEF request
  <2> QED BY <2>1, <2>2, <2>3, BeginSInv
<1>3. ASSUME NEW r \in Requests, NEW a \in Ids,
             verify_login_otp(r, a) \/ logout(r, a)
      PROVE  SInv'
  <2>1. PICK step \in {"generateToken", "logoutInvalidate"} :
          Begin(r, [step |-> step, issuer |-> accounts[a].issuer,
                    phone |-> accounts[a].phone, account |-> a, token |-> Null,
                    before |-> answered[a], overlap |-> FALSE])
    BY <1>3 DEF verify_login_otp, logout
  <2> DEFINE request == [step |-> step, issuer |-> accounts[a].issuer,
                         phone |-> accounts[a].phone, account |-> a,
                         token |-> Null, before |-> answered[a],
                         overlap |-> FALSE]
  <2>2. /\ a \in DOMAIN accounts
        /\ UNCHANGED <<accounts, cache, issued, answered, ended>>
    BY <1>3 DEF verify_login_otp, logout
  <2>3. accounts[a].issuer \in Issuers
    BY <2>2 DEF SInv, TypeOK, IsAccount
  <2>4. /\ IsRequest(request) /\ request.token = Null
        /\ request.step # "create" /\ request.step = step
        /\ request.before \subseteq answered[request.account]
    BY <2>2, <2>3 DEF IsRequest, Steps
  <2>5. request.step \notin Cleared \cup Uncached
    BY <2>4, ZenonT(30) DEF Cleared, Uncached
  <2>6. Begin(r, request)
    BY <2>1
  <2> HIDE DEF request
  <2> QED BY <2>2, <2>4, <2>5, <2>6, BeginSInv
<1>4. ASSUME NEW r \in Requests,
             invalidateNew(r) \/ invalidate(r) \/ logoutInvalidate(r)
      PROVE  SInv'
  <2>1. PICK step \in Steps :
          /\ \/ active[r].step = "invalidateNew" /\ step = "generateToken"
             \/ active[r].step = "invalidate" /\ step = "setToken"
             \/ active[r].step = "logoutInvalidate" /\ step = "logoutUpdate"
          /\ Proceed(r, step)
    BY <1>4 DEF invalidateNew, invalidate, logoutInvalidate, At, AfterStep, Steps
  <2>2. /\ r \in DOMAIN active
        /\ cache' = [cache EXCEPT ![active[r].account] = Null]
        /\ UNCHANGED <<accounts, issued, answered, ended>>
    BY <1>4 DEF invalidateNew, invalidate, logoutInvalidate, At
  <2>3. active[r].step # "create"
    BY <2>1
  <2> QED BY <2>1, <2>2, <2>3, ClearSInv
<1> QED BY <1>1, <1>2, <1>3, <1>4, CreateSInv, GenerateSInv, SetTokenSInv,
           StoreTokenSInv, FindByIdSInv, LogoutUpdateSInv, ServerErrorSInv
        DEF Next, Step

\* The invariant holds in every behaviour of the account API.
THEOREM SessionsInductive == Spec => []SInv
BY InitSInv, NextSInv, PTL DEF Spec

\* Accounts, cached tokens and requests always have their types.
THEOREM SessionsTypeCorrect == Spec => []TypeOK
<1>1. SInv => TypeOK
  BY DEF SInv
<1> QED BY <1>1, SessionsInductive, PTL

\* A login or logout ends the earlier sessions of its account, for any number
\* of overlapping logins, logouts and registrations (authCheck's single device
\* rule).
THEOREM EarlierSessionsEnded == Spec => []EarlierSessionsEnd
<1>1. SInv => EarlierSessionsEnd
  BY DEF SInv
<1> QED BY <1>1, SessionsInductive, PTL

\* No client is ever given a token that getUserLogin has still to cache.
THEOREM OnlyCachedAnswered == Spec => []AnsweredWereCached
<1>1. SInv => AnsweredWereCached
  BY DEF SInv, TypeOK, IsRequest, AnsweredWereCached, Uncached
<1> QED BY <1>1, SessionsInductive, PTL

-----------------------------------------------------------------------------
(* A login that nothing overlaps with, and the accounts of a phone.  Two    *)
(* requests that work on one account are for the same phone, so both are    *)
(* marked: what an unmarked login has cached and stored is still there when *)
(* it reads the document back, and the phone that an unmarked registration  *)
(* has not found is still nobody's when it creates the account.             *)

\* The two requests are for the same phone.
SamePhone(q, r) ==
  active[q].issuer = active[r].issuer /\ active[q].phone = active[r].phone

\* r's login has written the token to the cache, and to the document as well.
Written(r) ==
  LET a == active[r].account IN
  /\ active[r].step \in {"storeToken", "findById"} => cache[a] = active[r].token
  /\ active[r].step = "findById" => accounts[a].token = active[r].token

\* Nobody has r's phone.
Unregistered(r) == Registered(active[r].issuer, active[r].phone) = {}

KInv ==
  /\ \A r \in DOMAIN active : active[r].step # "create" =>
       LET a == active[r].account IN
       accounts[a].issuer = active[r].issuer /\ accounts[a].phone = active[r].phone
  /\ \A q, r \in DOMAIN active : q # r /\ SamePhone(q, r) => active[r].overlap
  /\ \A r \in DOMAIN active : active[r].overlap \/ Written(r)
  /\ \A r \in DOMAIN active : active[r].step = "create" =>
       active[r].overlap \/ Unregistered(r)
  /\ OneAccountPerPhone

\* The accounts are the same, but for the token in the document of `account`.
SameAccounts(account) ==
  /\ DOMAIN accounts' = DOMAIN accounts
  /\ \A a \in DOMAIN accounts : /\ accounts'[a].issuer = accounts[a].issuer
                                /\ accounts'[a].phone = accounts[a].phone
                                /\ accounts'[a].overlap = accounts[a].overlap
                                /\ a # account => accounts'[a].token = accounts[a].token

\* The accounts of a phone are the same, then.
LEMMA SamePhones ==
  ASSUME NEW account, SameAccounts(account), OneAccountPerPhone
  PROVE  OneAccountPerPhone'
BY SMTT(60) DEF SameAccounts, OneAccountPerPhone

\* Only r's account is touched: the requests for other phones hold what they
\* held.
LEMMA OthersWritten ==
  ASSUME SInv, KInv, NEW r \in DOMAIN active, active[r].step # "create",
         SameAccounts(active[r].account),
         \A a \in Ids : a # active[r].account => cache'[a] = cache[a],
         NEW q \in DOMAIN active, q # r, active'[q] = active[q]
  PROVE  active[q].overlap \/ Written(q)'
<1> SUFFICES ASSUME ~active[q].overlap PROVE Written(q)'
  OBVIOUS
<1>1. Written(q) /\ ~SamePhone(r, q)
  BY DEF KInv
<1>2. CASE active[q].step \notin {"storeToken", "findById"}
  BY <1>2 DEF Written
<1>3. CASE active[q].step \in {"storeToken", "findById"}
  <2>1. active[q].account \in DOMAIN accounts /\ active[q].account \in Ids
    BY <1>3 DEF SInv, TypeOK, IsRequest
  <2>2. active[q].account # active[r].account
    BY <1>1, <1>3, SMTT(60) DEF KInv, SamePhone
  <2> QED BY <1>1, <2>1, <2>2 DEF Written, SameAccounts
<1> QED BY <1>2, <1>3

\* A step of request r past createData, its last one included.
LEMMA WorkKInv ==
  ASSUME SInv, KInv, NEW r \in DOMAIN active, active[r].step # "create",
         SameAccounts(active[r].account),
         \A a \in Ids : a # active[r].account => cache'[a] = cache[a],
         DOMAIN active' \subseteq DOMAIN active,
         \A q \in DOMAIN active' : q # r => active'[q] = active[q],
         r \in DOMAIN active' =>
           /\ active'[r].step # "create" /\ active'[r].account = active[r].account
           /\ active'[r].issuer = active[r].issuer /\ active'[r].phone = active[r].phone
           /\ active'[r].overlap = active[r].overlap
           /\ active[r].overlap \/ Written(r)'
  PROVE  KInv'
<1>1. \A q \in DOMAIN active' : /\ active'[q].issuer = active[q].issuer
                                /\ active'[q].phone = active[q].phone
                                /\ active'[q].account = active[q].account
                                /\ active'[q].overlap = active[q].overlap
                                /\ active'[q].step = "create" <=> active[q].step = "create"
  BY SMTT(60)
<1>2. \A q \in DOMAIN active' : active'[q].step # "create" =>
        /\ accounts'[active'[q].account].issuer = active'[q].issuer
        /\ accounts'[active'[q].account].phone = active'[q].phone
  BY <1>1, SMTT(60) DEF KInv, SameAccounts, SInv, TypeOK, IsRequest
<1>3. \A p, q \in DOMAIN active' : p # q /\ SamePhone(p, q)' => active'[q].overlap
  <2> SUFFICES ASSUME NEW p \in DOMAIN active', NEW q \in DOMAIN active', p # q,
                      SamePhone(p, q)'
               PROVE  active'[q].overlap
    OBVIOUS
  <2>1. SamePhone(p, q)
    BY <1>1 DEF SamePhone
  <2> QED BY <1>1, <2>1 DEF KInv
<1>4. \A q \in DOMAIN active' : active'[q].overlap \/ Written(q)'
  <2> SUFFICES ASSUME NEW q \in DOMAIN active' PROVE active'[q].overlap \/ Written(q)'
    OBVIOUS
  <2>1. CASE q = r
    BY <2>1
  <2>2. CASE q # r
    BY <2>2, OthersWritten
  <2> QED BY <2>1, <2>2
<1>5. \A q \in DOMAIN active' : active'[q].step = "create" =>
        active'[q].overlap \/ Unregistered(q)'
  <2> SUFFICES ASSUME NEW q \in DOMAIN active', active'[q].step = "create"
               PROVE  active'[q].overlap \/ Unregistered(q)'
    OBVIOUS
  <2>1. active[q].overlap \/ Unregistered(q)
    BY <1>1 DEF KInv
  <2>2. Unregistered(q) => Unregistered(q)'
    BY <1>1, SMTT(60) DEF Unregistered, Registered, SameAccounts
  <2> QED BY <1>1, <2>1, <2>2
<1>6. OneAccountPerPhone'
  BY SamePhones DEF KInv
<1> QED BY <1>2, <1>3, <1>4, <1>5, <1>6 DEF KInv

\* createData: the new account is the latest one, and the only one of its
\* phone unless the registration is marked.
LEMMA CreateKInv ==
  ASSUME SInv, KInv, NEW r, NEW a \in Ids, createData(r, a)
  PROVE  KInv'
<1> DEFINE doc == [issuer |-> active[r].issuer, phone |-> active[r].phone,
                   token |-> Null, overlap |-> active[r].overlap]
           new == [active[r] EXCEPT !.account = a,
                     !.step = IF active[r].issuer = "USER"
                              THEN "invalidateNew" ELSE "generateToken"]
<1>1. /\ r \in DOMAIN active /\ active[r].step = "create"
      /\ a \notin DOMAIN accounts /\ \A b \in DOMAIN accounts : b < a
      /\ accounts' = Put(accounts, a, doc) /\ active' = Put(active, r, new)
      /\ cache' = cache
  BY DEF createData, At
<1>2. /\ doc.issuer = active[r].issuer /\ doc.phone = active[r].phone
      /\ doc.overlap = active[r].overlap
  OBVIOUS
<1>3. /\ new.account = a /\ new.step \in {"invalidateNew", "generateToken"}
      /\ new.issuer = active[r].issuer /\ new.phone = active[r].phone
      /\ new.overlap = active[r].overlap
  BY <1>1, RequestTyped
<1> HIDE DEF doc, new
<1>4. /\ DOMAIN active' = DOMAIN active /\ active'[r] = new
      /\ \A q \in DOMAIN active : q # r => active'[q] = active[q]
  BY <1>1, PutRequest
<1>5. /\ DOMAIN accounts' = DOMAIN accounts \cup {a} /\ accounts'[a] = doc
      /\ \A b \in DOMAIN accounts : accounts'[b] = accounts[b]
  BY <1>1 DEF Put
<1>6. \A q \in DOMAIN active : /\ active'[q].issuer = active[q].issuer
                               /\ active'[q].phone = active[q].phone
                               /\ active'[q].overlap = active[q].overlap
  BY <1>3, <1>4
<1>7. \A q \in DOMAIN active' : active'[q].step # "create" =>
        /\ accounts'[active'[q].account].issuer = active'[q].issuer
        /\ accounts'[active'[q].account].phone = active'[q].phone
  <2> SUFFICES ASSUME NEW q \in DOMAIN active', active'[q].step # "create"
               PROVE  /\ accounts'[active'[q].account].issuer = active'[q].issuer
                      /\ accounts'[active'[q].account].phone = active'[q].phone
    OBVIOUS
  <2>1. CASE q = r
    BY <1>2, <1>3, <1>4, <1>5, <2>1
  <2>2. CASE q # r
    <3>1. active[q].account \in DOMAIN accounts
      BY <1>4, <2>2 DEF SInv, TypeOK, IsRequest
    <3> QED BY <1>4, <1>5, <2>2, <3>1, SMTT(60) DEF KInv
  <2> QED BY <2>1, <2>2
<1>8. \A p, q \in DOMAIN active' : p # q /\ SamePhone(p, q)' => active'[q].overlap
  <2> SUFFICES ASSUME NEW p \in DOMAIN active', NEW q \in DOMAIN active', p # q,
                      SamePhone(p, q)'
               PROVE  active'[q].overlap
    OBVIOUS
  <2>1. SamePhone(p, q)
    BY <1>4, <1>6 DEF SamePhone
  <2> QED BY <1>4, <1>6, <2>1 DEF KInv
<1>9. \A q \in DOMAIN active' : active'[q].overlap \/ Written(q)'
  <2> SUFFICES ASSUME NEW q \in DOMAIN active' PROVE active'[q].overlap \/ Written(q)'
    OBVIOUS
  <2>1. CASE active'[q].step \notin {"storeToken", "findById"}
    BY <2>1 DEF Written
  <2>2. CASE active'[q].step \in {"storeToken", "findById"}
    <3>1. q # r /\ active'[q] = active[q]
      BY <1>3, <1>4, <2>2
    <3>2. active[q].account \in DOMAIN accounts
      BY <1>4, <2>2, <3>1 DEF SInv, TypeOK, IsRequest
    <3>3. Written(q) => Written(q)'
      BY <1>1, <1>5, <3>1, <3>2 DEF Written
    <3> QED BY <1>4, <3>1, <3>3 DEF KInv
  <2> QED BY <2>1, <2>2
<1>10. \A q \in DOMAIN active' : active'[q].step = "create" =>
         active'[q].overlap \/ Unregistered(q)'
  <2> SUFFICES ASSUME NEW q \in DOMAIN active', active'[q].step = "create", ~active'[q].overlap
               PROVE  Unregistered(q)'
    OBVIOUS
  <2>1. q # r /\ active'[q] = active[q]
    BY <1>3, <1>4
  <2>2. Unregistered(q) /\ ~SamePhone(r, q)
    BY <1>1, <1>4, <2>1 DEF KInv
  <2> QED BY <1>2, <1>5, <2>1, <2>2, SMTT(60) DEF Unregistered, Registered, SamePhone
<1>11. OneAccountPerPhone'
  <2> SUFFICES ASSUME NEW b \in DOMAIN accounts', NEW d \in DOMAIN accounts',
                      accounts'[b].issuer = accounts'[d].issuer,
                      accounts'[b].phone = accounts'[d].phone, b < d
               PROVE  accounts'[d].overlap
    BY DEF OneAccountPerPhone
  <2>1. DOMAIN accounts \subseteq Nat /\ a \in Nat
    BY SessionsAssumption DEF SInv, TypeOK
  <2>2. b # a
    BY <1>1, <1>5, <2>1, SMTT(60)
  <2>3. CASE d = a
    <3>1. ~Unregistered(r)
      BY <1>2, <1>5, <2>2, <2>3 DEF Unregistered, Registered
    <3>2. active[r].overlap
      BY <1>1, <3>1 DEF KInv
    <3> QED BY <1>2, <1>5, <2>3, <3>2
  <2>4. CASE d # a
    BY <1>5, <2>2, <2>4 DEF KInv, OneAccountPerPhone
  <2> QED BY <2>3, <2>4
<1> QED BY <1>7, <1>8, <1>9, <1>10, <1>11 DEF KInv

\* A request that begins marks the others of its phone, and is marked by them.
LEMMA BeginMarks ==
  ASSUME SInv, NEW r, NEW request, Begin(r, request), IsRequest(request)
  PROVE  /\ DOMAIN active' = DOMAIN active \cup {r} /\ r \notin DOMAIN active
         /\ active'[r].step = request.step /\ active'[r].account = request.account
         /\ active'[r].issuer = request.issuer /\ active'[r].phone = request.phone
         /\ \A q \in DOMAIN active :
              /\ active'[q].step = active[q].step /\ active'[q].account = active[q].account
              /\ active'[q].issuer = active[q].issuer /\ active'[q].phone = active[q].phone
              /\ active'[q].token = active[q].token
<1>1. /\ DOMAIN active' = DOMAIN active \cup {r} /\ r \notin DOMAIN active
      /\ \E b : active'[r] = [request EXCEPT !.overlap = b]
      /\ \A q \in DOMAIN active : \E b : active'[q] = [active[q] EXCEPT !.overlap = b]
  BY DEF Begin
<1>2. /\ active'[r].step = request.step /\ active'[r].account = request.account
      /\ active'[r].issuer = request.issuer /\ active'[r].phone = request.phone
  BY <1>1 DEF IsRequest
<1>3. ASSUME NEW q \in DOMAIN active
      PROVE  /\ active'[q].step = active[q].step /\ active'[q].account = active[q].account
             /\ active'[q].issuer = active[q].issuer /\ active'[q].phone = active[q].phone
             /\ active'[q].token = active[q].token
  BY <1>1, RequestTyped, SMTT(60)
<1> QED BY <1>1, <1>2, <1>3

LEMMA BeginOverlaps ==
  ASSUME SInv, NEW r, NEW request, Begin(r, request), IsRequest(request)
  PROVE  /\ \A q \in DOMAIN active :
              /\ active[q].overlap => active'[q].overlap
              /\ active[q].issuer = request.issuer /\ active[q].phone = request.phone =>
                   active'[q].overlap
         /\ (\E q \in DOMAIN active : /\ active[q].issuer = request.issuer
                                      /\ active[q].phone = request.phone) => active'[r].overlap
<1> DEFINE others == {q \in DOMAIN active : /\ active[q].issuer = request.issuer
                                            /\ active[q].phone = request.phone}
<1>1. /\ DOMAIN active' = DOMAIN active \cup {r} /\ r \notin DOMAIN active
      /\ active'[r] = [request EXCEPT !.overlap = others # {}]
      /\ \A q \in DOMAIN active : active'[q] = [active[q] EXCEPT !.overlap = @ \/ q \in others]
  BY DEF Begin
<1>2. active'[r].overlap = (others # {})
  BY <1>1 DEF IsRequest
<1>3. ASSUME NEW q \in DOMAIN active
      PROVE  active'[q].overlap = (active[q].overlap \/ q \in others)
  BY <1>1, RequestTyped
<1> QED BY <1>2, <1>3

LEMMA BeginKInv ==
  ASSUME SInv, KInv, NEW r, NEW request, Begin(r, request), IsRequest(request),
         UNCHANGED <<accounts, cache>>,
         request.step \notin {"storeToken", "findById"},
         request.step = "create" => Registered(request.issuer, request.phone) = {},
         request.step # "create" => /\ accounts[request.account].issuer = request.issuer
                                    /\ accounts[request.account].phone = request.phone
  PROVE  KInv'
<1>1. /\ DOMAIN active' = DOMAIN active \cup {r} /\ r \notin DOMAIN active
      /\ active'[r].step = request.step /\ active'[r].account = request.account
      /\ active'[r].issuer = request.issuer /\ active'[r].phone = request.phone
      /\ \A q \in DOMAIN active :
           /\ active'[q].step = active[q].step /\ active'[q].account = active[q].account
           /\ active'[q].issuer = active[q].issuer /\ active'[q].phone = active[q].phone
           /\ active'[q].token = active[q].token
  BY BeginMarks
<1>2. /\ \A q \in DOMAIN active :
           /\ active[q].overlap => active'[q].overlap
           /\ active[q].issuer = request.issuer /\ active[q].phone = request.phone =>
                active'[q].overlap
      /\ (\E q \in DOMAIN active : /\ active[q].issuer = request.issuer
                                   /\ active[q].phone = request.phone) => active'[r].overlap
  BY BeginOverlaps, SMTT(60)
<1>3. \A q \in DOMAIN active' : active'[q].step # "create" =>
        /\ accounts'[active'[q].account].issuer = active'[q].issuer
        /\ accounts'[active'[q].account].phone = active'[q].phone
  BY <1>1, SMTT(60) DEF KInv
<1>4. \A p, q \in DOMAIN active' : p # q /\ SamePhone(p, q)' => active'[q].overlap
  <2> SUFFICES ASSUME NEW p \in DOMAIN active', NEW q \in DOMAIN active', p # q,
                      SamePhone(p, q)'
               PROVE  active'[q].overlap
    OBVIOUS
  <2>1. CASE q = r
    BY <1>1, <1>2, <2>1, SMTT(60) DEF SamePhone
  <2>2. CASE p = r
    BY <1>1, <1>2, <2>2 DEF SamePhone
  <2>3. CASE q # r /\ p # r
    <3>1. q \in DOMAIN active /\ p \in DOMAIN active /\ SamePhone(p, q)
      BY <1>1, <2>3 DEF SamePhone
    <3> QED BY <1>2, <3>1 DEF KInv
  <2> QED BY <2>1, <2>2, <2>3
<1>5. \A q \in DOMAIN active' : active'[q].overlap \/ Written(q)'
  <2> SUFFICES ASSUME NEW q \in DOMAIN active' PROVE active'[q].overlap \/ Written(q)'
    OBVIOUS
  <2>1. CASE q = r
    BY <1>1, <2>1 DEF Written
  <2>2. CASE q # r
    <3>1. Written(q) => Written(q)'
      BY <1>1, <2>2 DEF Written
    <3> QED BY <1>1, <1>2, <2>2, <3>1 DEF KInv
  <2> QED BY <2>1, <2>2
<1>6. \A q \in DOMAIN active' : active'[q].step = "create" =>
        active'[q].overlap \/ Unregistered(q)'
  <2> SUFFICES ASSUME NEW q \in DOMAIN active', active'[q].step = "create"
               PROVE  active'[q].overlap \/ Unregistered(q)'
    OBVIOUS
  <2>1. CASE q = r
    BY <1>1, <2>1, SMTT(60) DEF Unregistered, Registered
  <2>2. CASE q # r
    <3>1. Unregistered(q) => Unregistered(q)'
      BY <1>1, <2>2, SMTT(60) DEF Unregistered, Registered
    <3> QED BY <1>1, <1>2, <2>2, <3>1, SMTT(60) DEF KInv
  <2> QED BY <2>1, <2>2
<1>7. OneAccountPerPhone'
  BY DEF KInv, OneAccountPerPhone
<1> QED BY <1>3, <1>4, <1>5, <1>6, <1>7 DEF KInv

\* What a request keeps when it goes on.
LEMMA ProceedFields ==
  ASSUME SInv, NEW r \in DOMAIN active, NEW step, Proceed(r, step)
  PROVE  /\ DOMAIN active' = DOMAIN active
         /\ \A q \in DOMAIN active : q # r => active'[q] = active[q]
         /\ active'[r].step = step /\ active'[r].account = active[r].account
         /\ active'[r].issuer = active[r].issuer /\ active'[r].phone = active[r].phone
         /\ active'[r].overlap = active[r].overlap /\ active'[r].token = active[r].token
<1> DEFINE new == [active[r] EXCEPT !.step = step]
<1>1. /\ new.step = step /\ new.account = active[r].account
      /\ new.issuer = active[r].issuer /\ new.phone = active[r].phone
      /\ new.overlap = active[r].overlap /\ new.token = active[r].token
  BY RequestTyped
<1>2. active' = Put(active, r, new)
  BY DEF Proceed
<1> HIDE DEF new
<1> QED BY <1>1, <1>2, PutRequest

\* A document that gets another token, or none.
LEMMA TokenStored ==
  ASSUME SInv, NEW a \in DOMAIN accounts, NEW token,
         accounts' = Put(accounts, a, [accounts[a] EXCEPT !.token = token])
  PROVE  SameAccounts(a) /\ accounts'[a].token = token
<1> DEFINE doc == [accounts[a] EXCEPT !.token = token]
<1>1. /\ doc.issuer = accounts[a].issuer /\ doc.phone = accounts[a].phone
      /\ doc.overlap = accounts[a].overlap /\ doc.token = token
  BY SMTT(60) DEF SInv, TypeOK, IsAccount
<1>2. accounts' = Put(accounts, a, doc)
  OBVIOUS
<1> HIDE DEF doc
<1>3. /\ DOMAIN accounts' = DOMAIN accounts /\ accounts'[a] = doc
      /\ \A b \in DOMAIN accounts : b # a => accounts'[b] = accounts[b]
  BY <1>2 DEF Put
<1> QED BY <1>1, <1>3 DEF SameAccounts

\* No request is left without what it had when another one ends.
LEMMA EndKInv ==
  ASSUME SInv, KInv, NEW r \in DOMAIN active, active' = Remove(active, r),
         UNCHANGED <<accounts, cache>>
  PROVE  KInv'
<1>1. DOMAIN active' \subseteq DOMAIN active /\ \A q \in DOMAIN active' : active'[q] = active[q]
  BY RemoveRequest
<1>2. \A q \in DOMAIN active' : /\ Written(q) => Written(q)'
                                /\ Unregistered(q) => Unregistered(q)'
  BY <1>1, SMTT(60) DEF Written, Unregistered, Registered
<1>3. \A p, q \in DOMAIN active' : SamePhone(p, q)' => SamePhone(p, q)
  BY <1>1 DEF SamePhone
<1>4. OneAccountPerPhone'
  BY DEF KInv, OneAccountPerPhone
<1> QED BY <1>1, <1>2, <1>3, <1>4, SMTT(60) DEF KInv

\* The steps that write the cache, and generateToken.
LEMMA CacheKInv ==
  ASSUME SInv, KInv, NEW r,
         invalidateNew(r) \/ generateToken(r) \/ invalidate(r) \/ setToken(r) \/ logoutInvalidate(r)
  PROVE  KInv'
<1> DEFINE a == active[r].account
<1>1. /\ r \in DOMAIN active /\ active[r].step # "create" /\ accounts' = accounts
      /\ \E token : cache' = cache \/ cache' = [cache EXCEPT ![a] = token]
  BY DEF invalidateNew, generateToken, invalidate, setToken, logoutInvalidate, At
<1>2. a \in Ids /\ DOMAIN cache = Ids
  BY <1>1 DEF SInv, TypeOK, IsRequest
<1>3. \A b \in Ids : b # a => cache'[b] = cache[b]
  BY <1>1, <1>2
<1>4. /\ DOMAIN active' = DOMAIN active
      /\ \A q \in DOMAIN active : q # r => active'[q] = active[q]
      /\ active'[r].step # "create" /\ active'[r].account = a
      /\ active'[r].issuer = active[r].issuer /\ active'[r].phone = active[r].phone
      /\ active'[r].overlap = active[r].overlap
      /\ Written(r)'
  <2>1. CASE generateToken(r)
    <3> DEFINE new == [active[r] EXCEPT !.token = issued', !.step = "invalidate"]
    <3>1. active' = Put(active, r, new)
      BY <2>1 DEF generateToken
    <3>2. /\ new.step = "invalidate" /\ new.account = a
          /\ new.issuer = active[r].issuer /\ new.phone = active[r].phone
          /\ new.overlap = active[r].overlap
      BY <1>1, RequestTyped
    <3> HIDE DEF new, a
    <3>3. /\ DOMAIN active' = DOMAIN active /\ active'[r] = new
          /\ \A q \in DOMAIN active : q # r => active'[q] = active[q]
      BY <1>1, <3>1, PutRequest
    <3>4. Written(r)'
      BY <3>2, <3>3 DEF Written
    <3> QED BY <3>2, <3>3, <3>4
  <2>2. CASE invalidateNew(r) \/ invalidate(r) \/ logoutInvalidate(r)
    <3>1. PICK step \in {"generateToken", "setToken", "logoutUpdate"} : Proceed(r, step)
      BY <2>2 DEF invalidateNew, invalidate, logoutInvalidate, At, AfterStep
    <3>2. Written(r)'
      BY <1>1, <3>1, ProceedFields DEF Written
    <3> QED BY <1>1, <3>1, <3>2, ProceedFields
  <2>3. CASE setToken(r)
    <3>1. Proceed(r, "storeToken") /\ cache' = [cache EXCEPT ![a] = active[r].token]
      BY <2>3 DEF setToken, AfterStep
    <3>2. cache'[a] = active[r].token
      BY <1>2, <3>1
    <3>3. Written(r)'
      BY <1>1, <3>1, <3>2, ProceedFields DEF Written
    <3> QED BY <1>1, <3>1, <3>3, ProceedFields, SMTT(60)
  <2> QED BY <2>1, <2>2, <2>3
<1>5. SameAccounts(a)
  BY <1>1 DEF SameAccounts
<1> QED BY <1>1, <1>3, <1>4, <1>5, WorkKInv

\* storeToken: the cached token is still the login's own, if it is not marked.
LEMMA StoreKInv ==
  ASSUME SInv, KInv, NEW r, storeToken(r)
  PROVE  KInv'
<1> DEFINE a == active[r].account
<1>1. /\ r \in DOMAIN active /\ active[r].step = "storeToken" /\ cache' = cache
      /\ accounts' = Put(accounts, a, [accounts[a] EXCEPT !.token = active[r].token])
      /\ Proceed(r, "findById")
  BY DEF storeToken, At, AfterStep
<1>2. a \in DOMAIN accounts
  BY <1>1 DEF SInv, TypeOK, IsRequest
<1>3. SameAccounts(a) /\ accounts'[a].token = active[r].token
  BY <1>1, <1>2, TokenStored, SMTT(60)
<1>4. active[r].overlap \/ cache[a] = active[r].token
  BY <1>1 DEF KInv, Written
<1>5. active[r].overlap \/ Written(r)'
  BY <1>1, <1>3, <1>4, ProceedFields DEF Written
<1> QED BY <1>1, <1>3, <1>5, ProceedFields, WorkKInv, SMTT(60)

LEMMA LogoutKInv ==
  ASSUME SInv, KInv, NEW r, logoutUpdate(r)
  PROVE  KInv'
<1> DEFINE a == active[r].account
<1>1. /\ r \in DOMAIN active /\ active[r].step = "logoutUpdate" /\ cache' = cache
      /\ active' = Remove(active, r)
      /\ accounts' = accounts \/ accounts' = Put(accounts, a, [accounts[a] EXCEPT !.token = Null])
  BY DEF logoutUpdate, At
<1>2. a \in DOMAIN accounts
  BY <1>1 DEF SInv, TypeOK, IsRequest
<1>3. CASE accounts' = accounts
  BY <1>1, <1>3, EndKInv
<1>4. CASE accounts' = Put(accounts, a, [accounts[a] EXCEPT !.token = Null])
  <2>1. SameAccounts(a)
    BY <1>2, <1>4, TokenStored
  <2>2. r \notin DOMAIN active'
    BY <1>1 DEF Remove
  <2> QED BY <1>1, <2>1, <2>2, RemoveRequest, WorkKInv
<1> QED BY <1>1, <1>3, <1>4

LEMMA NextKInv == SInv /\ KInv /\ [Next]_vars => KInv'
<1> SUFFICES ASSUME SInv, KInv, [Next]_vars PROVE KInv'
  BY SMTT(60)
<1>1. CASE UNCHANGED vars
  BY <1>1, SMTT(60) DEF vars, KInv, SamePhone, Written, Unregistered, Registered, OneAccountPerPhone
<1>2. ASSUME NEW r \in Requests, NEW issuer \in Issuers, NEW phone \in Phones,
             register(r, issuer, phone)
      PROVE  KInv'
  <2> DEFINE request == [step |-> "create", issuer |-> issuer, phone |-> phone,
                         account |-> Null, token |-> Null, before |-> {},
                         overlap |-> FALSE]
  <2>1. /\ IsRequest(request) /\ request.step = "create"
        /\ request.issuer = issuer /\ request.phone = phone
    BY ZenonT(30) DEF IsRequest, Steps
  <2>2. /\ Begin(r, request) /\ UNCHANGED <<accounts, cache>>
        /\ Registered(issuer, phone) = {}
    BY <1>2 DEF register
  <2> HIDE DEF request
  <2> QED BY <2>1, <2>2, BeginKInv
<1>3. ASSUME NEW r \in Requests, NEW a \in Ids, verify_login_otp(r, a) \/ logout(r, a)
      PROVE  KInv'
  <2>1. PICK step \in {"generateToken", "logoutInvalidate"} :
          Begin(r, [step |-> step, issuer |-> accounts[a].issuer,
                    phone |-> accounts[a].phone, account |-> a, token |-> Null,
                    before |-> answered[a], overlap |-> FALSE])
    BY <1>3 DEF verify_login_otp, logout
  <2> DEFINE request == [step |-> step, issuer |-> accounts[a].issuer,
                         phone |-> accounts[a].phone, account |-> a,
                         token |-> Null, before |-> answered[a],
                         overlap |-> FALSE]
  <2>2. a \in DOMAIN accounts /\ UNCHANGED <<accounts, cache>>
    BY <1>3 DEF verify_login_otp, logout
  <2>3. accounts[a].issuer \in Issuers
    BY <2>2 DEF SInv, TypeOK, IsAccount
  <2>4. /\ IsRequest(request) /\ request.step = step /\ request.account = a
        /\ request.issuer = accounts[a].issuer /\ request.phone = accounts[a].phone
    BY <2>2, <2>3 DEF IsRequest, Steps
  <2>5. Begin(r, request)
    BY <2>1
  <2> HIDE DEF request
  <2> QED BY <2>2, <2>4, <2>5, BeginKInv
<1>4. ASSUME NEW r \in Requests, Step(r) PROVE KInv'
  <2>1. ASSUME NEW a \in Ids, createData(r, a) PROVE KInv'
    BY <2>1, CreateKInv
  <2>2. CASE invalidateNew(r) \/ generateToken(r) \/ invalidate(r) \/ setToken(r) \/ logoutInvalidate(r)
    BY <2>2, CacheKInv
  <2>3. CASE storeToken(r)
    BY <2>3, StoreKInv
  <2>4. CASE logoutUpdate(r)
    BY <2>4, LogoutKInv
  <2>5. CASE findById(r) \/ serverError(r)
    BY <2>5, EndKInv DEF findById, serverError, At
  <2> QED BY <1>4, <2>1, <2>2, <2>3, <2>4, <2>5 DEF Step
<1> QED BY <1>1, <1>2, <1>3, <1>4 DEF Next

\* KInv holds in every behaviour of the account API.
THEOREM OverlapsMarked == Spec => []KInv
<1>1. Init => KInv
  BY DEF Init, KInv, OneAccountPerPhone
<1> QED BY <1>1, NextKInv, SessionsInductive, PTL DEF Spec

\* A login that no other request for the phone overlaps answers with its own
\* token, which authCheck accepts, for any number of accounts and requests.
THEOREM LoginsWork == Spec => []LoginWorks
<1>1. KInv => LoginWorks
  BY DEF KInv, Written, LoginWorks, At
<1> QED BY <1>1, OverlapsMarked, PTL

\* Of two accounts with one phone, the later one's registration has overlapped
\* with another request for the phone.
THEOREM PhonesHaveOneAccount == Spec => []OneAccountPerPhone
<1>1. KInv => OneAccountPerPhone
  BY DEF KInv
<1> QED BY <1>1, OverlapsMarked, PTL
=============================================================================
