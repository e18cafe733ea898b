------------------------- MODULE AddressBookProofs -------------------------
(***************************************************************************)
(* What a login shows, for any number of users and of addresses added at   *)
(* the same time.  An id on the list stays there because every call that   *)
(* is about to write the list has read it: whoever had not was writing     *)
(* when the id was, and then the id was not listed alone.                  *)
(***************************************************************************)
EXTENDS AddressBook, FiniteSetTheorems, TLAPS

\* A leaf is left to Zenon unless it names SMTT (or PTL).
USE ZenonT(60)

\* The addresses that u has added, given who added which.
Added(own, u) == {a \in DOMAIN own : own[a] = u}

UserInv(doc, own, u) ==
  /\ {"addressData", "defaultAddress"} \subseteq DOMAIN doc
  /\ doc.addressData \subseteq Added(own, u)

TaskInv(task, own) ==
  /\ DOMAIN task = {"user", "step", "id", "addressList"}
  /\ task.user \in Users
  /\ task.step \in {"create", "read", "write"}
  /\ task.addressList \subseteq Added(own, task.user)
  /\ task.step # "create" => task.id \in Added(own, task.user)

\* The call is the only one about to write its user's list.
Sole(tasks, r) ==
  \A q \in DOMAIN tasks :
    tasks[q].user = tasks[r].user /\ tasks[q].step = "write" => q = r

\* Address a is on the list of u and on every list still to be written.
Listed(a, u, docs, tasks) ==
  /\ a \in docs[u].addressData
  /\ \A q \in DOMAIN tasks :
       tasks[q].user = u /\ tasks[q].step = "write" =>
         a \in tasks[q].addressList

\* The inductive invariant.
AInv ==
  /\ \E n \in Nat : DOMAIN owner = 1 .. n
  /\ \A a \in DOMAIN addresses : a \in DOMAIN owner
  /\ \A a \in DOMAIN addresses :
       "user_id" \in DOMAIN addresses[a] /\ addresses[a].user_id = owner[a]
  /\ \A a \in DOMAIN owner : owner[a] \in Users
  /\ DOMAIN users = Users
  /\ \A u \in Users : UserInv(users[u], owner, u)
  /\ \A r \in DOMAIN adding : TaskInv(adding[r], owner)
  /\ \A r \in DOMAIN adding :
       adding[r].step = "write" /\ r \notin overlap => Sole(adding, r)
  /\ alone \subseteq DOMAIN owner
  /\ \A a \in alone : Listed(a, owner[a], users, adding)

-----------------------------------------------------------------------------
\* Nothing is stored.
LEMMA InitAInv == Init => AInv
<1> SUFFICES ASSUME Init PROVE AInv
  OBVIOUS
<1>1. DOMAIN owner = 1 .. 0 /\ 0 \in Nat
  BY SMTT(60) DEF Init
<1>2. \A u \in Users : UserInv(users[u], owner, u) /\ DOMAIN users = Users
  <2> SUFFICES ASSUME NEW u \in Users
               PROVE  UserInv(users[u], owner, u) /\ DOMAIN users = Users
    OBVIOUS
  <2>1. PICK c \in Contents : users[u] = [addressData |-> {},
                                defaultAddress |-> Null, profile |-> c]
    BY DEF Init
  <2> QED BY <2>1, SMTT(60) DEF Init, UserInv
<1>3. DOMAIN users = Users
  BY DEF Init
<1> QED BY <1>1, <1>2, <1>3 DEF Init, AInv

\* The call begins.
LEMMA AddressAInv ==
  ASSUME AInv, NEW r, address(r)
  PROVE  AInv'
<1>1. PICK u \in Users :
        adding' = Put(adding, r, [user |-> u, step |-> "create", id |-> Null,
                                  addressList |-> {}])
  BY DEF address
<1> DEFINE new == [user |-> u, step |-> "create", id |-> Null,
                   addressList |-> {}]
<1>2. TaskInv(new, owner) /\ new.step = "create"
  BY DEF TaskInv
<1> HIDE DEF new
<1>3. /\ DOMAIN adding' = DOMAIN adding \cup {r} /\ adding'[r] = new
      /\ \A q \in DOMAIN adding : q # r /\ adding'[q] = adding[q]
  BY <1>1 DEF address, Put, new
<1>4. UNCHANGED <<addresses, users, owner, overlap, alone>>
  BY DEF address
<1>5. \A q \in DOMAIN adding' : TaskInv(adding'[q], owner')
  BY <1>2, <1>3, <1>4 DEF AInv
<1>6. \A q \in DOMAIN adding' :
        adding'[q].step = "write" /\ q \notin overlap' => Sole(adding', q)
  BY <1>2, <1>3, <1>4, SMTT(60) DEF AInv, Sole
<1>7. \A a \in alone' : Listed(a, owner'[a], users', adding')
  BY <1>2, <1>3, <1>4, SMTT(60) DEF AInv, Listed
<1> QED BY <1>4, <1>5, <1>6, <1>7 DEF AInv

\* The document is stored under an id that is new.
LEMMA CreateAInv ==
  ASSUME AInv, NEW r, createDataAddress(r)
  PROVE  AInv'
<1>1. PICK n \in Nat : DOMAIN owner = 1 .. n
  BY DEF AInv
<1>2. new_id = n + 1
  <2>1. Cardinality(1 .. n) = n
    BY FS_Interval, SMTT(60)
  <2> QED BY <1>1, <2>1 DEF new_id
<1> DEFINE u == adding[r].user
           new == [adding[r] EXCEPT !.step = "read", !.id = new_id]
<1>3. r \in DOMAIN adding /\ TaskInv(adding[r], owner)
  BY DEF createDataAddress, AInv
<1>4. /\ DOMAIN new = {"user", "step", "id", "addressList"}
      /\ new.user = u /\ new.step = "read" /\ new.id = new_id
      /\ new.addressList = adding[r].addressList
  BY <1>3 DEF TaskInv
<1>5. /\ DOMAIN adding' = DOMAIN adding /\ adding'[r] = new
      /\ \A q \in DOMAIN adding : q # r => adding'[q] = adding[q]
  BY <1>3 DEF createDataAddress
<1>6. /\ DOMAIN owner' = DOMAIN owner \cup {new_id} /\ owner'[new_id] = u
      /\ \A a \in DOMAIN owner : a # new_id /\ owner'[a] = owner[a]
  BY <1>1, <1>2, SMTT(60) DEF createDataAddress, Put
<1>7. UNCHANGED <<users, overlap, alone>>
  BY DEF createDataAddress
<1>8. PICK content \in Contents :
        addresses' = Put(addresses, new_id,
                         [user_id |-> u, content |-> content])
  BY DEF createDataAddress
<1>9. /\ DOMAIN addresses' = DOMAIN addresses \cup {new_id}
      /\ "user_id" \in DOMAIN addresses'[new_id]
      /\ addresses'[new_id].user_id = u
      /\ \A a \in DOMAIN addresses : a # new_id => addresses'[a] = addresses[a]
  BY <1>8 DEF Put
<1> HIDE DEF new
<1>10. DOMAIN owner' = 1 .. (n + 1) /\ n + 1 \in Nat
  BY <1>1, <1>2, <1>6, SMTT(60)
<1>11. u \in Users
  BY <1>3 DEF TaskInv
<1>12. \A v : Added(owner, v) \subseteq Added(owner', v)
  BY <1>6 DEF Added
<1>13. new_id \in Added(owner', u)
  BY <1>6 DEF Added
<1>14. \A v \in Users : UserInv(users'[v], owner', v)
  BY <1>7, <1>12 DEF AInv, UserInv
<1>15. TaskInv(new, owner')
  BY <1>3, <1>4, <1>12, <1>13 DEF TaskInv
<1>16. \A q \in DOMAIN adding' : TaskInv(adding'[q], owner')
  <2> SUFFICES ASSUME NEW q \in DOMAIN adding', q # r
               PROVE  TaskInv(adding'[q], owner')
    BY <1>5, <1>15
  <2>1. TaskInv(adding[q], owner) /\ adding'[q] = adding[q]
    BY <1>5 DEF AInv
  <2> QED BY <2>1, <1>12 DEF TaskInv
<1>17. \A q \in DOMAIN adding' :
         adding'[q].step = "write" /\ q \notin overlap' => Sole(adding', q)
  BY <1>4, <1>5, <1>7, SMTT(60) DEF AInv, Sole
<1>18. \A a \in alone' : Listed(a, owner'[a], users', adding')
  BY <1>4, <1>5, <1>6, <1>7, SMTT(60) DEF AInv, Listed
<1>19. /\ \A a \in DOMAIN addresses' : a \in DOMAIN owner'
       /\ \A a \in DOMAIN addresses' :
            /\ "user_id" \in DOMAIN addresses'[a]
            /\ addresses'[a].user_id = owner'[a]
  BY <1>6, <1>9 DEF AInv
<1>20. \A a \in DOMAIN owner' : owner'[a] \in Users
  BY <1>6, <1>11 DEF AInv
<1> QED
  BY <1>6, <1>7, <1>10, <1>14, <1>16, <1>17, <1>18, <1>19, <1>20 DEF AInv

\* Whoever reads the list finds on it the addresses listed alone, and is the
\* only one to write it unless it overlaps.
LEMMA ReadAInv ==
  ASSUME AInv, NEW r, readList(r)
  PROVE  AInv'
<1> DEFINE u == adding[r].user
           new == [adding[r] EXCEPT !.step = "write",
                                    !.addressList = users[u].addressData]
<1>1. r \in DOMAIN adding /\ TaskInv(adding[r], owner) /\ adding[r].step = "read"
  BY DEF readList, AInv
<1>2. /\ DOMAIN new = {"user", "step", "id", "addressList"}
      /\ new.user = u /\ new.step = "write" /\ new.id = adding[r].id
      /\ new.addressList = users[u].addressData
  BY <1>1 DEF TaskInv
<1>3. /\ DOMAIN adding' = DOMAIN adding /\ adding'[r] = new
      /\ \A q \in DOMAIN adding : q # r => adding'[q] = adding[q]
  BY <1>1 DEF readList
<1> HIDE DEF new
<1>4. UNCHANGED <<addresses, users, owner, alone>>
  BY DEF readList
<1>5. u \in Users /\ UserInv(users[u], owner, u)
  BY <1>1 DEF AInv, TaskInv
<1>6. TaskInv(new, owner)
  BY <1>1, <1>2, <1>5 DEF TaskInv, UserInv
<1>7. \A q \in DOMAIN adding' : TaskInv(adding'[q], owner')
  BY <1>3, <1>4, <1>6 DEF AInv
<1>8. /\ overlap \subseteq overlap'
      /\ Writing(u) # {} => Writing(u) \cup {r} \subseteq overlap'
  BY DEF readList
<1>9. \A q \in DOMAIN adding' :
        adding'[q].step = "write" /\ q \notin overlap' => Sole(adding', q)
  <2> SUFFICES ASSUME NEW q \in DOMAIN adding', adding'[q].step = "write",
                      q \notin overlap',
                      NEW p \in DOMAIN adding',
                      adding'[p].user = adding'[q].user,
                      adding'[p].step = "write"
               PROVE  p = q
    BY DEF Sole
  <2>1. CASE q = r
    BY <2>1, <1>2, <1>3, <1>8 DEF Writing
  <2>2. CASE q # r /\ p = r
    BY <2>2, <1>2, <1>3, <1>8 DEF Writing
  <2>3. CASE q # r /\ p # r
    BY <2>3, <1>3, <1>8, SMTT(60) DEF AInv, Sole
  <2> QED BY <2>1, <2>2, <2>3
<1>10. \A a \in alone' : Listed(a, owner'[a], users', adding')
  BY <1>2, <1>3, <1>4, SMTT(60) DEF AInv, Listed
<1> QED BY <1>4, <1>7, <1>9, <1>10 DEF AInv

\* A call that ends leaves nothing behind for the others to lose.
LEMMA RemovedTask ==
  ASSUME AInv, NEW r, adding' = Remove(adding, r), overlap' = overlap \ {r},
         UNCHANGED owner
  PROVE  /\ \A q \in DOMAIN adding' : q # r /\ q \in DOMAIN adding
                                     /\ adding'[q] = adding[q]
         /\ \A q \in DOMAIN adding' : TaskInv(adding'[q], owner')
         /\ \A q \in DOMAIN adding' :
              adding'[q].step = "write" /\ q \notin overlap' => Sole(adding', q)
<1>1. \A q \in DOMAIN adding' : q # r /\ q \in DOMAIN adding
                               /\ adding'[q] = adding[q]
  BY DEF Remove
<1> QED BY <1>1, SMTT(60) DEF AInv, Sole

\* A call that fails leaves its address off the list.
LEMMA ErrorAInv ==
  ASSUME AInv, NEW r, serverError(r)
  PROVE  AInv'
<1>1. /\ adding' = Remove(adding, r) /\ overlap' = overlap \ {r}
      /\ UNCHANGED <<addresses, users, owner, alone>>
  BY DEF serverError
<1>2. \A a \in alone' : Listed(a, owner'[a], users', adding')
  BY <1>1, RemovedTask, SMTT(60) DEF AInv, Listed
<1> QED BY <1>1, <1>2, RemovedTask DEF AInv

\* The list that is written has what was listed alone, since it was read with
\* that; and the new id, if nobody else is about to write, is lost by nobody.
LEMMA WriteAInv ==
  ASSUME AInv, NEW r, writeList(r)
  PROVE  AInv'
<1> DEFINE u == adding[r].user
           new == [users[u] EXCEPT !.addressData = uniqueNewSubId(r)]
<1>1. /\ r \in DOMAIN adding /\ TaskInv(adding[r], owner)
      /\ adding[r].step = "write"
  BY DEF writeList, AInv
<1>2. u \in Users /\ UserInv(users[u], owner, u)
  BY <1>1 DEF AInv, TaskInv
<1>3. /\ DOMAIN new = DOMAIN users[u]
      /\ new.addressData = adding[r].addressList \cup {adding[r].id}
  BY <1>2 DEF UserInv, uniqueNewSubId
<1>4. /\ DOMAIN users' = Users /\ users'[u] = new
      /\ \A v \in Users : v # u => users'[v] = users[v]
  BY <1>2 DEF writeList, AInv
<1> HIDE DEF new
<1>5. /\ adding' = Remove(adding, r) /\ overlap' = overlap \ {r}
      /\ UNCHANGED <<addresses, owner>>
  BY DEF writeList
<1>6. UserInv(new, owner, u)
  BY <1>1, <1>2, <1>3 DEF UserInv, TaskInv
<1>7. \A v \in Users : UserInv(users'[v], owner', v)
  BY <1>4, <1>5, <1>6 DEF AInv
<1>8. /\ adding[r].id \in DOMAIN owner /\ owner[adding[r].id] = u
  BY <1>1 DEF TaskInv, Added
<1>9. \A a \in alone : Listed(a, owner'[a], users', adding')
  <2> SUFFICES ASSUME NEW a \in alone
               PROVE  Listed(a, owner[a], users', adding')
    BY <1>5
  <2>1. Listed(a, owner[a], users, adding) /\ owner[a] \in Users
    BY DEF AInv
  <2>2. a \in users'[owner[a]].addressData
    <3>1. CASE owner[a] = u
      BY <3>1, <2>1, <1>1, <1>3, <1>4 DEF Listed
    <3>2. CASE owner[a] # u
      BY <3>2, <2>1, <1>4 DEF Listed
    <3> QED BY <3>1, <3>2
  <2> QED BY <2>1, <2>2, <1>5, RemovedTask, SMTT(60) DEF Listed
<1>10. r \notin overlap =>
         Listed(adding[r].id, owner'[adding[r].id], users', adding')
  <2> SUFFICES ASSUME r \notin overlap
               PROVE  Listed(adding[r].id, u, users', adding')
    BY <1>5, <1>8
  <2>1. Sole(adding, r)
    BY <1>1 DEF AInv
  <2>2. adding[r].id \in users'[u].addressData
    BY <1>3, <1>4
  <2> QED BY <2>1, <2>2, <1>1, <1>5, RemovedTask, SMTT(60) DEF Listed, Sole
<1>11. alone' = IF r \in overlap THEN alone ELSE alone \cup {adding[r].id}
  BY DEF writeList
<1>12. alone' \subseteq DOMAIN owner'
  BY <1>5, <1>8, <1>11 DEF AInv
<1>13. \A a \in alone' : Listed(a, owner'[a], users', adding')
  BY <1>9, <1>10, <1>11
<1> QED BY <1>4, <1>5, <1>7, <1>12, <1>13, RemovedTask DEF AInv

-----------------------------------------------------------------------------
\* The text of an address is edited, or the address removed.
LEMMA DocumentAInv ==
  ASSUME AInv, NEW u \in Users, NEW a,
         edit_address(u, a) \/ removeAddress(u, a)
  PROVE  AInv'
<1>1. UNCHANGED <<users, adding, owner, overlap, alone>>
  BY DEF edit_address, removeAddress
<1>2. /\ DOMAIN addresses' \subseteq DOMAIN addresses
      /\ \A b \in DOMAIN addresses' :
           /\ "user_id" \in DOMAIN addresses'[b]
           /\ addresses'[b].user_id = addresses[b].user_id
  <2>1. CASE edit_address(u, a)
    <3>1. PICK content \in Contents :
            addresses' = [addresses EXCEPT ![a].content = content]
      BY <2>1 DEF edit_address
    <3> DEFINE new == [addresses[a] EXCEPT !.content = content]
    <3>2. a \in DOMAIN addresses /\ "user_id" \in DOMAIN addresses[a]
      BY <2>1 DEF edit_address, address_list, AInv
    <3>3. "user_id" \in DOMAIN new /\ new.user_id = addresses[a].user_id
      BY <3>2
    <3>4. /\ DOMAIN addresses' = DOMAIN addresses /\ addresses'[a] = new
          /\ \A b \in DOMAIN addresses : b # a => addresses'[b] = addresses[b]
      BY <3>1, <3>2
    <3> HIDE DEF new
    <3> QED BY <3>3, <3>4 DEF AInv
  <2>2. CASE removeAddress(u, a)
    BY <2>2 DEF removeAddress, Remove, AInv
  <2> QED BY <2>1, <2>2
<1> QED BY <1>1, <1>2 DEF AInv

\* A user's other fields are set.
LEMMA FieldAInv ==
  ASSUME AInv, NEW u \in Users,
         edit_user(u) \/ \E a \in DOMAIN owner : setDefaultAddress(u, a)
  PROVE  AInv'
<1>1. UNCHANGED <<addresses, adding, owner, overlap, alone>>
  BY DEF edit_user, setDefaultAddress
<1>2. UserInv(users[u], owner, u) /\ DOMAIN users = Users
  BY DEF AInv
<1>3. /\ DOMAIN users' = Users
      /\ \A v \in Users : v # u => users'[v] = users[v]
      /\ UserInv(users'[u], owner, u)
      /\ users'[u].addressData = users[u].addressData
  <2>1. CASE edit_user(u)
    <3>1. PICK content \in Contents :
            users' = [users EXCEPT ![u].profile = content]
      BY <2>1 DEF edit_user
    <3> DEFINE new == [users[u] EXCEPT !.profile = content]
    <3>2. /\ DOMAIN new = DOMAIN users[u]
          /\ new.addressData = users[u].addressData
      BY <1>2 DEF UserInv
    <3>3. /\ DOMAIN users' = Users /\ users'[u] = new
          /\ \A v \in Users : v # u => users'[v] = users[v]
      BY <1>2, <3>1
    <3> HIDE DEF new
    <3> QED BY <1>2, <3>2, <3>3 DEF UserInv
  <2>2. CASE \E a \in DOMAIN owner : setDefaultAddress(u, a)
    <3>1. PICK a \in DOMAIN owner : setDefaultAddress(u, a)
      BY <2>2
    <3> DEFINE new == [users[u] EXCEPT !.defaultAddress = a]
    <3>2. /\ DOMAIN new = DOMAIN users[u]
          /\ new.addressData = users[u].addressData
      BY <1>2 DEF UserInv
    <3>3. /\ DOMAIN users' = Users /\ users'[u] = new
          /\ \A v \in Users : v # u => users'[v] = users[v]
      BY <1>2, <3>1 DEF setDefaultAddress
    <3> HIDE DEF new
    <3> QED BY <1>2, <3>2, <3>3 DEF UserInv
  <2> QED BY <2>1, <2>2
<1>4. \A a \in alone : Listed(a, owner'[a], users', adding')
  BY <1>1, <1>3 DEF AInv, Listed
<1> QED BY <1>1, <1>3, <1>4 DEF AInv

\* The invariant of the address book.
LEMMA NextAInv == AInv /\ [Next]_vars => AInv'
<1> SUFFICES ASSUME AInv, [Next]_vars PROVE AInv'
  OBVIOUS
<1>1. CASE UNCHANGED vars
  BY <1>1 DEF vars, AInv
<1>2. ASSUME NEW r \in Requests,
             \/ address(r) \/ createDataAddress(r)
             \/ readList(r) \/ writeList(r) \/ serverError(r)
      PROVE  AInv'
  BY <1>2, AddressAInv, CreateAInv, ReadAInv, WriteAInv, ErrorAInv
<1>3. ASSUME NEW u \in Users, NEW a \in DOMAIN owner,
             edit_address(u, a) \/ removeAddress(u, a) \/ setDefaultAddress(u, a)
      PROVE  AInv'
  BY <1>3, DocumentAInv, FieldAInv
<1>4. ASSUME NEW u \in Users, edit_user(u)
      PROVE  AInv'
  BY <1>4, FieldAInv
<1> QED BY <1>1, <1>2, <1>3, <1>4 DEF Next

\* The invariant gives what a login shows.
LEMMA AInvShows == AInv => LoginShowsOwn /\ AloneStayListed
<1> SUFFICES ASSUME AInv PROVE LoginShowsOwn /\ AloneStayListed
  OBVIOUS
<1>1. LoginShowsOwn
  BY SMTT(60) DEF AInv, UserInv, Added, LoginShowsOwn, populate, address_list
<1>2. AloneStayListed
  BY DEF AInv, Listed, AloneStayListed, populate
<1> QED BY <1>1, <1>2

\* The list of addresses that a login shows has only the user's own, for any
\* number of users, addresses and overlapping calls, and whatever address any
\* user names as the default.
THEOREM OwnShown == Spec => []LoginShowsOwn
BY InitAInv, NextAInv, AInvShows, PTL DEF Spec

\* An address listed while no other was being listed for its user is shown
\* until it is removed, for any number of overlapping calls.
THEOREM AloneListed == Spec => []AloneStayListed
BY InitAInv, NextAInv, AInvShows, PTL DEF Spec

\* A removed address does not come back: ids are never given twice, and only
\* createDataAddress stores a document that was not there.
THEOREM RemovedForGood == Spec => RemovedStayRemoved
<1>1. AInv /\ [Next]_vars =>
        [DOMAIN owner \ DOMAIN addresses
           \subseteq DOMAIN owner' \ DOMAIN addresses']_vars
  <2> SUFFICES ASSUME AInv, Next
               PROVE  DOMAIN owner \ DOMAIN addresses
                        \subseteq DOMAIN owner' \ DOMAIN addresses'
    OBVIOUS
  <2>1. CASE \E r \in Requests : createDataAddress(r)
    <3>1. PICK r \in Requests : createDataAddress(r)
      BY <2>1
    <3>2. PICK n \in Nat : DOMAIN owner = 1 .. n
      BY DEF AInv
    <3>3. new_id = n + 1
      <4>1. Cardinality(1 .. n) = n
        BY FS_Interval, SMTT(60)
      <4> QED BY <3>2, <4>1 DEF new_id
    <3>4. /\ DOMAIN addresses' = DOMAIN addresses \cup {new_id}
          /\ DOMAIN owner' = DOMAIN owner \cup {new_id}
      BY <3>1 DEF createDataAddress, Put
    <3> QED BY <3>2, <3>3, <3>4, SMTT(60)
  <2>2. CASE /\ UNCHANGED owner
             /\ DOMAIN addresses' \subseteq DOMAIN addresses
    BY <2>2
  <2>3. ASSUME ~ \E r \in Requests : createDataAddress(r)
        PROVE  /\ UNCHANGED owner
               /\ DOMAIN addresses' \subseteq DOMAIN addresses
    BY <2>3 DEF Next, address, readList, writeList, serverError, edit_address,
                removeAddress, setDefaultAddress, edit_user, Remove
  <2> QED BY <2>1, <2>2, <2>3
<1> QED BY <1>1, InitAInv, NextAInv, PTL DEF Spec, RemovedStayRemoved
=============================================================================
