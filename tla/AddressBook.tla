---------------------------- MODULE AddressBook ----------------------------
(***************************************************************************)
(* The addresses of users (userController.js): documents of their own in   *)
(* dqw_addresses, and a list of their ids, addressData, in the user's      *)
(* document.  address stores the document and answers; the id is then put  *)
(* on the list by addAddressIDtoUserProfile (utility.js), which nobody     *)
(* awaits: it reads the list and writes it back with one more id.          *)
(*                                                                         *)
(* The other handlers are one update each.  The searches before it decide  *)
(* nothing: getAddressDataById answers an array, and an empty one is true  *)
(* as well, so that setDefaultAddress and edit_address always go on.  What *)
(* they change is what the condition of the update finds.                  *)
(***************************************************************************)
EXTENDS Integers, FiniteSets

CONSTANTS
  Users,         \* registered users
  Requests,      \* calls of address in progress together
  Contents,      \* what an address or a profile says
  MaxAddresses,  \* bound: the addresses that are stored
  Null

ASSUME AddressAssumption == Null \notin Int

VARIABLES
  addresses,     \* dqw_addresses: the documents by their _id
  users,         \* dqw_users: the fields that concern addresses
  adding,        \* calls of address in progress
  owner,         \* history: who stored each address, removed ones included
  overlap,       \* history: calls that wrote the list while another did
  alone          \* history: addresses that such a call did not list

vars == <<addresses, users, adding, owner, overlap, alone>>

Put(map, key, value) ==
  [k \in DOMAIN map \cup {key} |-> IF k = key THEN value ELSE map[k]]

Remove(map, key) == [k \in DOMAIN map \ {key} |-> map[k]]

Init ==
  /\ addresses = [a \in {} |-> Null]
  /\ users \in [Users -> {[addressData |-> {}, defaultAddress |-> Null,
                           profile |-> c] : c \in Contents}]
  /\ adding = [r \in {} |-> Null]
  /\ owner = [a \in {} |-> Null]
  /\ overlap = {}
  /\ alone = {}

\* The _id that the database gives to the next address.
new_id == Cardinality(DOMAIN owner) + 1

-----------------------------------------------------------------------------
(* address, and the task it leaves behind *)

\* The checks are passed and the user is found.
address(r) ==
  /\ r \notin DOMAIN adding
  /\ \E u \in Users :
       adding' = Put(adding, r, [user |-> u, step |-> "create", id |-> Null,
                                 addressList |-> {}])
  /\ UNCHANGED <<addresses, users, owner, overlap, alone>>

\* The document is stored and the request answered.
createDataAddress(r) ==
  /\ r \in DOMAIN adding
  /\ adding[r].step = "create"
  /\ new_id <= MaxAddresses
  /\ \E content \in Contents :
       addresses' = Put(addresses, new_id,
                        [user_id |-> adding[r].user, content |-> content])
  /\ owner' = Put(owner, new_id, adding[r].user)
  /\ adding' = [adding EXCEPT ![r].step = "read", ![r].id = new_id]
  /\ UNCHANGED <<users, overlap, alone>>

\* The calls that have read the list of u and are still to write it.
Writing(u) ==
  {q \in DOMAIN adding : adding[q].user = u /\ adding[q].step = "write"}

\* addAddressIDtoUserProfile reads the list.
readList(r) ==
  /\ r \in DOMAIN adding
  /\ adding[r].step = "read"
  /\ LET u == adding[r].user IN
       /\ adding' = [adding EXCEPT ![r].step = "write",
                                   ![r].addressList = users[u].addressData]
       /\ overlap' = IF Writing(u) = {} THEN overlap
                     ELSE overlap \cup Writing(u) \cup {r}
  /\ UNCHANGED <<addresses, users, owner, alone>>

\* Mutation: the new id replaces the list.
uniqueNewSubId_NewOnly(r) == {adding[r].id}

\* The list that was read and the new id, duplicates removed.
uniqueNewSubId(r) == adding[r].addressList \cup {adding[r].id}

\* Mutation: the update has no condition and finds some user.
writeList_AnyUser(r) ==
  /\ r \in DOMAIN adding
  /\ adding[r].step = "write"
  /\ \E u \in Users :
       users' = [users EXCEPT ![u].addressData = uniqueNewSubId(r)]
  /\ alone' = IF r \in overlap THEN alone ELSE alone \cup {adding[r].id}
  /\ adding' = Remove(adding, r)
  /\ overlap' = overlap \ {r}
  /\ UNCHANGED <<addresses, owner>>

writeList(r) ==
  /\ r \in DOMAIN adding
  /\ adding[r].step = "write"
  /\ users' = [users EXCEPT ![adding[r].user].addressData = uniqueNewSubId(r)]
  /\ alone' = IF r \in overlap THEN alone ELSE alone \cup {adding[r].id}
  /\ adding' = Remove(adding, r)
  /\ overlap' = overlap \ {r}
  /\ UNCHANGED <<addresses, owner>>

\* An access to the database fails, or the process stops.  Once the document
\* is stored the client does not learn of it: addAddressIDtoUserProfile only
\* logs the error, and the address stays off the list.
serverError(r) ==
  /\ r \in DOMAIN adding
  /\ adding' = Remove(adding, r)
  /\ overlap' = overlap \ {r}
  /\ UNCHANGED <<addresses, users, owner, alone>>

-----------------------------------------------------------------------------
(* The other handlers *)

\* What address_list answers: the condition of edit_address and removeAddress.
address_list(u) == {a \in DOMAIN addresses : addresses[a].user_id = u}

\* An address that is not there is left alone, and the answer is SUCCESS.
edit_address(u, a) ==
  /\ a \in address_list(u)
  /\ \E content \in Contents :
       addresses' = [addresses EXCEPT ![a].content = content]
  /\ UNCHANGED <<users, adding, owner, overlap, alone>>

\* The ids in addressData and in defaultAddress are left.
removeAddress(u, a) ==
  /\ a \in address_list(u)
  /\ addresses' = Remove(addresses, a)
  /\ UNCHANGED <<users, adding, owner, overlap, alone>>

\* The update finds the user alone, so the id may be any: of an address that
\* was removed, or of one that is not the user's.  (One that is of no address
\* at all is as good as removed.)
setDefaultAddress(u, a) ==
  /\ a \in DOMAIN owner
  /\ users' = [users EXCEPT ![u].defaultAddress = a]
  /\ UNCHANGED <<addresses, adding, owner, overlap, alone>>

\* Only the fields of the form are set.
edit_user(u) ==
  /\ \E content \in Contents :
       users' = [users EXCEPT ![u].profile = content]
  /\ UNCHANGED <<addresses, adding, owner, overlap, alone>>

\* What a login answers (getUserLogin): populate replaces ids by the
\* documents it finds.
populate(u) ==
  [addressData |-> users[u].addressData \cap DOMAIN addresses,
   defaultAddress |-> {users[u].defaultAddress} \cap DOMAIN addresses]

Next ==
  \/ \E r \in Requests : \/ address(r) \/ createDataAddress(r)
                         \/ readList(r) \/ writeList(r) \/ serverError(r)
  \/ \E u \in Users, a \in DOMAIN owner :
       edit_address(u, a) \/ removeAddress(u, a) \/ setDefaultAddress(u, a)
  \/ \E u \in Users : edit_user(u)

Spec == Init /\ [][Next]_vars

-----------------------------------------------------------------------------
(* Properties *)

\* Documents and calls in progress have their fields, and ids are those of
\* addresses that were stored.
TypeOK ==
  /\ DOMAIN addresses \subseteq DOMAIN owner
  /\ \A a \in DOMAIN addresses :
       addresses[a] \in [user_id : Users, content : Contents]
  /\ users \in [Users -> [addressData : SUBSET DOMAIN owner,
                          defaultAddress : DOMAIN owner \cup {Null},
                          profile : Contents]]
  /\ DOMAIN adding \subseteq Requests
  /\ \A r \in DOMAIN adding :
       adding[r] \in [user : Users, step : {"create", "read", "write"},
                      id : DOMAIN owner \cup {Null},
                      addressList : SUBSET DOMAIN owner]
  /\ overlap \subseteq DOMAIN adding /\ alone \subseteq DOMAIN owner

\* The list that a login shows has only addresses that address_list shows: it
\* is written to the user that it was read from, however long ago that was, and
\* an address never changes hands.  Nothing of the kind holds of the default,
\* which setDefaultAddress does not check.
LoginShowsOwn ==
  \A u \in Users : populate(u).addressData \subseteq address_list(u)

\* An address whose id was written to the list while no other was being
\* written for the same user is shown at every login until it is removed.
\* Later calls of address may lose each other's ids but not this one, and
\* the user's other changes, or those of other users, lose none.
AloneStayListed ==
  \A a \in alone \cap DOMAIN addresses : a \in populate(owner[a]).addressData

\* A removed address does not come back, whatever edits, defaults and lists
\* still name it (edit_address updates and does not insert).
RemovedStayRemoved ==
  [][DOMAIN owner \ DOMAIN addresses \subseteq DOMAIN owner' \ DOMAIN addresses']_vars

=============================================================================
