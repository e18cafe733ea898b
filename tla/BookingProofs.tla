--------------------------- MODULE BookingProofs ---------------------------
(***************************************************************************)
(* Booking uses the counter only as Counter.tla says: hidden behind the    *)
(* orders and requests, every behaviour of Booking is one of Counter.      *)
(* The id of an order that was booked alone is not given out again.        *)
(***************************************************************************)
EXTENDS Booking, FiniteSetTheorems, TLAPS

\* A leaf is left to Zenon unless it names SMTT (or PTL).
USE ZenonT(60)

\* NoGaps is inductive once it also covers what the calls in progress have
\* read: that too was handed out before, and ids are never taken back, so a
\* stale read can only repeat ids.
CounterInv ==
  /\ issued \subseteq Int
  /\ Ids!NoGaps
  /\ \A c \in DOMAIN seen : seen[c] # Null => seen[c] \in issued

\* Before the first call there is no counter document.
LEMMA CounterInitInv == Ids!CounterInit => CounterInv
BY DEF Ids!CounterInit, CounterInv, Ids!NoGaps

\* A new id extends the interval that ends in the id it was derived from.
LEMMA NewIdExtends ==
  ASSUME CounterInv, NEW c \in DOMAIN seen
  PROVE  /\ Ids!newId(c) \in Int
         /\ Ids!First .. Ids!newId(c) \subseteq issued \cup {Ids!newId(c)}
<1>1. CASE seen[c] = Null
  BY <1>1, SMTT(60) DEF Ids!newId, Ids!First
<1>2. CASE seen[c] # Null
  <2>1. seen[c] \in issued /\ seen[c] \in Int
    BY <1>2 DEF CounterInv
  <2>2. Ids!First .. seen[c] \subseteq issued
    BY <2>1 DEF CounterInv, Ids!NoGaps
  <2>3. Ids!newId(c) = seen[c] + 1
    BY <1>2 DEF Ids!newId
  <2> QED BY <2>1, <2>2, <2>3, SMTT(60) DEF Ids!First
<1> QED BY <1>1, <1>2

\* Every database operation of getSequence keeps the invariant.
LEMMA CounterNextInv == CounterInv /\ [Ids!CounterNext]_(Ids!counterVars) => CounterInv'
<1> SUFFICES ASSUME CounterInv, [Ids!CounterNext]_(Ids!counterVars) PROVE CounterInv'
  OBVIOUS
<1>1. ASSUME NEW c \in Requests, Ids!findOne(c) PROVE CounterInv'
  BY <1>1 DEF Ids!findOne, CounterInv, Ids!NoGaps
<1>2. ASSUME NEW c \in Requests, Ids!resolve(c) PROVE CounterInv'
  <2> DEFINE id == Ids!newId(c)
  <2>1. id \in Int /\ Ids!First .. id \subseteq issued \cup {id}
    BY <1>2, NewIdExtends DEF Ids!resolve
  <2>2. seq' = id /\ issued' = issued \cup {id}
    BY <1>2 DEF Ids!resolve
  <2> HIDE DEF id
  <2>3. Ids!NoGaps'
    BY <2>1, <2>2 DEF CounterInv, Ids!NoGaps, Ids!First
  <2>4. \A d \in DOMAIN seen' : seen'[d] # Null => seen'[d] \in issued'
    BY <1>2, <2>2 DEF Ids!resolve, Ids!Finish, CounterInv
  <2> QED BY <2>1, <2>2, <2>3, <2>4 DEF CounterInv
<1>3. ASSUME NEW c \in Requests, Ids!reject(c) PROVE CounterInv'
  BY <1>3 DEF Ids!reject, Ids!Finish, CounterInv, Ids!NoGaps
<1>4. CASE UNCHANGED Ids!counterVars
  BY <1>4 DEF Ids!counterVars, CounterInv, Ids!NoGaps
<1> QED BY <1>1, <1>2, <1>3, <1>4 DEF Ids!CounterNext

\* getSequence leaves no gap in the ids it hands out, however many calls
\* overlap and wherever they fail.
THEOREM CounterNoGaps == Ids!CounterSpec => []Ids!NoGaps
<1>1. CounterInv => Ids!NoGaps
  BY DEF CounterInv
<1> QED BY <1>1, CounterInitInv, CounterNextInv, PTL DEF Ids!CounterSpec

\* Every step of Booking is a step of the counter or leaves it alone.
THEOREM CounterImplemented == Spec => Ids!CounterSpec
<1>1. Init => Ids!CounterInit
  BY DEF Init
<1>2. [Next]_vars => [Ids!CounterNext]_(Ids!counterVars)
  <2> SUFFICES ASSUME [Next]_vars
               PROVE  Ids!CounterNext \/ UNCHANGED <<seq, seen, issued>>
    BY DEF Ids!counterVars
  <2>1. ASSUME NEW r \in Requests, assignJob(r) \/ Step(r)
        PROVE  Ids!CounterNext \/ UNCHANGED <<seq, seen, issued>>
    BY <2>1 DEF assignJob, Step, askId, getId, createData, serverError,
                Ids!CounterNext
  <2>2. ASSUME NEW r \in Requests,
               registerAskId(r) \/ registerGetId(r) \/ registerError(r)
        PROVE  Ids!CounterNext
    BY <2>2 DEF registerAskId, registerGetId, registerError, Ids!CounterNext
  <2>3. ASSUME NEW r \in Requests, NEW j \in DOMAIN orders,
               statusUpdate(r, j) \/ user_job_reschedule(r, j)
        PROVE  UNCHANGED <<seq, seen, issued>>
    BY <2>3 DEF statusUpdate, user_job_reschedule
  <2>4. CASE UNCHANGED vars
    BY <2>4 DEF vars
  <2> QED BY <2>1, <2>2, <2>3, <2>4 DEF Next
<1> QED BY <1>1, <1>2, PTL DEF Spec, Ids!CounterSpec

\* The ids of jobs and users have no gap, for any number of requests.
THEOREM IdsHaveNoGaps == Spec => []IdsWithoutGaps
BY CounterImplemented, CounterNoGaps, PTL DEF IdsWithoutGaps

-----------------------------------------------------------------------------
\* Every id that is still to be used, given the counter, what calls of it have
\* read and the bookings in progress, is higher than id.
Above(id, counter, read, booking) ==
  /\ counter # Null /\ counter >= id
  /\ \A c \in DOMAIN read : read[c] # Null /\ read[c] >= id
  /\ \A r \in DOMAIN booking :
       booking[r].job_id # Null => booking[r].job_id > id

\* The inductive invariant: a request that nothing has overlapped is the only
\* one in progress and its id is the last that was written; what is in
\* progress is above the id of every order booked alone, and so are the
\* orders that came after it.
BInv ==
  /\ \A r \in DOMAIN placing : "job_id" \in DOMAIN placing[r]
  /\ seq # Null => seq \in Int
  /\ \A c \in DOMAIN seen : seen[c] # Null => seen[c] \in Int
  /\ \A r \in DOMAIN placing :
       placing[r].job_id # Null =>
         /\ placing[r].job_id \in Int
         /\ r \notin DOMAIN seen
         /\ r \notin overlap => placing[r].job_id = seq
  /\ \A r \in Busy \ overlap : Busy = {r}
  /\ \E n \in Nat : DOMAIN orders = 1 .. n
  /\ \A j \in DOMAIN orders :
       "job_id" \in DOMAIN orders[j] /\ orders[j].job_id \in Int
  /\ alone \subseteq DOMAIN orders
  /\ \A j \in alone :
       /\ Above(orders[j].job_id, seq, seen, placing)
       /\ \A k \in DOMAIN orders : j < k => orders[k].job_id > orders[j].job_id

\* Nothing is booked.
LEMMA InitBInv == Init => BInv
<1> SUFFICES ASSUME Init PROVE BInv
  OBVIOUS
<1>1. DOMAIN orders = 1 .. 0 /\ 0 \in Nat
  BY SMTT(60) DEF Init
<1> QED BY <1>1 DEF Init, BInv, Busy, Ids!CounterInit

\* The part of the invariant about orders, when they keep their ids.
OrdersKept ==
  /\ DOMAIN orders' = DOMAIN orders
  /\ \A j \in DOMAIN orders : /\ orders'[j].job_id = orders[j].job_id
                              /\ DOMAIN orders'[j] = DOMAIN orders[j]
  /\ alone' = alone

\* A step that keeps the orders' ids needs to keep what is in progress above.
LEMMA KeptBInv ==
  ASSUME BInv, OrdersKept,
         \A r \in DOMAIN placing' : "job_id" \in DOMAIN placing'[r],
         seq' # Null => seq' \in Int,
         \A c \in DOMAIN seen' : seen'[c] # Null => seen'[c] \in Int,
         \A r \in DOMAIN placing' :
           placing'[r].job_id # Null =>
             /\ placing'[r].job_id \in Int
             /\ r \notin DOMAIN seen'
             /\ r \notin overlap' => placing'[r].job_id = seq',
         \A r \in Busy' \ overlap' : Busy' = {r},
         \A id \in Int : Above(id, seq, seen, placing)
                           => Above(id, seq', seen', placing')
  PROVE  BInv'
<1>1. \A j \in alone' : Above(orders'[j].job_id, seq', seen', placing')
  BY DEF BInv, OrdersKept
<1> QED BY <1>1 DEF BInv, OrdersKept

\* The beginning and the end of a request.
LEMMA BeginBusy ==
  ASSUME BInv, NEW r, Free(r), Begin(r), Busy' = Busy \cup {r}
  PROVE  /\ \A q \in Busy' \ overlap' : Busy' = {q}
         /\ \A q \in Busy : q \in overlap'
BY DEF BInv, Begin, Free

LEMMA EndBusy ==
  ASSUME BInv, NEW r, End(r), Busy' = Busy \ {r}
  PROVE  /\ \A q \in Busy' \ overlap' : Busy' = {q}
         /\ \A q \in Busy' : q \in overlap' <=> q \in overlap
BY DEF BInv, End

\* assignJob's search.
LEMMA AssignBInv ==
  ASSUME BInv, NEW r, assignJob(r)
  PROVE  BInv'
<1>1. /\ DOMAIN placing' = DOMAIN placing \cup {r}
      /\ placing'[r].job_id = Null /\ "job_id" \in DOMAIN placing'[r]
      /\ \A q \in DOMAIN placing : placing'[q] = placing[q]
      /\ r \notin DOMAIN seen
  BY SMTT(60) DEF assignJob, Put, Free, Busy
<1>2. Busy' = Busy \cup {r}
  BY <1>1 DEF assignJob, Busy
<1>3. /\ \A q \in Busy' \ overlap' : Busy' = {q}
      /\ \A q \in Busy : q \in overlap'
  BY <1>2, BeginBusy DEF assignJob
<1>4. OrdersKept
  BY DEF assignJob, OrdersKept
<1>5. \A id \in Int : Above(id, seq, seen, placing)
                        => Above(id, seq', seen', placing')
  BY <1>1 DEF assignJob, Above
<1>6. \A q \in DOMAIN placing' :
        placing'[q].job_id # Null =>
          /\ placing'[q].job_id \in Int
          /\ q \notin DOMAIN seen'
          /\ q \notin overlap' => placing'[q].job_id = seq'
  BY <1>1, <1>3 DEF assignJob, BInv, Busy
<1> QED BY <1>1, <1>3, <1>4, <1>5, <1>6, KeptBInv DEF assignJob, BInv

\* What a call of getSequence reads is above the same ids as the counter.
LEMMA ReadAbove ==
  ASSUME BInv, NEW r, Ids!findOne(r), UNCHANGED placing
  PROVE  /\ DOMAIN seen' = DOMAIN seen \cup {r}
         /\ \A c \in DOMAIN seen' : seen'[c] # Null => seen'[c] \in Int
         /\ \A id \in Int : Above(id, seq, seen, placing)
                              => Above(id, seq', seen', placing')
BY DEF BInv, Ids!findOne, Above

LEMMA AskBInv ==
  ASSUME BInv, NEW r, askId(r)
  PROVE  BInv'
<1>1. Ids!findOne(r) /\ UNCHANGED <<orders, placing, overlap, alone, seq>>
  BY DEF askId, Ids!findOne
<1>2. /\ DOMAIN seen' = DOMAIN seen \cup {r}
      /\ \A c \in DOMAIN seen' : seen'[c] # Null => seen'[c] \in Int
      /\ \A id \in Int : Above(id, seq, seen, placing)
                           => Above(id, seq', seen', placing')
  BY <1>1, ReadAbove
<1>3. Busy' = Busy
  BY <1>1, <1>2 DEF askId, Busy
<1>4. OrdersKept
  BY <1>1 DEF OrdersKept
<1>5. \A q \in DOMAIN placing' :
        placing'[q].job_id # Null =>
          /\ placing'[q].job_id \in Int
          /\ q \notin DOMAIN seen'
          /\ q \notin overlap' => placing'[q].job_id = seq'
  BY <1>1, <1>2 DEF askId, BInv
<1> QED BY <1>1, <1>2, <1>3, <1>4, <1>5, KeptBInv DEF BInv

LEMMA RegisterAskBInv ==
  ASSUME BInv, NEW r, registerAskId(r)
  PROVE  BInv'
<1>1. /\ Ids!findOne(r) /\ UNCHANGED <<orders, placing, alone, seq>>
      /\ Free(r) /\ Begin(r)
  BY DEF registerAskId, Ids!findOne
<1>2. /\ DOMAIN seen' = DOMAIN seen \cup {r}
      /\ \A c \in DOMAIN seen' : seen'[c] # Null => seen'[c] \in Int
      /\ \A id \in Int : Above(id, seq, seen, placing)
                           => Above(id, seq', seen', placing')
  BY <1>1, ReadAbove
<1>3. Busy' = Busy \cup {r}
  BY <1>1, <1>2 DEF Busy
<1>4. /\ \A q \in Busy' \ overlap' : Busy' = {q}
      /\ \A q \in Busy : q \in overlap'
  BY <1>1, <1>3, BeginBusy
<1>5. OrdersKept
  BY <1>1 DEF OrdersKept
<1>6. \A q \in DOMAIN placing' :
        placing'[q].job_id # Null =>
          /\ placing'[q].job_id \in Int
          /\ q \notin DOMAIN seen'
          /\ q \notin overlap' => placing'[q].job_id = seq'
  BY <1>1, <1>2, <1>4 DEF BInv, Busy, Free
<1> QED BY <1>1, <1>2, <1>4, <1>5, <1>6, KeptBInv DEF BInv

\* The id that a call of getSequence resolves to is above what it had read.
LEMMA ResolveAbove ==
  ASSUME BInv, NEW r, Ids!resolve(r)
  PROVE  /\ r \in DOMAIN seen /\ DOMAIN seen' = DOMAIN seen \ {r}
         /\ \A c \in DOMAIN seen' : seen'[c] = seen[c]
         /\ Ids!newId(r) \in Int /\ seq' = Ids!newId(r)
         /\ \A id \in Int : Above(id, seq, seen, placing)
                              => Ids!newId(r) > id
<1>1. /\ r \in DOMAIN seen /\ DOMAIN seen' = DOMAIN seen \ {r}
      /\ \A c \in DOMAIN seen' : seen'[c] = seen[c]
      /\ seq' = Ids!newId(r)
  BY DEF Ids!resolve, Ids!Finish
<1>2. CASE seen[r] = Null
  <2>1. Ids!newId(r) \in Int
    BY <1>2, SMTT(60) DEF Ids!newId, Ids!First
  <2> QED BY <1>1, <1>2, <2>1 DEF Above
<1>3. CASE seen[r] # Null
  <2>1. seen[r] \in Int /\ Ids!newId(r) = seen[r] + 1
    BY <1>1, <1>3 DEF BInv, Ids!newId
  <2> QED BY <1>1, <2>1, SMTT(60) DEF Above
<1> QED BY <1>2, <1>3

LEMMA GetBInv ==
  ASSUME BInv, NEW r, getId(r)
  PROVE  BInv'
<1>1. Ids!resolve(r) /\ r \in DOMAIN placing /\ UNCHANGED <<orders, overlap, alone>>
  BY DEF getId
<1>2. /\ r \in DOMAIN seen /\ DOMAIN seen' = DOMAIN seen \ {r}
      /\ \A c \in DOMAIN seen' : seen'[c] = seen[c]
      /\ Ids!newId(r) \in Int /\ seq' = Ids!newId(r)
      /\ \A id \in Int : Above(id, seq, seen, placing) => Ids!newId(r) > id
  BY <1>1, ResolveAbove
<1> DEFINE new == Ids!newId(r)
<1>3. /\ DOMAIN placing' = DOMAIN placing
      /\ \A q \in DOMAIN placing : q # r => placing'[q] = placing[q]
      /\ placing'[r].job_id = new /\ "job_id" \in DOMAIN placing'[r]
  <2> HIDE DEF new
  <2>1. placing' = Put(placing, r, [placing[r] EXCEPT !.job_id = new])
    BY DEF getId, new
  <2>2. "job_id" \in DOMAIN placing[r]
    BY <1>1 DEF BInv
  <2> QED BY <1>1, <2>1, <2>2 DEF Put
<1> HIDE DEF new
<1>4. placing[r].job_id = Null
  BY <1>1, <1>2 DEF BInv
<1>5. Busy' = Busy
  BY <1>1, <1>2, <1>3 DEF Busy
<1>6. \A id \in Int : Above(id, seq, seen, placing)
                        => Above(id, seq', seen', placing')
  BY <1>2, <1>3, BookingAssumption, SMTT(60) DEF Above, new
<1>7. \A q \in DOMAIN placing' :
        placing'[q].job_id # Null =>
          /\ placing'[q].job_id \in Int
          /\ q \notin DOMAIN seen'
          /\ q \notin overlap' => placing'[q].job_id = seq'
  <2> SUFFICES ASSUME NEW q \in DOMAIN placing, placing'[q].job_id # Null
               PROVE  /\ placing'[q].job_id \in Int
                      /\ q \notin DOMAIN seen'
                      /\ q \notin overlap => placing'[q].job_id = seq'
    BY <1>1, <1>3
  <2>1. CASE q = r
    BY <1>2, <1>3, <1>4, <2>1 DEF new
  <2>2. CASE q # r
    <3>1. q \in overlap
      BY <1>1, <2>2 DEF BInv, Busy
    <3> QED BY <1>2, <1>3, <2>2, <3>1 DEF BInv
  <2> QED BY <2>1, <2>2
<1>8. OrdersKept
  BY <1>1 DEF OrdersKept
<1> QED BY <1>1, <1>2, <1>3, <1>5, <1>6, <1>7, <1>8, KeptBInv DEF BInv

LEMMA RegisterGetBInv ==
  ASSUME BInv, NEW r, registerGetId(r)
  PROVE  BInv'
<1>1. /\ Ids!resolve(r) /\ r \notin DOMAIN placing
      /\ End(r) /\ UNCHANGED <<orders, placing, alone>>
  BY DEF registerGetId
<1>2. /\ r \in DOMAIN seen /\ DOMAIN seen' = DOMAIN seen \ {r}
      /\ \A c \in DOMAIN seen' : seen'[c] = seen[c]
      /\ Ids!newId(r) \in Int /\ seq' = Ids!newId(r)
      /\ \A id \in Int : Above(id, seq, seen, placing) => Ids!newId(r) > id
  BY <1>1, ResolveAbove
<1>3. Busy' = Busy \ {r}
  BY <1>1, <1>2 DEF Busy
<1>4. /\ \A q \in Busy' \ overlap' : Busy' = {q}
      /\ \A q \in Busy' : q \in overlap' <=> q \in overlap
  BY <1>1, <1>3, EndBusy
<1>5. \A id \in Int : Above(id, seq, seen, placing)
                        => Above(id, seq', seen', placing')
  BY <1>1, <1>2, BookingAssumption, SMTT(60) DEF Above
<1>6. \A q \in DOMAIN placing' :
        placing'[q].job_id # Null =>
          /\ placing'[q].job_id \in Int
          /\ q \notin DOMAIN seen'
          /\ q \notin overlap' => placing'[q].job_id = seq'
  <2> SUFFICES ASSUME NEW q \in DOMAIN placing, placing[q].job_id # Null
               PROVE  /\ placing[q].job_id \in Int
                      /\ q \notin DOMAIN seen'
                      /\ q \in overlap'
    BY <1>1
  <2>1. q # r /\ q \in Busy /\ r \in Busy
    BY <1>1, <1>2 DEF Busy
  <2>2. q \in overlap
    BY <2>1, SMTT(60) DEF BInv
  <2> QED BY <1>2, <1>3, <1>4, <2>1, <2>2 DEF BInv
<1>7. OrdersKept
  BY <1>1 DEF OrdersKept
<1> QED BY <1>1, <1>2, <1>4, <1>5, <1>6, <1>7, KeptBInv DEF BInv

\* A request that ends with an error leaves less in progress.
LEMMA ErrorBInv ==
  ASSUME BInv, NEW r, serverError(r) \/ registerError(r)
  PROVE  BInv'
<1>1. /\ End(r) /\ UNCHANGED <<orders, alone, seq>>
      /\ DOMAIN placing' = DOMAIN placing \ {r}
      /\ \A q \in DOMAIN placing' : placing'[q] = placing[q]
      /\ DOMAIN seen' = DOMAIN seen \ {r}
      /\ \A c \in DOMAIN seen' : seen'[c] = seen[c]
  BY DEF serverError, registerError, Remove, Ids!reject, Ids!Finish
<1>2. Busy' = Busy \ {r}
  BY <1>1 DEF Busy
<1>3. /\ \A q \in Busy' \ overlap' : Busy' = {q}
      /\ \A q \in Busy' : q \in overlap' <=> q \in overlap
  BY <1>1, <1>2, EndBusy
<1>4. \A id \in Int : Above(id, seq, seen, placing)
                        => Above(id, seq', seen', placing')
  BY <1>1 DEF Above
<1>5. OrdersKept
  BY <1>1 DEF OrdersKept
<1>6. \A q \in DOMAIN placing' : q \in overlap' <=> q \in overlap
  BY <1>1, <1>2, <1>3 DEF Busy
<1> QED BY <1>1, <1>3, <1>4, <1>5, <1>6, KeptBInv DEF BInv

\* What happens to a stored order keeps its id.
LEMMA LaterBInv ==
  ASSUME BInv, NEW r, NEW j \in DOMAIN orders,
         statusUpdate(r, j) \/ user_job_reschedule(r, j)
  PROVE  BInv'
<1>1. /\ UNCHANGED <<placing, seq, seen, alone>>
      /\ DOMAIN orders' = DOMAIN orders
      /\ \A k \in DOMAIN orders : /\ orders'[k].job_id = orders[k].job_id
                                  /\ DOMAIN orders'[k] = DOMAIN orders[k]
      /\ overlap \subseteq overlap'
  <2>1. "job_id" \in DOMAIN orders[j]
    BY DEF BInv
  <2>2. CASE statusUpdate(r, j)
    BY <2>1, <2>2 DEF statusUpdate
  <2>3. CASE user_job_reschedule(r, j)
    <3>1. PICK slot \in Slots :
            orders' = [orders EXCEPT ![j].slot = slot,
                                     ![j].jobRescheduleAt = "now"]
      BY <2>3 DEF user_job_reschedule
    <3> DEFINE new == [orders[j] EXCEPT !.slot = slot,
                                        !.jobRescheduleAt = "now"]
    <3>2. new.job_id = orders[j].job_id /\ DOMAIN new = DOMAIN orders[j]
      BY <2>1
    <3>3. orders' = [orders EXCEPT ![j] = new]
      BY <3>1
    <3> HIDE DEF new
    <3> QED BY <2>3, <3>2, <3>3 DEF user_job_reschedule
  <2> QED BY <2>2, <2>3
<1>2. OrdersKept /\ Busy' = Busy
  BY <1>1 DEF OrdersKept, Busy
<1> QED BY <1>1, <1>2, KeptBInv DEF BInv

\* The order that is stored has a higher id than those booked alone before,
\* and if it was booked alone, everything is above its own.
LEMMA CreateBInv ==
  ASSUME BInv, NEW r, createData(r)
  PROVE  BInv'
<1>1. PICK n \in Nat : DOMAIN orders = 1 .. n
  BY DEF BInv
<1>2. new_id = n + 1
  <2>1. Cardinality(1 .. n) = n
    BY FS_Interval, SMTT(60)
  <2> QED BY <1>1, <2>1 DEF new_id
<1>3. /\ r \in DOMAIN placing /\ placing[r].job_id # Null
      /\ placing[r].job_id \in Int /\ r \notin DOMAIN seen
      /\ r \notin overlap => placing[r].job_id = seq
  BY DEF createData, BInv
<1>4. /\ DOMAIN orders' = 1 .. (n + 1)
      /\ \A j \in 1 .. n : orders'[j] = orders[j]
      /\ orders'[n + 1].job_id = placing[r].job_id
      /\ "job_id" \in DOMAIN orders'[n + 1]
  BY <1>1, <1>2, SMTT(60) DEF createData, Put
<1>5. /\ End(r) /\ UNCHANGED <<seq, seen>>
      /\ DOMAIN placing' = DOMAIN placing \ {r}
      /\ \A q \in DOMAIN placing' : placing'[q] = placing[q]
  BY DEF createData, Remove
<1>6. Busy' = Busy \ {r}
  BY <1>3, <1>5 DEF Busy
<1>7. /\ \A q \in Busy' \ overlap' : Busy' = {q}
      /\ \A q \in Busy' : q \in overlap' <=> q \in overlap
  BY <1>5, <1>6, EndBusy
<1>8. \A q \in DOMAIN placing' : q \in overlap' <=> q \in overlap
  BY <1>7 DEF Busy
<1>9. \A j \in alone :
        /\ j \in 1 .. n
        /\ Above(orders[j].job_id, seq, seen, placing)
        /\ Above(orders[j].job_id, seq', seen', placing')
        /\ placing[r].job_id > orders[j].job_id
  BY <1>1, <1>3, <1>5 DEF BInv, Above
<1>10. r \notin overlap => Above(placing[r].job_id, seq', seen', placing')
  <2> SUFFICES ASSUME r \notin overlap
               PROVE  Above(placing[r].job_id, seq', seen', placing')
    OBVIOUS
  <2>1. Busy = {r}
    BY <1>3 DEF BInv, Busy
  <2>2. DOMAIN seen' = {} /\ DOMAIN placing' = {}
    BY <1>3, <1>5, <2>1 DEF Busy
  <2> QED BY <1>3, <1>5, <2>2, SMTT(60) DEF Above
<1>11. alone' = alone \/ (alone' = alone \cup {n + 1} /\ r \notin overlap)
  BY <1>2 DEF createData, Stored
<1>12. \A j \in alone' :
         /\ Above(orders'[j].job_id, seq', seen', placing')
         /\ \A k \in DOMAIN orders' :
              j < k => orders'[k].job_id > orders'[j].job_id
  <2> SUFFICES ASSUME NEW j \in alone'
               PROVE  /\ Above(orders'[j].job_id, seq', seen', placing')
                      /\ \A k \in DOMAIN orders' :
                           j < k => orders'[k].job_id > orders'[j].job_id
    OBVIOUS
  <2>1. CASE j \in alone
    <3>1. orders'[j] = orders[j]
      BY <1>4, <1>9, <2>1
    <3>2. \A k \in 1 .. n : j < k => orders[k].job_id > orders[j].job_id
      BY <1>1, <2>1 DEF BInv
    <3> QED BY <1>1, <1>4, <1>9, <2>1, <3>1, <3>2, SMTT(60)
  <2>2. CASE j \notin alone
    BY <1>4, <1>10, <1>11, <2>2, SMTT(60)
  <2> QED BY <2>1, <2>2
<1>13. /\ \E m \in Nat : DOMAIN orders' = 1 .. m
       /\ alone' \subseteq DOMAIN orders'
       /\ \A j \in DOMAIN orders' :
            "job_id" \in DOMAIN orders'[j] /\ orders'[j].job_id \in Int
  BY <1>1, <1>3, <1>4, <1>9, <1>11, SMTT(60) DEF BInv
<1> QED BY <1>3, <1>5, <1>7, <1>8, <1>12, <1>13 DEF BInv

\* Every step keeps the invariant.
LEMMA NextBInv == BInv /\ [Next]_vars => BInv'
<1> SUFFICES ASSUME BInv, [Next]_vars PROVE BInv'
  BY SMTT(60)
<1>1. CASE UNCHANGED vars
  BY <1>1, SMTT(60) DEF vars, BInv, Busy, Above
<1>2. CASE Next
  BY <1>2, AssignBInv, AskBInv, GetBInv, CreateBInv, ErrorBInv,
     RegisterAskBInv, RegisterGetBInv, LaterBInv DEF Next, Step
<1> QED BY <1>1, <1>2

\* The id of an order that was booked while no other request was in progress
\* is given to no later one, for any number of requests before and after it.
THEOREM AloneIdsKept == Spec => []AloneIdsStay
<1>1. BInv => AloneIdsStay
  BY SMTT(60) DEF BInv, AloneIdsStay
<1> QED BY <1>1, InitBInv, NextBInv, PTL DEF Spec

-----------------------------------------------------------------------------
\* What orderDetails finds among the orders given.
Found(stored, content, slot) ==
  {j \in DOMAIN stored : /\ stored[j].content = content
                         /\ stored[j].slot = slot
                         /\ stored[j].job_status = "Processing"}

OrderFields == {"content", "slot", "job_status"}

\* A booking that nothing has overlapped would still find no duplicate.
Searched ==
  /\ \A j \in DOMAIN orders : OrderFields \subseteq DOMAIN orders[j]
  /\ \A r \in DOMAIN placing : {"content", "slot"} \subseteq DOMAIN placing[r]
  /\ \A r \in DOMAIN placing \ overlap :
       Found(orders, placing[r].content, placing[r].slot) = {}

\* The steps of a booking before its order is stored.
LEMMA BookingSearched ==
  ASSUME BInv, Searched, NEW r, assignJob(r) \/ askId(r) \/ getId(r)
  PROVE  Searched'
<1>1. CASE assignJob(r)
  <2>1. PICK content \in Contents, slot \in Slots :
          /\ Found(orders, content, slot) = {}
          /\ placing' = Put(placing, r, [content |-> content, slot |-> slot,
                                         job_id |-> Null])
    BY <1>1 DEF assignJob, orderDetails, Found
  <2>2. /\ DOMAIN placing' = DOMAIN placing \cup {r}
        /\ {"content", "slot"} \subseteq DOMAIN placing'[r]
        /\ placing'[r].content = content /\ placing'[r].slot = slot
        /\ \A q \in DOMAIN placing : q # r => placing'[q] = placing[q]
    BY <2>1 DEF Put
  <2>3. \A q \in DOMAIN placing : q \in overlap'
    BY <1>1 DEF assignJob, Begin, Busy
  <2> QED BY <1>1, <2>1, <2>2, <2>3 DEF assignJob, Searched
<1>2. CASE askId(r)
  BY <1>2 DEF askId, Searched
<1>3. CASE getId(r)
  <2> DEFINE new == [placing[r] EXCEPT !.job_id = Ids!newId(r)]
  <2>1. r \in DOMAIN placing /\ placing' = Put(placing, r, new)
    BY <1>3 DEF getId
  <2>2. /\ DOMAIN new = DOMAIN placing[r]
        /\ new.content = placing[r].content /\ new.slot = placing[r].slot
    BY <2>1 DEF Searched
  <2> HIDE DEF new
  <2>3. /\ DOMAIN placing' = DOMAIN placing
        /\ \A q \in DOMAIN placing : /\ DOMAIN placing'[q] = DOMAIN placing[q]
                                     /\ placing'[q].content = placing[q].content
                                     /\ placing'[q].slot = placing[q].slot
    BY <2>1, <2>2 DEF Put
  <2>4. orders' = orders /\ overlap' = overlap
    BY <1>3 DEF getId
  <2> QED BY <2>3, <2>4, SMTT(60) DEF Searched
<1> QED BY <1>1, <1>2, <1>3

\* Once an order is stored, no booking that is still in progress is alone.
LEMMA CreateSearched ==
  ASSUME BInv, Searched, NEW r, createData(r)
  PROVE  Searched'
<1>1. \A q \in DOMAIN placing' :
        /\ q \in DOMAIN placing /\ placing'[q] = placing[q] /\ q \in overlap'
  BY DEF createData, Remove, BInv, Busy, End
<1>2. \A j \in DOMAIN orders' : OrderFields \subseteq DOMAIN orders'[j]
  BY DEF createData, Put, Searched, OrderFields
<1> QED BY <1>1, <1>2 DEF Searched

LEMMA OthersSearched ==
  ASSUME BInv, Searched, NEW r,
         serverError(r) \/ registerAskId(r) \/ registerGetId(r)
           \/ registerError(r)
  PROVE  Searched'
<1>1. /\ orders' = orders
      /\ \A q \in DOMAIN placing' :
           /\ q \in DOMAIN placing /\ placing'[q] = placing[q]
           /\ q \notin overlap' => q \notin overlap
  BY DEF serverError, registerAskId, registerGetId, registerError, Remove,
         Begin, End
<1> QED BY <1>1 DEF Searched

\* Stored orders leave Processing and do not return; a rescheduled one
\* overlaps every booking in progress.
LEMMA LaterSearched ==
  ASSUME Searched, NEW r, NEW j \in DOMAIN orders,
         statusUpdate(r, j) \/ user_job_reschedule(r, j)
  PROVE  Searched'
<1>1. CASE statusUpdate(r, j)
  <2> DEFINE new == [orders[j] EXCEPT !.job_status = "Left"]
  <2>1. orders' = [orders EXCEPT ![j] = new]
    BY <1>1 DEF statusUpdate
  <2>2. DOMAIN new = DOMAIN orders[j] /\ new.job_status = "Left"
    BY DEF Searched, OrderFields
  <2> HIDE DEF new
  <2>3. /\ \A k \in DOMAIN orders' : OrderFields \subseteq DOMAIN orders'[k]
        /\ \A content, slot : Found(orders', content, slot)
                                \subseteq Found(orders, content, slot)
    BY <2>1, <2>2 DEF Searched, Found
  <2> QED BY <1>1, <2>3 DEF statusUpdate, Searched
<1>2. CASE user_job_reschedule(r, j)
  <2>1. \A k \in DOMAIN orders' : OrderFields \subseteq DOMAIN orders'[k]
    BY <1>2 DEF user_job_reschedule, Searched
  <2> QED BY <1>2, <2>1 DEF user_job_reschedule, Searched, Busy
<1> QED BY <1>1, <1>2

LEMMA NextSearched == BInv /\ Searched /\ [Next]_vars => Searched'
<1> SUFFICES ASSUME BInv, Searched, [Next]_vars PROVE Searched'
  OBVIOUS
<1>1. CASE UNCHANGED vars
  BY <1>1 DEF vars, Searched
<1>2. CASE Next
  BY <1>2, BookingSearched, CreateSearched, OthersSearched, LaterSearched
  DEF Next, Step
<1> QED BY <1>1, <1>2

\* The order that becomes one of those booked alone has no duplicate.
LEMMA StepNoDuplicate ==
  ASSUME BInv, Searched, [Next]_vars
  PROVE  \A j \in alone' \ alone :
           orderDetails(orders'[j].content, orders'[j].slot) = {}
<1>1. CASE \E r \in Requests : createData(r)
  <2> PICK r \in Requests : createData(r)
    BY <1>1
  <2> DEFINE new == [content |-> placing[r].content, slot |-> placing[r].slot,
                     job_status |-> "Processing", jobRescheduleAt |-> Null,
                     job_id |-> placing[r].job_id]
  <2>1. orders' = Put(orders, new_id, new) /\ r \in DOMAIN placing
    BY DEF createData
  <2>2. new.content = placing[r].content /\ new.slot = placing[r].slot
    OBVIOUS
  <2> HIDE DEF new
  <2>3. orders'[new_id] = new
    BY <2>1 DEF Put
  <2>4. \A j \in alone' \ alone : j = new_id /\ r \notin overlap
    BY DEF createData, Stored
  <2> QED BY <2>1, <2>2, <2>3, <2>4, SMTT(60) DEF Searched, Found, orderDetails
<1>2. CASE ~\E r \in Requests : createData(r)
  <2>1. alone' = alone
    BY <1>2 DEF Next, Step, vars, assignJob, askId, getId, serverError,
                registerAskId, registerGetId, registerError, statusUpdate,
                user_job_reschedule
  <2> QED BY <2>1
<1> QED BY <1>1, <1>2

\* A booking that nothing overlaps creates no duplicate, for any number of
\* requests before and after it.
THEOREM AloneCreatesNoDuplicate == Spec => AloneNoDuplicate
<1>1. Init => BInv /\ Searched
  BY InitBInv DEF Init, Searched
<1>2. BInv /\ Searched /\ [Next]_vars => (BInv /\ Searched)'
  BY NextBInv, NextSearched
<1>3. BInv /\ Searched /\ [Next]_vars =>
        [\A j \in alone' \ alone :
           orderDetails(orders'[j].content, orders'[j].slot) = {}]_vars
  BY StepNoDuplicate
<1> QED BY <1>1, <1>2, <1>3, PTL DEF Spec, AloneNoDuplicate

-----------------------------------------------------------------------------
\* The open orders for a slot that were not moved there, among those given,
\* and the bookings in progress that will add one.
Open(stored, content, slot) ==
  {j \in Found(stored, content, slot) : stored[j].jobRescheduleAt = Null}

Pending(booking, content, slot) ==
  {r \in DOMAIN booking : booking[r].content = content /\ booking[r].slot = slot}

\* DuplicatesBounded is not inductive: the bookings that have searched may
\* still add their orders.  Counted together with them the orders are bounded,
\* as a booking begins only while there is none.
DInv ==
  /\ DOMAIN placing \subseteq Requests
  /\ \A j \in DOMAIN orders : "jobRescheduleAt" \in DOMAIN orders[j]
  /\ \A content, slot :
       Cardinality(Open(orders, content, slot))
         + Cardinality(Pending(placing, content, slot)) <= Cardinality(Requests)

LEMMA AddOne ==
  ASSUME NEW S, IsFiniteSet(S), NEW x
  PROVE  IsFiniteSet(S \cup {x}) /\ Cardinality(S \cup {x}) <= Cardinality(S) + 1
<1>1. IsFiniteSet(S \cup {x}) /\ Cardinality(S) \in Nat
  BY FS_AddElement, FS_CardinalityType
<1>2. Cardinality(S \cup {x}) = IF x \in S THEN Cardinality(S) ELSE Cardinality(S) + 1
  BY FS_AddElement
<1> QED BY <1>1, <1>2, SMTT(60)

\* The sets that are counted are finite.
LEMMA CountedFinite ==
  ASSUME BInv, DInv, NEW content, NEW slot
  PROVE  /\ IsFiniteSet(Open(orders, content, slot))
         /\ IsFiniteSet(Pending(placing, content, slot))
         /\ Cardinality(Open(orders, content, slot)) \in Nat
         /\ Cardinality(Pending(placing, content, slot)) \in Nat
         /\ Cardinality(Requests) \in Nat
<1>1. IsFiniteSet(DOMAIN orders)
  <2>1. PICK n \in Nat : DOMAIN orders = 1 .. n
    BY DEF BInv
  <2> QED BY <2>1, FS_Interval, SMTT(60)
<1>2. /\ Open(orders, content, slot) \subseteq DOMAIN orders
      /\ Pending(placing, content, slot) \subseteq Requests
  BY DEF Open, Found, Pending, DInv
<1>3. /\ IsFiniteSet(Open(orders, content, slot))
      /\ IsFiniteSet(Pending(placing, content, slot))
  BY <1>1, <1>2, BookingAssumption, FS_Subset
<1> QED BY <1>3, BookingAssumption, FS_CardinalityType

\* Less of both keeps the bound.
LEMMA FewerCounted ==
  ASSUME BInv, DInv, NEW content, NEW slot, NEW O, NEW P,
         O \subseteq Open(orders, content, slot), P \subseteq Pending(placing, content, slot)
  PROVE  Cardinality(O) + Cardinality(P) <= Cardinality(Requests)
<1>1. /\ IsFiniteSet(Open(orders, content, slot))
      /\ IsFiniteSet(Pending(placing, content, slot))
      /\ Cardinality(Open(orders, content, slot)) \in Nat
      /\ Cardinality(Pending(placing, content, slot)) \in Nat
      /\ Cardinality(Requests) \in Nat
  BY CountedFinite
<1>2. /\ IsFiniteSet(O) /\ Cardinality(O) <= Cardinality(Open(orders, content, slot))
      /\ IsFiniteSet(P) /\ Cardinality(P) <= Cardinality(Pending(placing, content, slot))
  BY <1>1, FS_Subset
<1>3. Cardinality(O) \in Nat /\ Cardinality(P) \in Nat
  BY <1>2, FS_CardinalityType
<1>4. Cardinality(Open(orders, content, slot)) + Cardinality(Pending(placing, content, slot))
        <= Cardinality(Requests)
  BY DEF DInv
<1> QED BY <1>1, <1>2, <1>3, <1>4, SMTT(60)

\* A booking begins: there was no such order.
LEMMA AssignDInv ==
  ASSUME BInv, DInv, NEW r \in Requests, assignJob(r)
  PROVE  DInv'
<1>1. PICK c \in Contents, s \in Slots :
        /\ Found(orders, c, s) = {}
        /\ placing' = Put(placing, r, [content |-> c, slot |-> s, job_id |-> Null])
  BY DEF assignJob, orderDetails, Found
<1>2. orders' = orders /\ r \notin DOMAIN placing
  BY DEF assignJob, Free, Busy
<1>3. /\ DOMAIN placing' = DOMAIN placing \cup {r}
      /\ placing'[r].content = c /\ placing'[r].slot = s
      /\ \A q \in DOMAIN placing : placing'[q] = placing[q]
  BY <1>1, <1>2 DEF Put
<1>4. DOMAIN placing' \subseteq Requests
  BY <1>3 DEF DInv
<1>5. ASSUME NEW content, NEW slot
      PROVE  Cardinality(Open(orders', content, slot))
               + Cardinality(Pending(placing', content, slot)) <= Cardinality(Requests)
  <2>1. CASE content = c /\ slot = s
    <3>1. Open(orders', content, slot) = {}
      BY <1>1, <1>2, <2>1 DEF Open
    <3>2. Pending(placing', content, slot) \subseteq Requests
      BY <1>4 DEF Pending
    <3>3. Cardinality(Pending(placing', content, slot)) <= Cardinality(Requests)
      BY <3>2, BookingAssumption, FS_Subset
    <3>4. Cardinality(Pending(placing', content, slot)) \in Nat
      BY <3>2, BookingAssumption, FS_Subset, FS_CardinalityType
    <3>5. Cardinality(Open(orders', content, slot)) = 0
      BY <3>1, FS_EmptySet
    <3> QED BY <3>3, <3>4, <3>5, SMTT(60)
  <2>2. CASE ~(content = c /\ slot = s)
    <3>1. Pending(placing', content, slot) \subseteq Pending(placing, content, slot)
      BY <1>3, <2>2 DEF Pending
    <3> QED BY <1>2, <3>1, FewerCounted
  <2> QED BY <2>1, <2>2
<1> QED BY <1>2, <1>4, <1>5 DEF DInv

\* A booking in progress becomes an order.
LEMMA CreateDInv ==
  ASSUME BInv, Searched, DInv, NEW r \in Requests, createData(r)
  PROVE  DInv'
<1> DEFINE new == [content |-> placing[r].content, slot |-> placing[r].slot,
                   job_status |-> "Processing", jobRescheduleAt |-> Null,
                   job_id |-> placing[r].job_id]
<1>1. r \in DOMAIN placing /\ orders' = Put(orders, new_id, new)
  BY DEF createData
<1>2. /\ new.content = placing[r].content /\ new.slot = placing[r].slot
      /\ "jobRescheduleAt" \in DOMAIN new
  OBVIOUS
<1> HIDE DEF new
<1>3. /\ DOMAIN orders' = DOMAIN orders \cup {new_id} /\ orders'[new_id] = new
      /\ \A j \in DOMAIN orders : j # new_id => orders'[j] = orders[j]
  BY <1>1 DEF Put
<1>4. /\ DOMAIN placing' = DOMAIN placing \ {r}
      /\ \A q \in DOMAIN placing' : placing'[q] = placing[q]
  BY DEF createData, Remove
<1>5. /\ DOMAIN placing' \subseteq Requests
      /\ \A j \in DOMAIN orders' : "jobRescheduleAt" \in DOMAIN orders'[j]
  BY <1>2, <1>3, <1>4 DEF DInv
<1>6. ASSUME NEW content, NEW slot
      PROVE  Cardinality(Open(orders', content, slot))
               + Cardinality(Pending(placing', content, slot)) <= Cardinality(Requests)
  <2> DEFINE O == Open(orders, content, slot)
             P == Pending(placing, content, slot)
  <2>1. /\ IsFiniteSet(O) /\ IsFiniteSet(P)
        /\ Cardinality(O) \in Nat /\ Cardinality(P) \in Nat /\ Cardinality(Requests) \in Nat
    BY CountedFinite
  <2>2. CASE content = placing[r].content /\ slot = placing[r].slot
    <3>1. Open(orders', content, slot) \subseteq O \cup {new_id}
      BY <1>3 DEF Open, Found
    <3>2. Pending(placing', content, slot) = P \ {r} /\ r \in P
      BY <1>1, <1>4, <2>2 DEF Pending
    <3>3. Cardinality(P \ {r}) = Cardinality(P) - 1
      BY <2>1, <3>2, FS_RemoveElement
    <3>4. IsFiniteSet(O \cup {new_id}) /\ Cardinality(O \cup {new_id}) <= Cardinality(O) + 1
      BY <2>1, AddOne
    <3>5. /\ IsFiniteSet(Open(orders', content, slot))
          /\ Cardinality(Open(orders', content, slot)) <= Cardinality(O \cup {new_id})
      BY <3>1, <3>4, FS_Subset
    <3>6. /\ Cardinality(Open(orders', content, slot)) \in Nat
          /\ Cardinality(O \cup {new_id}) \in Nat
      BY <3>4, <3>5, FS_CardinalityType
    <3>7. Cardinality(O) + Cardinality(P) <= Cardinality(Requests)
      BY DEF DInv
    <3> HIDE DEF O, P
    <3> QED BY <2>1, <3>2, <3>3, <3>4, <3>5, <3>6, <3>7, SMTT(60)
  <2>3. CASE ~(content = placing[r].content /\ slot = placing[r].slot)
    <3>1. Open(orders', content, slot) \subseteq O
      BY <1>2, <1>3, <2>3 DEF Open, Found
    <3>2. Pending(placing', content, slot) \subseteq P
      BY <1>4 DEF Pending
    <3> QED BY <3>1, <3>2, FewerCounted
  <2> QED BY <2>2, <2>3
<1> QED BY <1>5, <1>6 DEF DInv

\* The other steps of bookings add nothing to what is counted.
LEMMA OthersDInv ==
  ASSUME BInv, Searched, DInv, NEW r \in Requests,
         askId(r) \/ getId(r) \/ serverError(r) \/ registerAskId(r)
           \/ registerGetId(r) \/ registerError(r)
  PROVE  DInv'
<1>1. /\ orders' = orders /\ DOMAIN placing' \subseteq DOMAIN placing
      /\ \A q \in DOMAIN placing' : /\ placing'[q].content = placing[q].content
                                    /\ placing'[q].slot = placing[q].slot
  <2>1. CASE getId(r)
    <3> DEFINE new == [placing[r] EXCEPT !.job_id = Ids!newId(r)]
    <3>1. r \in DOMAIN placing /\ placing' = Put(placing, r, new) /\ orders' = orders
      BY <2>1 DEF getId
    <3>2. new.content = placing[r].content /\ new.slot = placing[r].slot
      BY <3>1 DEF Searched
    <3> HIDE DEF new
    <3> QED BY <3>1, <3>2 DEF Put
  <2>2. CASE ~getId(r)
    BY <2>2 DEF askId, serverError, registerAskId, registerGetId, registerError, Remove
  <2> QED BY <2>1, <2>2
<1>2. ASSUME NEW content, NEW slot
      PROVE  Cardinality(Open(orders', content, slot))
               + Cardinality(Pending(placing', content, slot)) <= Cardinality(Requests)
  <2>1. Pending(placing', content, slot) \subseteq Pending(placing, content, slot)
    BY <1>1 DEF Pending
  <2> QED BY <1>1, <2>1, FewerCounted
<1> QED BY <1>1, <1>2 DEF DInv

\* An order that is decided or moved is no longer counted.
LEMMA LaterDInv ==
  ASSUME BInv, Searched, DInv, NEW r, NEW j \in DOMAIN orders,
         statusUpdate(r, j) \/ user_job_reschedule(r, j)
  PROVE  DInv'
<1>0. OrderFields \subseteq DOMAIN orders[j] /\ "jobRescheduleAt" \in DOMAIN orders[j]
  BY DEF Searched, DInv
<1>1. PICK new : /\ orders' = [orders EXCEPT ![j] = new]
                 /\ DOMAIN new = DOMAIN orders[j]
                 /\ new.job_status = "Left" \/ new.jobRescheduleAt = "now"
  <2>1. CASE statusUpdate(r, j)
    <3> DEFINE new == [orders[j] EXCEPT !.job_status = "Left"]
    <3>1. orders' = [orders EXCEPT ![j] = new]
      BY <2>1 DEF statusUpdate
    <3>2. DOMAIN new = DOMAIN orders[j] /\ new.job_status = "Left"
      BY <1>0 DEF OrderFields
    <3> HIDE DEF new
    <3> QED BY <3>1, <3>2
  <2>2. CASE user_job_reschedule(r, j)
    <3>1. PICK slot \in Slots :
            orders' = [orders EXCEPT ![j].slot = slot, ![j].jobRescheduleAt = "now"]
      BY <2>2 DEF user_job_reschedule
    <3> DEFINE new == [orders[j] EXCEPT !.slot = slot, !.jobRescheduleAt = "now"]
    <3>2. orders' = [orders EXCEPT ![j] = new]
      BY <3>1
    <3>3. DOMAIN new = DOMAIN orders[j] /\ new.jobRescheduleAt = "now"
      BY <1>0
    <3> HIDE DEF new
    <3> QED BY <3>2, <3>3
  <2> QED BY <2>1, <2>2
<1>2. placing' = placing
  BY DEF statusUpdate, user_job_reschedule
<1>3. \A k \in DOMAIN orders' : "jobRescheduleAt" \in DOMAIN orders'[k]
  BY <1>0, <1>1 DEF DInv
<1>4. ASSUME NEW content, NEW slot
      PROVE  Cardinality(Open(orders', content, slot))
               + Cardinality(Pending(placing', content, slot)) <= Cardinality(Requests)
  <2>1. /\ DOMAIN orders' = DOMAIN orders /\ orders'[j] = new
        /\ \A k \in DOMAIN orders : k # j => orders'[k] = orders[k]
    BY <1>1
  <2>2. Open(orders', content, slot) \subseteq Open(orders, content, slot)
    BY <1>1, <2>1, BookingAssumption DEF Open, Found
  <2> QED BY <1>2, <2>2, FewerCounted
<1> QED BY <1>2, <1>3, <1>4 DEF DInv

LEMMA NextDInv == BInv /\ Searched /\ DInv /\ [Next]_vars => DInv'
<1> SUFFICES ASSUME BInv, Searched, DInv, [Next]_vars PROVE DInv'
  OBVIOUS
<1>1. CASE UNCHANGED vars
  BY <1>1 DEF vars, DInv
<1>2. CASE Next
  BY <1>2, AssignDInv, CreateDInv, OthersDInv, LaterDInv DEF Next, Step
<1> QED BY <1>1, <1>2

\* An order is stored at most as many times as there are requests in progress
\* together, whatever their overlap, failures and what becomes of stored
\* orders: assignJob's search excludes every later one.
THEOREM DuplicatesStayBounded == Spec => []DuplicatesBounded
<1>1. Init => BInv /\ Searched /\ DInv
  <2> SUFFICES ASSUME Init PROVE BInv /\ Searched /\ DInv
    OBVIOUS
  <2>1. BInv /\ Searched
    BY InitBInv DEF Init, Searched
  <2>2. ASSUME NEW content, NEW slot
        PROVE  Open(orders, content, slot) = {} /\ Pending(placing, content, slot) = {}
    BY DEF Init, Open, Found, Pending
  <2>3. Cardinality(Requests) \in Nat /\ Cardinality({}) = 0
    BY BookingAssumption, FS_CardinalityType, FS_EmptySet
  <2>4. \A content, slot :
          Cardinality(Open(orders, content, slot))
            + Cardinality(Pending(placing, content, slot)) <= Cardinality(Requests)
    BY <2>2, <2>3, SMTT(60)
  <2>5. DOMAIN placing = {} /\ DOMAIN orders = {}
    BY DEF Init
  <2>6. DInv
    BY <2>4, <2>5 DEF DInv
  <2> QED BY <2>1, <2>6
<1>2. BInv /\ Searched /\ DInv /\ [Next]_vars => (BInv /\ Searched /\ DInv)'
  BY NextBInv, NextSearched, NextDInv
<1>3. BInv /\ DInv => DuplicatesBounded
  <2> SUFFICES ASSUME BInv, DInv, NEW content \in Contents, NEW slot \in Slots
               PROVE  Cardinality({j \in orderDetails(content, slot) :
                                     orders[j].jobRescheduleAt = Null}) <= Cardinality(Requests)
    BY DEF DuplicatesBounded
  <2>1. {j \in orderDetails(content, slot) : orders[j].jobRescheduleAt = Null}
          = Open(orders, content, slot)
    BY DEF Open, Found, orderDetails
  <2>2. Cardinality(Open(orders, content, slot)) + Cardinality(Pending(placing, content, slot))
          <= Cardinality(Requests)
    BY DEF DInv
  <2>3. /\ Cardinality(Open(orders, content, slot)) \in Nat
        /\ Cardinality(Pending(placing, content, slot)) \in Nat
        /\ Cardinality(Requests) \in Nat
    BY CountedFinite
  <2>4. Cardinality(Open(orders, content, slot)) <= Cardinality(Requests)
    BY <2>2, <2>3, SMTT(60)
  <2> QED BY <2>1, <2>4
<1> QED BY <1>1, <1>2, <1>3, PTL DEF Spec
=============================================================================
