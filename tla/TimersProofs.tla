---------------------------- MODULE TimersProofs ----------------------------
(***************************************************************************)
(* Proofs about the timers library, for any timeouts whose microseconds    *)
(* fit an int, any clock, and any number of timers.                        *)
(***************************************************************************)
EXTENDS Timers, QueueProofs

USE DEF MicrosPerSecond

(* Numbers of microseconds as the library computes them: at most, and at   *)
(* worst exactly, a second beside the seconds.                             *)
Normal(tv) == tv \in Timeval /\ tv.tv_usec <= MicrosPerSecond

LEMMA GetTimeIsNow ==
  ASSUME now \in Nat
  PROVE  Normal(GetTime) /\ GetTime.tv_usec < MicrosPerSecond /\ Micros(GetTime) = now
BY SMT DEF GetTime, Normal, Timeval, Micros

LEMMA ZeroIsZero == Zero \in Timeval /\ Micros(Zero) = 0
BY SMT DEF Zero, Timeval, Micros

(* The comparison of seconds and then microseconds agrees with the order   *)
(* of times, although two pairs may stand for the same time.               *)
LEMMA ComparisonOrders ==
  ASSUME NEW x, NEW y, Normal(x), Normal(y)
  PROVE  /\ TimevalCmp(x, y) > 0 => Micros(y) <= Micros(x)
         /\ TimevalCmp(x, y) <= 0 => Micros(x) <= Micros(y)
         /\ TimevalCmp(x, y) < 0 => Micros(x) <= Micros(y)
         /\ TimevalCmp(x, y) >= 0 => Micros(y) <= Micros(x)
         /\ TimevalCmp(x, y) \in {-1, 0, 1}
<1>1. /\ x.tv_sec \in Nat /\ x.tv_usec \in Nat /\ x.tv_usec <= 1000000
      /\ y.tv_sec \in Nat /\ y.tv_usec \in Nat /\ y.tv_usec <= 1000000
  BY SMT DEF Normal, Timeval
<1>2. TimevalLess(x, y) => Micros(x) <= Micros(y)
  BY <1>1, SMT DEF TimevalLess, Micros
<1>3. TimevalLess(y, x) => Micros(y) <= Micros(x)
  BY <1>1, SMT DEF TimevalLess, Micros
<1>4. ~TimevalLess(x, y) /\ ~TimevalLess(y, x) => Micros(x) = Micros(y)
  BY <1>1, SMT DEF TimevalLess, Micros
<1>5. Micros(x) \in Nat /\ Micros(y) \in Nat
  BY <1>1, SMT DEF Micros
<1> QED
  BY <1>2, <1>3, <1>4, <1>5, SMT DEF TimevalCmp

(* The difference of two times, or 0. *)
LEMMA SubtractionIsRight ==
  ASSUME NEW x, NEW y, Normal(x), Normal(y), y.tv_usec < MicrosPerSecond
  PROVE  Micros(TimevalSub(x, y)) = IF Micros(x) <= Micros(y) THEN 0 ELSE Micros(x) - Micros(y)
<1>1. /\ x.tv_sec \in Nat /\ x.tv_usec \in Nat /\ x.tv_usec <= 1000000
      /\ y.tv_sec \in Nat /\ y.tv_usec \in Nat /\ y.tv_usec <= 999999
  BY SMT DEF Normal, Timeval
<1>2. Micros(x) \in Nat /\ Micros(y) \in Nat
  BY <1>1, SMT DEF Micros
<1>3. CASE TimevalCmp(x, y) < 0
  <2>1. Micros(x) <= Micros(y)
    BY <1>3, ComparisonOrders, SMT
  <2> QED
    BY <1>3, <2>1, ZeroIsZero, SMT DEF TimevalSub
<1>4. CASE ~(TimevalCmp(x, y) < 0)
  <2>1. Micros(y) <= Micros(x)
    BY <1>4, ComparisonOrders, SMT
  <2>2. Micros(TimevalSub(x, y)) = Micros(x) - Micros(y)
    BY <1>4, <1>1, SMT DEF TimevalSub, Micros
  <2> QED
    BY <1>2, <2>1, <2>2, SMT
<1> QED
  BY <1>3, <1>4, SMT

(* Microseconds as seconds and a rest. *)
LEMMA SecondsAndRest ==
  ASSUME NEW n \in Nat
  PROVE  /\ n \div 1000000 \in Nat /\ n % 1000000 \in Nat /\ n % 1000000 < 1000000
         /\ n % 1000000 = n - (n \div 1000000) * 1000000
BY SMT

(* A timeout that is added to the clock's reading is due that much later.  *)
LEMMA DelayIsAdded ==
  ASSUME now \in Nat, NEW d \in Nat
  PROVE  Normal(SetDelay(d)) /\ Micros(SetDelay(d)) = now + d * 1000
<1> DEFINE sec == GetTime.tv_sec
           usec == GetTime.tv_usec
           sum == usec + d * 1000
<1>1. sec \in Nat /\ usec \in Nat /\ sec * 1000000 + usec = now
  BY GetTimeIsNow, SMT DEF Normal, Timeval, Micros
<1>2. GetTime = [tv_sec |-> sec, tv_usec |-> usec]
  BY SMT DEF GetTime
<1>3. SetDelay(d) = IF sum > 1000000
                    THEN [tv_sec |-> sec + sum \div 1000000, tv_usec |-> sum % 1000000]
                    ELSE [tv_sec |-> sec, tv_usec |-> sum]
  BY <1>2, SMT DEF SetDelay, TimevalAddusecs
<1>4. sum \in Nat /\ sec * 1000000 + sum = now + d * 1000
  BY <1>1, SMT
<1> HIDE DEF sec, usec, sum
<1>5. CASE sum > 1000000
  <2>1. SetDelay(d) = [tv_sec |-> sec + sum \div 1000000, tv_usec |-> sum % 1000000]
    BY <1>3, <1>5, SMT
  <2> DEFINE q == sum \div 1000000
             r == sum % 1000000
  <2>2. q \in Nat /\ r \in Nat /\ r < 1000000 /\ r = sum - q * 1000000
    BY <1>4, SecondsAndRest, SMT
  <2> HIDE DEF q, r
  <2>3. SetDelay(d) = [tv_sec |-> sec + q, tv_usec |-> r]
    BY <2>1, SMT DEF q, r
  <2> QED
    BY <2>2, <2>3, <1>1, <1>4, SMT DEF Normal, Timeval, Micros
<1>6. CASE ~(sum > 1000000)
  <2>1. SetDelay(d) = [tv_sec |-> sec, tv_usec |-> sum]
    BY <1>3, <1>6, SMT
  <2> QED
    BY <2>1, <1>6, <1>1, <1>4, SMT DEF Normal, Timeval, Micros
<1> QED
  BY <1>5, <1>6, SMT
-----------------------------------------------------------------------------
(* Queues.  The names below say of any queue what the invariants say of eq. *)
Sorted(q) == \A i, j \in DOMAIN q : i < j => Micros(q[i].tv_) <= Micros(q[j].tv_)

Unique(q) == \A i, j \in DOMAIN q : q[i].hdl_ = q[j].hdl_ => i = j

AllNormal(q) == \A i \in DOMAIN q : Normal(q[i].tv_)

GoodQueue(q) == q \in Seq(Event) /\ AllNormal(q) /\ Sorted(q) /\ Unique(q)

HandlesOf(q) == {q[i].hdl_ : i \in DOMAIN q}

DueOf(q) ==
  [h \in HandlesOf(q) |-> Micros(q[CHOOSE i \in DOMAIN q : q[i].hdl_ = h].tv_)]

(* The due times after a timer has been added. *)
DueAdded(q, h, d) ==
  [x \in HandlesOf(q) \cup {h} |-> IF x = h THEN now + d * 1000 ELSE DueOf(q)[x]]

LEMMA NormalTimes ==
  ASSUME NEW tv, Normal(tv)
  PROVE  tv \in Timeval /\ Micros(tv) \in Nat
BY SMT DEF Normal, Timeval, Micros

USE DEF EventCmp
HIDE DEF MicrosPerSecond

LEMMA QueueDomain ==
  ASSUME NEW q \in Seq(Event)
  PROVE  /\ Len(q) \in Nat /\ DOMAIN q = 1 .. Len(q)
         /\ \A i \in DOMAIN q : q[i] \in Event /\ q[i].tv_ \in Timeval /\ q[i].hdl_ \in Nat
<1>1. Len(q) \in Nat /\ DOMAIN q = 1 .. Len(q)
  BY LenProperties
<1>2. \A i \in 1 .. Len(q) : q[i] \in Event
  BY ElementOfSeq
<1> QED
  BY <1>1, <1>2 DEF Event

(* Eq_Add finds a place, after nothing later and before nothing earlier. *)
LEMMA AddPlaceProperties ==
  ASSUME NEW q \in Seq(Event), NEW n \in Event, AllNormal(q), Normal(n.tv_)
  PROVE  /\ AddPlace(q, n) \in 1 .. Len(q) + 1
         /\ \A j \in 1 .. AddPlace(q, n) - 1 : Micros(q[j].tv_) <= Micros(n.tv_)
         /\ AddPlace(q, n) <= Len(q) => Micros(n.tv_) <= Micros(q[AddPlace(q, n)].tv_)
<1> DEFINE Stop == {i \in 1 .. Len(q) : TimevalCmp(n.tv_, q[i].tv_) <= 0}
           Place(i) == /\ \A j \in 1 .. i - 1 : EventCmp(n, q[j]) > 0
                       /\ i <= Len(q) => EventCmp(n, q[i]) <= 0
<1>1. Len(q) \in Nat /\ DOMAIN q = 1 .. Len(q)
  BY QueueDomain
<1>2. \A i \in 1 .. Len(q) :
        /\ TimevalCmp(n.tv_, q[i].tv_) \in {-1, 0, 1}
        /\ TimevalCmp(n.tv_, q[i].tv_) > 0 => Micros(q[i].tv_) <= Micros(n.tv_)
        /\ TimevalCmp(n.tv_, q[i].tv_) <= 0 => Micros(n.tv_) <= Micros(q[i].tv_)
  BY <1>1, ComparisonOrders DEF AllNormal
<1>7. Stop \in SUBSET (1 .. Len(q))
  OBVIOUS
<1> HIDE DEF Stop
<1>3. PICK k \in 1 .. Len(q) + 1 :
         /\ \A j \in 1 .. k - 1 : j \notin Stop
         /\ k <= Len(q) => k \in Stop
  BY <1>1, <1>7, WalkStops
<1>4. Place(k)
  <2>1. ASSUME NEW j \in 1 .. k - 1
        PROVE  TimevalCmp(n.tv_, q[j].tv_) > 0
    <3>1. j \in 1 .. Len(q) /\ ~(TimevalCmp(n.tv_, q[j].tv_) <= 0)
      BY <1>1, <1>3 DEF Stop
    <3> QED
      BY <1>2, <3>1
  <2>2. k <= Len(q) => TimevalCmp(n.tv_, q[k].tv_) <= 0
    BY <1>3 DEF Stop
  <2> QED
    BY <2>1, <2>2
<1>5. AddPlace(q, n) = CHOOSE i \in 1 .. Len(q) + 1 : Place(i)
  BY DEF AddPlace
<1>6. AddPlace(q, n) \in 1 .. Len(q) + 1 /\ Place(AddPlace(q, n))
  BY <1>4, <1>5
<1> QED
  BY <1>1, <1>2, <1>6

(* The due time of an element whose handle is its own. *)
LEMMA DueOfElement ==
  ASSUME NEW q, Unique(q), NEW i \in DOMAIN q
  PROVE  q[i].hdl_ \in HandlesOf(q) /\ DueOf(q)[q[i].hdl_] = Micros(q[i].tv_)
<1>1. (CHOOSE j \in DOMAIN q : q[j].hdl_ = q[i].hdl_) = i
  BY DEF Unique
<1> QED
  BY <1>1 DEF DueOf, HandlesOf

(* A timer that is added, with a handle that the queue does not hold. *)
LEMMA QueueGrows ==
  ASSUME NEW q, GoodQueue(q), now \in Nat, NEW d \in Nat, NEW h \in Nat, h \notin HandlesOf(q)
  PROVE  LET r == EqAddAfter(q, h, d) IN
         /\ GoodQueue(r)
         /\ HandlesOf(r) = HandlesOf(q) \cup {h}
         /\ DueOf(r) = DueAdded(q, h, d)
<1> DEFINE n == [tv_ |-> SetDelay(d), hdl_ |-> h]
           p == AddPlace(q, n)
           r == EqAddAfter(q, h, d)
<1>1. /\ n \in Event /\ Normal(n.tv_) /\ n.hdl_ = h
      /\ Micros(n.tv_) = now + d * 1000
  <2>1. Normal(SetDelay(d)) /\ Micros(SetDelay(d)) = now + d * 1000
    BY DelayIsAdded
  <2>2. SetDelay(d) \in Timeval
    BY <2>1 DEF Normal
  <2> QED
    BY <2>1, <2>2 DEF Event
<1>2. q \in Seq(Event) /\ AllNormal(q) /\ Sorted(q) /\ Unique(q)
  BY DEF GoodQueue
<1>3. /\ Len(q) \in Nat /\ DOMAIN q = 1 .. Len(q)
      /\ \A i \in 1 .. Len(q) : q[i] \in Event /\ q[i].tv_ \in Timeval /\ q[i].hdl_ \in Nat
  BY <1>2, QueueDomain
<1> HIDE DEF n
<1>4. /\ p \in 1 .. Len(q) + 1
      /\ \A j \in 1 .. p - 1 : Micros(q[j].tv_) <= Micros(n.tv_)
      /\ p <= Len(q) => Micros(n.tv_) <= Micros(q[p].tv_)
  BY <1>1, <1>2, AddPlaceProperties
<1>5. r = InsertAt(q, p, n)
  BY DEF EqAddAfter, EqAdd, n
<1> HIDE DEF p, r
<1>6. /\ r \in Seq(Event)
      /\ Len(r) = Len(q) + 1
      /\ \A j \in 1 .. Len(q) + 1 :
           r[j] = IF j < p THEN q[j] ELSE IF j = p THEN n ELSE q[j - 1]
  <2>1. n \in Event /\ q \in Seq(Event) /\ p \in 1 .. Len(q) + 1
    BY <1>1, <1>2, <1>4
  <2>2. /\ InsertAt(q, p, n) \in Seq(Event)
        /\ Len(InsertAt(q, p, n)) = Len(q) + 1
        /\ \A j \in 1 .. Len(q) + 1 :
             InsertAt(q, p, n)[j] = IF j < p THEN q[j] ELSE IF j = p THEN n ELSE q[j - 1]
    BY <2>1, InsertAtProperties
  <2> QED
    BY <2>2, <1>5
<1>7. DOMAIN r = 1 .. Len(q) + 1
  BY <1>6, QueueDomain
<1>8. \A j \in 1 .. Len(q) + 1 :
        /\ j < p => j \in 1 .. Len(q) /\ r[j] = q[j]
        /\ j = p => r[j] = n
        /\ j > p => j - 1 \in 1 .. Len(q) /\ r[j] = q[j - 1]
  BY <1>3, <1>4, <1>6
<1>9. \A i \in 1 .. Len(q) :
        /\ i < p => i \in 1 .. Len(q) + 1 /\ r[i] = q[i]
        /\ i >= p => i + 1 \in 1 .. Len(q) + 1 /\ r[i + 1] = q[i]
  BY <1>3, <1>4, <1>6
<1>10. \A i \in 1 .. Len(q) : Micros(q[i].tv_) \in Nat
  BY <1>2, <1>3, NormalTimes DEF AllNormal
<1>11. Micros(n.tv_) \in Nat
  BY <1>1, NormalTimes
<1>12. AllNormal(r)
  <2> SUFFICES ASSUME NEW j \in 1 .. Len(q) + 1
               PROVE  Normal(r[j].tv_)
    BY <1>7 DEF AllNormal
  <2>1. \A i \in 1 .. Len(q) : Normal(q[i].tv_)
    BY <1>2, <1>3 DEF AllNormal
  <2>2. j < p \/ j = p \/ j > p
    BY <1>3, <1>4
  <2>3. j < p => Normal(r[j].tv_)
    BY <2>1, <1>8
  <2>4. j = p => Normal(r[j].tv_)
    BY <1>1, <1>8
  <2>5. j > p => Normal(r[j].tv_)
    BY <2>1, <1>8
  <2> QED
    BY <2>2, <2>3, <2>4, <2>5
<1>13. Sorted(r)
  <2> SUFFICES ASSUME NEW i \in 1 .. Len(q) + 1, NEW j \in 1 .. Len(q) + 1, i < j
               PROVE  Micros(r[i].tv_) <= Micros(r[j].tv_)
    BY <1>7 DEF Sorted
  <2>1. \A k, l \in 1 .. Len(q) : k < l => Micros(q[k].tv_) <= Micros(q[l].tv_)
    BY <1>2, <1>3 DEF Sorted
  <2>2. \A k \in 1 .. Len(q) : k >= p => Micros(n.tv_) <= Micros(q[k].tv_)
    BY <2>1, <1>3, <1>4, <1>10, <1>11
  <2>3. CASE j < p
    BY <2>1, <2>3, <1>3, <1>4, <1>8
  <2>4. CASE i < p /\ j = p
    BY <2>4, <1>3, <1>4, <1>8
  <2>5. CASE i < p /\ j > p
    <3>1. r[i] = q[i] /\ r[j] = q[j - 1] /\ i \in 1 .. Len(q) /\ j - 1 \in 1 .. Len(q)
      BY <2>5, <1>3, <1>4, <1>8
    <3>2. CASE i < j - 1
      BY <2>1, <3>1, <3>2
    <3>3. CASE i = j - 1
      BY <3>1, <3>3, <1>10
    <3> QED
      BY <3>2, <3>3, <2>5, <1>3, <1>4
  <2>6. CASE i = p
    <3>1. r[i] = n /\ r[j] = q[j - 1] /\ j - 1 \in 1 .. Len(q) /\ j - 1 >= p
      BY <2>6, <1>3, <1>4, <1>8
    <3> QED
      BY <3>1, <2>2
  <2>7. CASE i > p
    <3>1. /\ r[i] = q[i - 1] /\ r[j] = q[j - 1]
          /\ i - 1 \in 1 .. Len(q) /\ j - 1 \in 1 .. Len(q) /\ i - 1 < j - 1
      BY <2>7, <1>3, <1>4, <1>8
    <3> QED
      BY <3>1, <2>1
  <2> QED
    BY <2>3, <2>4, <2>5, <2>6, <2>7, <1>3, <1>4
<1>14. \A i \in 1 .. Len(q) : q[i].hdl_ # h
  BY <1>3 DEF HandlesOf
<1>15. Unique(r)
  <2> SUFFICES ASSUME NEW i \in 1 .. Len(q) + 1, NEW j \in 1 .. Len(q) + 1,
                      r[i].hdl_ = r[j].hdl_, i < j
               PROVE  FALSE
    BY <1>3, <1>7 DEF Unique
  <2>1. \A k, l \in 1 .. Len(q) : q[k].hdl_ = q[l].hdl_ => k = l
    BY <1>2, <1>3 DEF Unique
  <2>2. CASE j < p
    BY <2>1, <2>2, <1>3, <1>4, <1>8
  <2>3. CASE i = p \/ j = p
    BY <2>3, <1>1, <1>3, <1>4, <1>8, <1>14
  <2>4. CASE i < p /\ j > p
    <3>1. r[i] = q[i] /\ r[j] = q[j - 1] /\ i \in 1 .. Len(q) /\ j - 1 \in 1 .. Len(q)
      BY <2>4, <1>3, <1>4, <1>8
    <3>2. i = j - 1
      BY <2>1, <3>1
    <3> QED
      BY <2>4, <3>2, <1>3, <1>4
  <2>5. CASE i > p
    BY <2>1, <2>5, <1>3, <1>4, <1>8
  <2> QED
    BY <2>2, <2>3, <2>4, <2>5, <1>3, <1>4
<1>16. GoodQueue(r)
  BY <1>6, <1>12, <1>13, <1>15 DEF GoodQueue
<1>17. HandlesOf(r) = HandlesOf(q) \cup {h}
  <2>1. ASSUME NEW j \in 1 .. Len(q) + 1
        PROVE  r[j].hdl_ \in HandlesOf(q) \cup {h}
    <3>1. j < p \/ j = p \/ j > p
      BY <1>3, <1>4
    <3>2. \A i \in 1 .. Len(q) : q[i].hdl_ \in HandlesOf(q)
      BY <1>3 DEF HandlesOf
    <3>3. j = p => r[j].hdl_ = h
      BY <1>1, <1>8
    <3>4. j # p => r[j].hdl_ \in HandlesOf(q)
      BY <3>1, <3>2, <1>8
    <3> QED
      BY <3>3, <3>4
  <2>2. ASSUME NEW i \in 1 .. Len(q)
        PROVE  q[i].hdl_ \in HandlesOf(r)
    <3>1. i < p \/ i >= p
      BY <1>3, <1>4
    <3>2. \A j \in 1 .. Len(q) + 1 : r[j].hdl_ \in HandlesOf(r)
      BY <1>7 DEF HandlesOf
    <3>3. i < p => q[i].hdl_ \in HandlesOf(r)
      BY <3>2, <1>9
    <3>4. i >= p => q[i].hdl_ \in HandlesOf(r)
      BY <3>2, <1>9
    <3> QED
      BY <3>1, <3>3, <3>4
  <2>3. h \in HandlesOf(r)
    BY <1>1, <1>4, <1>7, <1>8 DEF HandlesOf
  <2> QED
    BY <2>1, <2>2, <2>3, <1>3, <1>7 DEF HandlesOf
<1>18. ASSUME NEW x \in HandlesOf(q) \cup {h}
       PROVE  DueOf(r)[x] = IF x = h THEN now + d * 1000 ELSE DueOf(q)[x]
  <2>1. CASE x = h
    <3>1. p \in DOMAIN r /\ r[p].hdl_ = x /\ Micros(r[p].tv_) = now + d * 1000
      BY <2>1, <1>1, <1>4, <1>7, <1>8
    <3> QED
      BY <2>1, <3>1, <1>15, DueOfElement
  <2>2. CASE x # h
    <3>1. PICK i \in DOMAIN q : q[i].hdl_ = x
      BY <2>2 DEF HandlesOf
    <3>2. DueOf(q)[x] = Micros(q[i].tv_)
      BY <3>1, <1>2, DueOfElement
    <3>3. PICK j \in DOMAIN r : r[j] = q[i]
      BY <1>3, <1>4, <1>7, <1>9
    <3>4. DueOf(r)[r[j].hdl_] = Micros(r[j].tv_)
      BY <1>15, DueOfElement
    <3> QED
      BY <2>2, <3>1, <3>2, <3>3, <3>4
  <2> QED
    BY <2>1, <2>2
<1>19. DueOf(r) = [x \in HandlesOf(r) |-> DueOf(r)[x]]
  BY DEF DueOf
<1>20. DueOf(r) = DueAdded(q, h, d)
  <2> DEFINE F(x) == IF x = h THEN now + d * 1000 ELSE DueOf(q)[x]
  <2>1. \A x \in HandlesOf(q) \cup {h} : DueOf(r)[x] = F(x)
    BY <1>18
  <2> HIDE DEF F
  <2>2. DueOf(r) = [x \in HandlesOf(q) \cup {h} |-> F(x)]
    BY <2>1, <1>17, <1>19
  <2> QED
    BY <2>2 DEF F, DueAdded
<1> QED
  BY <1>16, <1>17, <1>20 DEF r

(* A timer that leaves the queue, from any place. *)
LEMMA QueueShrinks ==
  ASSUME NEW q, GoodQueue(q), NEW i \in DOMAIN q
  PROVE  LET r == EqRemove(q, i) IN
         /\ GoodQueue(r)
         /\ HandlesOf(r) = HandlesOf(q) \ {q[i].hdl_}
         /\ DueOf(r) = [x \in HandlesOf(q) \ {q[i].hdl_} |-> DueOf(q)[x]]
<1> DEFINE r == EqRemove(q, i)
           h == q[i].hdl_
<1>1. q \in Seq(Event) /\ AllNormal(q) /\ Sorted(q) /\ Unique(q)
  BY DEF GoodQueue
<1>2. Len(q) \in Nat /\ DOMAIN q = 1 .. Len(q) /\ i \in 1 .. Len(q)
  BY <1>1, QueueDomain
<1>3. r = RemoveAt(q, i)
  BY DEF EqRemove
<1> HIDE DEF r
<1>4. /\ r \in Seq(Event)
      /\ Len(r) = Len(q) - 1
      /\ \A j \in 1 .. Len(q) - 1 : r[j] = IF j < i THEN q[j] ELSE q[j + 1]
  BY <1>1, <1>2, <1>3, RemoveAtProperties
<1>5. DOMAIN r = 1 .. Len(q) - 1
  BY <1>4, QueueDomain
<1> DEFINE Old(j) == IF j < i THEN j ELSE j + 1
<1>6. ASSUME NEW j \in 1 .. Len(q) - 1
      PROVE  Old(j) \in DOMAIN q /\ r[j] = q[Old(j)] /\ Old(j) # i
  BY <1>2, <1>4
<1>7. ASSUME NEW j \in 1 .. Len(q) - 1, NEW k \in 1 .. Len(q) - 1
      PROVE  j < k <=> Old(j) < Old(k)
  BY <1>2
<1>8. ASSUME NEW k \in DOMAIN q, k # i
      PROVE  \E j \in 1 .. Len(q) - 1 : Old(j) = k
  <2>1. CASE k < i
    BY <1>2, <2>1
  <2>2. CASE k > i
    <3>1. k - 1 \in 1 .. Len(q) - 1 /\ Old(k - 1) = k
      BY <1>2, <2>2
    <3> QED
      BY <3>1
  <2> QED
    BY <1>2, <1>8, <2>1, <2>2
<1>9. \A j \in 1 .. Len(q) - 1 : Old(j) \in Int
  BY <1>2
<1> HIDE DEF Old
<1>10. AllNormal(r)
  BY <1>1, <1>5, <1>6 DEF AllNormal
<1>11. Sorted(r)
  BY <1>1, <1>5, <1>6, <1>7 DEF Sorted
<1>12. Unique(r)
  <2> SUFFICES ASSUME NEW j \in 1 .. Len(q) - 1, NEW k \in 1 .. Len(q) - 1,
                      r[j].hdl_ = r[k].hdl_
               PROVE  j = k
    BY <1>5 DEF Unique
  <2>1. Old(j) = Old(k)
    BY <1>1, <1>6 DEF Unique
  <2>2. ~(j < k) /\ ~(k < j)
    BY <2>1, <1>7, <1>9
  <2> QED
    BY <2>2, <1>2
<1>13. GoodQueue(r)
  BY <1>4, <1>10, <1>11, <1>12 DEF GoodQueue
<1>14. HandlesOf(r) = HandlesOf(q) \ {h}
  <2>1. ASSUME NEW j \in 1 .. Len(q) - 1
        PROVE  r[j].hdl_ \in HandlesOf(q) \ {h}
    BY <1>1, <1>2, <1>6 DEF HandlesOf, Unique
  <2>2. ASSUME NEW k \in DOMAIN q, q[k].hdl_ # h
        PROVE  q[k].hdl_ \in HandlesOf(r)
    <3>1. PICK j \in 1 .. Len(q) - 1 : Old(j) = k
      BY <2>2, <1>8
    <3> QED
      BY <3>1, <1>5, <1>6 DEF HandlesOf
  <2>3. HandlesOf(r) \subseteq HandlesOf(q) \ {h}
    BY <2>1, <1>5 DEF HandlesOf
  <2>4. HandlesOf(q) \ {h} \subseteq HandlesOf(r)
    BY <2>2 DEF HandlesOf
  <2> QED
    BY <2>3, <2>4
<1>15. ASSUME NEW x \in HandlesOf(q) \ {h}
       PROVE  DueOf(r)[x] = DueOf(q)[x]
  <2>1. PICK k \in DOMAIN q : q[k].hdl_ = x
    BY DEF HandlesOf
  <2>2. PICK j \in 1 .. Len(q) - 1 : Old(j) = k
    BY <2>1, <1>8
  <2>3. DueOf(q)[x] = Micros(q[k].tv_)
    BY <2>1, <1>1, DueOfElement
  <2>4. DueOf(r)[r[j].hdl_] = Micros(r[j].tv_)
    BY <1>5, <1>12, DueOfElement
  <2> QED
    BY <2>1, <2>2, <2>3, <2>4, <1>6
<1>16. DueOf(r) = [x \in HandlesOf(q) \ {h} |-> DueOf(q)[x]]
  <2>1. DueOf(r) = [x \in HandlesOf(r) |-> DueOf(r)[x]]
    BY DEF DueOf
  <2> QED
    BY <2>1, <1>14, <1>15
<1> QED
  BY <1>13, <1>14, <1>16 DEF r

(* The head, and what is left without it. *)
LEMMA QueueStarts ==
  ASSUME NEW q, GoodQueue(q), q # <<>>
  PROVE  /\ 1 \in DOMAIN q /\ Head(q) = q[1] /\ Tail(q) = EqRemove(q, 1)
         /\ \A x \in HandlesOf(q) : DueOf(q)[Head(q).hdl_] <= DueOf(q)[x]
<1>1. q \in Seq(Event) /\ AllNormal(q) /\ Sorted(q) /\ Unique(q)
  BY DEF GoodQueue
<1>2. Len(q) \in Nat \ {0} /\ DOMAIN q = 1 .. Len(q) /\ 1 \in DOMAIN q /\ Head(q) = q[1]
  BY <1>1, QueueDomain, EmptySeq
<1>3. Tail(q) = EqRemove(q, 1)
  <2>1. SubSeq(q, 1, 1 - 1) = <<>>
    BY SubSeqEmpty
  <2>2. Tail(q) = SubSeq(q, 1 + 1, Len(q)) /\ Tail(q) \in Seq(Event)
    BY <1>1, TailIsSubSeq, HeadTailProperties
  <2>3. <<>> \o Tail(q) = Tail(q)
    BY <2>2, ConcatEmptySeq
  <2> QED
    BY <2>1, <2>2, <2>3 DEF EqRemove, RemoveAt
<1>4. ASSUME NEW x \in HandlesOf(q)
      PROVE  DueOf(q)[Head(q).hdl_] <= DueOf(q)[x]
  <2>1. PICK k \in DOMAIN q : q[k].hdl_ = x
    BY DEF HandlesOf
  <2>2. /\ DueOf(q)[x] = Micros(q[k].tv_)
        /\ DueOf(q)[Head(q).hdl_] = Micros(q[1].tv_)
    BY <2>1, <1>1, <1>2, DueOfElement
  <2>3. Micros(q[1].tv_) \in Nat
    BY <1>1, <1>2, NormalTimes DEF AllNormal
  <2>4. CASE k = 1
    BY <2>2, <2>3, <2>4
  <2>5. CASE 1 < k
    BY <2>2, <2>5, <1>1, <1>2 DEF Sorted
  <2> QED
    BY <2>4, <2>5, <1>2
<1> QED
  BY <1>2, <1>3, <1>4

-----------------------------------------------------------------------------
(* The invariant.  KeptSorted alone is not inductive: the comparison only  *)
(* agrees with the times while microseconds stay within a second, and the  *)
(* due time of a handle is that of one event only while handles are unique. *)
HandlesInRange ==
  /\ DOMAIN timeout_ \subseteq 1 .. MaxHandles
  /\ next_handle_ \in 1 .. MaxHandles + 1

OneRuns == \A g, h \in running : g = h

TimersInv ==
  /\ TimersTypeOK
  /\ GoodQueue(eq)
  /\ EachTimerOnce
  /\ HandlesInRange
  /\ OneRuns

LEMMA EmptyQueue ==
  GoodQueue(<<>>) /\ HandlesOf(<<>>) = {} /\ DueOf(<<>>) = [h \in {} |-> 0]
<1>1. <<>> \in Seq(Event) /\ DOMAIN <<>> = {}
  BY EmptySeq
<1>2. GoodQueue(<<>>)
  BY <1>1 DEF GoodQueue, AllNormal, Sorted, Unique
<1>3. HandlesOf(<<>>) = {}
  BY <1>1 DEF HandlesOf
<1>4. DueOf(<<>>) = [h \in {} |-> 0]
  BY <1>3 DEF DueOf
<1> QED
  BY <1>2, <1>3, <1>4

LEMMA Assumed ==
  Delays \subseteq Nat /\ Clock \subseteq Nat /\ MaxHandles \in Nat
BY SMT, TimersAssumption DEF TimersAssumption

LEMMA InitInv == TimersInit => TimersInv
<1> SUFFICES ASSUME TimersInit
             PROVE  TimersInv
  OBVIOUS
<1> USE DEF TimersInit
<1>1. timeout_ \in [{} -> Delays] /\ DOMAIN timeout_ = {}
  OBVIOUS
<1>2. TimersTypeOK
  BY <1>1, EmptySeq DEF TimersTypeOK
<1>3. GoodQueue(eq) /\ HandlesOf(eq) = {}
  BY EmptyQueue
<1>4. EachTimerOnce
  BY <1>1, <1>3 DEF EachTimerOnce, HandlesOf, GoodQueue, Unique
<1> QED
  BY <1>1, <1>2, <1>3, <1>4, Assumed DEF TimersInv, HandlesInRange, OneRuns

(* What the actions below need of the invariant. *)
LEMMA Facts ==
  ASSUME TimersInv
  PROVE  /\ now \in Nat /\ GoodQueue(eq) /\ eq \in Seq(Event)
         /\ timeout_ \in [DOMAIN timeout_ -> Delays]
         /\ HandlesOf(eq) = DOMAIN timeout_ \ running
         /\ running \subseteq DOMAIN timeout_
         /\ DOMAIN timeout_ \subseteq 1 .. MaxHandles
         /\ next_handle_ \in 1 .. MaxHandles + 1
         /\ \A h \in DOMAIN timeout_ : h < next_handle_ /\ h \in Nat
         /\ \A g, h \in running : g = h
         /\ MaxHandles \in Nat
         /\ DueTimes = DueOf(eq)
<1>1. HandlesOf(eq) = {eq[i].hdl_ : i \in DOMAIN eq}
  BY DEF HandlesOf
<1>2. DueTimes = DueOf(eq)
  BY DEF DueTimes, DueOf, QueuedHandles, HandlesOf
<1>3. now \in Nat
  BY Assumed DEF TimersInv, TimersTypeOK
<1>4. eq \in Seq(Event) /\ GoodQueue(eq)
  BY DEF TimersInv, GoodQueue
<1>5. timeout_ \in [DOMAIN timeout_ -> Delays]
  BY DEF TimersInv, TimersTypeOK
<1>6. DOMAIN timeout_ \subseteq 1 .. MaxHandles /\ next_handle_ \in 1 .. MaxHandles + 1
  BY DEF TimersInv, HandlesInRange
<1>7. /\ {eq[i].hdl_ : i \in DOMAIN eq} = DOMAIN timeout_ \ running
      /\ running \subseteq DOMAIN timeout_
      /\ \A h \in DOMAIN timeout_ : h < next_handle_
  BY DEF TimersInv, EachTimerOnce
<1>8. \A g, h \in running : g = h
  BY DEF TimersInv, OneRuns
<1>9. MaxHandles \in Nat
  BY Assumed
<1>10. \A h \in DOMAIN timeout_ : h \in Nat
  BY <1>6, <1>9
<1> QED
  BY <1>1, <1>2, <1>3, <1>4, <1>5, <1>6, <1>7, <1>8, <1>9, <1>10

(* The other way round, for the state after a step. *)
LEMMA Established ==
  ASSUME /\ now' \in Clock
         /\ GoodQueue(eq')
         /\ timeout_' \in [DOMAIN timeout_' -> Delays]
         /\ HandlesOf(eq') = DOMAIN timeout_' \ running'
         /\ running' \subseteq DOMAIN timeout_'
         /\ DOMAIN timeout_' \subseteq 1 .. MaxHandles
         /\ next_handle_' \in 1 .. MaxHandles + 1
         /\ \A h \in DOMAIN timeout_' : h < next_handle_'
         /\ \A g, h \in running' : g = h
  PROVE  TimersInv' /\ DueTimes' = DueOf(eq')
<1>1. MaxHandles \in Nat
  BY Assumed
<1>2. TimersTypeOK'
  <2>1. next_handle_' \in Nat \ {0}
    BY <1>1
  <2>2. DOMAIN timeout_' \subseteq Nat
    BY <1>1
  <2> QED
    BY <2>1, <2>2 DEF TimersTypeOK, GoodQueue
<1>3. EachTimerOnce'
  BY DEF EachTimerOnce, HandlesOf, GoodQueue, Unique
<1>4. DueTimes' = DueOf(eq')
  BY DEF DueTimes, DueOf, QueuedHandles, HandlesOf
<1> QED
  BY <1>2, <1>3, <1>4 DEF TimersInv, HandlesInRange, OneRuns

-----------------------------------------------------------------------------
(* One lemma per action: the invariant holds after it, and it is a step of *)
(* the service.                                                            *)
LEMMA AddTimerStep ==
  ASSUME TimersInv, NEW d \in Delays, AddTimer(d)
  PROVE  TimersInv' /\ next_handle_ \in 1 .. MaxHandles /\ Service!Add(next_handle_, d)
<1> DEFINE h == next_handle_
<1> USE Facts
<1>1. /\ h \in 1 .. MaxHandles /\ h \in Nat /\ d \in Nat
      /\ h \notin DOMAIN timeout_ /\ h \notin HandlesOf(eq)
  BY Assumed DEF AddTimer
<1>2. /\ timeout_' = [x \in DOMAIN timeout_ \cup {h} |-> IF x = h THEN d ELSE timeout_[x]]
      /\ eq' = EqAddAfter(eq, h, d)
      /\ next_handle_' = h + 1 /\ now' = now /\ running' = running
  BY DEF AddTimer
<1>3. /\ GoodQueue(eq')
      /\ HandlesOf(eq') = HandlesOf(eq) \cup {h}
      /\ DueOf(eq') = DueAdded(eq, h, d)
  <2> DEFINE r == EqAddAfter(eq, h, d)
  <2>0. GoodQueue(eq) /\ now \in Nat
    BY Facts
  <2>1. /\ GoodQueue(r)
        /\ HandlesOf(r) = HandlesOf(eq) \cup {h}
        /\ DueOf(r) = DueAdded(eq, h, d)
    BY <1>1, <2>0, QueueGrows, Zenon
  <2> QED
    BY <2>1, <1>2, Zenon
<1>4. DOMAIN timeout_' = DOMAIN timeout_ \cup {h} /\ timeout_' \in [DOMAIN timeout_' -> Delays]
  BY <1>2
<1>5. now' \in Clock
  BY <1>2 DEF TimersInv, TimersTypeOK
<1>6. /\ HandlesOf(eq') = DOMAIN timeout_' \ running'
      /\ running' \subseteq DOMAIN timeout_'
      /\ DOMAIN timeout_' \subseteq 1 .. MaxHandles
      /\ \A g, k \in running' : g = k
  BY <1>1, <1>2, <1>3, <1>4
<1>7. next_handle_' \in 1 .. MaxHandles + 1 /\ \A x \in DOMAIN timeout_' : x < next_handle_'
  BY <1>1, <1>2, <1>4
<1>8. TimersInv' /\ DueTimes' = DueOf(eq')
  BY <1>3, <1>4, <1>5, <1>6, <1>7, Established
<1>9. DOMAIN DueTimes = HandlesOf(eq)
  BY DEF DueOf
<1>10. Service!Add(h, d)
  BY <1>1, <1>2, <1>3, <1>8, <1>9 DEF Service!Add, Service!After, DueAdded
<1> QED
  BY <1>1, <1>8, <1>10

LEMMA RemoveTimerStep ==
  ASSUME TimersInv, NEW h \in DOMAIN timeout_, RemoveTimer(h)
  PROVE  TimersInv' /\ h \in 1 .. MaxHandles /\ Service!Remove(h)
<1> USE Facts
<1>1. PICK i \in Places(h) : eq' = EqRemove(eq, i)
  BY DEF RemoveTimer
<1>2. i \in DOMAIN eq /\ eq[i].hdl_ = h /\ h \in HandlesOf(eq)
  BY <1>1 DEF Places, HandlesOf
<1>3. /\ GoodQueue(eq')
      /\ HandlesOf(eq') = HandlesOf(eq) \ {h}
      /\ DueOf(eq') = [x \in HandlesOf(eq) \ {h} |-> DueOf(eq)[x]]
  BY <1>1, <1>2, QueueShrinks
<1>4. /\ timeout_' = [x \in DOMAIN timeout_ \ {h} |-> timeout_[x]]
      /\ next_handle_' = next_handle_ /\ now' = now /\ running' = running
  BY DEF RemoveTimer
<1>5. DOMAIN timeout_' = DOMAIN timeout_ \ {h} /\ timeout_' \in [DOMAIN timeout_' -> Delays]
  BY <1>4
<1>6. now' \in Clock
  BY <1>4 DEF TimersInv, TimersTypeOK
<1>7. /\ HandlesOf(eq') = DOMAIN timeout_' \ running'
      /\ running' \subseteq DOMAIN timeout_'
      /\ DOMAIN timeout_' \subseteq 1 .. MaxHandles
      /\ next_handle_' \in 1 .. MaxHandles + 1
      /\ \A x \in DOMAIN timeout_' : x < next_handle_'
      /\ \A g, k \in running' : g = k
  BY <1>2, <1>3, <1>4, <1>5
<1>8. TimersInv' /\ DueTimes' = DueOf(eq')
  BY <1>3, <1>5, <1>6, <1>7, Established
<1>9. DOMAIN DueTimes = HandlesOf(eq)
  BY DEF DueOf
<1>10. Service!Remove(h)
  BY <1>2, <1>3, <1>4, <1>8, <1>9 DEF Service!Remove
<1> QED
  BY <1>8, <1>10

LEMMA StartNextTimerStep ==
  ASSUME TimersInv, StartNextTimer
  PROVE  TimersInv' /\ \E h \in 1 .. MaxHandles : Service!Start(h)
<1> DEFINE h == Head(eq).hdl_
<1> USE Facts
<1>1. /\ running = {} /\ eq # <<>> /\ running' = {h} /\ eq' = Tail(eq)
      /\ timeout_' = timeout_ /\ next_handle_' = next_handle_ /\ now' = now
  BY DEF StartNextTimer
<1>2. /\ 1 \in DOMAIN eq /\ Head(eq) = eq[1] /\ Tail(eq) = EqRemove(eq, 1)
      /\ \A x \in HandlesOf(eq) : DueOf(eq)[h] <= DueOf(eq)[x]
  BY <1>1, QueueStarts
<1>3. h \in HandlesOf(eq)
  BY <1>2 DEF HandlesOf
<1>4. /\ GoodQueue(eq')
      /\ HandlesOf(eq') = HandlesOf(eq) \ {h}
      /\ DueOf(eq') = [x \in HandlesOf(eq) \ {h} |-> DueOf(eq)[x]]
  <2>1. eq' = EqRemove(eq, 1) /\ h = eq[1].hdl_
    BY <1>1, <1>2
  <2> DEFINE r == EqRemove(eq, 1)
  <2>2. /\ GoodQueue(r)
        /\ HandlesOf(r) = HandlesOf(eq) \ {eq[1].hdl_}
        /\ DueOf(r) = [x \in HandlesOf(eq) \ {eq[1].hdl_} |-> DueOf(eq)[x]]
    BY <1>2, QueueShrinks, Zenon
  <2> HIDE DEF h
  <2> QED
    BY <2>1, <2>2, Zenon
<1>5. now' \in Clock
  BY <1>1 DEF TimersInv, TimersTypeOK
<1> HIDE DEF h
<1>6. /\ timeout_' \in [DOMAIN timeout_' -> Delays]
      /\ HandlesOf(eq') = DOMAIN timeout_' \ running'
      /\ running' \subseteq DOMAIN timeout_'
      /\ DOMAIN timeout_' \subseteq 1 .. MaxHandles
      /\ next_handle_' \in 1 .. MaxHandles + 1
      /\ \A x \in DOMAIN timeout_' : x < next_handle_'
      /\ \A g, k \in running' : g = k
  BY <1>1, <1>3, <1>4
<1>7. TimersInv' /\ DueTimes' = DueOf(eq')
  BY <1>4, <1>5, <1>6, Established
<1>8. DOMAIN DueTimes = HandlesOf(eq)
  BY DEF DueOf
<1>9. h \in Service!Earliest
  BY <1>2, <1>3, <1>8 DEF Service!Earliest
<1>10. h \in 1 .. MaxHandles /\ Service!Start(h)
  BY <1>1, <1>3, <1>4, <1>7, <1>8, <1>9 DEF Service!Start
<1> QED
  BY <1>7, <1>10

(* The two ways of re-arming a timer. *)
LEMMA RearmStep ==
  ASSUME TimersInv, NEW h \in running, NEW d \in Delays,
         timeout_' = [timeout_ EXCEPT ![h] = d], eq' = EqAddAfter(eq, h, d),
         running' = {}, UNCHANGED <<now, next_handle_>>
  PROVE  TimersInv' /\ h \in 1 .. MaxHandles /\ Service!Rearm(h, d)
<1> USE Facts
<1>1. h \in Nat /\ d \in Nat /\ h \notin HandlesOf(eq) /\ running = {h} /\ h \in DOMAIN timeout_
  BY Assumed
<1>2. /\ GoodQueue(eq')
      /\ HandlesOf(eq') = HandlesOf(eq) \cup {h}
      /\ DueOf(eq') = DueAdded(eq, h, d)
  <2> DEFINE r == EqAddAfter(eq, h, d)
  <2>0. GoodQueue(eq) /\ now \in Nat
    BY Facts
  <2>1. /\ GoodQueue(r)
        /\ HandlesOf(r) = HandlesOf(eq) \cup {h}
        /\ DueOf(r) = DueAdded(eq, h, d)
    BY <1>1, <2>0, QueueGrows, Zenon
  <2> QED
    BY <2>1, Zenon
<1>3. DOMAIN timeout_' = DOMAIN timeout_ /\ timeout_' \in [DOMAIN timeout_' -> Delays]
  BY <1>1
<1>4. now' \in Clock
  BY DEF TimersInv, TimersTypeOK
<1>5. /\ HandlesOf(eq') = DOMAIN timeout_' \ running'
      /\ running' \subseteq DOMAIN timeout_'
      /\ DOMAIN timeout_' \subseteq 1 .. MaxHandles
      /\ next_handle_' \in 1 .. MaxHandles + 1
      /\ \A x \in DOMAIN timeout_' : x < next_handle_'
      /\ \A g, k \in running' : g = k
  BY <1>1, <1>2, <1>3
<1>6. TimersInv' /\ DueTimes' = DueOf(eq')
  BY <1>2, <1>3, <1>4, <1>5, Established
<1>7. DOMAIN DueTimes = HandlesOf(eq)
  BY DEF DueOf
<1>8. Service!Rearm(h, d)
  BY <1>1, <1>2, <1>6, <1>7 DEF Service!Rearm, Service!After, DueAdded
<1> QED
  BY <1>1, <1>6, <1>8

LEMMA KeepTimerStep ==
  ASSUME TimersInv, KeepTimer
  PROVE  TimersInv' /\ \E h \in 1 .. MaxHandles, d \in Delays : Service!Rearm(h, d)
<1>1. PICK h \in running : /\ eq' = EqAddAfter(eq, h, timeout_[h]) /\ running' = {}
                           /\ UNCHANGED <<now, timeout_, next_handle_>>
  BY DEF KeepTimer
<1>2. timeout_[h] \in Delays /\ timeout_' = [timeout_ EXCEPT ![h] = timeout_[h]]
  BY <1>1, Facts
<1>3. TimersInv' /\ h \in 1 .. MaxHandles /\ Service!Rearm(h, timeout_[h])
  BY <1>1, <1>2, RearmStep
<1> QED
  BY <1>2, <1>3

LEMMA ChangeTimerStep ==
  ASSUME TimersInv, NEW d \in Delays, ChangeTimer(d)
  PROVE  TimersInv' /\ \E h \in 1 .. MaxHandles : Service!Rearm(h, d)
<1>1. PICK h \in running : /\ timeout_' = [timeout_ EXCEPT ![h] = d]
                           /\ eq' = EqAddAfter(eq, h, d) /\ running' = {}
                           /\ UNCHANGED <<now, next_handle_>>
  BY DEF ChangeTimer
<1> QED
  BY <1>1, RearmStep

LEMMA DiscardTimerStep ==
  ASSUME TimersInv, DiscardTimer
  PROVE  TimersInv' /\ \E h \in 1 .. MaxHandles : Service!Discard(h)
<1> USE Facts
<1>1. PICK h \in running : /\ timeout_' = [x \in DOMAIN timeout_ \ {h} |-> timeout_[x]]
                           /\ running' = {} /\ UNCHANGED <<now, eq, next_handle_>>
  BY DEF DiscardTimer
<1>2. running = {h} /\ h \in 1 .. MaxHandles
  OBVIOUS
<1>3. DOMAIN timeout_' = DOMAIN timeout_ \ {h} /\ timeout_' \in [DOMAIN timeout_' -> Delays]
  BY <1>1
<1>4. now' \in Clock /\ GoodQueue(eq')
  BY <1>1 DEF TimersInv, TimersTypeOK
<1>5. /\ HandlesOf(eq') = DOMAIN timeout_' \ running'
      /\ running' \subseteq DOMAIN timeout_'
      /\ DOMAIN timeout_' \subseteq 1 .. MaxHandles
      /\ next_handle_' \in 1 .. MaxHandles + 1
      /\ \A x \in DOMAIN timeout_' : x < next_handle_'
      /\ \A g, k \in running' : g = k
  BY <1>1, <1>2, <1>3
<1>6. TimersInv' /\ DueTimes' = DueOf(eq')
  BY <1>3, <1>4, <1>5, Established
<1>7. DueTimes' = DueTimes
  BY <1>1, <1>6
<1>8. Service!Discard(h)
  BY <1>1, <1>2, <1>7 DEF Service!Discard
<1> QED
  BY <1>2, <1>6, <1>8

LEMMA SetClockStep ==
  ASSUME TimersInv, SetClock
  PROVE  TimersInv' /\ Service!SetClock
<1>1. now' \in Clock /\ UNCHANGED <<eq, timeout_, next_handle_, running>>
  BY DEF SetClock
<1>2. TimersInv'
  BY <1>1 DEF TimersInv, TimersTypeOK, EachTimerOnce, HandlesInRange, OneRuns
<1>3. DueTimes' = DueTimes
  BY <1>1 DEF DueTimes, QueuedHandles
<1> QED
  BY <1>1, <1>2, <1>3 DEF Service!SetClock

LEMMA NextStep ==
  ASSUME TimersInv, TimersNext
  PROVE  TimersInv' /\ Service!ServiceNext
<1>1. CASE SetClock
  BY <1>1, SetClockStep DEF Service!ServiceNext
<1>2. CASE \E d \in Delays : AddTimer(d)
  BY <1>2, AddTimerStep DEF Service!ServiceNext
<1>3. CASE \E d \in Delays : ChangeTimer(d)
  BY <1>3, ChangeTimerStep DEF Service!ServiceNext
<1>4. CASE \E h \in DOMAIN timeout_ : RemoveTimer(h)
  BY <1>4, RemoveTimerStep DEF Service!ServiceNext
<1>5. CASE StartNextTimer
  BY <1>5, StartNextTimerStep DEF Service!ServiceNext
<1>6. CASE KeepTimer
  BY <1>6, KeepTimerStep DEF Service!ServiceNext
<1>7. CASE DiscardTimer
  BY <1>7, DiscardTimerStep DEF Service!ServiceNext
<1> QED
  BY <1>1, <1>2, <1>3, <1>4, <1>5, <1>6, <1>7 DEF TimersNext

LEMMA StutterStep ==
  ASSUME UNCHANGED timersVars
  PROVE  (TimersInv => TimersInv') /\ UNCHANGED Service!serviceVars
<1>1. /\ now' = now /\ eq' = eq /\ timeout_' = timeout_
      /\ next_handle_' = next_handle_ /\ running' = running
  BY DEF timersVars
<1>2. TimersInv => TimersInv'
  BY <1>1 DEF TimersInv, TimersTypeOK, EachTimerOnce, HandlesInRange, OneRuns
<1>3. DueTimes' = DueTimes
  BY <1>1 DEF DueTimes, QueuedHandles
<1> QED
  BY <1>1, <1>2, <1>3 DEF Service!serviceVars

LEMMA TimersInvariant == TimersSpec => []TimersInv
<1>1. TimersInv /\ [TimersNext]_timersVars => TimersInv'
  BY NextStep, StutterStep
<1> QED
  BY <1>1, InitInv, PTL DEF TimersSpec

(* The library's variables keep their types, whatever is added, removed or *)
(* re-armed, and whatever the clock does (timers.cc:307-401).              *)
THEOREM TimersTypeCorrect == TimersSpec => []TimersTypeOK
<1>1. TimersInv => TimersTypeOK
  BY DEF TimersInv
<1> QED
  BY <1>1, TimersInvariant, PTL

(* The event list is always in the order of expiration times, although it  *)
(* is sorted by pairs of which two may stand for the same time             *)
(* (timers.cc:105-136, 151-190).                                           *)
THEOREM QueueSorted == TimersSpec => []KeptSorted
<1>1. TimersInv => KeptSorted
  BY DEF TimersInv, GoodQueue, Sorted, KeptSorted
<1> QED
  BY <1>1, TimersInvariant, PTL

(* Every timer that exists is in the list once or is being executed: none  *)
(* is lost, doubled or used after its deletion (timers.cc:307-401).        *)
THEOREM TimersKept == TimersSpec => []EachTimerOnce
<1>1. TimersInv => EachTimerOnce
  BY DEF TimersInv
<1> QED
  BY <1>1, TimersInvariant, PTL

(* NextTimerTime says how long the head has still to wait, and 0 exactly   *)
(* when its time has come (timers.cc:115-124, 367).                        *)
THEOREM TimeLeftCorrect == TimersSpec => []TimeLeftIsRight
<1>1. ASSUME TimersInv, eq # <<>>
      PROVE  Micros(NextTimerTime) =
               IF Micros(Head(eq).tv_) <= now THEN 0 ELSE Micros(Head(eq).tv_) - now
  <2>1. now \in Nat /\ GoodQueue(eq)
    BY <1>1, Facts
  <2>2. Normal(Head(eq).tv_)
    BY <1>1, <2>1, QueueStarts DEF GoodQueue, AllNormal
  <2>3. Normal(GetTime) /\ GetTime.tv_usec < MicrosPerSecond /\ Micros(GetTime) = now
    BY <2>1, GetTimeIsNow
  <2>4. NextTimerTime = TimevalSub(Head(eq).tv_, GetTime)
    BY <1>1, SMT DEF NextTimerTime
  <2> QED
    BY <2>2, <2>3, <2>4, SubtractionIsRight
<1>2. TimersInv => TimeLeftIsRight
  BY <1>1 DEF TimeLeftIsRight
<1> QED
  BY <1>2, TimersInvariant, PTL

(* The list implements the service: a timer runs when no other is due      *)
(* earlier, is re-armed at the clock's reading plus its timeout, and       *)
(* leaves only by being removed or discarded (timers.hh:59-66, 114-130).   *)
THEOREM TimersImplementService == TimersSpec => ImplementsService
<1>1. TimersInit => Service!ServiceInit
  <2>1. TimersInit => DueTimes = DueOf(<<>>)
    BY DEF TimersInit, DueTimes, DueOf, QueuedHandles, HandlesOf
  <2> QED
    BY <2>1, EmptyQueue DEF TimersInit, Service!ServiceInit
<1>2. TimersInv /\ [TimersNext]_timersVars => [Service!ServiceNext]_Service!serviceVars
  BY NextStep, StutterStep
<1> QED
  BY <1>1, <1>2, TimersInvariant, PTL DEF TimersSpec, ImplementsService
=============================================================================
