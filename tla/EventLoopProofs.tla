-------------------------- MODULE EventLoopProofs --------------------------
(***************************************************************************)
(* Proofs about the loop of a process, for any timers and delays, any      *)
(* sizes of datagrams and buffer, and any number of datagrams waiting.     *)
(***************************************************************************)
EXTENDS EventLoop, QueueProofs, FiniteSetTheorems

Timer == [name : Names, left : Int]

Ordered(q) ==
  \A i, j \in DOMAIN q : i < j => q[i].name # q[j].name /\ q[i].left <= q[j].left

GoodEvents(q) == q \in Seq(Timer) /\ Ordered(q)

NamesOf(q) == {q[i].name : i \in DOMAIN q}

(* Every timer of q is in r, with as much time left. *)
Keeps(q, r) == \A i \in DOMAIN q : \E j \in DOMAIN r : r[j] = q[i]

(* Of the timers of r, those that are not in q have time left, or never do. *)
Adds(q, r) ==
  \A j \in DOMAIN r :
    \/ r[j].left > 0
    \/ r[j].name \in Instant
    \/ \E i \in DOMAIN q : q[i] = r[j]

ExpiredIn(q) == {q[i].name : i \in {i \in DOMAIN q : q[i].left <= 0}}

LEMMA DelayType == delay \in Delays => \A t \in Names : delay[t] \in Nat
BY EventLoopAssumption

LEMMA EventsDomain ==
  ASSUME NEW q \in Seq(Timer)
  PROVE  /\ Len(q) \in Nat /\ DOMAIN q = 1 .. Len(q)
         /\ \A i \in 1 .. Len(q) : q[i] \in Timer /\ q[i].name \in Names /\ q[i].left \in Int
<1>1. Len(q) \in Nat /\ DOMAIN q = 1 .. Len(q)
  BY LenProperties
<1>2. \A i \in 1 .. Len(q) : q[i] \in Timer
  BY ElementOfSeq
<1> QED
  BY <1>1, <1>2 DEF Timer

(* A timer that is added while it is not queued. *)
LEMMA EventsGrow ==
  ASSUME delay \in Delays, NEW q, GoodEvents(q), NEW t \in Names, t \notin NamesOf(q)
  PROVE  LET r == AddTimer(q, t) IN
         /\ GoodEvents(r)
         /\ NamesOf(r) = NamesOf(q) \cup {t}
         /\ Keeps(q, r) /\ Adds(q, r)
<1> DEFINE Stop == {i \in 1 .. Len(q) : delay[t] <= q[i].left}
           Place(i) == /\ \A j \in 1 .. i - 1 : q[j].left < delay[t]
                       /\ i <= Len(q) => delay[t] <= q[i].left
           p == CHOOSE i \in 1 .. Len(q) + 1 : Place(i)
           n == [name |-> t, left |-> delay[t]]
           r == AddTimer(q, t)
<1>1. /\ q \in Seq(Timer) /\ Len(q) \in Nat /\ DOMAIN q = 1 .. Len(q)
      /\ \A i \in 1 .. Len(q) : q[i] \in Timer /\ q[i].name \in Names /\ q[i].left \in Int
  BY EventsDomain DEF GoodEvents
<1>2. delay[t] \in Nat
  BY DelayType
<1>3. n \in Timer /\ n.name = t /\ n.left = delay[t]
  BY <1>2 DEF Timer
<1>4. Stop \in SUBSET (1 .. Len(q))
  OBVIOUS
<1> HIDE DEF Stop
<1>5. PICK k \in 1 .. Len(q) + 1 :
         /\ \A j \in 1 .. k - 1 : j \notin Stop
         /\ k <= Len(q) => k \in Stop
  BY <1>1, <1>4, WalkStops
<1>6. Place(k)
  <2>1. ASSUME NEW j \in 1 .. k - 1
        PROVE  q[j].left < delay[t]
    <3>1. j \in 1 .. Len(q) /\ ~(delay[t] <= q[j].left)
      BY <1>1, <1>5 DEF Stop
    <3> QED
      BY <1>1, <1>2, <3>1
  <2>2. k <= Len(q) => delay[t] <= q[k].left
    BY <1>5 DEF Stop
  <2> QED
    BY <2>1, <2>2
<1>7. p \in 1 .. Len(q) + 1 /\ Place(p)
  BY <1>6
<1>8. r = InsertAt(q, p, n)
  BY DEF AddTimer
<1> HIDE DEF p, r, n
<1>9. /\ r \in Seq(Timer)
      /\ Len(r) = Len(q) + 1
      /\ \A j \in 1 .. Len(q) + 1 :
           r[j] = IF j < p THEN q[j] ELSE IF j = p THEN n ELSE q[j - 1]
  <2>1. q \in Seq(Timer) /\ n \in Timer /\ p \in 1 .. Len(q) + 1
    BY <1>1, <1>3, <1>7
  <2>2. /\ InsertAt(q, p, n) \in Seq(Timer)
        /\ Len(InsertAt(q, p, n)) = Len(q) + 1
        /\ \A j \in 1 .. Len(q) + 1 :
             InsertAt(q, p, n)[j] = IF j < p THEN q[j] ELSE IF j = p THEN n ELSE q[j - 1]
    BY <2>1, InsertAtProperties, SMTT(30)
  <2> QED
    BY <2>2, <1>8
<1>10. DOMAIN r = 1 .. Len(q) + 1
  BY <1>9, EventsDomain
<1>11. \A j \in 1 .. Len(q) + 1 :
         /\ j < p => j \in 1 .. Len(q) /\ r[j] = q[j] /\ q[j].left < delay[t]
         /\ j = p => r[j] = n
         /\ j > p => j - 1 \in 1 .. Len(q) /\ j - 1 >= p /\ r[j] = q[j - 1]
  BY <1>1, <1>7, <1>9
<1>12. \A i \in 1 .. Len(q) :
         /\ i < p => i \in 1 .. Len(q) + 1 /\ r[i] = q[i]
         /\ i >= p => i + 1 \in 1 .. Len(q) + 1 /\ r[i + 1] = q[i]
  BY <1>1, <1>7, <1>9
<1>13. \A i, j \in 1 .. Len(q) : i < j => q[i].name # q[j].name /\ q[i].left <= q[j].left
  BY <1>1 DEF GoodEvents, Ordered
<1>14. \A i \in 1 .. Len(q) : q[i].name # t /\ (i >= p => delay[t] <= q[i].left)
  BY <1>1, <1>2, <1>7, <1>13 DEF NamesOf
<1>15. Ordered(r)
  <2> SUFFICES ASSUME NEW i \in 1 .. Len(q) + 1, NEW j \in 1 .. Len(q) + 1, i < j
               PROVE  r[i].name # r[j].name /\ r[i].left <= r[j].left
    BY <1>10 DEF Ordered
  <2>1. CASE j < p
    <3>1. i < p /\ j < p
      BY <2>1, <1>1, <1>7
    <3>2. r[i] = q[i] /\ r[j] = q[j] /\ i \in 1 .. Len(q) /\ j \in 1 .. Len(q)
      BY <3>1, <1>11
    <3> QED
      BY <3>2, <1>13
  <2>2. CASE i < p /\ j = p
    BY <2>2, <1>1, <1>2, <1>3, <1>7, <1>11, <1>14
  <2>3. CASE i < p /\ j > p
    <3>1. r[i] = q[i] /\ r[j] = q[j - 1] /\ i \in 1 .. Len(q) /\ j - 1 \in 1 .. Len(q) /\ i < j - 1
      BY <2>3, <1>1, <1>7, <1>11
    <3> QED
      BY <3>1, <1>13
  <2>4. CASE i = p
    <3>1. r[i] = n /\ r[j] = q[j - 1] /\ j - 1 \in 1 .. Len(q) /\ j - 1 >= p
      BY <2>4, <1>1, <1>7, <1>11
    <3> QED
      BY <3>1, <1>3, <1>14
  <2>5. CASE i > p
    <3>1. /\ r[i] = q[i - 1] /\ r[j] = q[j - 1]
          /\ i - 1 \in 1 .. Len(q) /\ j - 1 \in 1 .. Len(q) /\ i - 1 < j - 1
      BY <2>5, <1>1, <1>7, <1>11
    <3> QED
      BY <3>1, <1>13
  <2> QED
    BY <2>1, <2>2, <2>3, <2>4, <2>5, <1>1, <1>7
<1>16. Keeps(q, r)
  <2> SUFFICES ASSUME NEW i \in 1 .. Len(q)
               PROVE  \E j \in 1 .. Len(q) + 1 : r[j] = q[i]
    BY <1>1, <1>10 DEF Keeps
  <2>1. i < p \/ i >= p
    BY <1>7
  <2> QED
    BY <2>1, <1>12
<1>17. NamesOf(r) = NamesOf(q) \cup {t}
  <2>1. ASSUME NEW j \in 1 .. Len(q) + 1
        PROVE  r[j].name \in NamesOf(q) \cup {t}
    <3>1. \/ r[j] = n
          \/ \E i \in 1 .. Len(q) : r[j] = q[i]
      BY <1>1, <1>7, <1>11
    <3> QED
      BY <3>1, <1>1, <1>3 DEF NamesOf
  <2>2. ASSUME NEW i \in 1 .. Len(q)
        PROVE  q[i].name \in NamesOf(r)
    BY <1>1, <1>10, <1>16 DEF NamesOf, Keeps
  <2>3. r[p].name = t /\ p \in 1 .. Len(q) + 1
    BY <1>3, <1>7, <1>11
  <2> QED
    BY <1>1, <1>10, <2>1, <2>2, <2>3 DEF NamesOf
<1>18. Adds(q, r)
  <2> SUFFICES ASSUME NEW j \in 1 .. Len(q) + 1
               PROVE  \/ r[j].left > 0
                      \/ r[j].name \in Instant
                      \/ \E i \in 1 .. Len(q) : q[i] = r[j]
    BY <1>1, <1>10 DEF Adds
  <2>1. n.left > 0 \/ n.name \in Instant
    BY <1>2, <1>3 DEF Instant
  <2>2. j < p \/ j = p \/ j > p
    BY <1>1, <1>7
  <2> QED
    BY <2>1, <2>2, <1>11
<1> QED
  BY <1>9, <1>15, <1>16, <1>17, <1>18 DEF GoodEvents, r

(* The head is taken off. *)
LEMMA EventsShrink ==
  ASSUME NEW q, GoodEvents(q), q # <<>>
  PROVE  /\ Head(q).name \in Names
         /\ GoodEvents(Tail(q))
         /\ Head(q).name \notin NamesOf(Tail(q))
         /\ NamesOf(q) = NamesOf(Tail(q)) \cup {Head(q).name}
         /\ \A i \in DOMAIN q : q[i] = Head(q) \/ \E j \in DOMAIN Tail(q) : Tail(q)[j] = q[i]
         /\ Adds(q, Tail(q))
<1> DEFINE r == Tail(q)
<1>1. /\ q \in Seq(Timer) /\ Len(q) \in Nat /\ DOMAIN q = 1 .. Len(q)
      /\ \A i \in 1 .. Len(q) : q[i] \in Timer /\ q[i].name \in Names /\ q[i].left \in Int
  BY EventsDomain DEF GoodEvents
<1>2. /\ r \in Seq(Timer) /\ Len(r) = Len(q) - 1
      /\ \A i \in 1 .. Len(r) : r[i] = q[i + 1]
  BY <1>1, HeadTailProperties
<1>3. DOMAIN r = 1 .. Len(q) - 1 /\ \A i \in 1 .. Len(q) - 1 : r[i] = q[i + 1]
  BY <1>2, EventsDomain
<1>4. 1 \in 1 .. Len(q) /\ Head(q) = q[1]
  BY <1>1, EmptySeq, HeadTailProperties
<1> HIDE DEF r
<1>5. \A i, j \in 1 .. Len(q) : i < j => q[i].name # q[j].name /\ q[i].left <= q[j].left
  BY <1>1 DEF GoodEvents, Ordered
<1>6. GoodEvents(r)
  <2> SUFFICES ASSUME NEW i \in 1 .. Len(q) - 1, NEW j \in 1 .. Len(q) - 1, i < j
               PROVE  r[i].name # r[j].name /\ r[i].left <= r[j].left
    BY <1>2, <1>3 DEF GoodEvents, Ordered
  <2>1. /\ r[i] = q[i + 1] /\ r[j] = q[j + 1]
        /\ i + 1 \in 1 .. Len(q) /\ j + 1 \in 1 .. Len(q) /\ i + 1 < j + 1
    BY <1>1, <1>3
  <2> QED
    BY <2>1, <1>5
<1>7. \A i \in 1 .. Len(q) : i # 1 => i - 1 \in 1 .. Len(q) - 1 /\ r[i - 1] = q[i]
  BY <1>1, <1>3
<1>8. Head(q).name \notin NamesOf(r)
  BY <1>1, <1>3, <1>4, <1>5 DEF NamesOf
<1>9. NamesOf(q) = NamesOf(r) \cup {Head(q).name}
  <2>1. ASSUME NEW j \in 1 .. Len(q) - 1
        PROVE  j + 1 \in 1 .. Len(q) /\ r[j] = q[j + 1]
    BY <1>1, <1>3
  <2>2. \A j \in 1 .. Len(q) - 1 : r[j].name \in NamesOf(q)
    BY <2>1, <1>1 DEF NamesOf
  <2>3. \A i \in 1 .. Len(q) : q[i].name \in NamesOf(r) \cup {Head(q).name}
    BY <1>3, <1>4, <1>7 DEF NamesOf
  <2>4. Head(q).name \in NamesOf(q)
    BY <1>1, <1>4 DEF NamesOf
  <2> QED
    BY <1>1, <1>3, <2>2, <2>3, <2>4 DEF NamesOf
<1>10. \A i \in DOMAIN q : q[i] = Head(q) \/ \E j \in DOMAIN r : r[j] = q[i]
  BY <1>1, <1>3, <1>4, <1>7
<1>11. Adds(q, r)
  <2>1. ASSUME NEW j \in 1 .. Len(q) - 1
        PROVE  j + 1 \in 1 .. Len(q) /\ r[j] = q[j + 1]
    BY <1>1, <1>3
  <2> QED
    BY <2>1, <1>1, <1>3 DEF Adds
<1> QED
  BY <1>1, <1>4, <1>6, <1>8, <1>9, <1>10, <1>11 DEF r
-----------------------------------------------------------------------------
(* The invariant: the queue, which always holds the periodic timers but    *)
(* the one whose callback runs, and the packet that is put together.       *)
QueueInv ==
  /\ GoodEvents(eq)
  /\ Periodic \subseteq NamesOf(eq) \cup running
  /\ NamesOf(eq) \cap running = {}

RunningInv == \E t \in Names : running = IF at = "callback" THEN {t} ELSE {}

(* Only a client's packet of more than two buffers may be overrun. *)
TooLong == kind = "client" /\ pkt.size > 2 * BufferSize

(* While a rest is awaited, the last write was of a whole buffer, or of    *)
(* less than what is awaited.                                              *)
LastInv ==
  IF kind = "client"
  THEN 8 <= pkt.last /\ (pkt.last = BufferSize \/ pkt.last < pkt.size - BufferSize)
  ELSE pkt.last \in {1, BufferSize}

WritesInv ==
  \A s \in pkt.foreign :
    /\ s.end <= 2 \/ 4 <= s.first
    /\ TooLong \/ s.end <= pkt.size

PacketInv ==
  /\ pkt \in Packet
  /\ WritesInv
  /\ pkt.size <= BufferSize =>
       at = "handle" /\ pkt.foreign = {} /\ pkt.total = pkt.size /\ pkt.addr = pkt.author
  /\ at = "rest" => BufferSize <= pkt.total /\ pkt.total < pkt.size /\ LastInv
  /\ at = "down" => TooLong

LoopInv ==
  /\ kind \in {"client", "tracker"} /\ delay \in Delays
  /\ socket \in Seq(Datagram)
  /\ at \in {"timers", "callback", "select", "rest", "handle", "down"}
  /\ QueueInv /\ RunningInv
  /\ IF at \in {"timers", "callback", "select"} THEN pkt = NoPacket ELSE PacketInv

LEMMA QueuedAreNames == Queued = NamesOf(eq)
BY DEF Queued, NamesOf

(* A message that is queued. *)
LEMMA MessageKeepsQueue ==
  ASSUME LoopInv, AddMessage
  PROVE  QueueInv' /\ Keeps(eq, eq') /\ Adds(eq, eq')
<1>1. PICK t \in OneShots \ NamesOf(eq) : eq' = AddTimer(eq, t)
  BY QueuedAreNames DEF AddMessage
<1>2. t \in Names /\ t \notin running /\ running' = running
  BY <1>1, EventLoopAssumption DEF AddMessage, LoopInv, RunningInv, Names
<1>3. /\ GoodEvents(eq') /\ NamesOf(eq') = NamesOf(eq) \cup {t}
      /\ Keeps(eq, eq') /\ Adds(eq, eq')
  BY <1>1, <1>2, EventsGrow DEF LoopInv, QueueInv
<1> QED
  BY <1>2, <1>3 DEF LoopInv, QueueInv

(* ExecuteNextTimer takes the head off, and leaves the others as they are. *)
LEMMA ExecuteKeepsQueue ==
  ASSUME LoopInv, at # "callback", ExecuteNextTimer
  PROVE  /\ QueueInv' /\ RunningInv'
         /\ \A i \in DOMAIN eq : eq[i] = Head(eq) \/ \E j \in DOMAIN eq' : eq'[j] = eq[i]
         /\ Adds(eq, eq')
<1>1. /\ eq # <<>> /\ eq' = Tail(eq) /\ running' = {Head(eq).name} /\ at' = "callback"
      /\ GoodEvents(eq) /\ running = {} /\ Periodic \subseteq NamesOf(eq)
  BY DEF ExecuteNextTimer, LoopInv, QueueInv, RunningInv
<1>2. /\ Head(eq).name \in Names /\ GoodEvents(eq') /\ Head(eq).name \notin NamesOf(eq')
      /\ NamesOf(eq) = NamesOf(eq') \cup {Head(eq).name}
      /\ \A i \in DOMAIN eq : eq[i] = Head(eq) \/ \E j \in DOMAIN eq' : eq'[j] = eq[i]
      /\ Adds(eq, eq')
  BY <1>1, EventsShrink
<1>3. QueueInv'
  BY <1>1, <1>2 DEF QueueInv
<1>4. RunningInv'
  BY <1>1, <1>2 DEF RunningInv
<1> QED
  BY <1>2, <1>3, <1>4

(* A callback that is done is queued again if it is periodic. *)
LEMMA CallbackKeepsQueue ==
  ASSUME LoopInv, CallbackDone
  PROVE  /\ QueueInv' /\ RunningInv'
         /\ Keeps(eq, eq') /\ Adds(eq, eq')
<1>1. PICK t \in running : eq' = IF t \in Periodic THEN AddTimer(eq, t) ELSE eq
  BY DEF CallbackDone
<1>2. /\ running = {t} /\ t \in Names /\ running' = {} /\ at' = "timers"
      /\ GoodEvents(eq) /\ t \notin NamesOf(eq) /\ Periodic \subseteq NamesOf(eq) \cup {t}
      /\ delay \in Delays
  BY <1>1 DEF CallbackDone, LoopInv, QueueInv, RunningInv
<1>3. /\ GoodEvents(eq') /\ Keeps(eq, eq') /\ Adds(eq, eq')
      /\ Periodic \subseteq NamesOf(eq')
  <2>1. CASE t \in Periodic
    <3>1. eq' = AddTimer(eq, t)
      BY <1>1, <2>1
    <3>2. /\ GoodEvents(eq') /\ NamesOf(eq') = NamesOf(eq) \cup {t}
          /\ Keeps(eq, eq') /\ Adds(eq, eq')
      BY <1>2, <3>1, EventsGrow
    <3> QED
      BY <1>2, <3>2
  <2>2. CASE t \notin Periodic
    BY <1>1, <1>2, <2>2 DEF Keeps, Adds
  <2> QED
    BY <2>1, <2>2
<1>4. QueueInv'
  BY <1>2, <1>3 DEF QueueInv
<1>5. RunningInv'
  BY <1>2 DEF RunningInv
<1> QED
  BY <1>3, <1>4, <1>5
-----------------------------------------------------------------------------
LEMMA LoopStarts == LoopInit => LoopInv
<1> SUFFICES ASSUME LoopInit PROVE LoopInv
  OBVIOUS
<1>timers. PICK T \in StartTimers : \E s \in [1 .. Cardinality(T) -> T] :
        /\ T = {s[i] : i \in DOMAIN s}
        /\ \A i, j \in DOMAIN s : i < j => delay[s[i]] <= delay[s[j]]
        /\ eq = [i \in DOMAIN s |-> [name |-> s[i], left |-> delay[s[i]]]]
  BY DEF LoopInit
<1>0. delay \in Delays
  BY DEF LoopInit
<1>1. /\ IsFiniteSet(T) /\ Cardinality(T) \in Nat
      /\ Periodic \subseteq T /\ T \subseteq Names
  <2>1. PICK o \in SUBSET OneShots : T = Periodic \cup o
    <3>1. T = Periodic \/ \E o \in SUBSET OneShots : T = Periodic \cup o
      BY Zenon DEF StartTimers
    <3>2. Periodic = Periodic \cup {} /\ {} \in SUBSET OneShots
      OBVIOUS
    <3> QED
      BY <3>1, <3>2, Zenon
  <2>2. IsFiniteSet(o) /\ IsFiniteSet(Periodic)
    BY <2>1, EventLoopAssumption, FS_Subset
  <2> QED
    BY <2>1, <2>2, FS_Union, FS_CardinalityType DEF Names
<1> DEFINE N == 1 .. Cardinality(T)
<1>2. PICK s \in [N -> T] :
        /\ T = {s[i] : i \in DOMAIN s}
        /\ \A i, j \in DOMAIN s : i < j => delay[s[i]] <= delay[s[j]]
        /\ eq = [i \in DOMAIN s |-> [name |-> s[i], left |-> delay[s[i]]]]
  BY <1>timers
<1>3. DOMAIN s = N /\ DOMAIN eq = N
  BY <1>2
<1>4. \A i \in N : /\ eq[i].name = s[i] /\ s[i] \in T /\ s[i] \in Names
                   /\ eq[i].left = delay[s[i]] /\ eq[i] \in Timer
  <2> SUFFICES ASSUME NEW i \in N
               PROVE  /\ eq[i].name = s[i] /\ s[i] \in T /\ s[i] \in Names
                      /\ eq[i].left = delay[s[i]] /\ eq[i] \in Timer
    OBVIOUS
  <2>1. eq[i] = [name |-> s[i], left |-> delay[s[i]]]
    BY <1>2, <1>3
  <2>2. s[i] \in T /\ s[i] \in Names
    BY <1>1, <1>2
  <2>3. delay[s[i]] \in Int
    BY <1>0, <2>2, DelayType
  <2> QED
    BY <2>1, <2>2, <2>3 DEF Timer
<1>5. s \in Injection(N, T)
  <2>1. s \in Surjection(N, T)
    BY <1>2, <1>3 DEF Surjection
  <2>2. IsFiniteSet(N) /\ Cardinality(N) = Cardinality(T)
    BY <1>1, FS_Interval
  <2> QED
    BY <2>1, <2>2, FS_SurjSameCardinalityImpliesInj
<1>6. eq \in Seq(Timer)
  <2>1. eq \in [1 .. Cardinality(T) -> Timer]
    BY <1>2, <1>3, <1>4
  <2> QED
    BY <2>1, <1>1, SeqDef
<1>7. Ordered(eq)
  <2> SUFFICES ASSUME NEW i \in N, NEW j \in N, i < j
               PROVE  eq[i].name # eq[j].name /\ eq[i].left <= eq[j].left
    BY <1>3 DEF Ordered
  <2>1. s[i] # s[j]
    BY <1>5 DEF Injection, IsInjective
  <2> QED
    BY <2>1, <1>2, <1>3, <1>4
<1>8. Periodic \subseteq NamesOf(eq)
  <2> SUFFICES ASSUME NEW t \in T PROVE t \in NamesOf(eq)
    BY <1>1
  <2>1. PICK i \in N : s[i] = t
    BY <1>2, <1>3
  <2>2. i \in DOMAIN eq /\ eq[i].name = t
    BY <2>1, <1>3, <1>4
  <2> QED
    BY <2>2 DEF NamesOf
<1>9. <<>> \in Seq(Datagram)
  BY EmptySeq
<1> QED
  <2>1. /\ kind \in {"client", "tracker"} /\ socket = <<>>
        /\ pkt = NoPacket /\ at = "timers" /\ running = {}
    BY Zenon DEF LoopInit
  <2>2. QueueInv
    BY <1>6, <1>7, <1>8, <2>1, Zenon DEF QueueInv, GoodEvents
  <2>3. RunningInv
    BY <2>1, EventLoopAssumption DEF RunningInv, Names
  <2> QED
    BY <1>0, <2>1, <2>2, <2>3, <1>9, Zenon DEF LoopInv

(* Time passes for all timers alike, but those that are overdue. *)
LEMMA TickKeepsQueue ==
  ASSUME QueueInv, Tick
  PROVE  /\ QueueInv'
         /\ DOMAIN eq' = DOMAIN eq
         /\ \A i \in DOMAIN eq :
              eq'[i].name = eq[i].name /\ (eq[i].left > 0 => eq'[i].left < eq[i].left)
<1> DEFINE Less(n) == IF n < 0 THEN n ELSE n - 1
<1>1. /\ Len(eq) \in Nat /\ DOMAIN eq = 1 .. Len(eq)
      /\ \A i \in DOMAIN eq : eq[i] \in Timer /\ eq[i].name \in Names /\ eq[i].left \in Int
  BY EventsDomain DEF QueueInv, GoodEvents
<1>2. eq' = [i \in DOMAIN eq |-> [eq[i] EXCEPT !.left = Less(@)]]
  BY DEF Tick
<1>3. DOMAIN eq' = DOMAIN eq
  BY <1>2
<1>4. ASSUME NEW i \in DOMAIN eq
      PROVE  eq'[i] \in Timer /\ eq'[i].name = eq[i].name /\ eq'[i].left = Less(eq[i].left)
  BY <1>1, <1>2 DEF Timer
<1>5. \A i, j \in DOMAIN eq : i < j => eq[i].name # eq[j].name /\ eq[i].left <= eq[j].left
  BY DEF QueueInv, GoodEvents, Ordered
<1>6. Ordered(eq')
  BY <1>1, <1>3, <1>4, <1>5 DEF Ordered
<1>7. eq' \in Seq(Timer)
  <2>1. eq' \in [1 .. Len(eq) -> Timer]
    BY <1>1, <1>2, <1>4
  <2> QED
    BY <2>1, <1>1, SeqDef
<1>8. NamesOf(eq') = NamesOf(eq) /\ running' = running
  BY <1>3, <1>4 DEF NamesOf, Tick
<1> QED
  BY <1>1, <1>3, <1>4, <1>6, <1>7, <1>8 DEF QueueInv, GoodEvents

LEMMA FirstOfPacket ==
  ASSUME LoopInv, ReceiveFirst
  PROVE  LoopInv'
<1> DEFINE d == Head(socket)
           n == Smaller(d.size, BufferSize)
           p == [size |-> d.size, author |-> d.from, addr |-> d.from,
                 total |-> n, last |-> n, foreign |-> {}]
<1>1. /\ socket # <<>> /\ socket' = Tail(socket) /\ pkt' = p
      /\ kind' = kind /\ delay' = delay /\ eq' = eq /\ running' = running /\ at = "select"
      /\ at' = IF p.size <= p.total THEN "handle" ELSE "rest"
  BY DEF ReceiveFirst, Receive, GoOn, Complete, config
<1>2. d \in Datagram /\ socket' \in Seq(Datagram)
  BY <1>1, HeadTailProperties DEF LoopInv
<1>3. /\ d.size \in PacketSizes /\ d.size \in Nat /\ d.size >= 8 /\ d.from \in Senders
      /\ BufferSize \in Nat /\ BufferSize >= 8
  BY <1>2, EventLoopAssumption DEF Datagram
<1>4. n \in Nat /\ n = (IF d.size <= BufferSize THEN d.size ELSE BufferSize)
  BY <1>3 DEF Smaller
<1>5. pkt' \in Packet /\ pkt'.foreign = {}
  BY <1>1, <1>3, <1>4 DEF Packet
<1>6. PacketInv'
  BY <1>1, <1>3, <1>4, <1>5 DEF PacketInv, WritesInv, LastInv
<1>7. QueueInv' /\ RunningInv'
  BY <1>1 DEF LoopInv, QueueInv, RunningInv
<1> QED
  BY <1>1, <1>2, <1>6, <1>7 DEF LoopInv

(* The arithmetic of the rest: where it may be written. *)
LEMMA RestStaysInside ==
  ASSUME NEW b \in Nat, NEW s \in Nat, NEW last \in Nat, NEW n \in Nat, b >= 8, s > b
  PROVE  /\ (last = b \/ last < s - b) /\ n <= s - b /\ s <= 2 * b => last + n <= s
         /\ last \in {1, b} /\ n <= 1 => last + n <= s
OBVIOUS

LEMMA RestOfPacket ==
  ASSUME LoopInv, ReceiveRest
  PROVE  LoopInv'
<1> DEFINE d == Head(socket)
           n == Smaller(d.size, RestLength)
           w == [first |-> pkt.last, end |-> pkt.last + n]
           p == [pkt EXCEPT !.addr = d.from, !.total = @ + n, !.last = n,
                            !.foreign = @ \cup {w}]
<1>1. /\ at = "rest" /\ socket # <<>> /\ socket' = Tail(socket) /\ pkt' = p
      /\ kind' = kind /\ delay' = delay /\ eq' = eq /\ running' = running
      /\ \/ at' = IF p.size <= p.total THEN "handle" ELSE "rest"
         \/ pkt.last + n > pkt.size /\ at' = "down"
  BY DEF ReceiveRest, Receive, GoOn, Complete, RestOffset, config
<1>2. d \in Datagram /\ socket' \in Seq(Datagram)
  BY <1>1, HeadTailProperties DEF LoopInv
<1>3. /\ d.size \in PacketSizes /\ d.size \in Nat /\ d.size >= 8 /\ d.from \in Senders
      /\ BufferSize \in Nat /\ BufferSize >= 8
  BY <1>2, EventLoopAssumption DEF Datagram
<1>4. /\ PacketInv /\ pkt \in Packet /\ pkt.size \in PacketSizes /\ pkt.author \in Senders
      /\ pkt.size \in Nat /\ pkt.total \in Nat /\ pkt.last \in Nat
      /\ pkt.foreign \subseteq [first : Nat, end : Nat]
      /\ pkt.size > BufferSize /\ BufferSize <= pkt.total /\ pkt.total < pkt.size /\ LastInv
  <2>1. PacketInv
    BY <1>1 DEF LoopInv
  <2>2. /\ pkt.size \in PacketSizes /\ pkt.author \in Senders /\ pkt.total \in Nat
        /\ pkt.last \in Nat /\ pkt.foreign \subseteq [first : Nat, end : Nat]
    BY <2>1 DEF PacketInv, Packet
  <2>3. pkt.size \in Nat
    BY <2>2, EventLoopAssumption
  <2> QED
    BY <2>1, <2>2, <2>3, <1>1, <1>3 DEF PacketInv
<1>5. kind \in {"client", "tracker"} /\ QueueInv
  BY DEF LoopInv
<1>6. /\ n \in Nat
      /\ kind = "client" => n <= pkt.size - BufferSize
                             /\ (n = d.size \/ n = pkt.size - BufferSize)
      /\ kind = "tracker" => n = 1
  BY <1>3, <1>4, <1>5 DEF Smaller, RestLength
<1> HIDE DEF n, d
<1>7. w \in [first : Nat, end : Nat] /\ w.first = pkt.last /\ w.end = pkt.last + n
  BY <1>4, <1>6
<1> HIDE DEF w
<1>8. /\ p \in Packet /\ p.size = pkt.size /\ p.total = pkt.total + n /\ p.last = n
      /\ p.foreign = pkt.foreign \cup {w}
  <2> DEFINE f == pkt.foreign \cup {w}
  <2>1. /\ f \subseteq [first : Nat, end : Nat] /\ pkt.total + n \in Nat
    BY <1>4, <1>6, <1>7
  <2>2. p = [size |-> pkt.size, author |-> pkt.author, addr |-> d.from,
             total |-> pkt.total + n, last |-> n, foreign |-> f]
    <3>1. DOMAIN pkt = {"size", "author", "addr", "total", "last", "foreign"}
      BY <1>4 DEF Packet
    <3>2. DOMAIN p = {"size", "author", "addr", "total", "last", "foreign"}
      BY <3>1
    <3>3. /\ p.size = pkt.size /\ p.author = pkt.author /\ p.addr = d.from
          /\ p.total = pkt.total + n /\ p.last = n /\ p.foreign = f
      BY <3>1
    <3>4. p = [x \in DOMAIN p |-> p[x]]
      OBVIOUS
    <3> HIDE DEF p, f
    <3> QED
      BY <3>2, <3>3, <3>4
  <2> HIDE DEF f, p
  <2>3. p \in Packet
    BY <2>1, <2>2, <1>3, <1>4, <1>6 DEF Packet
  <2> QED
    BY <2>2, <2>3 DEF f
<1> HIDE DEF p
<1>9. TooLong' <=> TooLong
  BY <1>1, <1>8 DEF TooLong
<1>10. TooLong \/ pkt.last + n <= pkt.size
  BY <1>3, <1>4, <1>5, <1>6, RestStaysInside DEF LastInv, TooLong
<1>11. w.end <= 2 \/ 4 <= w.first
  BY <1>3, <1>4, <1>5, <1>6, <1>7 DEF LastInv
<1>12. WritesInv'
  BY <1>1, <1>4, <1>7, <1>8, <1>9, <1>10, <1>11 DEF WritesInv, PacketInv
<1>13. at' = "rest" => BufferSize <= pkt'.total /\ pkt'.total < pkt'.size /\ LastInv'
  <2> SUFFICES ASSUME at' = "rest"
               PROVE  BufferSize <= pkt'.total /\ pkt'.total < pkt'.size /\ LastInv'
    OBVIOUS
  <2>1. pkt.total + n < pkt.size
    BY <1>1, <1>4, <1>6, <1>8
  <2>2. kind = "client" => n >= 8 /\ n < pkt.size - BufferSize
    BY <2>1, <1>3, <1>4, <1>6
  <2>3. kind' = kind /\ pkt'.total = pkt.total + n /\ pkt'.size = pkt.size /\ pkt'.last = n
    BY <1>1, <1>8
  <2>4. BufferSize <= pkt'.total /\ pkt'.total < pkt'.size
    BY <2>1, <2>3, <1>3, <1>4, <1>6
  <2>5. LastInv'
    BY <2>2, <2>3, <1>5, <1>6 DEF LastInv
  <2> QED
    BY <2>4, <2>5
<1>14. PacketInv'
  BY <1>1, <1>3, <1>4, <1>6, <1>8, <1>9, <1>10, <1>12, <1>13 DEF PacketInv
<1>15. QueueInv' /\ RunningInv'
  BY <1>1, <1>5 DEF LoopInv, QueueInv, RunningInv
<1> QED
  BY <1>1, <1>2, <1>5, <1>14, <1>15 DEF LoopInv
-----------------------------------------------------------------------------
LEMMA StepKeepsInv == LoopInv /\ [LoopNext]_loopVars => LoopInv'
<1> SUFFICES ASSUME LoopInv, [LoopNext]_loopVars
             PROVE  LoopInv'
  OBVIOUS
<1>1. CASE RunExpired \/ SelectIdle
  <2>1. /\ at \in {"timers", "select"}
        /\ config' = config /\ socket' = socket /\ pkt' = pkt
        /\ \/ ExecuteNextTimer
           \/ at' = "timers" /\ eq' = eq /\ running' = running
    BY <1>1 DEF RunExpired, SelectIdle
  <2>2. QueueInv' /\ RunningInv' /\ at' \in {"timers", "callback"}
    <3>1. CASE ExecuteNextTimer
      BY <2>1, <3>1, ExecuteKeepsQueue DEF ExecuteNextTimer
    <3>2. CASE at' = "timers" /\ eq' = eq /\ running' = running
      BY <2>1, <3>2 DEF LoopInv, QueueInv, RunningInv
    <3> QED
      BY <2>1, <3>1, <3>2
  <2> QED
    BY <2>1, <2>2 DEF LoopInv, config
<1>2. CASE EnterSelect
  BY <1>2 DEF EnterSelect, LoopInv, QueueInv, RunningInv, config
<1>3. CASE ReceiveFirst
  BY <1>3, FirstOfPacket
<1>4. CASE ReceiveRest
  BY <1>4, RestOfPacket
<1>5. CASE HandlePacket
  BY <1>5 DEF HandlePacket, LoopInv, QueueInv, RunningInv, config
<1>6. CASE AddMessage
  <2>1. QueueInv'
    BY <1>6, MessageKeepsQueue
  <2>2. config' = config /\ running' = running /\ socket' = socket /\ pkt' = pkt /\ at' = at
    BY <1>6 DEF AddMessage
  <2> QED
    BY <2>1, <2>2
    DEF LoopInv, RunningInv, config, PacketInv, WritesInv, LastInv, TooLong
<1>7. CASE CallbackDone
  <2>1. QueueInv' /\ RunningInv'
    BY <1>7, CallbackKeepsQueue
  <2>2. /\ config' = config /\ socket' = socket /\ pkt' = pkt
        /\ at = "callback" /\ at' = "timers"
    BY <1>7 DEF CallbackDone
  <2> QED
    BY <2>1, <2>2 DEF LoopInv, config
<1>8. CASE Tick
  <2>1. QueueInv'
    BY <1>8, TickKeepsQueue DEF LoopInv
  <2>2. config' = config /\ running' = running /\ socket' = socket /\ pkt' = pkt /\ at' = at
    BY <1>8 DEF Tick
  <2> QED
    BY <2>1, <2>2
    DEF LoopInv, RunningInv, config, PacketInv, WritesInv, LastInv, TooLong
<1>9. ASSUME NEW d \in Datagram, Arrive(d)
      PROVE  LoopInv'
  <2>1. /\ config' = config /\ eq' = eq /\ running' = running
        /\ pkt' = pkt /\ at' = at /\ socket' = Append(socket, d)
    BY <1>9 DEF Arrive
  <2>2. socket' \in Seq(Datagram)
    BY <2>1, AppendProperties DEF LoopInv
  <2> QED
    BY <2>1, <2>2
    DEF LoopInv, QueueInv, RunningInv, config, PacketInv, WritesInv, LastInv, TooLong
<1>10. CASE UNCHANGED loopVars
  BY <1>10
  DEF loopVars, config, LoopInv, QueueInv, RunningInv, PacketInv, WritesInv, LastInv, TooLong
<1> QED
  BY <1>1, <1>2, <1>3, <1>4, <1>5, <1>6, <1>7, <1>8, <1>9, <1>10 DEF LoopNext, LoopStep

THEOREM LoopInvariant == LoopSpec => []LoopInv
<1> QED
  BY LoopStarts, StepKeepsInv, PTL DEF LoopSpec
-----------------------------------------------------------------------------
(* The loop's state has its types, and the queue its order. *)
THEOREM LoopTypeCorrect == LoopSpec => []LoopTypeOK
<1>1. LoopInv => LoopTypeOK
  <2> SUFFICES ASSUME LoopInv PROVE LoopTypeOK
    OBVIOUS
  <2>1. eq \in Seq([name : Names, left : Int])
    BY DEF LoopInv, QueueInv, GoodEvents, Timer
  <2>2. \A i, j \in DOMAIN eq : i < j => eq[i].name # eq[j].name /\ eq[i].left <= eq[j].left
    BY DEF LoopInv, QueueInv, GoodEvents, Ordered
  <2>3. pkt = NoPacket \/ (pkt.size \in PacketSizes /\ {pkt.author, pkt.addr} \subseteq Senders)
    BY DEF LoopInv, PacketInv, Packet
  <2>4. \E t \in Names : running = IF at = "callback" THEN {t} ELSE {}
    BY DEF LoopInv, RunningInv
  <2> QED
    BY <2>1, <2>2, <2>3, <2>4 DEF LoopInv, LoopTypeOK
<1> QED
  BY <1>1, LoopInvariant, PTL

(* ExecuteNextTimer never meets an empty queue (timers.cc:386). *)
THEOREM HeadAlwaysExists == LoopSpec => []HeadExists
<1>1. LoopInv => HeadExists
  <2> SUFFICES ASSUME LoopInv PROVE HeadExists
    OBVIOUS
  <2>1. Periodic \subseteq Queued \cup running /\ Queued \cap running = {}
    BY QueuedAreNames DEF LoopInv, QueueInv
  <2>2. ASSUME at = "select", eq = <<>>
        PROVE  FALSE
    <3>1. running = {}
      BY <2>2 DEF LoopInv, RunningInv
    <3>2. PICK t \in Queued : t \in Periodic
      BY <2>1, <3>1, EventLoopAssumption
    <3>3. DOMAIN eq = {}
      BY <2>2
    <3> QED
      BY <3>2, <3>3 DEF Queued
  <2> QED
    BY <2>1, <2>2 DEF HeadExists
<1> QED
  BY <1>1, LoopInvariant, PTL

(* No rest of a packet is written outside the bytes allocated for it, but  *)
(* for a client's packets of more than two buffers (Client.c:1610).        *)
THEOREM WritesStayInside == LoopSpec => []WritesInside
<1>1. LoopInv => WritesInside
  <2> SUFFICES ASSUME LoopInv, kind = "tracker" \/ pkt.size <= 2 * BufferSize
               PROVE  /\ at # "down"
                      /\ at \in {"rest", "handle"} => \A s \in pkt.foreign : s.end <= pkt.size
    BY DEF WritesInside
  <2>1. CASE at \in {"timers", "callback", "select"}
    BY <2>1
  <2>2. CASE at \notin {"timers", "callback", "select"}
    <3>1. PacketInv
      BY <2>2 DEF LoopInv
    <3>2. pkt.size \in Nat /\ BufferSize \in Nat
      BY <3>1, EventLoopAssumption DEF PacketInv, Packet
    <3>3. ~TooLong
      BY <3>2 DEF TooLong
    <3> QED
      BY <3>1, <3>3 DEF PacketInv, WritesInv
  <2> QED
    BY <2>1, <2>2
<1> QED
  BY <1>1, LoopInvariant, PTL

(* The message type is that of the datagram that began the packet. *)
THEOREM TypeBytesStay == LoopSpec => []TypeBytesKept
<1>1. LoopInv => TypeBytesKept
  BY DEF LoopInv, PacketInv, WritesInv, TypeBytesKept
<1> QED
  BY <1>1, LoopInvariant, PTL

(* A packet that fits the buffer is whole, and its sender is known. *)
THEOREM PacketsThatFitAreWhole == LoopSpec => []WholeIfItFits
<1>1. LoopInv => WholeIfItFits
  BY DEF LoopInv, PacketInv, WholeIfItFits
<1> QED
  BY <1>1, LoopInvariant, PTL
-----------------------------------------------------------------------------
(* What is left of a timer, in any queue. *)
LeftIn(q, t) == q[CHOOSE i \in DOMAIN q : q[i].name = t].left

LEMMA LeftOfElement ==
  ASSUME NEW q, GoodEvents(q), NEW i \in DOMAIN q
  PROVE  LeftIn(q, q[i].name) = q[i].left
<1>1. DOMAIN q = 1 .. Len(q) /\ Len(q) \in Nat
  BY EventsDomain DEF GoodEvents
<1>2. ASSUME NEW j \in DOMAIN q, q[j].name = q[i].name
      PROVE  j = i
  BY <1>1, <1>2 DEF GoodEvents, Ordered
<1>3. (CHOOSE j \in DOMAIN q : q[j].name = q[i].name) = i
  BY <1>2
<1> QED
  BY <1>3 DEF LeftIn

(* Elements that stay keep their time. *)
LEMMA KeptElement ==
  ASSUME NEW q, NEW r, GoodEvents(q), GoodEvents(r), NEW t \in NamesOf(q),
         \A i \in DOMAIN q : q[i].name = t => \E j \in DOMAIN r : r[j] = q[i]
  PROVE  t \in NamesOf(r) /\ LeftIn(r, t) = LeftIn(q, t)
<1>1. PICK i \in DOMAIN q : q[i].name = t
  BY DEF NamesOf
<1>2. PICK j \in DOMAIN r : r[j] = q[i]
  BY <1>1
<1>3. LeftIn(q, t) = q[i].left /\ LeftIn(r, t) = r[j].left
  BY <1>1, <1>2, LeftOfElement
<1> QED
  BY <1>1, <1>2, <1>3 DEF NamesOf

(* What the property says of one step and one timer. *)
EarlyStep(t) ==
  Left(t) > 0 /\ (t \in Queued' => Left(t) < Left(t)')
    => kind = "client" /\ at = "select" /\ socket = <<>>

LEMMA NoStepIsEarly ==
  ASSUME LoopInv, LoopInv', [LoopNext]_loopVars, NEW t \in Queued
  PROVE  EarlyStep(t)
<1>1. /\ GoodEvents(eq) /\ GoodEvents(eq') /\ t \in NamesOf(eq)
      /\ Left(t) = LeftIn(eq, t) /\ Left(t)' = LeftIn(eq', t) /\ Queued' = NamesOf(eq')
  BY QueuedAreNames DEF LoopInv, QueueInv, Left, LeftIn, Queued, NamesOf
<1>2. PICK k \in DOMAIN eq : eq[k].name = t
  BY <1>1 DEF NamesOf
<1>3. LeftIn(eq, t) = eq[k].left /\ eq[k].left \in Int
  <2>1. LeftIn(eq, t) = eq[k].left
    BY <1>1, <1>2, LeftOfElement
  <2> QED
    BY <2>1, <1>1, EventsDomain DEF GoodEvents
<1>4. ASSUME t \in NamesOf(eq'), LeftIn(eq', t) = LeftIn(eq, t)
      PROVE  EarlyStep(t)
  BY <1>1, <1>3, <1>4 DEF EarlyStep
<1>5. ASSUME \A i \in DOMAIN eq : eq[i].name = t => \E j \in DOMAIN eq' : eq'[j] = eq[i]
      PROVE  EarlyStep(t)
  BY <1>1, <1>4, <1>5, KeptElement
<1>6. CASE RunExpired
  <2>1. eq # <<>> /\ Head(eq).left <= 0
    BY <1>6 DEF RunExpired, HeadExpired
  <2>2. \A i \in DOMAIN eq : eq[i] = Head(eq) \/ \E j \in DOMAIN eq' : eq'[j] = eq[i]
    BY <1>6, ExecuteKeepsQueue DEF RunExpired
  <2>3. CASE Left(t) > 0
    <3>1. ASSUME NEW i \in DOMAIN eq, eq[i].name = t
          PROVE  eq[i] # Head(eq)
      <4>1. LeftIn(eq, t) = eq[i].left
        BY <1>1, <3>1, LeftOfElement
      <4>2. eq[i].left \in Int
        BY <1>1, EventsDomain DEF GoodEvents
      <4> QED
        BY <1>1, <2>1, <2>3, <4>1, <4>2
    <3> QED
      BY <1>5, <2>2, <3>1
  <2>4. CASE ~(Left(t) > 0)
    BY <2>4 DEF EarlyStep
  <2> QED
    BY <2>3, <2>4
<1>7. CASE SelectIdle
  BY <1>5, <1>7 DEF SelectIdle, EarlyStep, LoopInv
<1>8. CASE AddMessage \/ CallbackDone
  <2>1. Keeps(eq, eq')
    BY <1>8, MessageKeepsQueue, CallbackKeepsQueue
  <2> QED
    BY <1>5, <2>1 DEF Keeps
<1>9. CASE Tick
  <2>1. k \in DOMAIN eq' /\ eq'[k].name = t /\ (eq[k].left > 0 => eq'[k].left < eq[k].left)
    BY <1>2, <1>9, TickKeepsQueue DEF LoopInv
  <2>2. LeftIn(eq', t) = eq'[k].left /\ eq'[k].left \in Int /\ t \in NamesOf(eq')
    <3>1. LeftIn(eq', t) = eq'[k].left
      BY <1>1, <2>1, LeftOfElement
    <3>2. eq'[k].left \in Int
      BY <1>1, <2>1, EventsDomain DEF GoodEvents
    <3> QED
      BY <2>1, <3>1, <3>2 DEF NamesOf
  <2> QED
    BY <1>1, <1>3, <2>1, <2>2 DEF EarlyStep
<1>10. CASE eq' = eq
  BY <1>5, <1>10
<1> QED
  BY <1>6, <1>7, <1>8, <1>9, <1>10
  DEF LoopNext, LoopStep, EnterSelect, ReceiveFirst, ReceiveRest, Receive, HandlePacket,
      Arrive, loopVars

(* Only a client that hears nothing runs a timer before its time. *)
THEOREM TimersRunOnTime == LoopSpec => EarlyOnlyWhenIdle
<1>1. LoopInv /\ LoopInv' /\ [LoopNext]_loopVars
        => [\A t \in Queued :
              Left(t) > 0 /\ (t \in Queued' => Left(t) < Left(t)')
                => kind = "client" /\ at = "select" /\ socket = <<>>]_loopVars
  BY NoStepIsEarly DEF EarlyStep
<1> QED
  BY <1>1, LoopInvariant, PTL DEF LoopSpec, EarlyOnlyWhenIdle
-----------------------------------------------------------------------------
(* What is added makes no other timer expired than those without a delay.  *)
LEMMA AddsExpireNoOther ==
  ASSUME NEW q, NEW r, GoodEvents(q), GoodEvents(r), Adds(q, r)
  PROVE  ExpiredIn(r) \subseteq ExpiredIn(q) \cup Instant
<1> SUFFICES ASSUME NEW j \in DOMAIN r, r[j].left <= 0, r[j].name \notin Instant
             PROVE  \E i \in DOMAIN q : q[i].name = r[j].name /\ q[i].left <= 0
  BY DEF ExpiredIn
<1>1. r[j].left \in Int
  BY EventsDomain DEF GoodEvents
<1>2. PICK i \in DOMAIN q : q[i] = r[j]
  BY <1>1 DEF Adds
<1> QED
  BY <1>2

(* What the property says of one step. *)
StepRunsOut ==
  /\ Tick \/ Expired' \subseteq Expired \cup Instant
  /\ CallbackDone => running \cap Expired' \subseteq Instant

LEMMA EveryStepRunsOut ==
  ASSUME LoopInv, LoopInv', [LoopNext]_loopVars
  PROVE  StepRunsOut
<1>1. Expired = ExpiredIn(eq) /\ Expired' = ExpiredIn(eq')
  BY DEF Expired, ExpiredIn
<1>2. GoodEvents(eq) /\ GoodEvents(eq')
  BY DEF LoopInv, QueueInv
<1>3. ASSUME Adds(eq, eq')
      PROVE  Expired' \subseteq Expired \cup Instant
  BY <1>1, <1>2, <1>3, AddsExpireNoOther
<1>4. CASE RunExpired \/ SelectIdle
  <2>1. /\ at # "callback" /\ ~CallbackDone
        /\ ExecuteNextTimer \/ eq' = eq
    BY <1>4 DEF RunExpired, SelectIdle, CallbackDone
  <2>2. Expired' \subseteq Expired \cup Instant
    BY <1>1, <1>3, <2>1, ExecuteKeepsQueue
  <2> QED
    BY <2>1, <2>2 DEF StepRunsOut
<1>5. CASE AddMessage
  <2>1. Expired' \subseteq Expired \cup Instant
    BY <1>3, <1>5, MessageKeepsQueue
  <2>2. ~CallbackDone
    BY <1>5 DEF AddMessage, CallbackDone, LoopInv, RunningInv
  <2> QED
    BY <2>1, <2>2 DEF StepRunsOut
<1>6. CASE CallbackDone
  <2>1. Expired' \subseteq Expired \cup Instant
    BY <1>3, <1>6, CallbackKeepsQueue
  <2>2. running \cap Expired \subseteq {}
    BY <1>1 DEF LoopInv, QueueInv, ExpiredIn, NamesOf
  <2> QED
    BY <2>1, <2>2 DEF StepRunsOut
<1>7. CASE Tick
  BY <1>7 DEF StepRunsOut, Tick, CallbackDone, LoopInv, RunningInv
<1>8. CASE eq' = eq /\ ~CallbackDone
  BY <1>1, <1>8 DEF StepRunsOut
<1> QED
  BY <1>4, <1>5, <1>6, <1>7, <1>8
  DEF LoopNext, LoopStep, EnterSelect, ReceiveFirst, ReceiveRest, Receive, HandlePacket,
      Arrive, loopVars

(* The runs of expired timers come to an end, in each pass of the loop,    *)
(* for any timers and however many messages their callbacks queue, but for *)
(* delays of 0 and for time that passes meanwhile.                         *)
THEOREM ExpiredTimersEnd == LoopSpec => ExpiredRunOut
<1>1. LoopInv /\ LoopInv' /\ [LoopNext]_loopVars
        => [/\ Tick \/ Expired' \subseteq Expired \cup Instant
            /\ CallbackDone => running \cap Expired' \subseteq Instant]_loopVars
  BY EveryStepRunsOut DEF StepRunsOut
<1> QED
  BY <1>1, LoopInvariant, PTL DEF LoopSpec, ExpiredRunOut
=============================================================================
