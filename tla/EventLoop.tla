------------------------------ MODULE EventLoop ------------------------------
(***************************************************************************)
(* The loop of a process: timers before datagrams, one datagram per pass,  *)
(* read into a buffer of 512 bytes (Client.c:1561-1655, Tracker.c:453-540).*)
(* Client and tracker have the same loop but for two places: when nothing  *)
(* arrives the client runs its first timer, due or not, and the tracker    *)
(* none; and each reads what is left of a long packet in its own way.      *)
(* The kind of the process is chosen in the initial state, and so are the  *)
(* delays of a client, which the configuration gives it.                   *)
(*                                                                         *)
(* Time is relative here: "left" is what a timer still has to wait, in     *)
(* ticks, and -1 if it is overdue, so that the loop may run for ever in    *)
(* finitely many states.  Timers says what becomes of absolute times.      *)
(* A tick is the smallest step of the clock, and may pass at any point of  *)
(* the loop: callbacks and handlers take time.                             *)
(***************************************************************************)
EXTENDS Integers, SequencesExt

CONSTANTS
  Periodic,      \* the timers whose callbacks return 0
  OneShots,      \* those that run once: downloads that wait for their start,
                 \* messages that wait for their packet delay
  Delays,        \* the delays that a configuration may give: from [Periodic \cup OneShots -> ticks]
  Senders,       \* where datagrams come from
  PacketSizes,   \* the sizes of datagrams, in bytes
  BufferSize,    \* of the buffer a datagram is read into; 512 in the code
  MaxQueue       \* bound of the instance: datagrams in the socket's buffer

Names == Periodic \cup OneShots

ASSUME EventLoopAssumption ==
  /\ IsFiniteSet(Periodic) /\ IsFiniteSet(OneShots)
  /\ Periodic # {} /\ Periodic \cap OneShots = {}
  /\ Delays \subseteq [Names -> Nat]
  /\ PacketSizes \subseteq {n \in Nat : n >= 8}
  /\ BufferSize \in Nat /\ BufferSize >= 8
  /\ MaxQueue \in Nat

VARIABLES
  kind,       \* "client" or "tracker"
  delay,      \* of each timer: reqtimeout, pktdelay, or the tracker's 30 seconds
  eq,         \* the event queue: timers with the ticks they have left
  running,    \* the timer whose callback is running, if any: a set of at most one
  socket,     \* datagrams that the kernel holds
  pkt,        \* the packet that is being put together
  at          \* where the loop is: "timers", "callback", "select", "rest" or "handle";
              \* "down" when the process is gone

config == <<kind, delay>>
loopVars == <<config, eq, running, socket, pkt, at>>

Datagram == [size : PacketSizes, from : Senders]

(* foreign: which bytes [first, end) come from other datagrams than the    *)
(* one that began the packet; addr: the address that recvfrom left last.   *)
Packet ==
  [size : PacketSizes, author : Senders, addr : Senders, total : Nat, last : Nat,
   foreign : SUBSET [first : Nat, end : Nat]]

NoPacket == [size |-> 0]
-----------------------------------------------------------------------------
(* Fault: a new timer always becomes the head. *)
AddTimerInFront(q, t) == <<[name |-> t, left |-> delay[t]]>> \o q

(* Fault: the timeout is cut to whole seconds, so that a short one is 0. *)
AddTimerSeconds(q, t) ==
  LET i == CHOOSE i \in 1 .. Len(q) + 1 :
             /\ \A j \in 1 .. i - 1 : q[j].left < 0
             /\ i <= Len(q) => 0 <= q[i].left
  IN  InsertAt(q, i, [name |-> t, left |-> 0])

(* The event queue: Eq_Add puts a timer before those of the same time.     *)
AddTimer(q, t) ==
  LET i == CHOOSE i \in 1 .. Len(q) + 1 :
             /\ \A j \in 1 .. i - 1 : q[j].left < delay[t]
             /\ i <= Len(q) => delay[t] <= q[i].left
  IN  InsertAt(q, i, [name |-> t, left |-> delay[t]])

Queued == {eq[i].name : i \in DOMAIN eq}

Left(t) == eq[CHOOSE i \in DOMAIN eq : eq[i].name = t].left

(* The first half of ExecuteNextTimer: the head is taken off the queue.    *)
ExecuteNextTimer ==
  /\ eq # <<>>
  /\ eq' = Tail(eq)
  /\ running' = {Head(eq).name}
  /\ at' = "callback"

HeadExpired == eq # <<>> /\ Head(eq).left <= 0

RunExpired ==
  /\ at = "timers"
  /\ HeadExpired
  /\ ExecuteNextTimer
  /\ UNCHANGED <<config, socket, pkt>>

(* A periodic callback of a client, and a handler, queue messages that are *)
(* to leave after their packet delay, one by one.  The callback of a       *)
(* message sends it and queues nothing; the tracker answers at once.       *)
AddMessage ==
  /\ kind = "client"
  /\ at \in {"handle", "callback"} /\ running \subseteq Periodic
  /\ \E t \in OneShots \ Queued : eq' = AddTimer(eq, t)
  /\ UNCHANGED <<config, running, socket, pkt, at>>

(* Fault: every callback is done after it has run once. *)
CallbackDoneOnce ==
  /\ at = "callback"
  /\ at' = "timers" /\ running' = {}
  /\ UNCHANGED <<config, eq, socket, pkt>>

(* The second half of ExecuteNextTimer: a periodic timer is queued again   *)
(* with its own delay, counted from the end of its callback.               *)
CallbackDone ==
  /\ at = "callback"
  /\ at' = "timers" /\ running' = {}
  /\ \E t \in running : eq' = IF t \in Periodic THEN AddTimer(eq, t) ELSE eq
  /\ UNCHANGED <<config, socket, pkt>>

EnterSelect ==
  /\ at = "timers"
  /\ ~HeadExpired
  /\ at' = "select"
  /\ UNCHANGED <<config, eq, running, socket, pkt>>

(* Fault: the tracker does the same as the client. *)
SelectIdleBoth ==
  /\ at = "select"
  /\ socket = <<>>
  /\ ExecuteNextTimer
  /\ UNCHANGED <<config, socket, pkt>>

(* Nothing came in 10 microseconds: the client takes this for the expiry   *)
(* of its first timer, runs it, and then those that have expired.          *)
SelectIdle ==
  /\ at = "select"
  /\ socket = <<>>
  /\ IF kind = "client" THEN ExecuteNextTimer ELSE at' = "timers" /\ UNCHANGED <<eq, running>>
  /\ UNCHANGED <<config, socket, pkt>>
-----------------------------------------------------------------------------
(* The socket                                                              *)
Smaller(m, n) == IF m <= n THEN m ELSE n

(* What recvfrom is asked for while the packet is not complete.            *)
RestLength == IF kind = "client" THEN pkt.size - BufferSize ELSE 1

(* Fault: the rest is put behind all that has come, with the same length. *)
RestOffsetTotal == pkt.total

(* Fault: the rest is put where the packet begins. *)
RestOffsetNone == 0

(* Where the code puts it: behind the size of the datagram before.         *)
RestOffset == pkt.last

(* Fault: one byte more than the packet has is waited for. *)
CompleteOffByOne(p) == p.size < p.total

Complete(p) == p.size <= p.total

Receive(p) ==
  /\ socket # <<>>
  /\ socket' = Tail(socket)
  /\ pkt' = p
  /\ UNCHANGED <<config, eq, running>>

GoOn(p) == IF Complete(p) THEN "handle" ELSE "rest"

ReceiveFirst ==
  /\ at = "select"
  /\ socket # <<>>
  /\ LET d == Head(socket)
         n == Smaller(d.size, BufferSize)
         p == [size |-> d.size, author |-> d.from, addr |-> d.from,
               total |-> n, last |-> n, foreign |-> {}]
     IN  Receive(p) /\ at' = GoOn(p)

(* The kernel drops what recvfrom has no room for: the rest of a long      *)
(* packet is gone, and the loop goes on with the datagrams behind it.      *)
(* Bytes written behind the end of the packet are written over the heap:   *)
(* the process may go on or may be gone.                                   *)
ReceiveRest ==
  /\ at = "rest"
  /\ socket # <<>>
  /\ LET d == Head(socket)
         n == Smaller(d.size, RestLength)
         p == [pkt EXCEPT !.addr = d.from, !.total = @ + n, !.last = n,
                          !.foreign = @ \cup {[first |-> RestOffset, end |-> RestOffset + n]}]
     IN  /\ Receive(p)
         /\ \/ at' = GoOn(p)
            \/ RestOffset + n > pkt.size /\ at' = "down"

(* The end of the handler, or of the tracker's whole answer.               *)
HandlePacket ==
  /\ at = "handle"
  /\ at' = "timers"
  /\ pkt' = NoPacket
  /\ UNCHANGED <<config, eq, running, socket>>
-----------------------------------------------------------------------------
(* Other processes, and time. *)
Arrive(d) ==
  /\ Len(socket) < MaxQueue
  /\ socket' = Append(socket, d)
  /\ UNCHANGED <<config, eq, running, pkt, at>>

Tick ==
  /\ eq' = [i \in DOMAIN eq |-> [eq[i] EXCEPT !.left = IF @ < 0 THEN @ ELSE @ - 1]]
  /\ UNCHANGED <<config, running, socket, pkt, at>>

(* The timers are set up before the loop begins (Client.c:1525-1556,       *)
(* Tracker.c:448), those that enable the downloads of a client among them, *)
(* which run once; those of one delay may be in either order.  A client's  *)
(* delays are taken from the configuration unchecked; the tracker's is not *)
(* configured, and not 0.                                                  *)
StartTimers == {Periodic} \cup (IF kind = "client" THEN {Periodic \cup o : o \in SUBSET OneShots} ELSE {})

LoopInit ==
  /\ kind \in {"client", "tracker"} /\ delay \in Delays
  /\ kind = "tracker" => \A t \in Names : delay[t] > 0
  /\ \E timers \in StartTimers : \E s \in [1 .. Cardinality(timers) -> timers] :
       /\ timers = {s[i] : i \in DOMAIN s}
       /\ \A i, j \in DOMAIN s : i < j => delay[s[i]] <= delay[s[j]]
       /\ eq = [i \in DOMAIN s |-> [name |-> s[i], left |-> delay[s[i]]]]
  /\ running = {}
  /\ socket = <<>>
  /\ pkt = NoPacket
  /\ at = "timers"

LoopStep ==
  \/ RunExpired
  \/ AddMessage
  \/ CallbackDone
  \/ EnterSelect
  \/ SelectIdle
  \/ ReceiveFirst
  \/ ReceiveRest
  \/ HandlePacket

LoopNext ==
  \/ LoopStep
  \/ Tick
  \/ \E d \in Datagram : Arrive(d)

LoopSpec == LoopInit /\ [][LoopNext]_loopVars

(* The process goes on as long as it can, and so does time.                *)
FairLoopSpec == LoopSpec /\ WF_loopVars(LoopStep) /\ SF_loopVars(Tick)
-----------------------------------------------------------------------------
(* The types of the loop's state. *)
LoopTypeOK ==
  /\ kind \in {"client", "tracker"} /\ delay \in Delays
  /\ \E t \in Names : running = IF at = "callback" THEN {t} ELSE {}
  /\ eq \in Seq([name : Names, left : Int])
  /\ \A i, j \in DOMAIN eq : i < j => eq[i].name # eq[j].name /\ eq[i].left <= eq[j].left
  /\ socket \in Seq(Datagram)
  /\ at \in {"timers", "callback", "select", "rest", "handle", "down"}
  /\ pkt = NoPacket \/ /\ pkt.size \in PacketSizes
                       /\ {pkt.author, pkt.addr} \subseteq Senders

(* ExecuteNextTimer takes the head without asking whether there is one     *)
(* (timers.cc:386), and the loops do so whenever they are idle: there is.  *)
(* What a callback adds while its own timer is off the queue is no timer   *)
(* of another callback.                                                    *)
HeadExists ==
  /\ Periodic \subseteq Queued \cup running /\ Queued \cap running = {}
  /\ at = "select" => eq # <<>>

(* The offset and the length that the loops pass to recvfrom for the rest  *)
(* of a packet look wrong, and they are (Client.c:1610, Tracker.c:514), but *)
(* together they never leave the pktsize bytes that were allocated, as     *)
(* long as a client's packet is not longer than two buffers.  (Longer ones *)
(* do: two rests of up to pktsize - 512 bytes each, the second behind the  *)
(* size of the first.)                                                     *)
WritesInside ==
  kind = "tracker" \/ pkt.size <= 2 * BufferSize =>
    /\ at # "down"
    /\ at \in {"rest", "handle"} => \A s \in pkt.foreign : s.end <= pkt.size

(* Bytes 2 and 3 hold the msgtype (Client.c:1618): whatever was read over  *)
(* the packet, it goes to the handler of the datagram that began it.       *)
TypeBytesKept ==
  at = "handle" => \A s \in pkt.foreign : s.end <= 2 \/ 4 <= s.first

(* "This way it is getting the full message" (README:27) holds of packets  *)
(* that fit the buffer: they are the bytes of one datagram, and recvfrom's *)
(* address is its sender's.                                                *)
WholeIfItFits ==
  at = "handle" /\ pkt.size <= BufferSize =>
    pkt.foreign = {} /\ pkt.total = pkt.size /\ pkt.addr = pkt.author

(* A timer that still has to wait neither leaves the queue nor starts      *)
(* anew, except in a client that hears nothing.  In the tracker the        *)
(* 30-second timer must not run early: it would end the process            *)
(* (Tracker.c:42, and the question in the comment at 471).                 *)
EarlyOnlyWhenIdle ==
  [][\A t \in Queued :
       Left(t) > 0 /\ (t \in Queued' => Left(t) < Left(t)')
         => kind = "client" /\ at = "select" /\ socket = <<>>]_loopVars

(* Timers whose time has come. *)
Expired == {eq[i].name : i \in {i \in DOMAIN eq : eq[i].left <= 0}}

(* The loop looks at its socket only when no timer has expired             *)
(* (Client.c:1563), and callbacks queue themselves and messages again.     *)
(* That comes to an end, but for two causes: a delay of 0, and time that   *)
(* passes before the loop is through.  Nothing else makes another timer    *)
(* expired, nor leaves one expired whose callback has run.                 *)
Instant == {t \in Names : delay[t] = 0}

ExpiredRunOut ==
  [][/\ Tick \/ Expired' \subseteq Expired \cup Instant
     /\ CallbackDone => running \cap Expired' \subseteq Instant]_loopVars

(* No timer starves: every periodic one runs again and again, unless the   *)
(* loop waits for ever for the rest of a long packet, or is no more.       *)
TimersKeepRunning ==
  \/ <>[](at \in {"rest", "down"})
  \/ \A t \in Periodic : []<>(running = {t})

(* Timers keep the loop from its socket only by these two causes: a round  *)
(* that the configuration repeats without delay, or timers that expire     *)
(* again and again before the loop is through with the others.  Otherwise  *)
(* what has arrived is read.                                               *)
DatagramsAreRead ==
  \/ []<>(socket = <<>> \/ at \in {"rest", "down"})
  \/ []<><<ReceiveFirst>>_loopVars
  \/ /\ <>[](at \in {"timers", "callback"})
     /\ Periodic \cap Instant # {} \/ []<><<Tick /\ Expired' # Expired>>_loopVars
=============================================================================
