------------------------------- MODULE Timers -------------------------------
(***************************************************************************)
(* The timers library (timers.cc): a list of events sorted by expiration   *)
(* time, kept in pairs of seconds and microseconds, and the operations of  *)
(* class Timers on it.  A callback may call the library again while it     *)
(* runs, so ExecuteNextTimer is two steps: the head is taken off and its   *)
(* callback starts; the callback returns and its timer is re-armed or      *)
(* deleted.  The clock is the wall clock: it may be set back.              *)
(*                                                                         *)
(* eq_'s events all have type 1 and are given by their handle; the entries *)
(* (class TimerEntry) are the function timeout_ of the handles.            *)
(***************************************************************************)
EXTENDS Integers, SequencesExt

CONSTANTS
  Delays,      \* the timeouts in use, in milliseconds
  Clock,       \* the readings of gettimeofday, in microseconds
  MaxHandles   \* bound of the instance: how many timers are ever added

MicrosPerSecond == 1000000

(* Timeouts whose microseconds fit an int: Event_SetDelay multiplies.      *)
ASSUME TimersAssumption ==
  /\ \A d \in Delays : d \in Nat /\ d <= 2147483
  /\ Clock \subseteq Nat
  /\ MaxHandles \in Nat

VARIABLES
  now,           \* what gettimeofday reads
  eq,            \* the event queue: a sequence of [tv_, hdl_]
  timeout_,      \* [handles of existing entries -> Delays]
  next_handle_,
  running        \* the entry that ExecuteNextTimer works on: none or one

timersVars == <<now, eq, timeout_, next_handle_, running>>
-----------------------------------------------------------------------------
(* struct timeval                                                          *)
Timeval == [tv_sec : Nat, tv_usec : Nat]

Zero == [tv_sec |-> 0, tv_usec |-> 0]

GetTime == [tv_sec |-> now \div MicrosPerSecond, tv_usec |-> now % MicrosPerSecond]

(* The time that a timeval stands for. *)
Micros(tv) == tv.tv_sec * MicrosPerSecond + tv.tv_usec

TimevalLess(x, y) ==
  \/ x.tv_sec < y.tv_sec
  \/ x.tv_sec = y.tv_sec /\ x.tv_usec < y.tv_usec

TimevalCmp(x, y) == IF TimevalLess(y, x) THEN 1 ELSE IF TimevalLess(x, y) THEN -1 ELSE 0

(* Fault: the second that is borrowed is not taken off. *)
TimevalSubNoBorrow(x, y) ==
  IF TimevalCmp(x, y) < 0 THEN Zero
  ELSE [tv_sec |-> x.tv_sec - y.tv_sec,
        tv_usec |-> (IF x.tv_usec < y.tv_usec THEN MicrosPerSecond ELSE 0) + x.tv_usec - y.tv_usec]

TimevalSub(x, y) ==
  IF TimevalCmp(x, y) < 0 THEN Zero
  ELSE LET borrow == IF x.tv_usec < y.tv_usec THEN 1 ELSE 0
       IN  [tv_sec |-> x.tv_sec - borrow - y.tv_sec,
            tv_usec |-> x.tv_usec + borrow * MicrosPerSecond - y.tv_usec]

(* Fault: microseconds are not carried into the seconds. *)
TimevalAddusecsNoCarry(tv, usecs) == [tv EXCEPT !.tv_usec = @ + usecs]

(* A sum of exactly one second stays in the microseconds. *)
TimevalAddusecs(tv, usecs) ==
  LET sum == tv.tv_usec + usecs
  IN  IF sum > MicrosPerSecond
      THEN [tv_sec |-> tv.tv_sec + sum \div MicrosPerSecond, tv_usec |-> sum % MicrosPerSecond]
      ELSE [tv EXCEPT !.tv_usec = sum]
-----------------------------------------------------------------------------
(* The event queue                                                         *)
Event == [tv_ : Timeval, hdl_ : Nat]

EventCmp(x, y) == TimevalCmp(x.tv_, y.tv_)

(* Fault: the walk stops one event too early. *)
AddPlaceOneEarly(q, n) ==
  CHOOSE i \in 1 .. Len(q) + 1 :
    /\ \A j \in 1 .. i - 1 : EventCmp(n, q[j]) > 0
    /\ i + 1 <= Len(q) => EventCmp(n, q[i + 1]) <= 0

(* Where Eq_Add stops: in front of the first event that is not earlier, so *)
(* before those of the same time.                                          *)
AddPlace(q, n) ==
  CHOOSE i \in 1 .. Len(q) + 1 :
    /\ \A j \in 1 .. i - 1 : EventCmp(n, q[j]) > 0
    /\ i <= Len(q) => EventCmp(n, q[i]) <= 0

EqAdd(q, n) == InsertAt(q, AddPlace(q, n), n)

SetDelay(d) == TimevalAddusecs(GetTime, d * 1000)

EqAddAfter(q, h, d) == EqAdd(q, [tv_ |-> SetDelay(d), hdl_ |-> h])

EqRemove(q, i) == RemoveAt(q, i)

Places(h) == {i \in DOMAIN eq : eq[i].hdl_ = h}

(* Timers::NextTimerTime; MAXVALUE stands for "no timer". *)
NextTimerTime ==
  IF eq = <<>> THEN [tv_sec |-> 134217727, tv_usec |-> 0] ELSE TimevalSub(Head(eq).tv_, GetTime)

-----------------------------------------------------------------------------
(* class Timers                                                            *)
TimersInit ==
  /\ now \in Clock
  /\ eq = <<>>
  /\ timeout_ = [h \in {} |-> 0]
  /\ next_handle_ = 1
  /\ running = {}

AddTimer(d) ==
  /\ next_handle_ <= MaxHandles
  /\ next_handle_' = next_handle_ + 1
  /\ timeout_' = [h \in DOMAIN timeout_ \cup {next_handle_} |->
                    IF h = next_handle_ THEN d ELSE timeout_[h]]
  /\ eq' = EqAddAfter(eq, next_handle_, d)
  /\ UNCHANGED <<now, running>>

(* Fault: any entry is deleted, also one that is not in the queue. *)
RemoveRunningToo(h) ==
  /\ h \in DOMAIN timeout_
  /\ eq' = IF Places(h) = {} THEN eq ELSE EqRemove(eq, CHOOSE i \in Places(h) : TRUE)
  /\ timeout_' = [x \in DOMAIN timeout_ \ {h} |-> timeout_[x]]
  /\ UNCHANGED <<now, next_handle_, running>>

(* A handle that is not in the queue is not found, and nothing changes: so *)
(* a callback cannot remove its own timer.                                 *)
RemoveTimer(h) ==
  /\ Places(h) # {}
  /\ \E i \in Places(h) : (\A j \in Places(h) : i <= j) /\ eq' = EqRemove(eq, i)
  /\ timeout_' = [x \in DOMAIN timeout_ \ {h} |-> timeout_[x]]
  /\ UNCHANGED <<now, next_handle_, running>>

(* ExecuteNextTimer up to the call of Expire.  Without a head it would     *)
(* dereference NULL: the users must see to it.                             *)
StartNextTimer ==
  /\ running = {}
  /\ eq # <<>>
  /\ running' = {Head(eq).hdl_}
  /\ eq' = Tail(eq)
  /\ UNCHANGED <<now, timeout_, next_handle_>>

(* Expire returns 0 (same timeout), a new timeout, or a negative number.   *)
KeepTimer ==
  \E h \in running :
    /\ eq' = EqAddAfter(eq, h, timeout_[h])
    /\ running' = {}
    /\ UNCHANGED <<now, timeout_, next_handle_>>

(* Fault: the new timeout is added to the one before. *)
ChangeTimerByMore(d) ==
  \E h \in running :
    /\ d > 0
    /\ timeout_' = [timeout_ EXCEPT ![h] = @ + d]
    /\ eq' = EqAddAfter(eq, h, timeout_[h] + d)
    /\ running' = {}
    /\ UNCHANGED <<now, next_handle_>>

(* Fault: the timer is queued with the timeout it had. *)
ChangeTimerLate(d) ==
  \E h \in running :
    /\ timeout_' = [timeout_ EXCEPT ![h] = d]
    /\ eq' = EqAddAfter(eq, h, timeout_[h])
    /\ running' = {}
    /\ UNCHANGED <<now, next_handle_>>

ChangeTimer(d) ==
  \E h \in running :
    /\ d > 0
    /\ timeout_' = [timeout_ EXCEPT ![h] = d]
    /\ eq' = EqAddAfter(eq, h, d)
    /\ running' = {}
    /\ UNCHANGED <<now, next_handle_>>

DiscardTimer ==
  \E h \in running :
    /\ timeout_' = [x \in DOMAIN timeout_ \ {h} |-> timeout_[x]]
    /\ running' = {}
    /\ UNCHANGED <<now, eq, next_handle_>>

SetClock ==
  /\ now' \in Clock
  /\ UNCHANGED <<eq, timeout_, next_handle_, running>>

TimersNext ==
  \/ SetClock
  \/ \E d \in Delays : AddTimer(d) \/ ChangeTimer(d)
  \/ \E h \in DOMAIN timeout_ : RemoveTimer(h)
  \/ StartNextTimer
  \/ KeepTimer
  \/ DiscardTimer

TimersSpec == TimersInit /\ [][TimersNext]_timersVars
-----------------------------------------------------------------------------
(* The types of the library's state. *)
TimersTypeOK ==
  /\ now \in Clock
  /\ eq \in Seq(Event)
  /\ timeout_ \in [DOMAIN timeout_ -> Delays]
  /\ DOMAIN timeout_ \subseteq Nat
  /\ next_handle_ \in Nat \ {0}
  /\ running \in SUBSET Nat

(* "kept in sorted order by expiration time" (timers.cc:151): Eq_Add       *)
(* compares seconds before microseconds, which agrees with the times only  *)
(* as long as no event has more than a second in its microseconds.         *)
KeptSorted ==
  \A i, j \in DOMAIN eq : i < j => Micros(eq[i].tv_) <= Micros(eq[j].tv_)

(* Every entry is in the queue exactly once, or is the one that is being   *)
(* executed: no timer is lost, runs twice or is used after its deletion,   *)
(* whatever callbacks add and remove while they run.                       *)
EachTimerOnce ==
  /\ \A i, j \in DOMAIN eq : eq[i].hdl_ = eq[j].hdl_ => i = j
  /\ {eq[i].hdl_ : i \in DOMAIN eq} = DOMAIN timeout_ \ running
  /\ running \subseteq DOMAIN timeout_
  /\ \A h \in DOMAIN timeout_ : h < next_handle_

(* NextTimerTime is the time until the head is due, and zero exactly when  *)
(* its time has come, which is when the loops run it (timers.hh:126).      *)
TimeLeftIsRight ==
  eq # <<>> =>
    LET head == Micros(Head(eq).tv_)
    IN  Micros(NextTimerTime) = IF head <= now THEN 0 ELSE head - now
-----------------------------------------------------------------------------
(* The service that the library implements.                                *)
QueuedHandles == {eq[i].hdl_ : i \in DOMAIN eq}

DueTimes ==
  [h \in QueuedHandles |-> Micros(eq[CHOOSE i \in DOMAIN eq : eq[i].hdl_ = h].tv_)]

Service == INSTANCE TimerService
             WITH Handles <- 1 .. MaxHandles, due <- DueTimes, delay <- timeout_, current <- running

(* The list is as good as a set of timers with their due times: the head   *)
(* is always the earliest, and a timer is due when its timeout, counted    *)
(* from the clock's reading, has passed (timers.hh:59-66, 114-124).        *)
ImplementsService == Service!ServiceInit /\ [][Service!ServiceNext]_Service!serviceVars
=============================================================================
