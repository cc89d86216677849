---------------------------- MODULE TimerService ----------------------------
(***************************************************************************)
(* What the timers library promises its users (timers.hh): a timer that is *)
(* added runs in the order of due times, is re-armed or discarded as its   *)
(* callback says, and leaves early only when it is removed.  Times are     *)
(* whole microseconds and there is no list: this is the specification that *)
(* Timers implements.                                                      *)
(***************************************************************************)
EXTENDS Integers

CONSTANTS
  Handles,    \* what a timer is known by
  Delays,     \* the timeouts in use, in milliseconds
  Clock       \* the readings of the wall clock, in microseconds

VARIABLES
  now,        \* what the clock reads; it may be set back
  due,        \* when each waiting timer is due: [handles -> microseconds]
  delay,      \* the timeout of each timer that exists: [handles -> Delays]
  current     \* the timers whose callback is running: none or one

serviceVars == <<now, due, delay, current>>

After(d) == now + d * 1000

ServiceInit ==
  /\ now \in Clock
  /\ due = [h \in {} |-> 0]
  /\ delay = [h \in {} |-> 0]
  /\ current = {}

(* A handle is never given to a second timer while the first exists. *)
Add(h, d) ==
  /\ h \notin DOMAIN delay
  /\ delay' = [x \in DOMAIN delay \cup {h} |-> IF x = h THEN d ELSE delay[x]]
  /\ due' = [x \in DOMAIN due \cup {h} |-> IF x = h THEN After(d) ELSE due[x]]
  /\ UNCHANGED <<now, current>>

(* Only a waiting timer can be removed, not the one that is running. *)
Remove(h) ==
  /\ h \in DOMAIN due
  /\ delay' = [x \in DOMAIN delay \ {h} |-> delay[x]]
  /\ due' = [x \in DOMAIN due \ {h} |-> due[x]]
  /\ UNCHANGED <<now, current>>

Earliest == {h \in DOMAIN due : \A x \in DOMAIN due : due[h] <= due[x]}

Start(h) ==
  /\ current = {}
  /\ h \in Earliest
  /\ current' = {h}
  /\ due' = [x \in DOMAIN due \ {h} |-> due[x]]
  /\ UNCHANGED <<now, delay>>

Rearm(h, d) ==
  /\ current = {h}
  /\ current' = {}
  /\ delay' = [delay EXCEPT ![h] = d]
  /\ due' = [x \in DOMAIN due \cup {h} |-> IF x = h THEN After(d) ELSE due[x]]
  /\ UNCHANGED now

Discard(h) ==
  /\ current = {h}
  /\ current' = {}
  /\ delay' = [x \in DOMAIN delay \ {h} |-> delay[x]]
  /\ UNCHANGED <<now, due>>

SetClock ==
  /\ now' \in Clock
  /\ UNCHANGED <<due, delay, current>>

ServiceNext ==
  \/ SetClock
  \/ \E h \in Handles, d \in Delays : Add(h, d) \/ Rearm(h, d)
  \/ \E h \in Handles : Remove(h) \/ Start(h) \/ Discard(h)

ServiceSpec == ServiceInit /\ [][ServiceNext]_serviceVars
=============================================================================
