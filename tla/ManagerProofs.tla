--------------------------- MODULE ManagerProofs ---------------------------
(***************************************************************************)
(* Proofs about the start of the program, for any set of configuration     *)
(* files: what the manager reads is what is written, a connection is never *)
(* mistaken for another's, each client gets its own configuration and the  *)
(* tracker's port, and nobody waits for what will not come.                *)
(***************************************************************************)
EXTENDS Manager, ConfigProofs

(* The manager reads, and then it has read. *)
ReaderInv ==
  /\ file \in ConfigFiles
  /\ line \in 1 .. Len(file) + 1
  /\ ReaderType(mgr)
  /\ IF managerAt = "read" THEN ReaderOK(file, line, mgr) ELSE mgr.clients = Written(file)

Known == IF managerAt = "read" THEN {} ELSE DOMAIN mgr.clients

PlacesInv ==
  /\ managerAt \in {"read", "forkTracker", "listen", "acceptTracker", "fork", "accept", "wait",
                    "exited", "failed"}
  /\ listening \in BOOLEAN
  /\ managerAt \in {"read", "forkTracker", "listen"} => ~listening
  /\ DOMAIN status = Known \cup {TrackerId}
  /\ DOMAIN stream = Known /\ DOMAIN port = Known

(* Only the process forked last may be on its way to the manager, as long  *)
(* as that accepts connections.                                            *)
ForkedInv ==
  managerAt # "failed" =>
    /\ \A p \in DOMAIN status :
         status[p] = "forked" =>
           backlog = <<>> /\ p \in Awaited \cup (IF managerAt = "listen" THEN {TrackerId} ELSE {})
    /\ OneAtATime

(* Each client is forked once. *)
BornInv ==
  /\ next \in Nat
  /\ managerAt \in {"read", "forkTracker", "listen", "acceptTracker"} => next = 0
  /\ \A c \in Clients :
       status[c] # "unborn" => \/ managerAt = "failed"
                               \/ c \in 0 .. next - 1
                               \/ c = next /\ managerAt = "accept"

PortLast(k) == [port |-> k]

(* n messages, and then the port k. *)
PortAfter(s, n, k) == \E S : s \in Seq(S) /\ Len(s) = n + 1 /\ s[n + 1] = PortLast(k)

(* What a client still has to read, by how far it is. *)
StreamInv ==
  \A c \in Clients :
    /\ status[c] \in {"unborn", "forked"} => stream[c] = <<>>
    /\ status[c] = "asking" => stream[c] = <<>> \/ PortAfter(stream[c], 2, trackerport)
    /\ backlog = <<c>> /\ managerAt # "failed" =>
         status[c] \in {"asking", "silent", "exited"} /\ stream[c] = <<>>
    /\ status[c] = "halved" => PortAfter(stream[c], 1, trackerport)
    /\ status[c] = "configured" => PortAfter(stream[c], 0, trackerport)
    /\ status[c] = "running" => port[c] = trackerport \/ managerAt = "failed"

OverInv == managerAt = "exited" => Alive = {}

ManagerInv == PlacesInv /\ ForkedInv /\ BornInv /\ StreamInv /\ OverInv
-----------------------------------------------------------------------------
LEMMA ManagerStarts == ManagerInit => ManagerInv
<1> SUFFICES ASSUME ManagerInit PROVE ManagerInv
  OBVIOUS
<1>2. DOMAIN status = {TrackerId} /\ status[TrackerId] = "unborn"
  BY DEF ManagerInit
<1>3. PlacesInv /\ Clients = {}
  BY <1>2 DEF ManagerInit, PlacesInv, Known, Clients
<1>4. ForkedInv
  BY <1>2 DEF ManagerInit, ForkedInv, OneAtATime
<1> QED
  BY <1>3, <1>4 DEF ManagerInit, ManagerInv, BornInv, StreamInv, OverInv

(* What a reader knows that is through. *)
LEMMA HasRead ==
  ASSUME ReaderInv
  PROVE  /\ WellFormed(file)
         /\ \A c \in DOMAIN mgr.clients : mgr.clients[c] \in {Unset} \cup Client
         /\ managerAt # "read" =>
              /\ mgr.clients = Written(file)
              /\ DOMAIN mgr.clients = 0 .. NumClients(mgr) - 1 /\ NumClients(mgr) \in Nat
              /\ \A c \in DOMAIN mgr.clients : mgr.clients[c].id = c
<1>1. WellFormed(file)
  BY ManagerAssumption DEF ReaderInv
<1>2. \A c \in DOMAIN mgr.clients : mgr.clients[c] \in {Unset} \cup Client
  BY DEF ReaderInv, ReaderType
<1>3. ASSUME managerAt # "read"
      PROVE  /\ mgr.clients = Written(file)
             /\ DOMAIN mgr.clients = 0 .. NumClients(mgr) - 1 /\ NumClients(mgr) \in Nat
             /\ \A c \in DOMAIN mgr.clients : mgr.clients[c].id = c
  <2>1. mgr.clients = Written(file)
    BY <1>3 DEF ReaderInv
  <2> QED
    BY <1>1, <2>1, WrittenClients DEF NumClients
<1> QED
  BY <1>1, <1>2, <1>3
-----------------------------------------------------------------------------
(* Who is awaited: one process at most. *)
LEMMA AwaitedIsOne == \A p, q \in Awaited : p = q
BY DEF Awaited

LEMMA NoneForkedWhileForking ==
  ASSUME PlacesInv, ForkedInv, managerAt \in {"read", "forkTracker", "fork", "wait", "exited"}
  PROVE  backlog = <<>> /\ \A p \in DOMAIN status : status[p] # "forked"
<1>1. Awaited = {}
  BY DEF Awaited
<1> QED
  BY <1>1 DEF ForkedInv, OneAtATime

LEMMA KnownClients ==
  ASSUME PlacesInv
  PROVE  /\ Clients = Known \ {TrackerId}
         /\ Clients \subseteq DOMAIN status /\ Clients \subseteq DOMAIN stream
         /\ Clients \subseteq DOMAIN port /\ TrackerId \in DOMAIN status
BY DEF PlacesInv, Clients

(* The client forked next has not been forked. *)
LEMMA ForkedIsNew ==
  ASSUME ReaderInv, ManagerInv, managerAt = "fork", next \in Clients
  PROVE  mgr.clients[next].id = next /\ status[next] = "unborn"
<1>1. next \in DOMAIN mgr.clients /\ next \in Nat
  BY KnownClients DEF ManagerInv, PlacesInv, Known, BornInv
<1>2. mgr.clients[next].id = next
  BY <1>1, HasRead
<1>3. status[next] = "unborn"
  BY <1>1 DEF ManagerInv, BornInv
<1> QED
  BY <1>2, <1>3
-----------------------------------------------------------------------------
(* The stream of one client. *)
LEMMA PortComesNext ==
  ASSUME NEW s, NEW k, PortAfter(s, 0, k)
  PROVE  Head(s) = PortLast(k)
<1>1. PICK S : s \in Seq(S) /\ Len(s) = 1 /\ s[1] = PortLast(k)
  BY DEF PortAfter
<1> QED
  BY <1>1, HeadTailProperties, EmptySeq

LEMMA ReadingLeavesPort ==
  ASSUME NEW s, NEW n \in Nat, NEW m \in Nat, NEW k, PortAfter(s, n + m, k)
  PROVE  PortAfter(SubSeq(s, m + 1, Len(s)), n, k)
<1>1. PICK S : s \in Seq(S) /\ Len(s) = n + m + 1 /\ s[n + m + 1] = PortLast(k)
  BY DEF PortAfter
<1> DEFINE r == SubSeq(s, m + 1, Len(s))
<1>2. /\ r \in Seq(S)
      /\ Len(r) = IF m + 1 <= Len(s) THEN Len(s) - (m + 1) + 1 ELSE 0
      /\ \A i \in 1 .. Len(s) - (m + 1) + 1 : r[i] = s[m + 1 + i - 1]
  <2>1. s \in Seq(S) /\ m + 1 \in 1 .. Len(s) + 1 /\ Len(s) \in m .. Len(s)
    BY <1>1
  <2> QED
    BY <2>1, SubSeqProperties
<1> HIDE DEF r
<1>3. Len(r) = n + 1 /\ r[n + 1] = s[n + m + 1]
  BY <1>1, <1>2
<1>4. PortAfter(r, n, k)
  BY <1>1, <1>2, <1>3 DEF PortAfter
<1> QED
  BY <1>4 DEF r

LEMMA SentStream ==
  ASSUME NEW client
  PROVE  PortAfter(Append(Structure(client), PortMessage), 2, trackerport)
<1> DEFINE a == [half |-> 1, client |-> client]
           b == [half |-> 2, client |-> client]
           m == PortLast(trackerport)
           S == {a, b, m}
           s == Append(<<a, b>>, m)
<1> HIDE DEF a, b, m
<1>1. <<a, b>> \in Seq(S) /\ Len(<<a, b>>) = 2
  OBVIOUS
<1>2. m \in S
  OBVIOUS
<1> HIDE DEF S
<1>3. s \in Seq(S) /\ Len(s) = 3 /\ s[3] = m
  BY <1>1, <1>2, AppendProperties
<1>4. PortAfter(s, 2, trackerport)
  BY <1>3 DEF PortAfter, m
<1> QED
  BY <1>4 DEF s, a, b, m, Structure, PortMessage, PortLast
-----------------------------------------------------------------------------
(* The manager's own steps *)
LEMMA ReadLineKeepsInv == ManagerInv /\ ReadLine => ManagerInv'
<1> SUFFICES ASSUME ManagerInv, ReadLine PROVE ManagerInv'
  OBVIOUS
<1>1. /\ managerAt = "read" /\ managerAt' = "read" /\ mgr.section # "returned"
      /\ UNCHANGED <<next, listening, backlog, trackerport, status, stream, commInfo, port>>
  BY DEF ReadLine, AllRead, clientVars
<1>3. PlacesInv' /\ Clients' = Clients /\ Awaited' = Awaited /\ Alive' = Alive
  BY <1>1 DEF ManagerInv, PlacesInv, Known, Clients, Awaited, Alive
<1>4. ForkedInv'
  BY <1>1, <1>3 DEF ManagerInv, ForkedInv, OneAtATime
<1> QED
  BY <1>1, <1>3, <1>4 DEF ManagerInv, BornInv, StreamInv, OverInv

LEMMA SetUpKeepsInv == ManagerInv /\ SetUp => ManagerInv'
<1> SUFFICES ASSUME ManagerInv, SetUp PROVE ManagerInv'
  OBVIOUS
<1>1. /\ managerAt = "read" /\ managerAt' \in {"forkTracker", "failed"}
      /\ status' = [p \in DOMAIN mgr.clients \cup {TrackerId} |-> "unborn"]
      /\ stream' = [c \in DOMAIN mgr.clients |-> <<>>]
      /\ port' = [c \in DOMAIN mgr.clients |-> NoPort]
      /\ UNCHANGED <<mgr, next, listening, backlog, trackerport>>
  BY DEF SetUp, configVars
<1>2. backlog = <<>>
  BY <1>1, NoneForkedWhileForking DEF ManagerInv
<1>3. PlacesInv'
  BY <1>1 DEF ManagerInv, PlacesInv, Known
<1>4. \A p \in DOMAIN status' : status'[p] = "unborn"
  BY <1>1
<1>5. Clients' \subseteq DOMAIN stream' /\ Clients' \subseteq DOMAIN status'
  BY <1>1 DEF Clients
<1>6. ForkedInv'
  BY <1>1, <1>2, <1>4 DEF ForkedInv, OneAtATime
<1>7. BornInv' /\ StreamInv' /\ OverInv'
  BY <1>1, <1>2, <1>4, <1>5 DEF ManagerInv, BornInv, StreamInv, OverInv
<1> QED
  BY <1>3, <1>6, <1>7 DEF ManagerInv

(* The manager exits after an error. *)
LEMMA FailureKeepsInv == ManagerInv /\ ManagerFails => ManagerInv'
<1> SUFFICES ASSUME ManagerInv, ManagerFails PROVE ManagerInv'
  OBVIOUS
<1>1. /\ managerAt # "read" /\ managerAt' = "failed"
      /\ UNCHANGED <<mgr, next, listening, trackerport, status, stream, port>>
  BY DEF ManagerFails, configVars, clientVars
<1>2. PlacesInv' /\ Clients' = Clients
  <2>1. Known' = Known /\ Clients' = Clients
    BY <1>1 DEF Known, Clients
  <2>2. listening' = listening /\ listening \in BOOLEAN
    BY <1>1, Zenon DEF ManagerInv, PlacesInv
  <2> QED
    BY <1>1, <2>1, <2>2 DEF ManagerInv, PlacesInv
<1>3. ForkedInv' /\ OverInv'
  BY <1>1 DEF ForkedInv, OverInv
<1>4. BornInv'
  BY <1>1, <1>2 DEF ManagerInv, BornInv
<1>5. StreamInv'
  BY <1>1, <1>2 DEF ManagerInv, StreamInv
<1> QED
  BY <1>2, <1>3, <1>4, <1>5 DEF ManagerInv

(* Its other steps that change the status of no client. *)
LEMMA OwnStepKeepsInv ==
  ASSUME ManagerInv, ForkTracker \/ Listen \/ AcceptTracker \/ AllForked \/ WaitIsOver
  PROVE  ManagerInv'
<1>1. /\ managerAt # "read" /\ managerAt' \notin {"read", "accept", "failed"}
      /\ managerAt \notin {"accept", "failed"}
      /\ managerAt' \in {"forkTracker", "listen", "acceptTracker"} =>
           managerAt \in {"forkTracker", "listen"}
      /\ UNCHANGED <<mgr, next, stream, port>>
  BY DEF ForkTracker, Listen, AcceptTracker, AllForked, WaitIsOver, configVars, clientVars
<1>2. DOMAIN status' = DOMAIN status /\ \A c \in Clients : status'[c] = status[c]
  BY KnownClients DEF ManagerInv, ForkTracker, Listen, AcceptTracker, AllForked, WaitIsOver,
     SetStatus, Clients
<1>3. Clients' = Clients
  BY <1>1, <1>2 DEF ManagerInv, Clients
<1>4. PlacesInv'
  <2>1. /\ managerAt' \in {"listen", "acceptTracker", "fork", "wait", "exited"}
        /\ listening' \in BOOLEAN
        /\ managerAt' = "listen" => ~listening'
    <3>1. CASE ForkTracker \/ Listen
      <4>1. \/ managerAt = "forkTracker" /\ managerAt' = "listen" /\ listening' = listening
            \/ managerAt' = "acceptTracker" /\ listening' = TRUE
        BY <3>1 DEF ForkTracker, Listen
      <4>2. listening \in BOOLEAN /\ (managerAt = "forkTracker" => ~listening)
        BY Zenon DEF ManagerInv, PlacesInv
      <4>3. CASE managerAt = "forkTracker" /\ managerAt' = "listen" /\ listening' = listening
        <5>1. listening' \in BOOLEAN /\ ~listening'
          BY <4>2, <4>3, Zenon
        <5> QED
          BY <4>3, <5>1
      <4>4. CASE managerAt' = "acceptTracker" /\ listening' = TRUE
        BY <4>4
      <4> QED
        BY <4>1, <4>3, <4>4, Zenon
    <3>2. CASE AcceptTracker
      BY <3>2 DEF AcceptTracker, ManagerInv, PlacesInv
    <3>3. CASE AllForked \/ WaitIsOver
      BY <3>3 DEF AllForked, WaitIsOver, ManagerInv, PlacesInv
    <3> QED
      BY <3>1, <3>2, <3>3
  <2>2. DOMAIN status' = Known' \cup {TrackerId} /\ DOMAIN stream' = Known' /\ DOMAIN port' = Known'
    BY <1>1, <1>2 DEF ManagerInv, PlacesInv, Known
  <2> QED
    BY <1>1, <2>1, <2>2 DEF PlacesInv
<1>5. ForkedInv' /\ (backlog' = backlog \/ backlog' = <<>>)
  <2>1. CASE ForkTracker
    <3>1. backlog = <<>> /\ \A p \in DOMAIN status : status[p] # "forked"
      BY <2>1, NoneForkedWhileForking DEF ManagerInv, ForkTracker
    <3> QED
      BY <2>1, <3>1, <1>2 DEF ForkTracker, SetStatus, ForkedInv, OneAtATime
  <2>2. CASE Listen
    BY <2>2 DEF Listen, ManagerInv, ForkedInv, OneAtATime, Awaited
  <2>3. CASE AcceptTracker
    <3>1. backlog = <<TrackerId>> /\ Awaited = {TrackerId}
      BY <2>3 DEF AcceptTracker, ManagerInv, ForkedInv, OneAtATime, Awaited
    <3>2. \A p \in DOMAIN status : status[p] # "forked"
      BY <1>1, <3>1 DEF ManagerInv, ForkedInv
    <3>3. backlog' = <<>>
      BY <2>3, <3>1 DEF AcceptTracker
    <3> QED
      BY <2>3, <3>2, <3>3 DEF AcceptTracker, ForkedInv, OneAtATime
  <2>4. CASE AllForked \/ WaitIsOver
    <3>1. backlog = <<>> /\ \A p \in DOMAIN status : status[p] # "forked"
      BY <2>4, NoneForkedWhileForking DEF ManagerInv, AllForked, WaitIsOver
    <3> QED
      BY <2>4, <3>1 DEF AllForked, WaitIsOver, ForkedInv, OneAtATime
  <2> QED
    BY <2>1, <2>2, <2>3, <2>4
<1>6. BornInv'
  BY <1>1, <1>2, <1>3 DEF ManagerInv, BornInv
<1>7. StreamInv'
  <2>1. CASE AcceptTracker
    <3>1. managerAt = "acceptTracker" /\ next = 0
      BY <2>1 DEF AcceptTracker, ManagerInv, BornInv
    <3>2. \A c \in Clients : status[c] = "unborn"
      BY <3>1 DEF ManagerInv, BornInv
    <3>3. backlog' = <<>>
      BY <2>1 DEF AcceptTracker, ManagerInv, ForkedInv, OneAtATime, Awaited
    <3> QED
      BY <1>1, <1>2, <1>3, <3>2, <3>3 DEF ManagerInv, StreamInv
  <2>2. CASE ~AcceptTracker
    <3>1. trackerport' = trackerport
      BY <2>2 DEF ForkTracker, Listen, AllForked, WaitIsOver
    <3> QED
      BY <1>1, <1>2, <1>3, <1>5, <3>1 DEF ManagerInv, StreamInv
  <2> QED
    BY <2>1, <2>2
<1>8. OverInv'
  <2>1. CASE WaitIsOver
    BY <2>1 DEF WaitIsOver, OverInv, Alive
  <2>2. CASE ~WaitIsOver
    BY <2>2 DEF ForkTracker, Listen, AcceptTracker, AllForked, OverInv
  <2> QED
    BY <2>1, <2>2
<1> QED
  BY <1>3, <1>4, <1>5, <1>6, <1>7, <1>8 DEF ManagerInv

LEMMA ForkClientKeepsInv == ReaderInv /\ ManagerInv /\ ForkClient => ManagerInv'
<1> SUFFICES ASSUME ReaderInv, ManagerInv, ForkClient PROVE ManagerInv'
  OBVIOUS
<1> DEFINE id == mgr.clients[next].id
<1>1. /\ managerAt = "fork" /\ managerAt' = "accept" /\ next \in Clients
      /\ status' = [status EXCEPT ![id] = "forked"]
      /\ UNCHANGED <<mgr, next, listening, backlog, trackerport, stream, port>>
  BY DEF ForkClient, SetStatus, configVars, clientVars
<1>2. backlog = <<>> /\ \A p \in DOMAIN status : status[p] # "forked"
  BY <1>1, NoneForkedWhileForking DEF ManagerInv
<1>3. id = next /\ status[next] = "unborn"
  BY <1>1, ForkedIsNew
<1>4. Awaited' = {id}
  BY <1>1 DEF Awaited
<1> HIDE DEF id
<1>5. /\ DOMAIN status' = DOMAIN status
      /\ \A p \in DOMAIN status : status'[p] = IF p = id THEN "forked" ELSE status[p]
  BY <1>1
<1>6. Clients' = Clients /\ PlacesInv'
  BY <1>1, <1>5 DEF ManagerInv, Clients, PlacesInv, Known
<1>7. ForkedInv'
  BY <1>1, <1>2, <1>4, <1>5 DEF ForkedInv, OneAtATime
<1>8. BornInv'
  BY <1>1, <1>3, <1>5, <1>6, KnownClients DEF ManagerInv, BornInv
<1>9. StreamInv'
  BY <1>1, <1>2, <1>3, <1>5, <1>6, KnownClients DEF ManagerInv, StreamInv
<1> QED
  BY <1>1, <1>6, <1>7, <1>8, <1>9 DEF ManagerInv, OverInv

LEMMA AcceptClientKeepsInv == ManagerInv /\ AcceptClient => ManagerInv'
<1> SUFFICES ASSUME ManagerInv, AcceptClient PROVE ManagerInv'
  OBVIOUS
<1>1. /\ managerAt = "accept" /\ managerAt' = "fork" /\ backlog # <<>>
      /\ backlog' = Tail(backlog) /\ next' = next + 1
      /\ UNCHANGED <<mgr, listening, trackerport, status, port>>
      /\ Serve(Head(backlog))
  BY DEF AcceptClient, configVars
<1>2. PICK p \in Awaited : backlog = <<p>>
  BY <1>1 DEF ManagerInv, ForkedInv, OneAtATime
<1>3. backlog' = <<>> /\ \A q \in DOMAIN status : status[q] # "forked"
  BY <1>1, <1>2 DEF ManagerInv, ForkedInv
<1>4. \/ stream' = stream
      \/ \E i \in Clients :
           stream' = [stream EXCEPT ![p] = Append(Structure(mgr.clients[i]), PortMessage)]
  <2>1. Head(backlog) = p
    BY <1>2
  <2>2. Serve(p)
    BY <1>1, <2>1, Zenon
  <2> QED
    BY <2>2, Zenon DEF Serve, SendConfiguration
<1>5. Clients' = Clients /\ PlacesInv'
  <2>1. Clients' = Clients /\ DOMAIN stream' = DOMAIN stream
    BY <1>1, <1>4 DEF ManagerInv, Clients
  <2> QED
    BY <1>1, <2>1 DEF ManagerInv, PlacesInv, Known
<1>6. ForkedInv'
  BY <1>1, <1>3 DEF ForkedInv, OneAtATime
<1>7. BornInv'
  <2>1. next \in Nat
    BY DEF ManagerInv, BornInv
  <2>2. \A c \in Clients : status[c] # "unborn" => c \in 0 .. next - 1 \/ c = next
    BY <1>1 DEF ManagerInv, BornInv
  <2>3. \A c : c \in 0 .. next - 1 \/ c = next => c \in 0 .. next' - 1
    BY <1>1, <2>1
  <2> QED
    BY <1>1, <1>5, <2>1, <2>2, <2>3 DEF BornInv
<1>8. StreamInv'
  <2>1. ASSUME NEW c \in Clients
        PROVE  \/ stream'[c] = stream[c]
               \/ /\ status[c] \in {"asking", "silent", "exited"}
                  /\ PortAfter(stream'[c], 2, trackerport)
    <3>1. CASE c = p
      <4>1. c \in DOMAIN stream /\ status[c] \in {"asking", "silent", "exited"}
        BY <1>1, <1>2, <3>1, KnownClients DEF ManagerInv, StreamInv
      <4>2. CASE stream' = stream
        BY <4>2
      <4>3. ASSUME NEW i \in Clients,
                   stream' = [stream EXCEPT ![p] = Append(Structure(mgr.clients[i]), PortMessage)]
            PROVE  PortAfter(stream'[c], 2, trackerport)
        <5>1. stream'[c] = Append(Structure(mgr.clients[i]), PortMessage)
          BY <3>1, <4>1, <4>3
        <5> QED
          BY <5>1, SentStream
      <4> QED
        BY <1>4, <4>1, <4>2, <4>3
    <3>2. CASE c # p
      <4>1. c \in DOMAIN stream
        BY KnownClients DEF ManagerInv
      <4> QED
        BY <1>4, <3>2, <4>1
    <3> QED
      BY <3>1, <3>2
  <2>2. Clients' = Clients /\ status' = status /\ port' = port /\ backlog' = <<>>
        /\ trackerport' = trackerport /\ managerAt # "failed" /\ managerAt' # "failed"
    BY <1>1, <1>3, <1>5
  <2>3. \A c \in Clients : backlog' # <<c>>
    BY <2>2
  <2>4. ASSUME NEW c \in Clients
        PROVE  /\ status[c] \in {"unborn", "forked"} => stream'[c] = <<>>
               /\ status[c] = "asking" => stream'[c] = <<>> \/ PortAfter(stream'[c], 2, trackerport)
               /\ status[c] = "halved" => PortAfter(stream'[c], 1, trackerport)
               /\ status[c] = "configured" => PortAfter(stream'[c], 0, trackerport)
               /\ status[c] = "running" => port[c] = trackerport
    <3>1. CASE stream'[c] = stream[c]
      BY <2>2, <3>1 DEF ManagerInv, StreamInv
    <3>2. CASE status[c] \in {"asking", "silent", "exited"} /\ PortAfter(stream'[c], 2, trackerport)
      BY <3>2
    <3> QED
      BY <2>1, <3>1, <3>2
  <2> QED
    BY <2>2, <2>3, <2>4 DEF StreamInv
<1> QED
  BY <1>1, <1>5, <1>6, <1>7, <1>8 DEF ManagerInv, OverInv
-----------------------------------------------------------------------------
(* The children's steps *)

(* A step of a child that is not on its way: all but the streams. *)
LEMMA ChildKeepsRest ==
  ASSUME ManagerInv, NEW p \in DOMAIN status, NEW s,
         status[p] \notin {"unborn", "silent", "exited"}, s \notin {"unborn", "forked"},
         SetStatus(p, s),
         UNCHANGED <<mgr, managerAt, next, listening, trackerport>>,
         DOMAIN stream' = DOMAIN stream, DOMAIN port' = DOMAIN port
  PROVE  /\ PlacesInv' /\ BornInv' /\ OverInv' /\ Clients' = Clients
         /\ backlog' = backlog => ForkedInv'
         /\ \A c \in Clients : status'[c] = IF c = p THEN s ELSE status[c]
<1>1. /\ DOMAIN status' = DOMAIN status
      /\ \A q \in DOMAIN status : status'[q] = IF q = p THEN s ELSE status[q]
  BY DEF SetStatus
<1>2. Clients' = Clients /\ Clients \subseteq DOMAIN status
  BY <1>1 DEF ManagerInv, Clients
<1>3. PlacesInv'
  BY <1>1 DEF ManagerInv, PlacesInv, Known
<1>4. BornInv'
  BY <1>1, <1>2 DEF ManagerInv, BornInv
<1>5. OverInv'
  BY <1>1 DEF ManagerInv, OverInv, Alive
<1>6. ASSUME backlog' = backlog PROVE ForkedInv'
  <2>1. Awaited' = Awaited
    BY DEF Awaited
  <2>2. \A q \in DOMAIN status' : status'[q] = "forked" => q \in DOMAIN status /\ status[q] = "forked"
    BY <1>1
  <2> QED
    BY <1>6, <2>1, <2>2 DEF ManagerInv, ForkedInv, OneAtATime
<1> QED
  BY <1>1, <1>2, <1>3, <1>4, <1>5, <1>6

LEMMA ExitKeepsInv ==
  ASSUME ManagerInv, NEW p \in DOMAIN status,
         FailEarly(p) \/ Refused(p) \/ Exit(p) \/ Hang(p)
  PROVE  ManagerInv'
<1>1. PICK s \in {"exited", "hung"} :
        /\ status[p] \in {"forked", "asking", "halved", "configured", "overrun", "running"}
        /\ SetStatus(p, s) /\ (status[p] # "running" => s = "exited")
        /\ UNCHANGED <<mgr, managerAt, next, listening, backlog, trackerport, stream, port>>
  BY DEF FailEarly, Refused, Exit, Hang, configVars, clientVars
<1>2. /\ PlacesInv' /\ BornInv' /\ OverInv' /\ Clients' = Clients /\ ForkedInv'
      /\ \A c \in Clients : status'[c] = IF c = p THEN s ELSE status[c]
  BY <1>1, ChildKeepsRest
<1>3. StreamInv'
  BY <1>1, <1>2 DEF ManagerInv, StreamInv
<1> QED
  BY <1>2, <1>3 DEF ManagerInv

LEMMA ConnectKeepsInv ==
  ASSUME ManagerInv, NEW p \in DOMAIN status, Connect(p)
  PROVE  ManagerInv'
<1>1. PICK s \in {"running", "asking", "silent"} :
        /\ status[p] = "forked" /\ SetStatus(p, s) /\ listening
        /\ p # TrackerId => s # "running"
        /\ backlog' = Append(backlog, p)
        /\ UNCHANGED <<mgr, managerAt, next, listening, trackerport, stream, port>>
  BY DEF Connect, configVars, clientVars
<1>2. /\ PlacesInv' /\ BornInv' /\ OverInv' /\ Clients' = Clients
      /\ \A c \in Clients : status'[c] = IF c = p THEN s ELSE status[c]
  BY <1>1, ChildKeepsRest
<1>3. managerAt # "listen"
  BY <1>1, Zenon DEF ManagerInv, PlacesInv
<1>4. ASSUME managerAt # "failed"
      PROVE  ForkedInv' /\ backlog' = <<p>>
  <2>1. /\ p \in Awaited
        /\ \A q \in DOMAIN status : status[q] = "forked" => backlog = <<>> /\ q \in Awaited
    BY <1>1, <1>3, <1>4 DEF ManagerInv, ForkedInv
  <2>2. backlog' = <<p>>
    <3>1. backlog' = Append(<<>>, p)
      BY <1>1, <2>1, Zenon
    <3> QED
      BY <3>1
  <2>3. Awaited' = Awaited
    BY <1>1 DEF Awaited
  <2>4. \A q \in DOMAIN status' : status'[q] # "forked"
    <3>1. \A q \in DOMAIN status : status[q] = "forked" => q = p
      BY <2>1, AwaitedIsOne
    <3> QED
      BY <3>1, <1>1 DEF SetStatus
  <2> QED
    BY <2>1, <2>2, <2>3, <2>4 DEF ForkedInv, OneAtATime
<1>5. ForkedInv'
  BY <1>1, <1>4 DEF ForkedInv
<1>6. StreamInv'
  <2>1. TrackerId \notin Clients
    BY DEF Clients
  <2>2. \A c \in Clients : c = p => stream[c] = <<>> /\ s \in {"asking", "silent"}
    BY <1>1, <2>1 DEF ManagerInv, StreamInv
  <2>3. \A c \in Clients : backlog' = <<c>> /\ managerAt # "failed" => c = p
    BY <1>4
  <2> QED
    BY <1>1, <1>2, <2>2, <2>3 DEF ManagerInv, StreamInv
<1> QED
  BY <1>2, <1>5, <1>6 DEF ManagerInv

LEMMA ClientStartKeepsInv ==
  ASSUME ManagerInv, NEW c \in Clients, ClientStart(c)
  PROVE  ManagerInv'
<1>1. c \in DOMAIN status /\ c \in DOMAIN stream /\ c \in DOMAIN port
  BY KnownClients DEF ManagerInv
<1> DEFINE Progress(s) ==
      /\ s \in {"halved", "configured", "overrun", "exited", "spinning", "running"}
      /\ s = "halved" => PortAfter(stream'[c], 1, trackerport)
      /\ s = "configured" => PortAfter(stream'[c], 0, trackerport)
      /\ s = "running" => port'[c] = trackerport \/ managerAt = "failed"
<1>2. /\ UNCHANGED <<mgr, managerAt, next, listening, backlog, trackerport>>
      /\ DOMAIN stream' = DOMAIN stream /\ DOMAIN port' = DOMAIN port
      /\ \A d \in Clients : d # c => stream'[d] = stream[d] /\ port'[d] = port[d]
  BY KnownClients DEF ClientStart, ReceiveConfiguration, ReceiveSecondHalf, ReceivePort,
     StructureNeverComes, PortNeverComes, Reads, configVars, clientVars, ManagerInv
<1>3. /\ status[c] \in {"asking", "halved", "configured", "overrun"}
      /\ backlog # <<c>> \/ managerAt = "failed"
      /\ \E s : SetStatus(c, s) /\ Progress(s)
  <2>0. \A n, k \in Nat : PortAfter(stream[c], n + k, trackerport) /\ Reads(c, k) => PortAfter(stream'[c], n, trackerport)
    <3> SUFFICES ASSUME NEW n \in Nat, NEW k \in Nat, PortAfter(stream[c], n + k, trackerport), Reads(c, k)
                 PROVE  PortAfter(stream'[c], n, trackerport)
      OBVIOUS
    <3>1. PortAfter(SubSeq(stream[c], k + 1, Len(stream[c])), n, trackerport)
      BY ReadingLeavesPort
    <3>2. stream'[c] = SubSeq(stream[c], k + 1, Len(stream[c]))
      BY <1>1 DEF Reads
    <3> QED
      BY <3>1, <3>2
  <2>1. CASE ReceiveConfiguration(c)
    <3>1. status[c] = "asking" /\ stream[c] # <<>> /\ PortAfter(stream[c], 2, trackerport)
      BY <2>1 DEF ReceiveConfiguration, ManagerInv, StreamInv
    <3>2. backlog # <<c>> \/ managerAt = "failed"
      BY <3>1 DEF ManagerInv, StreamInv
    <3>3. \/ Reads(c, 2) /\ SetStatus(c, "configured")
          \/ Reads(c, 1) /\ SetStatus(c, "halved")
      BY <2>1 DEF ReceiveConfiguration
    <3>4. /\ Reads(c, 2) => PortAfter(stream'[c], 0, trackerport)
          /\ Reads(c, 1) => PortAfter(stream'[c], 1, trackerport)
      BY <2>0, <3>1
    <3>5. /\ Reads(c, 2) => Progress("configured")
          /\ Reads(c, 1) => Progress("halved")
      BY <3>4
    <3> QED
      BY <3>1, <3>2, <3>3, <3>5
  <2>2. CASE ReceiveSecondHalf(c)
    <3>1. status[c] = "halved" /\ PortAfter(stream[c], 1, trackerport)
      BY <2>2 DEF ReceiveSecondHalf, ManagerInv, StreamInv
    <3>2. backlog # <<c>> \/ managerAt = "failed"
      BY <3>1 DEF ManagerInv, StreamInv
    <3>3. \/ Reads(c, 1) /\ SetStatus(c, "configured")
          \/ SetStatus(c, "overrun")
          \/ SetStatus(c, "exited")
      BY <2>2 DEF ReceiveSecondHalf
    <3>4. Reads(c, 1) => PortAfter(stream'[c], 0, trackerport)
      BY <2>0, <3>1
    <3>5. Progress("overrun") /\ Progress("exited") /\ (Reads(c, 1) => Progress("configured"))
      BY <3>4
    <3> QED
      BY <3>1, <3>2, <3>3, <3>5
  <2>3. CASE ReceivePort(c)
    <3>1. status[c] = "configured" /\ PortAfter(stream[c], 0, trackerport)
      BY <2>3 DEF ReceivePort, ManagerInv, StreamInv
    <3>2. backlog # <<c>> \/ managerAt = "failed"
      BY <3>1 DEF ManagerInv, StreamInv
    <3>3. Head(stream[c]).port = trackerport
      BY <3>1, PortComesNext DEF PortLast
    <3>4. port'[c] = trackerport /\ SetStatus(c, "running")
      BY <2>3, <3>3, <1>1 DEF ReceivePort
    <3> QED
      BY <3>1, <3>2, <3>4
  <2>4. CASE PortNeverComes(c)
    <3>1. status[c] = "overrun" /\ SetStatus(c, "running") /\ managerAt \in {"exited", "failed"}
      BY <2>4 DEF PortNeverComes, Closed
    <3>2. c \in Alive
      BY <3>1, <1>1 DEF Alive
    <3>3. managerAt = "failed"
      BY <3>1, <3>2 DEF ManagerInv, OverInv
    <3>4. backlog # <<c>> \/ managerAt = "failed"
      BY <3>1 DEF ManagerInv, StreamInv
    <3> QED
      BY <3>1, <3>3, <3>4
  <2>5. CASE StructureNeverComes(c)
    BY <2>5 DEF StructureNeverComes
  <2> QED
    BY <2>1, <2>2, <2>3, <2>4, <2>5 DEF ClientStart
<1> HIDE DEF Progress
<1>4. PICK s : SetStatus(c, s) /\ Progress(s)
  BY <1>3
<1>5. s \in {"halved", "configured", "overrun", "exited", "spinning", "running"}
  BY <1>4 DEF Progress
<1>6. /\ PlacesInv' /\ BornInv' /\ OverInv' /\ Clients' = Clients /\ ForkedInv'
      /\ \A d \in Clients : status'[d] = IF d = c THEN s ELSE status[d]
  BY <1>1, <1>2, <1>3, <1>4, <1>5, ChildKeepsRest
<1>7. StreamInv'
  BY <1>2, <1>3, <1>4, <1>5, <1>6 DEF Progress, ManagerInv, StreamInv
<1> QED
  BY <1>6, <1>7 DEF ManagerInv
-----------------------------------------------------------------------------
LEMMA StepKeepsReaderInv == ReaderInv /\ [ManagerNext]_managerVars => ReaderInv'
<1> SUFFICES ASSUME ReaderInv, [ManagerNext]_managerVars PROVE ReaderInv'
  OBVIOUS
<1>1. WellFormed(file)
  BY HasRead
<1>2. CASE ReadLine
  <2>1. /\ managerAt = "read" /\ managerAt' = "read" /\ file' = file /\ line' = line + 1
        /\ ~(line > Len(file)) /\ mgr.section # "returned" /\ mgr' = TakeLine(mgr, file[line])
    BY <1>2 DEF ReadLine, AllRead
  <2>2. line \in DOMAIN file /\ line + 1 \in 1 .. Len(file) + 1
    BY <1>1, <2>1 DEF ReaderInv, WellFormed
  <2>3. ReaderOK(file, line + 1, TakeLine(mgr, file[line]))
    BY <1>1, <2>1, <2>2, ReaderGoesOn DEF ReaderInv
  <2>4. ReaderOK(file', line', mgr')
    BY <2>1, <2>3
  <2> QED
    BY <2>1, <2>2, <2>4 DEF ReaderInv, ReaderOK
<1>3. CASE SetUp
  <2>1. /\ managerAt = "read" /\ managerAt' # "read" /\ UNCHANGED <<file, line, mgr>>
        /\ line > Len(file) \/ mgr.section = "returned"
    BY <1>3 DEF SetUp, AllRead, configVars
  <2>2. mgr.clients = Written(file)
    BY <1>1, <2>1, ReaderIsThrough DEF ReaderInv
  <2> QED
    BY <2>1, <2>2 DEF ReaderInv
<1>4. CASE ~ReadLine /\ ~SetUp
  <2>1. UNCHANGED <<file, line, mgr>> /\ (managerAt = "read" <=> managerAt' = "read")
    BY <1>4 DEF managerVars, ManagerNext, ManagerStep, ForkTracker, Listen, AcceptTracker, ForkClient,
       AcceptClient, AllForked, WaitIsOver, ManagerFails, FailEarly, Refused, Connect, Exit, Hang,
       ClientStart, ReceiveConfiguration, ReceiveSecondHalf, ReceivePort, StructureNeverComes,
       PortNeverComes, configVars, clientVars
  <2> QED
    BY <2>1 DEF ReaderInv
<1> QED
  BY <1>2, <1>3, <1>4

LEMMA StepKeepsManagerInv == ReaderInv /\ ManagerInv /\ [ManagerNext]_managerVars => ManagerInv'
<1> SUFFICES ASSUME ReaderInv, ManagerInv, [ManagerNext]_managerVars PROVE ManagerInv'
  OBVIOUS
<1>1. CASE UNCHANGED managerVars
  BY <1>1 DEF managerVars, configVars, ManagerInv, PlacesInv, Known, ForkedInv,
     OneAtATime, Awaited, BornInv, Clients, StreamInv, OverInv, Alive
<1>2. CASE ManagerStep \/ ManagerFails
  BY <1>2, ReadLineKeepsInv, SetUpKeepsInv, OwnStepKeepsInv, FailureKeepsInv, ForkClientKeepsInv,
     AcceptClientKeepsInv
  DEF ManagerStep
<1>3. CASE \E p \in DOMAIN status : FailEarly(p) \/ Refused(p) \/ Connect(p) \/ Exit(p) \/ Hang(p)
  BY <1>3, ExitKeepsInv, ConnectKeepsInv
<1>4. CASE \E c \in Clients : ClientStart(c)
  BY <1>4, ClientStartKeepsInv
<1> QED
  BY <1>1, <1>2, <1>3, <1>4 DEF ManagerNext

THEOREM ManagerInvariant == ManagerSpec => [](ReaderInv /\ ManagerInv)
<1>1. ManagerInit => ReaderInv
  <2> SUFFICES ASSUME ManagerInit PROVE ReaderInv
    OBVIOUS
  <2>1. file \in ConfigFiles /\ line = 1 /\ mgr = NewManager /\ managerAt = "read"
    BY DEF ManagerInit
  <2>2. WellFormed(file)
    BY <2>1, ManagerAssumption
  <2>3. ReaderOK(file, line, mgr)
    BY <2>1, <2>2, ReaderStarts
  <2>4. line \in 1 .. Len(file) + 1
    BY <2>1, <2>2 DEF WellFormed
  <2> QED
    BY <2>1, <2>3, <2>4 DEF ReaderInv, ReaderOK
<1> QED
  BY <1>1, ManagerStarts, StepKeepsReaderInv, StepKeepsManagerInv, PTL DEF ManagerSpec

(* What the manager has read is what the file says. *)
THEOREM ReaderIsRight == ManagerSpec => []ReadsWhatIsWritten
<1>1. ReaderInv => ReadsWhatIsWritten
  BY DEF ReaderInv, ReadsWhatIsWritten
<1> QED
  BY <1>1, ManagerInvariant, PTL

-----------------------------------------------------------------------------
(* What is sent, what is received, and who waits for it. *)
TypesInv ==
  /\ trackerport \in Ports
  /\ next \in 0 .. NumClients(mgr)
  /\ managerAt = "read" => next = 0
  /\ managerAt = "accept" => next \in Clients
  /\ port \in [Known -> Ports]
  /\ commInfo \in [Known -> {Unset} \cup Client]
  /\ \A p \in DOMAIN status : status[p] \in Statuses

(* The next n messages carry the client. *)
Carries(s, n, client) == \A k \in 1 .. n : s[k].client = client

DeliveryInv ==
  \A c \in Clients :
    /\ status[c] = "asking" => stream[c] = <<>> \/ Carries(stream[c], 2, mgr.clients[c])
    /\ status[c] = "halved" => Carries(stream[c], 1, mgr.clients[c])
    /\ status[c] \in {"configured", "overrun", "running"} => commInfo[c] = mgr.clients[c]

WaitsInv ==
  /\ managerAt = "listen" => status[TrackerId] \in {"forked", "exited"}
  /\ backlog = <<>> => \A p \in Awaited : status[p] \in {"forked", "exited"}
  /\ \A c \in Clients :
       /\ status[c] = "asking" /\ stream[c] = <<>> =>
            IF managerAt = "failed" THEN c = next ELSE backlog = <<c>>
       /\ status[c] = "forked" /\ managerAt = "failed" => c = next
       /\ status[c] = "spinning" => managerAt = "failed" /\ c = next

StartInv == TypesInv /\ DeliveryInv /\ WaitsInv

LEMMA StartStarts == ManagerInit => StartInv
<1> SUFFICES ASSUME ManagerInit PROVE StartInv
  OBVIOUS
<1>1. /\ mgr = NewManager /\ managerAt = "read" /\ next = 0 /\ backlog = <<>> /\ trackerport = NoPort
      /\ port = [c \in {} |-> NoPort] /\ commInfo = [c \in {} |-> Unset]
      /\ DOMAIN status = {TrackerId} /\ status[TrackerId] = "unborn"
  BY DEF ManagerInit
<1>2. DOMAIN mgr.clients = {} /\ NumClients(mgr) = 0
  BY <1>1, FS_EmptySet DEF NumClients, NewManager
<1>3. Clients = {} /\ Known = {} /\ Awaited = {}
  BY <1>1 DEF Clients, Known, Awaited
<1>4. TypesInv
  BY <1>1, <1>2, <1>3 DEF TypesInv, Statuses, Ports
<1> QED
  BY <1>1, <1>3, <1>4 DEF StartInv, DeliveryInv, WaitsInv

LEMMA AllClients ==
  ASSUME ReaderInv, PlacesInv
  PROVE  Clients = Known
<1>1. Clients = Known \ {TrackerId}
  BY KnownClients
<1>2. TrackerId \notin Known
  BY HasRead DEF Known, TrackerId
<1> QED
  BY <1>1, <1>2

LEMMA ReadLineKeepsStart ==
  ASSUME ReaderInv, ReaderInv', ManagerInv, StartInv, ReadLine
  PROVE  StartInv'
<1>1. /\ managerAt = "read" /\ managerAt' = "read"
      /\ UNCHANGED <<next, listening, backlog, trackerport, status, stream, commInfo, port>>
  BY DEF ReadLine, clientVars
<1>2. Known = {} /\ Known' = {} /\ Awaited' = {} /\ Clients' = Clients /\ Clients = {}
  BY <1>1, KnownClients DEF ManagerInv, Known, Awaited, Clients
<1>3. NumClients(mgr)' \in Nat
  <2>1. ReadSoFar(file, line, mgr)' /\ WellFormed(file)'
    BY <1>1, ManagerAssumption DEF ReaderInv, ReaderOK
  <2>2. DOMAIN mgr'.clients = {} \/ \E n \in Nat : DOMAIN mgr'.clients = 0 .. n - 1
    BY <2>1 DEF ReadSoFar, NumbersRead, WellFormed
  <2>3. CASE DOMAIN mgr'.clients = {}
    BY <2>3, FS_EmptySet DEF NumClients
  <2>4. CASE \E n \in Nat : DOMAIN mgr'.clients = 0 .. n - 1
    BY <2>4, FS_Interval, FS_CardinalityType DEF NumClients
  <2> QED
    BY <2>2, <2>3, <2>4
<1>4. TypesInv'
  BY <1>1, <1>2, <1>3 DEF StartInv, TypesInv
<1> QED
  BY <1>1, <1>2, <1>4 DEF StartInv, DeliveryInv, WaitsInv

LEMMA SetUpKeepsStart ==
  ASSUME ReaderInv, ReaderInv', ManagerInv, ManagerInv', StartInv, SetUp
  PROVE  StartInv'
<1>1. /\ managerAt = "read" /\ managerAt' \in {"forkTracker", "failed"} /\ UNCHANGED <<mgr, next, backlog, trackerport>>
      /\ status' = [p \in DOMAIN mgr.clients \cup {TrackerId} |-> "unborn"]
      /\ commInfo' = [c \in DOMAIN mgr.clients |-> Unset]
      /\ port' = [c \in DOMAIN mgr.clients |-> NoPort]
  BY DEF SetUp, configVars
<1>2. Known' = DOMAIN mgr.clients /\ Awaited' = {} /\ NumClients(mgr)' = NumClients(mgr)
  BY <1>1 DEF Known, Awaited, NumClients
<1>3. Clients' \subseteq DOMAIN status' /\ \A p \in DOMAIN status' : status'[p] = "unborn"
  BY <1>1 DEF Clients
<1>4. TypesInv'
  BY <1>1, <1>2, <1>3 DEF StartInv, TypesInv, Statuses, Ports
<1> QED
  BY <1>1, <1>2, <1>3, <1>4 DEF StartInv, DeliveryInv, WaitsInv

LEMMA OwnStepKeepsStart ==
  ASSUME ReaderInv, ManagerInv, StartInv,
         ForkTracker \/ Listen \/ AcceptTracker \/ AllForked \/ WaitIsOver
  PROVE  StartInv'
<1>1. /\ managerAt \notin {"read", "failed"} /\ managerAt' \notin {"read", "accept", "failed"}
      /\ UNCHANGED <<mgr, next, stream, port, commInfo>>
  BY DEF ForkTracker, Listen, AcceptTracker, AllForked, WaitIsOver, configVars, clientVars
<1>2. /\ DOMAIN status' = DOMAIN status /\ \A c \in Clients : status'[c] = status[c]
      /\ \A p \in DOMAIN status : status'[p] = status[p] \/ status'[p] = "forked"
  BY KnownClients DEF ManagerInv, ForkTracker, Listen, AcceptTracker, AllForked, WaitIsOver,
     SetStatus, Clients
<1>3. Clients' = Clients /\ Known' = Known /\ NumClients(mgr)' = NumClients(mgr)
  BY <1>1, <1>2 DEF Clients, Known, NumClients
<1>4. trackerport' \in Ports
  BY DEF StartInv, TypesInv, Ports, ForkTracker, Listen, AcceptTracker, AllForked, WaitIsOver
<1>5. TypesInv'
  BY <1>1, <1>2, <1>3, <1>4 DEF StartInv, TypesInv, Statuses
<1>6. DeliveryInv'
  BY <1>1, <1>2, <1>3 DEF StartInv, DeliveryInv
<1>7. WaitsInv'
  <2>1. CASE ForkTracker
    <3>1. /\ managerAt' = "listen" /\ status' = [status EXCEPT ![TrackerId] = "forked"]
          /\ backlog' = backlog /\ TrackerId \in DOMAIN status
      BY <2>1, KnownClients DEF ForkTracker, SetStatus, ManagerInv
    <3>2. Awaited' = {}
      BY <3>1 DEF Awaited
    <3> QED
      BY <1>1, <1>2, <1>3, <3>1, <3>2 DEF StartInv, WaitsInv
  <2>2. CASE Listen
    <3>1. managerAt = "listen" /\ managerAt' = "acceptTracker" /\ UNCHANGED <<status, backlog>>
      BY <2>2 DEF Listen
    <3>2. Awaited' = {TrackerId}
      BY <3>1 DEF Awaited
    <3> QED
      BY <1>1, <1>3, <3>1, <3>2 DEF StartInv, WaitsInv
  <2>3. CASE AcceptTracker
    <3>1. managerAt' = "fork" /\ Awaited' = {} /\ status' = status
      BY <2>3 DEF AcceptTracker, Awaited
    <3>2. backlog = <<TrackerId>>
      BY <2>3 DEF AcceptTracker, ManagerInv, ForkedInv, OneAtATime, Awaited
    <3>3. \A c \in Clients : backlog # <<c>>
      BY <3>2 DEF Clients
    <3> QED
      BY <1>1, <1>3, <3>1, <3>3 DEF StartInv, WaitsInv
  <2>4. CASE AllForked \/ WaitIsOver
    <3>1. managerAt' \in {"wait", "exited"} /\ UNCHANGED <<status, backlog>>
      BY <2>4 DEF AllForked, WaitIsOver
    <3>2. Awaited' = {}
      BY <3>1 DEF Awaited
    <3> QED
      BY <1>1, <1>3, <3>1, <3>2 DEF StartInv, WaitsInv
  <2> QED
    BY <2>1, <2>2, <2>3, <2>4
<1> QED
  BY <1>5, <1>6, <1>7 DEF StartInv

(* Of the clients, only the one that is awaited is on its way or unserved. *)
LEMMA FailureKeepsStart ==
  ASSUME ReaderInv, ManagerInv, StartInv, ManagerFails
  PROVE  StartInv'
<1>1. /\ managerAt \notin {"read", "failed", "listen"} /\ managerAt' = "failed"
      /\ UNCHANGED <<mgr, next, trackerport, status, stream, port, commInfo>>
  BY DEF ManagerFails, configVars, clientVars
<1>2. /\ Clients' = Clients /\ Known' = Known /\ NumClients(mgr)' = NumClients(mgr)
      /\ Awaited' = {}
  BY <1>1 DEF Clients, Known, NumClients, Awaited
<1>3. TypesInv' /\ DeliveryInv'
  BY <1>1, <1>2 DEF StartInv, TypesInv, DeliveryInv
<1>4. \A c \in Clients : c \in Awaited => c = next
  <2>1. managerAt = "accept" => mgr.clients[next].id = next
    <3>1. managerAt = "accept" => next \in DOMAIN mgr.clients
      BY AllClients DEF StartInv, TypesInv, ManagerInv, Known
    <3> QED
      BY <1>1, <3>1, HasRead
  <2> QED
    BY <1>1, <2>1 DEF Awaited, Clients
<1>5. \A c \in Clients : backlog = <<c>> => c \in Awaited
  BY <1>1 DEF ManagerInv, ForkedInv, OneAtATime
<1>6. \A c \in Clients : status[c] = "forked" => c \in Awaited
  BY <1>1 DEF ManagerInv, ForkedInv, Clients
<1>7. WaitsInv'
  BY <1>1, <1>2, <1>4, <1>5, <1>6 DEF StartInv, WaitsInv
<1> QED
  BY <1>3, <1>7 DEF StartInv

LEMMA ForkClientKeepsStart ==
  ASSUME ReaderInv, ManagerInv, StartInv, ForkClient
  PROVE  StartInv'
<1>1. /\ managerAt = "fork" /\ managerAt' = "accept" /\ next \in Clients
      /\ status' = [status EXCEPT ![mgr.clients[next].id] = "forked"]
      /\ UNCHANGED <<mgr, next, backlog, trackerport, stream, port, commInfo>>
  BY DEF ForkClient, SetStatus, configVars, clientVars
<1>2. mgr.clients[next].id = next /\ next \in DOMAIN status
  BY <1>1, ForkedIsNew, KnownClients DEF ManagerInv
<1>3. /\ DOMAIN status' = DOMAIN status
      /\ \A p \in DOMAIN status : status'[p] = IF p = next THEN "forked" ELSE status[p]
  BY <1>1, <1>2
<1>4. /\ Clients' = Clients /\ Known' = Known /\ NumClients(mgr)' = NumClients(mgr)
      /\ Clients \subseteq DOMAIN status /\ Awaited' = {next}
  BY <1>1, <1>2, <1>3 DEF Clients, Known, NumClients, Awaited
<1>5. TypesInv'
  BY <1>1, <1>3, <1>4 DEF StartInv, TypesInv, Statuses
<1>6. DeliveryInv'
  BY <1>1, <1>3, <1>4 DEF StartInv, DeliveryInv
<1>7. WaitsInv'
  BY <1>1, <1>2, <1>3, <1>4 DEF StartInv, WaitsInv
<1> QED
  BY <1>5, <1>6, <1>7 DEF StartInv

LEMMA SentCarries ==
  ASSUME NEW client
  PROVE  /\ Carries(Append(Structure(client), PortMessage), 2, client)
         /\ Append(Structure(client), PortMessage) # <<>>
<1> DEFINE a == [half |-> 1, client |-> client]
           b == [half |-> 2, client |-> client]
           S == {a, b, PortMessage}
           s == Append(<<a, b>>, PortMessage)
<1>1. a.client = client /\ b.client = client
  OBVIOUS
<1> HIDE DEF a, b
<1>2. <<a, b>> \in Seq(S) /\ Len(<<a, b>>) = 2 /\ <<a, b>>[1] = a /\ <<a, b>>[2] = b
  OBVIOUS
<1>3. PortMessage \in S
  OBVIOUS
<1> HIDE DEF S
<1>4. /\ s # <<>>
      /\ \A i \in 1 .. Len(<<a, b>>) : s[i] = <<a, b>>[i]
  BY <1>2, <1>3, AppendProperties
<1> HIDE DEF s
<1>5. s[1] = a /\ s[2] = b
  <2>1. 1 \in 1 .. Len(<<a, b>>) /\ 2 \in 1 .. Len(<<a, b>>)
    BY <1>2
  <2> QED
    BY <1>2, <1>4, <2>1
<1>6. Carries(s, 2, client)
  BY <1>1, <1>5 DEF Carries
<1> QED
  BY <1>4, <1>6 DEF s, a, b, Structure

LEMMA AcceptClientKeepsStart ==
  ASSUME ReaderInv, ManagerInv, StartInv, AcceptClient
  PROVE  StartInv'
<1>1. /\ managerAt = "accept" /\ managerAt' = "fork" /\ backlog # <<>>
      /\ next' = next + 1 /\ Serve(Head(backlog))
      /\ UNCHANGED <<mgr, trackerport, status, commInfo, port>>
  BY DEF AcceptClient, configVars
<1>2. next \in Clients /\ Clients = Known /\ Known = DOMAIN mgr.clients
  BY <1>1, AllClients DEF StartInv, TypesInv, ManagerInv, Known
<1>3. /\ \A i \in Clients : mgr.clients[i].id = i
      /\ Known = 0 .. NumClients(mgr) - 1 /\ NumClients(mgr) \in Nat
  BY <1>1, <1>2, HasRead
<1>4. backlog = <<next>>
  BY <1>1, <1>2, <1>3 DEF ManagerInv, ForkedInv, OneAtATime, Awaited
<1>5. IF status[next] = "silent" THEN stream' = stream
      ELSE stream' = [stream EXCEPT ![next] = Append(Structure(mgr.clients[next]), PortMessage)]
  <2>1. Head(backlog) = next
    BY <1>4
  <2>2. Serve(next)
    BY <1>1, <2>1, Zenon
  <2>3. SendConfiguration(next) =>
          stream' = [stream EXCEPT ![next] = Append(Structure(mgr.clients[next]), PortMessage)]
    BY <1>3 DEF SendConfiguration
  <2> QED
    BY <2>2, <2>3 DEF Serve
<1>6. /\ Clients' = Clients /\ Known' = Known /\ NumClients(mgr)' = NumClients(mgr)
      /\ Awaited' = {} /\ Clients \subseteq DOMAIN stream
  BY <1>1, KnownClients DEF Clients, Known, NumClients, Awaited, ManagerInv
<1>7. TypesInv'
  <2>1. next + 1 \in 0 .. NumClients(mgr)
    BY <1>2, <1>3
  <2> QED
    BY <1>1, <1>6, <2>1 DEF StartInv, TypesInv
<1> DEFINE s == Append(Structure(mgr.clients[next]), PortMessage)
<1>8. Carries(s, 2, mgr.clients[next]) /\ s # <<>>
  BY SentCarries
<1> HIDE DEF s
<1>9. \A c \in Clients :
        stream'[c] = IF c = next /\ status[c] # "silent" THEN s ELSE stream[c]
  BY <1>5, <1>6 DEF s
<1>10. DeliveryInv'
  <2> SUFFICES ASSUME NEW c \in Clients
               PROVE  /\ status[c] = "asking" =>
                           stream'[c] = <<>> \/ Carries(stream'[c], 2, mgr.clients[c])
                      /\ status[c] = "halved" => Carries(stream'[c], 1, mgr.clients[c])
                      /\ status[c] \in {"configured", "overrun", "running"} =>
                           commInfo[c] = mgr.clients[c]
    BY <1>1, <1>6 DEF DeliveryInv
  <2>1. CASE c = next
    <3>1. status[c] \in {"asking", "silent", "exited"}
      BY <1>1, <1>4, <2>1 DEF ManagerInv, StreamInv
    <3> QED
      BY <1>8, <1>9, <2>1, <3>1
  <2>2. CASE c # next
    BY <1>9, <2>2 DEF StartInv, DeliveryInv
  <2> QED
    BY <2>1, <2>2
<1>11. WaitsInv'
  <2>1. \A c \in Clients : status[c] = "asking" => stream'[c] # <<>>
    <3>1. \A c \in Clients : c # next => backlog # <<c>>
      BY <1>4
    <3> QED
      BY <1>1, <1>8, <1>9, <3>1 DEF StartInv, WaitsInv
  <2> QED
    BY <1>1, <1>6, <2>1 DEF StartInv, WaitsInv
<1> QED
  BY <1>7, <1>10, <1>11 DEF StartInv

LEMMA AwaitedAreKnown ==
  ASSUME ReaderInv, ManagerInv, StartInv
  PROVE  Awaited \subseteq DOMAIN status
<1>1. TrackerId \in DOMAIN status /\ Clients \subseteq DOMAIN status
  BY KnownClients DEF ManagerInv
<1>2. ASSUME managerAt = "accept" PROVE mgr.clients[next].id = next /\ next \in Clients
  <2>1. next \in Clients
    BY <1>2 DEF StartInv, TypesInv
  <2>2. Clients = Known /\ Known = DOMAIN mgr.clients
    BY <1>2, AllClients DEF ManagerInv, Known
  <2> QED
    BY <1>2, <2>1, <2>2, HasRead
<1> QED
  BY <1>1, <1>2 DEF Awaited

LEMMA ExitKeepsStart ==
  ASSUME ReaderInv, ManagerInv, StartInv, NEW p \in DOMAIN status,
         FailEarly(p) \/ Refused(p) \/ Exit(p) \/ Hang(p)
  PROVE  StartInv'
<1>1. PICK s \in {"exited", "hung"} :
        /\ status' = [status EXCEPT ![p] = s] /\ (status[p] # "running" => s = "exited")
        /\ UNCHANGED <<mgr, managerAt, next, backlog, trackerport, stream, port, commInfo>>
  BY DEF FailEarly, Refused, Exit, Hang, SetStatus, configVars, clientVars
<1>2. /\ DOMAIN status' = DOMAIN status
      /\ \A q \in DOMAIN status :
           \/ status'[q] = status[q]
           \/ status'[q] = "exited"
           \/ status'[q] = "hung" /\ status[q] = "running"
      /\ Clients' = Clients /\ Clients \subseteq DOMAIN status /\ TrackerId \in DOMAIN status
  BY <1>1, KnownClients DEF Clients, ManagerInv
<1>3. Known' = Known /\ NumClients(mgr)' = NumClients(mgr) /\ Awaited' = Awaited
  BY <1>1 DEF Known, NumClients, Awaited
<1>4. TypesInv'
  BY <1>1, <1>2, <1>3 DEF StartInv, TypesInv, Statuses
<1>5. DeliveryInv'
  BY <1>1, <1>2 DEF StartInv, DeliveryInv
<1>6. WaitsInv'
  BY <1>1, <1>2, <1>3, AwaitedAreKnown DEF StartInv, WaitsInv
<1> QED
  BY <1>4, <1>5, <1>6 DEF StartInv

LEMMA ConnectKeepsStart ==
  ASSUME ReaderInv, ManagerInv, StartInv, NEW p \in DOMAIN status, Connect(p)
  PROVE  StartInv'
<1>1. PICK s \in {"running", "asking", "silent"} :
        /\ status[p] = "forked" /\ status' = [status EXCEPT ![p] = s] /\ listening
        /\ p # TrackerId => s # "running"
        /\ backlog' = Append(backlog, p)
        /\ UNCHANGED <<mgr, managerAt, next, trackerport, stream, port, commInfo>>
  BY DEF Connect, SetStatus, configVars, clientVars
<1>2. managerAt # "listen"
  BY <1>1, Zenon DEF ManagerInv, PlacesInv
<1>3. ASSUME managerAt # "failed"
      PROVE  backlog = <<>> /\ backlog' = <<p>>
  <2>1. backlog = <<>>
    BY <1>1, <1>3 DEF ManagerInv, ForkedInv
  <2>2. backlog' = Append(<<>>, p)
    BY <1>1, <2>1, Zenon
  <2> QED
    BY <2>1, <2>2
<1>4. TrackerId \notin Clients /\ Clients \subseteq DOMAIN status
  BY DEF Clients
<1>5. \A c \in Clients : status'[c] = IF c = p THEN s ELSE status[c]
  BY <1>1, <1>4
<1>6. /\ DOMAIN status' = DOMAIN status /\ Clients' = Clients
      /\ \A q \in DOMAIN status : status'[q] \in {status[q], s}
      /\ Known' = Known /\ NumClients(mgr)' = NumClients(mgr)
  BY <1>1 DEF Clients, Known, NumClients
<1>7. TypesInv'
  BY <1>1, <1>6 DEF StartInv, TypesInv, Statuses
<1>8. \A c \in Clients : c = p => stream[c] = <<>> /\ s \in {"asking", "silent"}
  BY <1>1, <1>4 DEF ManagerInv, StreamInv
<1>9. DeliveryInv'
  BY <1>1, <1>5, <1>6, <1>8 DEF StartInv, DeliveryInv
<1>10. WaitsInv'
  <2>1. CASE managerAt = "failed"
    <3>1. Awaited' = {}
      BY <1>1, <2>1 DEF Awaited
    <3> QED
      BY <1>1, <1>5, <1>6, <1>8, <2>1, <3>1 DEF StartInv, WaitsInv
  <2>2. CASE managerAt # "failed"
    <3>1. backlog' # <<>> /\ \A c \in Clients : backlog # <<c>>
      BY <1>3, <2>2
    <3> QED
      BY <1>1, <1>2, <1>3, <1>5, <1>6, <1>8, <2>2, <3>1 DEF StartInv, WaitsInv
  <2> QED
    BY <2>1, <2>2
<1> QED
  BY <1>7, <1>9, <1>10 DEF StartInv

(* Reading one half leaves the other. *)
LEMMA HalfLeavesHalf ==
  ASSUME NEW s, NEW client, NEW k, PortAfter(s, 2, k), Carries(s, 2, client)
  PROVE  Carries(SubSeq(s, 2, Len(s)), 1, client)
<1>1. PICK S : s \in Seq(S) /\ Len(s) = 2 + 1
  BY DEF PortAfter
<1>2. \A i \in 2 .. Len(s) : s[i] \in S
  <2>1. \A i \in 1 .. Len(s) : s[i] \in S
    BY <1>1, ElementOfSeq, Zenon
  <2> QED
    BY <1>1, <2>1
<1>3. \A i \in 1 .. Len(s) - 2 + 1 : SubSeq(s, 2, Len(s))[i] = s[2 + i - 1]
  BY <1>1, <1>2, SubSeqProperties
<1>4. SubSeq(s, 2, Len(s))[1] = s[2]
  BY <1>1, <1>3
<1> DEFINE r == SubSeq(s, 2, Len(s))
<1>5. s[2].client = client
  BY DEF Carries
<1>6. Carries(r, 1, client)
  <2> HIDE DEF r
  <2>1. r[1].client = client
    BY <1>4, <1>5 DEF r
  <2> QED
    BY <2>1 DEF Carries
<1> QED
  BY <1>6

LEMMA FirstCarries ==
  ASSUME NEW s, NEW client, NEW n \in {1, 2}, NEW k, PortAfter(s, n, k), Carries(s, n, client)
  PROVE  Head(s).client = client
<1>1. PICK S : s \in Seq(S) /\ Len(s) = n + 1
  BY DEF PortAfter
<1>2. Head(s) = s[1]
  BY <1>1, HeadTailProperties, EmptySeq
<1> QED
  BY <1>2 DEF Carries

LEMMA ClientStartKeepsStart ==
  ASSUME ReaderInv, ManagerInv, StartInv, NEW c \in Clients, ClientStart(c)
  PROVE  StartInv'
<1>1. /\ c \in DOMAIN status /\ c \in DOMAIN stream /\ c \in DOMAIN port
      /\ Clients \subseteq DOMAIN status /\ Clients = Known /\ TrackerId \notin Clients
  BY KnownClients, AllClients DEF ManagerInv, Clients
<1>2. c \in DOMAIN commInfo
  BY <1>1 DEF StartInv, TypesInv
<1> DEFINE own == mgr.clients[c]
           Started(s) ==
             /\ s \in {"halved", "configured", "overrun", "exited", "spinning", "running"}
             /\ s = "spinning" => stream'[c] = stream[c] /\ managerAt = "failed" /\ c = next
             /\ s = "halved" => Carries(stream'[c], 1, own)
             /\ s \in {"configured", "overrun", "running"} => commInfo'[c] = own
             /\ commInfo'[c] \in {Unset} \cup Client
             /\ port'[c] \in Ports
<1>3. /\ UNCHANGED <<mgr, managerAt, next, backlog, trackerport>>
      /\ DOMAIN port' = DOMAIN port /\ DOMAIN commInfo' = DOMAIN commInfo
      /\ commInfo' = commInfo \/ Takes(c)
      /\ \A d \in Clients : d # c => stream'[d] = stream[d]
      /\ \A d \in Known : d # c => port'[d] = port[d] /\ commInfo'[d] = commInfo[d]
  BY <1>1 DEF ClientStart, ReceiveConfiguration, ReceiveSecondHalf, ReceivePort,
     StructureNeverComes, PortNeverComes, Reads, Takes, configVars, clientVars, ManagerInv, PlacesInv, StartInv, TypesInv
<1>4. port[c] \in Ports /\ commInfo[c] \in {Unset} \cup Client
  BY <1>1 DEF StartInv, TypesInv
<1>5. own \in {Unset} \cup Client
  <2>1. c \in DOMAIN mgr.clients
    BY <1>1 DEF Known
  <2> QED
    BY <2>1, HasRead
<1>6. /\ status[c] \in {"asking", "halved", "configured", "overrun"}
      /\ \E s : SetStatus(c, s) /\ Started(s)
  <2> HIDE DEF own
  <2>1. CASE ReceiveConfiguration(c)
    <3>1. /\ status[c] = "asking" /\ PortAfter(stream[c], 2, trackerport) /\ Carries(stream[c], 2, own)
          /\ port' = port
      BY <2>1 DEF ReceiveConfiguration, ManagerInv, StreamInv, StartInv, DeliveryInv, own
    <3>2. \/ Reads(c, 2) /\ SetStatus(c, "configured") /\ Takes(c)
          \/ Reads(c, 1) /\ SetStatus(c, "halved") /\ UNCHANGED commInfo
      BY <2>1 DEF ReceiveConfiguration
    <3>3. Takes(c) => Started("configured")
      <4>1. Head(stream[c]).client = own
        BY <3>1, FirstCarries
      <4>2. Takes(c) => commInfo'[c] = own
        BY <1>2, <4>1 DEF Takes
      <4> QED
        BY <1>4, <1>5, <3>1, <4>2
    <3>4. Reads(c, 1) /\ commInfo' = commInfo => Started("halved")
      <4>1. Carries(SubSeq(stream[c], 2, Len(stream[c])), 1, own)
        BY <3>1, HalfLeavesHalf
      <4>2. Reads(c, 1) => stream'[c] = SubSeq(stream[c], 2, Len(stream[c]))
        BY <1>1 DEF Reads
      <4> QED
        BY <1>4, <3>1, <4>1, <4>2
    <3> QED
      BY <3>1, <3>2, <3>3, <3>4
  <2>2. CASE ReceiveSecondHalf(c)
    <3>1. /\ status[c] = "halved" /\ PortAfter(stream[c], 1, trackerport) /\ Carries(stream[c], 1, own)
          /\ port' = port
      BY <2>2 DEF ReceiveSecondHalf, ManagerInv, StreamInv, StartInv, DeliveryInv, own
    <3>2. \/ SetStatus(c, "configured") /\ Takes(c)
          \/ SetStatus(c, "overrun") /\ Takes(c)
          \/ SetStatus(c, "exited") /\ UNCHANGED commInfo
      BY <2>2 DEF ReceiveSecondHalf
    <3>3. Head(stream[c]).client = own
      BY <3>1, FirstCarries
    <3>4. Takes(c) => commInfo'[c] = own
      BY <1>2, <3>3 DEF Takes
    <3>5. (Takes(c) => Started("configured") /\ Started("overrun"))
          /\ (commInfo' = commInfo => Started("exited"))
      BY <1>4, <1>5, <3>1, <3>4
    <3> QED
      BY <3>1, <3>2, <3>5
  <2>3. CASE ReceivePort(c)
    <3>1. /\ status[c] = "configured" /\ PortAfter(stream[c], 0, trackerport) /\ commInfo[c] = own
          /\ commInfo' = commInfo /\ SetStatus(c, "running")
      BY <2>3 DEF ReceivePort, ManagerInv, StreamInv, StartInv, DeliveryInv, own
    <3>2. port'[c] = trackerport
      <4>1. Head(stream[c]).port = trackerport
        BY <3>1, PortComesNext DEF PortLast
      <4> QED
        BY <2>3, <4>1, <1>1 DEF ReceivePort
    <3>3. Started("running")
      BY <1>4, <3>1, <3>2 DEF StartInv, TypesInv
    <3> QED
      BY <3>1, <3>3
  <2>4. CASE PortNeverComes(c)
    <3>1. /\ status[c] = "overrun" /\ commInfo[c] = own
          /\ commInfo' = commInfo /\ port' = port /\ SetStatus(c, "running")
      BY <2>4 DEF PortNeverComes, StartInv, DeliveryInv, clientVars, own
    <3>2. Started("running")
      BY <1>4, <3>1
    <3> QED
      BY <3>1, <3>2
  <2>5. CASE StructureNeverComes(c)
    <3>1. /\ status[c] = "asking" /\ stream[c] = <<>> /\ backlog # <<c>>
          /\ stream' = stream /\ commInfo' = commInfo /\ port' = port /\ SetStatus(c, "spinning")
      BY <2>5 DEF StructureNeverComes, clientVars
    <3>2. managerAt = "failed" /\ c = next
      BY <3>1 DEF StartInv, WaitsInv
    <3>3. Started("spinning")
      BY <1>4, <3>1, <3>2
    <3> QED
      BY <3>1, <3>3
  <2> QED
    BY <2>1, <2>2, <2>3, <2>4, <2>5 DEF ClientStart
<1> HIDE DEF Started
<1>7. PICK s : SetStatus(c, s) /\ Started(s)
  BY <1>6
<1>8. /\ DOMAIN status' = DOMAIN status
      /\ \A p \in DOMAIN status : status'[p] = IF p = c THEN s ELSE status[p]
      /\ Clients' = Clients /\ Known' = Known /\ NumClients(mgr)' = NumClients(mgr)
      /\ Awaited' = Awaited
  BY <1>3, <1>7 DEF SetStatus, Clients, Known, NumClients, Awaited
<1>9. TypesInv'
  <2>1. port' \in [Known -> Ports]
    BY <1>3, <1>7 DEF StartInv, TypesInv, Started, Takes, ReceivePort, ClientStart, ReceiveConfiguration,
       ReceiveSecondHalf, StructureNeverComes, PortNeverComes, clientVars
  <2>2. commInfo' \in [Known -> {Unset} \cup Client]
    BY <1>3, <1>7 DEF StartInv, TypesInv, Started, Takes
  <2>3. \A p \in DOMAIN status' : status'[p] \in Statuses
    BY <1>7, <1>8 DEF StartInv, TypesInv, Statuses, Started
  <2> QED
    BY <1>3, <1>8, <2>1, <2>2, <2>3 DEF StartInv, TypesInv
<1>10. DeliveryInv'
  <2> SUFFICES ASSUME NEW d \in Clients
               PROVE  /\ status'[d] = "asking" =>
                           stream'[d] = <<>> \/ Carries(stream'[d], 2, mgr.clients[d])
                      /\ status'[d] = "halved" => Carries(stream'[d], 1, mgr.clients[d])
                      /\ status'[d] \in {"configured", "overrun", "running"} =>
                           commInfo'[d] = mgr.clients[d]
    BY <1>3, <1>8 DEF DeliveryInv
  <2>1. CASE d = c
    BY <1>1, <1>7, <1>8, <2>1 DEF Started
  <2>2. CASE d # c
    BY <1>1, <1>3, <1>8, <2>2 DEF StartInv, DeliveryInv
  <2> QED
    BY <2>1, <2>2
<1>11. WaitsInv'
  <2>1. s # "asking"
    BY <1>7 DEF Started
  <2>2. managerAt = "listen" => status[TrackerId] = status'[TrackerId]
    BY <1>1, <1>8, KnownClients DEF ManagerInv
  <2>3. backlog = <<>> => \A p \in Awaited : status'[p] \in {"forked", "exited"}
    <3>1. Awaited \subseteq DOMAIN status
      BY AwaitedAreKnown
    <3> QED
      BY <1>6, <1>8, <3>1 DEF StartInv, WaitsInv
  <2>4. ASSUME NEW d \in Clients
        PROVE  /\ status'[d] = "asking" /\ stream'[d] = <<>> =>
                    IF managerAt = "failed" THEN d = next ELSE backlog = <<d>>
               /\ status'[d] = "forked" /\ managerAt = "failed" => d = next
               /\ status'[d] = "spinning" => managerAt = "failed" /\ d = next
    <3>1. CASE d = c
      BY <1>1, <1>7, <1>8, <3>1 DEF Started
    <3>2. CASE d # c
      BY <1>1, <1>3, <1>8, <3>2 DEF StartInv, WaitsInv
    <3> QED
      BY <3>1, <3>2
  <2> QED
    BY <1>3, <1>8, <2>2, <2>3, <2>4 DEF StartInv, WaitsInv
<1> QED
  BY <1>9, <1>10, <1>11 DEF StartInv

LEMMA StepKeepsStart ==
  ReaderInv /\ ManagerInv /\ ReaderInv' /\ ManagerInv' /\ StartInv /\ [ManagerNext]_managerVars
    => StartInv'
<1> SUFFICES ASSUME ReaderInv, ManagerInv, ReaderInv', ManagerInv', StartInv, [ManagerNext]_managerVars
             PROVE  StartInv'
  OBVIOUS
<1>1. CASE UNCHANGED managerVars
  <2>1. UNCHANGED <<mgr, managerAt, next, backlog, trackerport, status, stream, commInfo, port>>
    BY <1>1 DEF managerVars, configVars
  <2>2. Clients' = Clients /\ Known' = Known /\ NumClients(mgr)' = NumClients(mgr) /\ Awaited' = Awaited
    BY <2>1 DEF Clients, Known, NumClients, Awaited
  <2> QED
    BY <2>1, <2>2 DEF StartInv, TypesInv, DeliveryInv, WaitsInv
<1>2. CASE ManagerStep \/ ManagerFails
  BY <1>2, ReadLineKeepsStart, SetUpKeepsStart, OwnStepKeepsStart, FailureKeepsStart, ForkClientKeepsStart,
     AcceptClientKeepsStart
  DEF ManagerStep
<1>3. CASE \E p \in DOMAIN status : FailEarly(p) \/ Refused(p) \/ Connect(p) \/ Exit(p) \/ Hang(p)
  BY <1>3, ExitKeepsStart, ConnectKeepsStart
<1>4. CASE \E c \in Clients : ClientStart(c)
  BY <1>4, ClientStartKeepsStart
<1> QED
  BY <1>1, <1>2, <1>3, <1>4 DEF ManagerNext

THEOREM StartInvariant == ManagerSpec => []StartInv
BY ManagerInvariant, StartStarts, StepKeepsStart, PTL DEF ManagerSpec

(* The start-up's state keeps its types. *)
THEOREM ManagerTypeCorrect == ManagerSpec => []ManagerTypeOK
<1>1. ReaderInv /\ ManagerInv /\ StartInv => ManagerTypeOK
  <2> SUFFICES ASSUME ReaderInv, ManagerInv, StartInv PROVE ManagerTypeOK
    OBVIOUS
  <2>1. mgr.section \in DOMAIN NextSection \cup {"returned"}
    BY DEF ReaderInv, ReaderType, NextSection, Sections
  <2>2. ASSUME managerAt # "read"
        PROVE  /\ Clients = DOMAIN mgr.clients
               /\ port \in [Clients -> Ports]
               /\ commInfo \in [Clients -> {Unset} \cup Client]
               /\ DOMAIN stream = Clients
    BY <2>2, AllClients DEF ManagerInv, PlacesInv, StartInv, TypesInv, Known
  <2>3. listening \in BOOLEAN
    BY Zenon DEF ManagerInv, PlacesInv
  <2>4. /\ file \in ConfigFiles /\ line \in 1 .. Len(file) + 1
        /\ next \in 0 .. NumClients(mgr) /\ trackerport \in Ports
        /\ \A p \in DOMAIN status : status[p] \in Statuses
    BY DEF ReaderInv, StartInv, TypesInv
  <2> QED
    BY <2>1, <2>2, <2>3, <2>4, Zenon DEF ManagerTypeOK
<1> QED
  BY <1>1, ManagerInvariant, StartInvariant, PTL

(* Each client works with what the file says of it. *)
THEOREM ConfigurationsReach == ManagerSpec => []OwnConfiguration
<1>1. ReaderInv /\ ManagerInv /\ StartInv => OwnConfiguration
  <2> SUFFICES ASSUME ReaderInv, ManagerInv, StartInv PROVE OwnConfiguration
    OBVIOUS
  <2>1. Clients # {} => managerAt # "read"
    BY KnownClients DEF ManagerInv, Known
  <2>2. managerAt # "read" => mgr.clients = Written(file)
    BY DEF ReaderInv
  <2> QED
    BY <2>1, <2>2 DEF OwnConfiguration, StartInv, DeliveryInv
<1> QED
  BY <1>1, ManagerInvariant, StartInvariant, PTL

(* Nobody waits for a message that is not on its way, but for the one      *)
(* client whose turn it was when the manager failed.                       *)
THEOREM NobodyIsLeftWaiting == ManagerSpec => []NobodyWaitsInVain
<1>1. ReaderInv /\ ManagerInv /\ StartInv => NobodyWaitsInVain
  <2> SUFFICES ASSUME ManagerInv, StartInv PROVE NobodyWaitsInVain
    OBVIOUS
  <2>1. \A s, n, k : n \in {0, 1} /\ PortAfter(s, n, k) => s # <<>>
    <3> SUFFICES ASSUME NEW s, NEW n \in {0, 1}, NEW k, PortAfter(s, n, k) PROVE s # <<>>
      OBVIOUS
    <3>1. PICK S : s \in Seq(S) /\ Len(s) = n + 1
      BY DEF PortAfter
    <3> QED
      BY <3>1
  <2>2. \A c \in Clients : status[c] \in {"halved", "configured"} => stream[c] # <<>>
    BY <2>1 DEF ManagerInv, StreamInv
  <2> QED
    BY <2>2 DEF NobodyWaitsInVain, StartInv, WaitsInv
<1> QED
  BY <1>1, ManagerInvariant, StartInvariant, PTL

(* No accepted connection is mistaken for another process's. *)
THEOREM OneConnectionAtATime == ManagerSpec => []OneAtATime
<1>1. ManagerInv => OneAtATime
  BY DEF ManagerInv, ForkedInv, OneAtATime
<1> QED
  BY <1>1, ManagerInvariant, PTL

(* A client gets the port that the manager knows, unless that has failed. *)
THEOREM PortReachesClients == ManagerSpec => []PortReaches
<1>1. ManagerInv => PortReaches
  <2> SUFFICES ASSUME ManagerInv, NEW c \in Clients
               PROVE  /\ status[c] = "configured" => stream[c] = <<[port |-> trackerport]>>
                      /\ status[c] = "running" => port[c] = trackerport \/ managerAt = "failed"
    BY DEF PortReaches
  <2>1. status[c] = "running" => port[c] = trackerport \/ managerAt = "failed"
    BY DEF ManagerInv, StreamInv
  <2>2. ASSUME status[c] = "configured"
        PROVE  stream[c] = <<PortLast(trackerport)>>
    <3>1. PICK S : stream[c] \in Seq(S) /\ Len(stream[c]) = 1 /\ stream[c][1] = PortLast(trackerport)
      BY <2>2 DEF ManagerInv, StreamInv, PortAfter
    <3>2. stream[c] \in [1 .. 1 -> S]
      BY <3>1, LenProperties
    <3> HIDE DEF PortLast
    <3> QED
      BY <3>1, <3>2
  <2> QED
    BY <2>1, <2>2 DEF PortLast
<1> QED
  BY <1>1, ManagerInvariant, PTL
=============================================================================
