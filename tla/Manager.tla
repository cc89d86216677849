------------------------------- MODULE Manager -------------------------------
(***************************************************************************)
(* The start of the whole program (FreeBits.c:36-246 and Client.c up to    *)
(* its loop): the manager reads the configuration, forks the tracker and   *)
(* learns its port, forks the clients one after the other and sends each   *)
(* its configuration and the tracker's port over TCP, and waits for all.   *)
(*                                                                         *)
(* A client asks for its configuration as soon as it is connected.  The    *)
(* structure that it receives is followed by the port in the same stream:  *)
(* TCP may hand it over in two halves, and the second recv asks for as     *)
(* many bytes as the first, which reaches into the port.                   *)
(*                                                                         *)
(* Any call to the system may fail.  Each process exits when one fails     *)
(* whose result it looks at; the others go on without it.                  *)
(***************************************************************************)
EXTENDS Config

CONSTANT ConfigFiles   \* the configuration files of the instance

ASSUME ManagerAssumption == \A f \in ConfigFiles : WellFormed(f)

TrackerId == -1
NoPort == 0
TrackerPort == 1
UnknownPort == 2   \* whatever the variable held that was not set

Ports == {NoPort, TrackerPort, UnknownPort}

VARIABLES
  file,          \* manager.conf
  line,          \* the line that getline returns next
  mgr,           \* struct Manager
  managerAt,     \* where main is
  next,          \* the client that is forked or served
  listening,     \* has listen been called?
  backlog,       \* connections that accept has not taken yet
  trackerport,   \* what the manager knows of it
  status,        \* of each process: see Statuses
  stream,        \* the manager's bytes that a client has not read
  commInfo,      \* s_commInfo, files and tasks of a client: what it received
  port           \* s_commInfo.trackerport of a client

configVars == <<file, line, mgr>>

managerVars == <<configVars, managerAt, next, listening, backlog, trackerport, status, stream,
                 commInfo, port>>

clientVars == <<stream, commInfo, port>>

(* The clients of the file, once it has been read. *)
Clients == DOMAIN status \ {TrackerId}

Statuses ==
  {"unborn", "forked", "silent",                     \* silent: it died before it sent anything
   "asking", "halved", "configured", "overrun", "spinning",  \* a client that starts
   "running", "hung", "exited"}

(* The children that have not exited. *)
Alive == {p \in DOMAIN status : status[p] \notin {"unborn", "silent", "exited"}}

SetStatus(p, s) == status' = [status EXCEPT ![p] = s]
-----------------------------------------------------------------------------
(* The manager                                                             *)
ManagerInit ==
  /\ file \in ConfigFiles
  /\ line = 1
  /\ mgr = NewManager
  /\ managerAt = "read"
  /\ next = 0
  /\ listening = FALSE
  /\ backlog = <<>>
  /\ trackerport = NoPort
  /\ status = [p \in {TrackerId} |-> "unborn"]
  /\ stream = [c \in {} |-> <<>>]
  /\ commInfo = [c \in {} |-> Unset]
  /\ port = [c \in {} |-> NoPort]

(* readMgrCfg ends with the file, or with the first line after the tasks. *)
AllRead == line > Len(file) \/ mgr.section = "returned"

ReadLine ==
  /\ managerAt = "read"
  /\ ~AllRead
  /\ mgr' = TakeLine(mgr, file[line])
  /\ line' = line + 1
  /\ UNCHANGED <<file, managerAt, next, listening, backlog, trackerport, status, clientVars>>

(* setupManagerTCPComms binds the socket only, and exits if it cannot. *)
SetUp ==
  /\ managerAt = "read"
  /\ AllRead
  /\ managerAt' \in {"forkTracker", "failed"}
  /\ status' = [p \in DOMAIN mgr.clients \cup {TrackerId} |-> "unborn"]
  /\ stream' = [c \in DOMAIN mgr.clients |-> <<>>]
  /\ commInfo' = [c \in DOMAIN mgr.clients |-> Unset]
  /\ port' = [c \in DOMAIN mgr.clients |-> NoPort]
  /\ UNCHANGED <<configVars, next, listening, backlog, trackerport>>

ForkTracker ==
  /\ managerAt = "forkTracker"
  /\ SetStatus(TrackerId, "forked")
  /\ managerAt' = "listen"
  /\ UNCHANGED <<configVars, next, listening, backlog, trackerport, clientVars>>

Listen ==
  /\ managerAt = "listen"
  /\ listening' = TRUE
  /\ managerAt' = "acceptTracker"
  /\ UNCHANGED <<configVars, next, backlog, trackerport, status, clientVars>>

(* What recv returns is not looked at, nor whether sscanf finds a number:  *)
(* if the message does not come, the port is what the variable held.       *)
AcceptTracker ==
  /\ managerAt = "acceptTracker"
  /\ backlog # <<>>
  /\ backlog' = Tail(backlog)
  /\ trackerport' \in {UnknownPort} \cup (IF status[TrackerId] = "silent" THEN {} ELSE {TrackerPort})
  /\ managerAt' = "fork"
  /\ UNCHANGED <<configVars, next, listening, status, clientVars>>

(* Fault: the manager goes on to the next client at once. *)
ForkClientsTogether ==
  /\ managerAt = "fork"
  /\ next \in Clients
  /\ SetStatus(mgr.clients[next].id, "forked")
  /\ IF next + 1 \in Clients
     THEN next' = next + 1 /\ UNCHANGED managerAt
     ELSE managerAt' = "accept" /\ UNCHANGED next
  /\ UNCHANGED <<configVars, listening, backlog, trackerport, clientVars>>

ForkClient ==
  /\ managerAt = "fork"
  /\ next \in Clients
  /\ SetStatus(mgr.clients[next].id, "forked")
  /\ managerAt' = "accept"
  /\ UNCHANGED <<configVars, next, listening, backlog, trackerport, clientVars>>

(* fork, accept or recv fails, or a send finds that its client is gone:    *)
(* the manager exits, and its children, if it has any, stay.  They have    *)
(* inherited the listening socket: a connection that was not accepted      *)
(* stays open, one that was is closed.                                     *)
ManagerFails ==
  /\ \/ managerAt \in {"forkTracker", "acceptTracker", "accept"}
     \/ managerAt = "fork" /\ next \in Clients
  /\ managerAt' = "failed"
  /\ \/ UNCHANGED backlog
     \/ managerAt = "accept" /\ backlog # <<>> /\ backlog' = Tail(backlog)
  /\ UNCHANGED <<configVars, next, listening, trackerport, status, clientVars>>

(* The structure, in the two halves that TCP may make of it. *)
Structure(client) == <<[half |-> 1, client |-> client], [half |-> 2, client |-> client]>>

PortMessage == [port |-> trackerport]

(* Fault: the structure sent is always that of the first client. *)
SendFirstConfiguration(c) ==
  stream' = [stream EXCEPT ![c] = Append(Structure(mgr.clients[0]), PortMessage)]

(* Fault: the loop is left as soon as the structure is sent. *)
SendStructureOnly(c) ==
  stream' = [stream EXCEPT ![c] = Structure(mgr.clients[c])]

(* Both sends, to the client whose id the request carries. *)
SendConfiguration(c) ==
  \E i \in Clients :
    /\ mgr.clients[i].id = c
    /\ stream' = [stream EXCEPT ![c] = Append(Structure(mgr.clients[i]), PortMessage)]

(* The connection that is accepted: its request, or 0 from recv when the   *)
(* client has died without one, and then it is passed over.                *)
Serve(c) == IF status[c] = "silent" THEN UNCHANGED stream ELSE SendConfiguration(c)

(* Fault: the index is counted up by the loop and by its body. *)
AcceptClientAndSkip ==
  /\ managerAt = "accept"
  /\ backlog # <<>>
  /\ backlog' = Tail(backlog)
  /\ Serve(Head(backlog))
  /\ next' = next + 2
  /\ managerAt' = "fork"
  /\ UNCHANGED <<configVars, listening, trackerport, status, commInfo, port>>

AcceptClient ==
  /\ managerAt = "accept"
  /\ backlog # <<>>
  /\ backlog' = Tail(backlog)
  /\ Serve(Head(backlog))
  /\ next' = next + 1
  /\ managerAt' = "fork"
  /\ UNCHANGED <<configVars, listening, trackerport, status, commInfo, port>>

AllForked ==
  /\ managerAt = "fork"
  /\ next \notin Clients
  /\ managerAt' = "wait"
  /\ UNCHANGED <<configVars, next, listening, backlog, trackerport, status, clientVars>>

(* wait returns ECHILD. *)
WaitIsOver ==
  /\ managerAt = "wait"
  /\ Alive = {}
  /\ managerAt' = "exited"
  /\ UNCHANGED <<configVars, next, listening, backlog, trackerport, status, clientVars>>
-----------------------------------------------------------------------------
(* The children.  Each of them exits when a call fails before it is ready. *)
FailEarly(p) ==
  /\ status[p] \in {"forked", "asking", "halved", "configured", "overrun"}
  /\ SetStatus(p, "exited")
  /\ UNCHANGED <<configVars, managerAt, next, listening, backlog, trackerport, clientVars>>

(* connect is refused as long as the manager does not listen. *)
Refused(p) ==
  /\ status[p] = "forked"
  /\ ~listening
  /\ SetStatus(p, "exited")
  /\ UNCHANGED <<configVars, managerAt, next, listening, backlog, trackerport, clientVars>>

(* connect, and the message that follows, the tracker's port or the        *)
(* client's request, unless the process is killed before it.               *)
Connect(p) ==
  /\ status[p] = "forked"
  /\ listening
  /\ backlog' = Append(backlog, p)
  /\ \/ SetStatus(p, IF p = TrackerId THEN "running" ELSE "asking")
     \/ SetStatus(p, "silent")
  /\ UNCHANGED <<configVars, managerAt, next, listening, trackerport, clientVars>>

(* What the client has read of the stream. *)
Reads(c, n) == stream' = [stream EXCEPT ![c] = SubSeq(@, n + 1, Len(@))]

Takes(c) == commInfo' = [commInfo EXCEPT ![c] = Head(stream[c]).client]

(* The first recv: the whole structure, or a half of it. *)
ReceiveConfiguration(c) ==
  /\ status[c] = "asking"
  /\ stream[c] # <<>>
  /\ \/ Reads(c, 2) /\ SetStatus(c, "configured") /\ Takes(c)
     \/ Reads(c, 1) /\ SetStatus(c, "halved") /\ UNCHANGED commInfo
  /\ UNCHANGED <<configVars, managerAt, next, listening, backlog, trackerport, port>>

(* The second recv: the other half, or all that has come.  The port then   *)
(* ends up behind the buffer, where it may destroy what the stack holds.   *)
ReceiveSecondHalf(c) ==
  /\ status[c] = "halved"
  /\ \/ Reads(c, 1) /\ SetStatus(c, "configured") /\ Takes(c)
     \/ Reads(c, 2) /\ SetStatus(c, "overrun") /\ Takes(c)
     \/ Reads(c, 2) /\ SetStatus(c, "exited") /\ UNCHANGED commInfo
  /\ UNCHANGED <<configVars, managerAt, next, listening, backlog, trackerport, port>>

ReceivePort(c) ==
  /\ status[c] = "configured"
  /\ stream[c] # <<>>
  /\ Reads(c, 1)
  /\ port' = [port EXCEPT ![c] = Head(stream[c]).port]
  /\ SetStatus(c, "running")
  /\ UNCHANGED <<configVars, managerAt, next, listening, backlog, trackerport, commInfo>>

(* The manager's end of the connection is closed when the manager and all  *)
(* children that were forked later and inherited it are gone.              *)
Closed(c) ==
  /\ managerAt \in {"exited", "failed"}
  /\ \A p \in Alive : p <= c

(* recv returns 0 instead of the structure: the client calls it again, and *)
(* again, for ever.                                                        *)
StructureNeverComes(c) ==
  /\ status[c] = "asking"
  /\ stream[c] = <<>> /\ backlog # <<c>>
  /\ Closed(c)
  /\ SetStatus(c, "spinning")
  /\ UNCHANGED <<configVars, managerAt, next, listening, backlog, trackerport, clientVars>>

(* recv returns 0 instead of the port, and the client goes on with port 0. *)
PortNeverComes(c) ==
  /\ status[c] = "overrun"
  /\ Closed(c)
  /\ SetStatus(c, "running")
  /\ UNCHANGED <<configVars, managerAt, next, listening, backlog, trackerport, clientVars>>

(* A client exits when its UDP port is taken or a file is missing, without *)
(* tasks, and by its rules; the tracker when nobody asks it.               *)
Exit(p) ==
  /\ status[p] = "running"
  /\ SetStatus(p, "exited")
  /\ UNCHANGED <<configVars, managerAt, next, listening, backlog, trackerport, clientVars>>

(* A process waits for ever for the rest of a long packet, or no longer    *)
(* comes to the end of its own rounds (EventLoop).                         *)
Hang(p) ==
  /\ status[p] = "running"
  /\ SetStatus(p, "hung")
  /\ UNCHANGED <<configVars, managerAt, next, listening, backlog, trackerport, clientVars>>
-----------------------------------------------------------------------------
ManagerStep ==
  \/ ReadLine
  \/ SetUp
  \/ ForkTracker
  \/ Listen
  \/ AcceptTracker
  \/ ForkClient
  \/ AcceptClient
  \/ AllForked
  \/ WaitIsOver

ClientStart(c) ==
  \/ ReceiveConfiguration(c)
  \/ ReceiveSecondHalf(c)
  \/ ReceivePort(c)
  \/ StructureNeverComes(c)
  \/ PortNeverComes(c)

ManagerNext ==
  \/ ManagerStep
  \/ ManagerFails
  \/ \E p \in DOMAIN status : FailEarly(p) \/ Refused(p) \/ Connect(p) \/ Exit(p) \/ Hang(p)
  \/ \E c \in Clients : ClientStart(c)

ManagerSpec == ManagerInit /\ [][ManagerNext]_managerVars

(* Every process that runs takes its next step, and children leave in the  *)
(* end (EveryoneLeaves), but for those that hang.                          *)
FairManagerSpec ==
  /\ ManagerSpec
  /\ WF_managerVars(ManagerStep)
  /\ WF_managerVars(\E p \in DOMAIN status : Connect(p) \/ Refused(p))
  /\ WF_managerVars(\E c \in Clients : ClientStart(c))
  /\ WF_managerVars(\E p \in DOMAIN status : Exit(p))
-----------------------------------------------------------------------------
(* The types of the start-up's state. *)
ManagerTypeOK ==
  /\ file \in ConfigFiles
  /\ line \in 1 .. Len(file) + 1
  /\ mgr.section \in DOMAIN NextSection \cup {"returned"}
  /\ next \in 0 .. NumClients(mgr)
  /\ listening \in BOOLEAN
  /\ trackerport \in Ports
  /\ managerAt # "read" => /\ Clients = DOMAIN mgr.clients
                            /\ port \in [Clients -> Ports]
                            /\ commInfo \in [Clients -> {Unset} \cup Client]
                            /\ DOMAIN stream = Clients
  /\ \A p \in DOMAIN status : status[p] \in Statuses

(* The reader's one pass with its flags yields for every client what the   *)
(* file says of it, wherever comments and blank lines stand, and also if   *)
(* the file ends early (Manager.h:31-170).                                 *)
ReadsWhatIsWritten == managerAt # "read" => mgr.clients = Written(file)

(* What a client works with is what the file says of it: the request's id  *)
(* goes out and its structure comes back (FreeBits.c:190-205).             *)
OwnConfiguration ==
  \A c \in Clients :
    status[c] \in {"configured", "overrun", "running"} => commInfo[c] = Written(file)[c]

(* The process that the manager waits for. *)
Awaited ==
  CASE managerAt = "acceptTracker" -> {TrackerId}
    [] managerAt = "accept" -> {mgr.clients[next].id}
    [] OTHER -> {}

(* Only the process that was forked last may be waiting to be accepted, so *)
(* an accepted connection is never mistaken for another's.                 *)
OneAtATime ==
  \/ backlog = <<>> \/ managerAt = "failed"
  \/ \E p \in Awaited : backlog = <<p>>

(* A client that is past its structure still gets the port, and none runs  *)
(* with another port than the one that the manager knows, unless the       *)
(* manager has given up and the port was read along with the structure     *)
(* (Client.c:1305, 1342).  The manager knows the tracker's, unless its own *)
(* recv failed unseen (FreeBits.c:138).                                    *)
PortReaches ==
  \A c \in Clients :
    /\ status[c] = "configured" => stream[c] = <<[port |-> trackerport]>>
    /\ status[c] = "running" => port[c] = trackerport \/ managerAt = "failed"

(* Nobody waits for what will not come: the child that the manager awaits  *)
(* is on its way, is there, or has exited; a client that has asked is in   *)
(* the backlog or has its answer, and one that has begun to read finds the *)
(* rest in its stream (FreeBits.c:124-205, Client.c:1305-1342).  When the  *)
(* manager fails it lets down one client at most, the one whose turn it    *)
(* was: it waits for ever for its structure, or spins where recv returns 0.*)
NobodyWaitsInVain ==
  /\ backlog = <<>> => \A p \in Awaited : status[p] \in {"forked", "exited"}
  /\ \A c \in Clients :
       /\ status[c] = "asking" /\ stream[c] = <<>> =>
            IF managerAt = "failed" THEN c = next ELSE backlog = <<c>>
       /\ status[c] = "spinning" => managerAt = "failed" /\ c = next
       /\ status[c] \in {"halved", "configured"} => stream[c] # <<>>

(* The manager waits in accept for a child that has exited. *)
Stalled ==
  /\ backlog = <<>>
  /\ \E p \in Awaited : status[p] = "exited"

(* The program ends, the manager with its children or, after an error,     *)
(* before them, but for three causes: a child that dies before it connects *)
(* (FreeBits.c:129, 174), a client whose port went with its structure      *)
(* (Client.c:1305), and a child that hangs (Client.c:1612, Tracker.c:514). *)
MainReturns ==
  <>[](\/ managerAt \in {"exited", "failed"}
       \/ Stalled
       \/ \E p \in DOMAIN status : status[p] \in {"overrun", "hung"})
=============================================================================
