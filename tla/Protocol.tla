------------------------------ MODULE Protocol ------------------------------
(***************************************************************************)
(* What the tracker and the clients of FreeBits share: who they are, what  *)
(* the configuration file gives each client, and the UDP network between   *)
(* them.                                                                   *)
(*                                                                         *)
(* A file is a model value.  Its size is abstracted to its number of       *)
(* 32-byte segments, filesize / SEGMENT_SIZE + 1, and 0 still stands for   *)
(* "size not known".  No configured name is a prefix of another and no     *)
(* client lists a file twice, so a table that the code searches by name is *)
(* a function of the file here.                                            *)
(***************************************************************************)
EXTENDS Naturals, FiniteSets, Bags

CONSTANTS
  Clients,       \* client ids, 0 .. numclients-1 in manager.conf
  Files,         \* file names
  NumSegments,   \* [Files -> Nat]: segments of each file
  TaskNo,        \* [Clients -> [Files -> Nat]]: line of the client's task for a file, 0 if none
  Willing,       \* [Clients -> SUBSET Files]: tasks whose Share column is 1
  OwnedAtStart,  \* [Clients -> SUBSET Files]: files the client has when it starts
  NoClient,      \* MAX_CLIENTS, "will never have a client id = MAX_CLIENTS"
  MaxInFlight,   \* datagrams each way between clients and tracker before the rest are dropped
  MaxBetween     \* the same between clients

ASSUME ProtocolAssumption ==
  /\ IsFiniteSet(Clients) /\ IsFiniteSet(Files)
  /\ NoClient \notin Clients
  /\ NumSegments \in [Files -> Nat \ {0}]
  /\ TaskNo \in [Clients -> [Files -> Nat]]
  /\ \A c \in Clients : \A f, g \in Files :
       TaskNo[c][f] = TaskNo[c][g] /\ TaskNo[c][f] # 0 => f = g
  /\ Willing \in [Clients -> SUBSET Files]
  /\ OwnedAtStart \in [Clients -> SUBSET Files]
  /\ MaxInFlight \in Nat \ {0} /\ MaxBetween \in Nat \ {0}

(* Bags: two datagrams with the same contents are two. *)
VARIABLES
  interest,   \* GROUP_SHOW_INTEREST datagrams, client -> tracker
  assign,     \* GROUP_ASSIGN datagrams, tracker -> client
  peer        \* CLNT_INFO_REQ/REP and CLNT_SEG_REQ/REP datagrams, client -> client

network == <<interest, assign, peer>>
-----------------------------------------------------------------------------
Segments(f) == 0 .. NumSegments[f] - 1

(* The sizes that can be announced for f: not known, or its real one. *)
Sizes(f) == {0, NumSegments[f]}

Tasks(c) == {f \in Files : TaskNo[c][f] > 0}

(* Fault: places counted from 0. *)
PositionFromZero(c, S, f) == Cardinality({g \in S : TaskNo[c][g] < TaskNo[c][f]})

(* The place of f when the entries S of a message of client c are laid out *)
(* in task order, as sendInterestToTracker does.                           *)
Position(c, S, f) == Cardinality({g \in S : TaskNo[c][g] <= TaskNo[c][f]})

(* The type field of GROUP_SHOW_INTEREST: 0 download only, 1 download and  *)
(* share, 2 share only.  The tracker treats every other value as it treats *)
(* 0, but for the downClients column that nobody reads.                    *)
TypeCodes == 0 .. 2

PeerTypes == {"INFO_REQ", "INFO_REP", "SEG_REQ", "SEG_REP"}

(* seg is the segment of SEG_REQ and SEG_REP, the number of segments of    *)
(* INFO_REP, and 0 in INFO_REQ.  full says of SEG_REP that it is known to  *)
(* carry data of the file.                                                 *)
PeerMessages ==
  [type : PeerTypes, from : Clients, to : Clients, file : Files, seg : Nat, full : BOOLEAN]

PeerMessage(type, from, to, f, seg) ==
  [type |-> type, from |-> from, to |-> to, file |-> f, seg |-> seg, full |-> TRUE]

(* What may be left of the datagrams ms when no more than n get through.   *)
Remains(ms, n) ==
  UNION {{b \in [S -> 1 .. n] : BagCardinality(b) <= n /\ \A m \in S : b[m] <= ms[m]} :
           S \in {T \in SUBSET BagToSet(ms) : Cardinality(T) <= n}}

(* The networks that can result from sending the datagrams ms: any of them *)
(* may be lost, and those for which the receive buffers lack room are.     *)
(* A reply that waits out its pktdelay in the sender's timer queue counts  *)
(* as in flight: its receiver cannot tell, and an exiting sender loses it  *)
(* as the network might.                                                   *)
Sent(net, ms, room) ==
  {net (+) kept : kept \in Remains(ms, room - BagCardinality(net))}

(* One copy of m has been received. *)
Without(net, m) == net (-) SetToBag({m})

(* The datagrams of a network one by one, the copies of each numbered. *)
Copies(net) == UNION {{m} \X (1 .. net[m]) : m \in BagToSet(net)}

InterestOK(m) ==
  /\ m.id \in Clients
  /\ DOMAIN m.entry \subseteq Tasks(m.id)
  /\ \A f \in DOMAIN m.entry : m.entry[f].size \in Sizes(f) /\ m.entry[f].type \in TypeCodes

AssignOK(m) ==
  /\ m.to \in Clients
  /\ DOMAIN m.entry \subseteq Tasks(m.to)
  /\ \A f \in DOMAIN m.entry :
       /\ m.entry[f].size \in Sizes(f)
       /\ m.entry[f].count \in Nat
       /\ m.entry[f].recs \subseteq Clients

NetworkTypeOK ==
  /\ IsABag(interest) /\ \A m \in BagToSet(interest) : InterestOK(m)
  /\ IsABag(assign) /\ \A m \in BagToSet(assign) : AssignOK(m)
  /\ IsABag(peer) /\ BagToSet(peer) \subseteq PeerMessages

NetworkInit == interest = EmptyBag /\ assign = EmptyBag /\ peer = EmptyBag
=============================================================================
