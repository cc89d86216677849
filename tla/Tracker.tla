------------------------------- MODULE Tracker -------------------------------
(***************************************************************************)
(* The tracker process (Tracker.c): a single-threaded loop that answers    *)
(* each GROUP_SHOW_INTEREST with a GROUP_ASSIGN and gives up when its      *)
(* 30-second timer finds no request since it last went off.                *)
(*                                                                         *)
(* st_groups is a table in the code.  Here it is a function of the file    *)
(* whose index field is the file's slot, counted from 1; 0 means that the  *)
(* file has none yet.  The downClients column is written and never read,   *)
(* so it is left out; st_reqGroups holds the files of the request being    *)
(* served and is the DOMAIN of its entries.                                *)
(***************************************************************************)
EXTENDS Protocol

VARIABLES
  st_clientAddrs,   \* clients whose address is known
  st_groups,        \* [Files -> [index, sharing, size]]
  st_numGroups,
  st_terminate,
  trackerUp

trackerVars == <<st_clientAddrs, st_groups, st_numGroups, st_terminate, trackerUp>>

TrackerInit ==
  /\ st_clientAddrs = {}
  /\ st_groups = [f \in Files |-> [index |-> 0, sharing |-> {}, size |-> 0]]
  /\ st_numGroups = 0
  /\ st_terminate = FALSE
  /\ trackerUp = TRUE

TrackerTypeOK ==
  /\ st_clientAddrs \subseteq Clients
  /\ st_groups \in [Files -> [index : Nat, sharing : SUBSET Clients, size : Nat]]
  /\ \A f \in Files : st_groups[f].size \in Sizes(f)
  /\ st_numGroups \in Nat
  /\ st_terminate \in BOOLEAN
  /\ trackerUp \in BOOLEAN
-----------------------------------------------------------------------------
(* The files of m that no group tracks yet. *)
Fresh(m) == {f \in DOMAIN m.entry : st_groups[f].index = 0}

AnnouncesSharing(e) == e.type \in {1, 2}

(* Fault: an address is taken only along with a new group. *)
AddressesWithGroups(m) ==
  IF Fresh(m) = {} THEN st_clientAddrs ELSE st_clientAddrs \cup {m.id}

AddressesAfter(m) == st_clientAddrs \cup {m.id}

IndexAfter(m, f) ==
  IF f \in Fresh(m) THEN st_numGroups + Position(m.id, Fresh(m), f) ELSE st_groups[f].index

(* Fault: the last announcement replaces the earlier ones. *)
SharingReplaced(m, f) ==
  IF AnnouncesSharing(m.entry[f]) THEN st_groups[f].sharing \cup {m.id}
  ELSE st_groups[f].sharing \ {m.id}

SharingAfter(m, f) ==
  st_groups[f].sharing \cup (IF AnnouncesSharing(m.entry[f]) THEN {m.id} ELSE {})

(* Fault: announced sizes are added up. *)
SizeAddedUp(m, f) == st_groups[f].size + m.entry[f].size

SizeAfter(m, f) ==
  IF st_groups[f].size = 0 THEN m.entry[f].size ELSE st_groups[f].size

HandleGroupUpdateRequest(m) ==
  /\ st_clientAddrs' = AddressesAfter(m)
  /\ st_numGroups' = st_numGroups + Cardinality(Fresh(m))
  /\ st_groups' =
       [f \in Files |->
          IF f \in DOMAIN m.entry
          THEN [index |-> IndexAfter(m, f), sharing |-> SharingAfter(m, f), size |-> SizeAfter(m, f)]
          ELSE st_groups[f]]

(* What the code takes for the group of the k-th requested file: whatever  *)
(* sits in slot k of st_groups (st_groups[i], where the loop runs over j). *)
SlotFiles(groups, k) == {g \in Files : groups[g].index = k}

(* Fault: the group is looked up for the count, but not for the records. *)
AssignEntryHalfLookedUp(groups, addrs, k, f) ==
  [size  |-> groups[f].size,
   count |-> Cardinality(groups[f].sharing),
   recs  |-> {c \in addrs : \E g \in SlotFiles(groups, k) : c \in groups[g].sharing}]

(* Size and neighbour count are filled in only if slot k holds file f, but *)
(* the neighbour records of slot k follow in either case.                  *)
AssignEntry(groups, addrs, k, f) ==
  LET right == f \in SlotFiles(groups, k)
  IN [size  |-> IF right THEN groups[f].size ELSE 0,
      count |-> IF right THEN Cardinality(groups[f].sharing) ELSE 0,
      recs  |-> {c \in addrs : \E g \in SlotFiles(groups, k) : c \in groups[g].sharing}]

CreateGroupAssignPkt(m, groups, addrs) ==
  [to    |-> m.id,
   entry |-> [f \in DOMAIN m.entry |->
                AssignEntry(groups, addrs, Position(m.id, DOMAIN m.entry, f), f)]]

(* The neighbour records the packet is allocated for, one for each client  *)
(* that shares a requested file, and those written into it.                *)
RecordsCounted(m, groups) ==
  Cardinality({x \in (DOMAIN m.entry) \X Clients : x[2] \in groups[x[1]].sharing})

RecordsWritten(pkt) ==
  Cardinality({x \in (DOMAIN pkt.entry) \X Clients : x[2] \in pkt.entry[x[1]].recs})

(* One pass of the loop of trackerDoWork that finds a datagram.  Records   *)
(* written past the end of the packet may crash the tracker.  They are not *)
(* sent either, but no client could have read them: they are behind the    *)
(* first entry whose count leaves records out.                             *)
TrackerServes ==
  \E m \in BagToSet(interest) :
    /\ trackerUp
    /\ st_terminate' = FALSE
    /\ HandleGroupUpdateRequest(m)
    /\ interest' = Without(interest, m)
    /\ LET pkt == CreateGroupAssignPkt(m, st_groups', st_clientAddrs')
       IN \/ assign' \in Sent(assign, SetToBag({pkt}), MaxInFlight) /\ UNCHANGED trackerUp
          \/ /\ RecordsWritten(pkt) > RecordsCounted(m, st_groups')
             /\ trackerUp' = FALSE
             /\ UNCHANGED assign
    /\ UNCHANGED peer

(* The 30-second timer, which always re-arms itself. *)
CheckIfShouldTerminate ==
  /\ trackerUp
  /\ IF st_terminate
     THEN trackerUp' = FALSE /\ UNCHANGED st_terminate
     ELSE st_terminate' = TRUE /\ UNCHANGED trackerUp
  /\ UNCHANGED <<st_clientAddrs, st_groups, st_numGroups, network>>
-----------------------------------------------------------------------------
(* The tracker alone, among clients that may announce anything. *)

(* What client c may announce: files of its tasks, some with their size.   *)
Announcements(c) ==
  {[id    |-> c,
    entry |-> [f \in S |-> [size |-> IF f \in sized THEN NumSegments[f] ELSE 0, type |-> type[f]]]] :
     S \in (SUBSET Tasks(c)) \ {{}}, sized \in SUBSET Tasks(c), type \in [Tasks(c) -> TypeCodes]}

AnyClientAnnounces ==
  \E c \in Clients : \E m \in Announcements(c) :
    /\ interest' \in Sent(interest, SetToBag({m}), MaxInFlight)
    /\ UNCHANGED <<assign, peer, trackerVars>>

AnyClientTakesReply ==
  \E m \in BagToSet(assign) :
    assign' = Without(assign, m) /\ UNCHANGED <<interest, peer, trackerVars>>

TrackerAloneInit == NetworkInit /\ TrackerInit

TrackerAloneNext ==
  TrackerServes \/ CheckIfShouldTerminate \/ AnyClientAnnounces \/ AnyClientTakesReply

TrackerAlone ==
  TrackerAloneInit /\ [][TrackerAloneNext]_<<network, trackerVars>>
-----------------------------------------------------------------------------
TrackerAloneTypeOK == NetworkTypeOK /\ TrackerTypeOK

(* The slots in use are exactly 1 .. st_numGroups and no two files share   *)
(* one: handleGroupUpdateRequest takes st_groups[st_numGroups++] for each  *)
(* file it does not find, several in one message when a client has several *)
(* tasks.                                                                  *)
GroupSlots ==
  /\ \A f \in Files : st_groups[f].index \in 0 .. st_numGroups
  /\ \A f, g \in Files :
       st_groups[f].index = st_groups[g].index /\ st_groups[f].index # 0 => f = g
  /\ st_numGroups = Cardinality({f \in Files : st_groups[f].index # 0})

(* Whoever is listed as sharing has an entry in st_clientAddrs.            *)
(* createGroupAssignPkt counts the sharing clients in one loop and writes  *)
(* a record only for those whose address it finds in another; the client   *)
(* reads as many records as were counted.                                  *)
SharersHaveAddresses ==
  \A f \in Files : st_groups[f].sharing \subseteq st_clientAddrs

(* A non-zero neighbour count in a datagram on its way is the number of    *)
(* records behind it, whatever happened to the tables since: the client    *)
(* would otherwise read past the entry, or leave records of it to be read  *)
(* as the next file's.                                                     *)
CountedRecordsFollow ==
  \A m \in BagToSet(assign) : \A f \in DOMAIN m.entry :
    m.entry[f].count # 0 => m.entry[f].count = Cardinality(m.entry[f].recs)

(* What a client has been told stays true: a group keeps its slot, its     *)
(* size once known, and its sharing clients.                               *)
TrackerNeverForgets ==
  [][\A f \in Files :
       /\ st_groups[f].index # 0 => st_groups'[f].index = st_groups[f].index
       /\ st_groups[f].size # 0 => st_groups'[f].size = st_groups[f].size
       /\ st_groups[f].sharing \subseteq st_groups'[f].sharing]_<<network, trackerVars>>

(* README, "Message format": a GROUP_ASSIGN is "filename, file size, num   *)
(* neighbors, neigh. id, neigh. ip, neigh port, ...", so the number says   *)
(* how many neighbours are listed.  createGroupAssignPkt breaks it when    *)
(* the requested file does not sit in the slot of its own position.        *)
NumNeighborsIsListed ==
  \A m \in BagToSet(assign) : \A f \in DOMAIN m.entry :
    m.entry[f].count = Cardinality(m.entry[f].recs)
=============================================================================
