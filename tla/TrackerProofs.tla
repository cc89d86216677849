---------------------------- MODULE TrackerProofs ----------------------------
(***************************************************************************)
(* What holds of the tracker for every set of clients, files and tasks.    *)
(* The lemmas are about the steps of the tracker, not about the clients    *)
(* around it, so that they serve wherever the tracker is composed.         *)
(***************************************************************************)
EXTENDS Tracker, FiniteSetTheorems, TLAPS

(* A number of copies that may be 0. *)
CopiesOf(net, m) == IF m \in BagToSet(net) THEN net[m] ELSE 0

LEMMA SetIsBag ==
  ASSUME NEW S
  PROVE  /\ IsABag(SetToBag(S)) /\ BagToSet(SetToBag(S)) = S
         /\ \A m \in S : SetToBag(S)[m] = 1
BY DEF IsABag, SetToBag, BagToSet

LEMMA EmptyIsBag == IsABag(EmptyBag) /\ BagToSet(EmptyBag) = {}
BY SetIsBag DEF EmptyBag

LEMMA RemainsIsBag ==
  ASSUME NEW ms, IsABag(ms), NEW n, NEW b \in Remains(ms, n)
  PROVE  /\ IsABag(b) /\ BagToSet(b) \subseteq BagToSet(ms)
         /\ \A m \in BagToSet(b) : b[m] <= ms[m]
<1>1. PICK S \in SUBSET BagToSet(ms) :
        b \in [S -> 1 .. n] /\ \A m \in S : b[m] <= ms[m]
  BY DEF Remains
<1>2. \A m \in S : b[m] \in {k \in Nat : k > 0}
  BY <1>1
<1>3. DOMAIN b = S
  BY <1>1
<1> QED
  BY <1>1, <1>2, <1>3 DEF IsABag, BagToSet

(* Nothing but the datagrams sent is added to a network. *)
LEMMA SentAddsOnly ==
  ASSUME NEW net, IsABag(net), NEW ms, IsABag(ms), NEW room, NEW net2 \in Sent(net, ms, room)
  PROVE  /\ IsABag(net2) /\ BagToSet(net2) \subseteq BagToSet(net) \cup BagToSet(ms)
         /\ \A m \in BagToSet(net2) : net2[m] <= CopiesOf(net, m) + CopiesOf(ms, m)
<1>1. PICK b \in Remains(ms, room - BagCardinality(net)) : net2 = net (+) b
  BY DEF Sent
<1>2. /\ IsABag(b) /\ BagToSet(b) \subseteq BagToSet(ms)
      /\ \A m \in BagToSet(b) : b[m] <= ms[m]
  BY RemainsIsBag
<1>3. /\ \A m \in DOMAIN net : net[m] \in Nat /\ net[m] > 0
      /\ \A m \in DOMAIN b : b[m] \in Nat /\ b[m] > 0
      /\ \A m \in DOMAIN ms : ms[m] \in Nat /\ ms[m] > 0
  BY <1>2 DEF IsABag
<1>4. /\ DOMAIN net2 = (DOMAIN net) \cup (DOMAIN b)
      /\ \A m \in DOMAIN net2 :
           net2[m] = (IF m \in DOMAIN net THEN net[m] ELSE 0) + (IF m \in DOMAIN b THEN b[m] ELSE 0)
      /\ net2 = [m \in DOMAIN net2 |-> net2[m]]
  BY <1>1 DEF (+)
<1>5. IsABag(net2)
  BY <1>3, <1>4 DEF IsABag
<1>6. ASSUME NEW m \in DOMAIN net2
      PROVE  net2[m] <= CopiesOf(net, m) + CopiesOf(ms, m)
  BY <1>2, <1>3, <1>4 DEF CopiesOf, BagToSet
<1> QED
  BY <1>2, <1>4, <1>5, <1>6 DEF BagToSet

(* The copy of a datagram that is received is the one with the highest number. *)
LEMMA WithoutTakesOne ==
  ASSUME NEW net, IsABag(net), NEW m \in BagToSet(net)
  PROVE  /\ IsABag(Without(net, m)) /\ BagToSet(Without(net, m)) \subseteq BagToSet(net)
         /\ \A x : CopiesOf(Without(net, m), x) =
                     IF x = m THEN CopiesOf(net, x) - 1 ELSE CopiesOf(net, x)
<1>1. \A x \in DOMAIN net : net[x] \in Nat /\ net[x] > 0
  BY DEF IsABag
<1> DEFINE r == Without(net, m)
<1>2. /\ DOMAIN r = {x \in DOMAIN net : x = m => net[m] > 1}
      /\ \A x \in DOMAIN r : r[x] = IF x = m THEN net[x] - 1 ELSE net[x]
      /\ r = [x \in DOMAIN r |-> r[x]]
  BY <1>1 DEF Without, (-), SetToBag, BagToSet
<1> HIDE DEF r
<1>3. \A x : CopiesOf(r, x) = IF x = m THEN CopiesOf(net, x) - 1 ELSE CopiesOf(net, x)
  BY <1>1, <1>2 DEF CopiesOf, BagToSet
<1>4. IsABag(r)
  BY <1>1, <1>2 DEF IsABag
<1> QED
  BY <1>2, <1>3, <1>4 DEF BagToSet, r

(* The place of an entry is a positive number, within the message.         *)
LEMMA PositionRange ==
  ASSUME NEW c \in Clients, NEW S \in SUBSET Files, NEW f \in S
  PROVE  /\ Position(c, S, f) \in 1 .. Cardinality(S)
         /\ Cardinality(S) \in Nat
<1> DEFINE B == {g \in S : TaskNo[c][g] <= TaskNo[c][f]}
<1>1. IsFiniteSet(S) /\ Cardinality(S) \in Nat
  BY ProtocolAssumption, FS_Subset, FS_CardinalityType
<1>2. IsFiniteSet(B) /\ Cardinality(B) \in Nat /\ Cardinality(B) <= Cardinality(S)
  <2>1. B \in SUBSET S
    OBVIOUS
  <2> QED BY <1>1, <2>1, FS_Subset, FS_CardinalityType
<1>3. TaskNo[c][f] \in Nat
  BY ProtocolAssumption
<1>4. f \in B
  BY <1>3
<1>5. Cardinality(B) # 0
  BY <1>2, <1>4, FS_EmptySet
<1> QED BY <1>1, <1>2, <1>5 DEF Position

(* Two files of one message never get the same place. *)
LEMMA PositionInjective ==
  ASSUME NEW c \in Clients, NEW S \in SUBSET Tasks(c), NEW f \in S, NEW g \in S,
         Position(c, S, f) = Position(c, S, g)
  PROVE  f = g
<1> DEFINE B(x) == {y \in S : TaskNo[c][y] <= TaskNo[c][x]}
<1>1. \A x \in Files : TaskNo[c][x] \in Nat
  BY ProtocolAssumption
<1>2. S \subseteq Files /\ IsFiniteSet(S)
  BY ProtocolAssumption, FS_Subset DEF Tasks
<1>3. ASSUME NEW x \in S, NEW y \in S, TaskNo[c][x] < TaskNo[c][y]
      PROVE  Cardinality(B(x)) # Cardinality(B(y))
  <2>1. B(x) \in SUBSET B(y)
    BY <1>1, <1>2, <1>3
  <2>2. y \in B(y) /\ y \notin B(x)
    BY <1>1, <1>2, <1>3
  <2>3. IsFiniteSet(B(y))
    <3>1. B(y) \in SUBSET S
      OBVIOUS
    <3> QED BY <1>2, <3>1, FS_Subset
  <2>4. Cardinality(B(y)) = Cardinality(B(x)) => B(y) = B(x)
    BY <2>1, <2>3, FS_Subset
  <2> QED BY <2>2, <2>4
<1>4. ~(TaskNo[c][f] < TaskNo[c][g]) /\ ~(TaskNo[c][g] < TaskNo[c][f])
  BY <1>3 DEF Position
<1>5. TaskNo[c][f] = TaskNo[c][g] /\ TaskNo[c][f] # 0
  BY <1>1, <1>2, <1>4 DEF Tasks
<1> QED BY <1>2, <1>5, ProtocolAssumption
-----------------------------------------------------------------------------
(* Type correctness *)

LEMMA TrackerInitTypeOK ==
  ASSUME TrackerInit
  PROVE  TrackerTypeOK
<1>1. \A f \in Files : st_groups[f] = [index |-> 0, sharing |-> {}, size |-> 0]
  BY DEF TrackerInit
<1>2. st_groups \in [Files -> [index : Nat, sharing : SUBSET Clients, size : Nat]]
  BY DEF TrackerInit
<1> QED BY <1>1, <1>2 DEF TrackerInit, TrackerTypeOK, Sizes

LEMMA GroupUpdateTypeOK ==
  ASSUME NEW m, InterestOK(m), TrackerTypeOK, HandleGroupUpdateRequest(m)
  PROVE  /\ st_clientAddrs' \subseteq Clients
         /\ st_groups' \in [Files -> [index : Nat, sharing : SUBSET Clients, size : Nat]]
         /\ \A f \in Files : st_groups'[f].size \in Sizes(f)
         /\ st_numGroups' \in Nat
<1> USE DEF TrackerTypeOK, HandleGroupUpdateRequest, AddressesAfter, IndexAfter, SharingAfter, SizeAfter
<1>1. m.id \in Clients /\ DOMAIN m.entry \subseteq Tasks(m.id) /\ Tasks(m.id) \subseteq Files
  BY DEF InterestOK, Tasks
<1>2. Fresh(m) \in SUBSET Files /\ Fresh(m) \subseteq DOMAIN m.entry
  BY <1>1 DEF Fresh
<1>3. Cardinality(Fresh(m)) \in Nat
  BY <1>2, ProtocolAssumption, FS_Subset, FS_CardinalityType
<1>4. \A f \in Fresh(m) : Position(m.id, Fresh(m), f) \in Nat
  BY <1>1, <1>2, PositionRange
<1>5. \A f \in DOMAIN m.entry : m.entry[f].size \in Sizes(f)
  BY DEF InterestOK
<1>6. \A f \in Files : Sizes(f) \subseteq Nat
  BY ProtocolAssumption DEF Sizes
<1>7. st_numGroups' \in Nat
  BY <1>3
<1>8. st_clientAddrs' \subseteq Clients
  BY <1>1
<1>9. ASSUME NEW f \in Files
      PROVE  /\ st_groups'[f] \in [index : Nat, sharing : SUBSET Clients, size : Nat]
             /\ st_groups'[f].size \in Sizes(f)
  <2>1. CASE f \notin DOMAIN m.entry
    BY <2>1
  <2>2. CASE f \in DOMAIN m.entry
    <3>1. st_groups'[f].index \in Nat
      BY <2>2, <1>4
    <3>2. st_groups'[f].sharing \subseteq Clients
      BY <2>2, <1>1
    <3>3. st_groups'[f].size \in Sizes(f)
      BY <2>2, <1>5
    <3> QED BY <2>2, <3>1, <3>2, <3>3, <1>6
  <2> QED BY <2>1, <2>2
<1> QED BY <1>7, <1>8, <1>9

LEMMA AssignPktOK ==
  ASSUME NEW m, InterestOK(m),
         NEW groups \in [Files -> [index : Nat, sharing : SUBSET Clients, size : Nat]],
         \A f \in Files : groups[f].size \in Sizes(f),
         NEW addrs \in SUBSET Clients
  PROVE  AssignOK(CreateGroupAssignPkt(m, groups, addrs))
<1>1. m.id \in Clients /\ DOMAIN m.entry \subseteq Tasks(m.id) /\ Tasks(m.id) \subseteq Files
  BY DEF InterestOK, Tasks
<1>2. \A f \in Files : Cardinality(groups[f].sharing) \in Nat
  BY ProtocolAssumption, FS_Subset, FS_CardinalityType
<1>3. ASSUME NEW f \in DOMAIN m.entry, NEW k
      PROVE  /\ AssignEntry(groups, addrs, k, f).size \in Sizes(f)
             /\ AssignEntry(groups, addrs, k, f).count \in Nat
             /\ AssignEntry(groups, addrs, k, f).recs \subseteq Clients
  BY <1>1, <1>2 DEF AssignEntry, Sizes
<1> QED BY <1>1, <1>3 DEF AssignOK, CreateGroupAssignPkt

(* What serving a request does, whether or not the reply is lost.          *)
LEMMA TrackerServesStep ==
  ASSUME NetworkTypeOK, TrackerServes
  PROVE  \E m \in BagToSet(interest) :
           /\ st_terminate' = FALSE
           /\ HandleGroupUpdateRequest(m)
           /\ IsABag(interest') /\ BagToSet(interest') \subseteq BagToSet(interest)
           /\ trackerUp' \in {trackerUp, FALSE}
           /\ IsABag(assign')
           /\ BagToSet(assign') \subseteq
                BagToSet(assign) \cup {CreateGroupAssignPkt(m, st_groups', st_clientAddrs')}
           /\ UNCHANGED peer
<1> IsABag(interest) /\ IsABag(assign)
  BY DEF NetworkTypeOK
<1>1. \A pkt : assign' \in Sent(assign, SetToBag({pkt}), MaxInFlight) =>
        IsABag(assign') /\ BagToSet(assign') \subseteq BagToSet(assign) \cup {pkt}
  <2> TAKE pkt
  <2>1. IsABag(SetToBag({pkt})) /\ BagToSet(SetToBag({pkt})) = {pkt}
    BY SetIsBag
  <2> QED
    BY <2>1, SentAddsOnly
<1>2. \A m \in BagToSet(interest) :
        IsABag(Without(interest, m)) /\ BagToSet(Without(interest, m)) \subseteq BagToSet(interest)
  BY WithoutTakesOne
<1> QED
  BY <1>1, <1>2 DEF TrackerServes

LEMMA TrackerServesTypeOK ==
  ASSUME NetworkTypeOK, TrackerTypeOK, TrackerServes
  PROVE  NetworkTypeOK' /\ TrackerTypeOK'
<1>1. PICK m \in BagToSet(interest) :
        /\ st_terminate' = FALSE
        /\ HandleGroupUpdateRequest(m)
        /\ IsABag(interest') /\ BagToSet(interest') \subseteq BagToSet(interest)
        /\ trackerUp' \in {trackerUp, FALSE}
        /\ IsABag(assign')
        /\ BagToSet(assign') \subseteq
             BagToSet(assign) \cup {CreateGroupAssignPkt(m, st_groups', st_clientAddrs')}
        /\ UNCHANGED peer
  BY TrackerServesStep
<1>2. InterestOK(m)
  BY DEF NetworkTypeOK
<1>3. /\ st_clientAddrs' \subseteq Clients
      /\ st_groups' \in [Files -> [index : Nat, sharing : SUBSET Clients, size : Nat]]
      /\ \A f \in Files : st_groups'[f].size \in Sizes(f)
      /\ st_numGroups' \in Nat
  BY <1>1, <1>2, GroupUpdateTypeOK
<1>4. AssignOK(CreateGroupAssignPkt(m, st_groups', st_clientAddrs'))
  BY <1>2, <1>3, AssignPktOK
<1>5. NetworkTypeOK'
  BY <1>1, <1>4 DEF NetworkTypeOK, InterestOK, AssignOK
<1>6. TrackerTypeOK'
  BY <1>1, <1>3 DEF TrackerTypeOK
<1> QED BY <1>5, <1>6
-----------------------------------------------------------------------------
(* Slots, sharing clients and the packets made from them *)

LEMMA GroupUpdateSlots ==
  ASSUME NEW m, InterestOK(m), TrackerTypeOK, GroupSlots, HandleGroupUpdateRequest(m)
  PROVE  GroupSlots'
<1> DEFINE U == {f \in Files : st_groups[f].index # 0}
           F == Fresh(m)
<1>1. m.id \in Clients /\ DOMAIN m.entry \subseteq Tasks(m.id) /\ Tasks(m.id) \subseteq Files
  BY DEF InterestOK, Tasks
<1>2. F \in SUBSET Tasks(m.id) /\ F \in SUBSET Files
  BY <1>1 DEF Fresh
<1>3. IsFiniteSet(F) /\ IsFiniteSet(U) /\ Cardinality(F) \in Nat
  <2>1. U \in SUBSET Files
    OBVIOUS
  <2> QED BY <1>2, <2>1, ProtocolAssumption, FS_Subset, FS_CardinalityType
<1>4. st_numGroups \in Nat /\ st_numGroups = Cardinality(U)
  BY DEF TrackerTypeOK, GroupSlots
<1>5. st_numGroups' = st_numGroups + Cardinality(F)
  BY DEF HandleGroupUpdateRequest
<1>6. \A f \in F : Position(m.id, F, f) \in 1 .. Cardinality(F)
  BY <1>1, <1>2, PositionRange
<1>7. \A f \in F : st_groups'[f].index = st_numGroups + Position(m.id, F, f)
  BY <1>2 DEF HandleGroupUpdateRequest, IndexAfter, Fresh
<1>8. \A f \in Files \ F :
        /\ st_groups'[f].index = st_groups[f].index
        /\ st_groups[f].index \in 0 .. st_numGroups
  BY DEF HandleGroupUpdateRequest, IndexAfter, GroupSlots
<1>9. \A f \in Files : st_groups'[f].index \in 0 .. st_numGroups'
  <2>1. \A f \in F : st_groups'[f].index \in 0 .. st_numGroups'
    BY <1>3, <1>4, <1>5, <1>6, <1>7
  <2>2. \A f \in Files \ F : st_groups'[f].index \in 0 .. st_numGroups'
    <3>1. st_numGroups' \in Nat /\ st_numGroups <= st_numGroups'
      BY <1>3, <1>4, <1>5
    <3> QED BY <3>1, <1>4, <1>8
  <2> QED BY <2>1, <2>2
<1>10. ASSUME NEW f \in Files, NEW g \in Files,
              st_groups'[f].index = st_groups'[g].index, st_groups'[f].index # 0
       PROVE  f = g
  <2>1. CASE f \in F /\ g \in F
    <3>1. Position(m.id, F, f) = Position(m.id, F, g)
      BY <2>1, <1>3, <1>4, <1>6, <1>7, <1>10
    <3> QED BY <2>1, <3>1, <1>1, <1>2, PositionInjective
  <2>2. CASE f \notin F /\ g \notin F
    BY <2>2, <1>8, <1>10 DEF GroupSlots
  <2>3. CASE f \in F /\ g \notin F
    BY <2>3, <1>3, <1>4, <1>6, <1>7, <1>8, <1>10
  <2>4. CASE f \notin F /\ g \in F
    BY <2>4, <1>3, <1>4, <1>6, <1>7, <1>8, <1>10
  <2> QED BY <2>1, <2>2, <2>3, <2>4
<1>11. st_numGroups' = Cardinality({f \in Files : st_groups'[f].index # 0})
  <2>1. U \cap F = {}
    BY DEF Fresh
  <2>2. {f \in Files : st_groups'[f].index # 0} = U \cup F
    <3>1. \A f \in F : st_groups'[f].index # 0
      BY <1>3, <1>4, <1>6, <1>7
    <3> QED BY <3>1, <1>2, <1>8
  <2>3. Cardinality(U \cup F) = Cardinality(U) + Cardinality(F) - Cardinality({})
    BY <1>3, <2>1, FS_Union
  <2>4. Cardinality(U \cup F) = Cardinality(U) + Cardinality(F)
    <3>1. Cardinality(U) \in Nat
      BY <1>4
    <3> HIDE DEF U, F
    <3> QED BY <1>3, <2>3, <3>1, FS_EmptySet
  <2> QED BY <1>4, <1>5, <2>2, <2>4
<1> QED BY <1>9, <1>10, <1>11 DEF GroupSlots

LEMMA GroupUpdateAddresses ==
  ASSUME NEW m, TrackerTypeOK, SharersHaveAddresses, HandleGroupUpdateRequest(m)
  PROVE  SharersHaveAddresses'
BY DEF SharersHaveAddresses, HandleGroupUpdateRequest, AddressesAfter, SharingAfter, TrackerTypeOK

(* The records written for a file that does sit in the slot of its         *)
(* position are the ones its count speaks of.                              *)
LEMMA RightSlotCounts ==
  ASSUME NEW groups, NEW addrs, NEW k \in Nat \ {0}, NEW f \in Files,
         \A g, h \in Files : groups[g].index = groups[h].index /\ groups[g].index # 0 => g = h,
         groups[f].sharing \subseteq addrs,
         AssignEntry(groups, addrs, k, f).count # 0
  PROVE  AssignEntry(groups, addrs, k, f).count =
           Cardinality(AssignEntry(groups, addrs, k, f).recs)
<1>1. f \in SlotFiles(groups, k)
  BY DEF AssignEntry
<1>2. SlotFiles(groups, k) = {f}
  BY <1>1 DEF SlotFiles
<1>3. AssignEntry(groups, addrs, k, f).recs = groups[f].sharing
  BY <1>2 DEF AssignEntry
<1>4. AssignEntry(groups, addrs, k, f).count = Cardinality(groups[f].sharing)
  BY <1>1 DEF AssignEntry
<1> QED BY <1>3, <1>4

LEMMA AssignPktCounts ==
  ASSUME NEW m, InterestOK(m), NEW groups, NEW addrs,
         \A g, h \in Files : groups[g].index = groups[h].index /\ groups[g].index # 0 => g = h,
         \A f \in Files : groups[f].sharing \subseteq addrs,
         NEW f \in DOMAIN m.entry,
         CreateGroupAssignPkt(m, groups, addrs).entry[f].count # 0
  PROVE  CreateGroupAssignPkt(m, groups, addrs).entry[f].count =
           Cardinality(CreateGroupAssignPkt(m, groups, addrs).entry[f].recs)
<1> DEFINE S == DOMAIN m.entry
           k == Position(m.id, S, f)
<1>1. m.id \in Clients /\ S \in SUBSET Files
  BY DEF InterestOK, Tasks
<1>2. k \in Nat \ {0} /\ f \in Files
  <2>1. f \in S /\ f \in Files
    BY <1>1
  <2> DEFINE n == Cardinality(S)
  <2>2. k \in 1 .. n /\ n \in Nat
    BY <1>1, <2>1, PositionRange, Zenon
  <2> HIDE DEF k, n
  <2> QED
    BY <2>1, <2>2
<1>3. CreateGroupAssignPkt(m, groups, addrs).entry[f] = AssignEntry(groups, addrs, k, f)
  BY DEF CreateGroupAssignPkt
<1> HIDE DEF k
<1> QED BY <1>2, <1>3, RightSlotCounts

TrackerInv == GroupSlots /\ SharersHaveAddresses /\ CountedRecordsFollow

LEMMA TrackerInitInv ==
  ASSUME NetworkInit, TrackerInit
  PROVE  TrackerInv
<1>1. /\ \A f \in Files : st_groups[f].index = 0 /\ st_groups[f].sharing = {}
      /\ st_numGroups = 0 /\ BagToSet(assign) = {}
  BY EmptyIsBag DEF TrackerInit, NetworkInit
<1>2. {f \in Files : st_groups[f].index # 0} = {}
  BY <1>1
<1>3. GroupSlots
  BY <1>1, <1>2, FS_EmptySet DEF GroupSlots
<1> QED BY <1>1, <1>3 DEF TrackerInv, SharersHaveAddresses, CountedRecordsFollow

LEMMA TrackerServesInv ==
  ASSUME NetworkTypeOK, TrackerTypeOK, TrackerInv, TrackerServes
  PROVE  TrackerInv'
<1>1. PICK m \in BagToSet(interest) :
        /\ HandleGroupUpdateRequest(m)
        /\ BagToSet(assign') \subseteq
             BagToSet(assign) \cup {CreateGroupAssignPkt(m, st_groups', st_clientAddrs')}
  BY TrackerServesStep
<1>2. InterestOK(m)
  BY DEF NetworkTypeOK
<1>3. GroupSlots' /\ SharersHaveAddresses'
  BY <1>1, <1>2, GroupUpdateSlots, GroupUpdateAddresses DEF TrackerInv
<1>4. ASSUME NEW n \in BagToSet(assign'), NEW f \in DOMAIN n.entry, n.entry[f].count # 0
      PROVE  n.entry[f].count = Cardinality(n.entry[f].recs)
  <2>1. CASE n \in BagToSet(assign)
    BY <1>4, <2>1 DEF TrackerInv, CountedRecordsFollow
  <2>2. CASE n = CreateGroupAssignPkt(m, st_groups', st_clientAddrs')
    <3>1. f \in DOMAIN m.entry
      BY <1>4, <2>2 DEF CreateGroupAssignPkt
    <3>2. /\ \A g, h \in Files :
               st_groups'[g].index = st_groups'[h].index /\ st_groups'[g].index # 0 => g = h
          /\ \A g \in Files : st_groups'[g].sharing \subseteq st_clientAddrs'
      BY <1>3 DEF GroupSlots, SharersHaveAddresses
    <3> QED BY <1>2, <1>4, <2>2, <3>1, <3>2, AssignPktCounts
  <2> QED BY <1>1, <1>4, <2>1, <2>2
<1> QED BY <1>3, <1>4 DEF TrackerInv, CountedRecordsFollow
-----------------------------------------------------------------------------
(* The environment of the tracker alone adds only well-formed requests. *)
LEMMA AnnouncesTypeOK ==
  ASSUME NetworkTypeOK, AnyClientAnnounces
  PROVE  NetworkTypeOK'
<1>1. PICK c \in Clients : \E m \in Announcements(c) :
        interest' \in Sent(interest, SetToBag({m}), MaxInFlight)
  BY DEF AnyClientAnnounces
<1>2. PICK m \in Announcements(c) : interest' \in Sent(interest, SetToBag({m}), MaxInFlight)
  BY <1>1
<1>3. InterestOK(m)
  BY DEF Announcements, InterestOK, Sizes
<1>4. IsABag(interest') /\ BagToSet(interest') \subseteq BagToSet(interest) \cup {m}
  <2>1. IsABag(SetToBag({m})) /\ BagToSet(SetToBag({m})) = {m} /\ IsABag(interest)
    BY SetIsBag DEF NetworkTypeOK
  <2> QED
    BY <1>2, <2>1, SentAddsOnly
<1>5. assign' = assign /\ peer' = peer
  BY DEF AnyClientAnnounces
<1> QED BY <1>3, <1>4, <1>5 DEF NetworkTypeOK, InterestOK, AssignOK

(* Every variable of the tracker keeps its type, every request on its way  *)
(* is one that a client may send and every GROUP_ASSIGN one that it asked  *)
(* for.                                                                    *)
THEOREM TrackerTypeCorrect == TrackerAlone => []TrackerAloneTypeOK
<1>1. TrackerAloneInit => TrackerAloneTypeOK
  <2> SUFFICES ASSUME TrackerAloneInit PROVE TrackerAloneTypeOK
    OBVIOUS
  <2>1. NetworkTypeOK
    BY EmptyIsBag DEF TrackerAloneInit, NetworkInit, NetworkTypeOK
  <2>2. TrackerTypeOK
    BY TrackerInitTypeOK DEF TrackerAloneInit
  <2> QED BY <2>1, <2>2 DEF TrackerAloneTypeOK
<1>2. TrackerAloneTypeOK /\ [TrackerAloneNext]_<<network, trackerVars>> => TrackerAloneTypeOK'
  <2> SUFFICES ASSUME NetworkTypeOK, TrackerTypeOK,
                      [TrackerAloneNext]_<<network, trackerVars>>
               PROVE  NetworkTypeOK' /\ TrackerTypeOK'
    BY DEF TrackerAloneTypeOK
  <2>1. CASE TrackerServes
    BY <2>1, TrackerServesTypeOK
  <2>2. CASE CheckIfShouldTerminate
    BY <2>2 DEF CheckIfShouldTerminate, network, NetworkTypeOK, InterestOK, AssignOK, TrackerTypeOK
  <2>3. CASE AnyClientAnnounces
    <3>1. UNCHANGED trackerVars
      BY <2>3 DEF AnyClientAnnounces
    <3> QED BY <2>3, <3>1, AnnouncesTypeOK DEF trackerVars, TrackerTypeOK
  <2>4. CASE AnyClientTakesReply
    BY <2>4, WithoutTakesOne DEF AnyClientTakesReply, trackerVars, NetworkTypeOK, InterestOK, AssignOK, TrackerTypeOK
  <2>5. CASE UNCHANGED <<network, trackerVars>>
    BY <2>5 DEF network, trackerVars, NetworkTypeOK, InterestOK, AssignOK, TrackerTypeOK
  <2> QED BY <2>1, <2>2, <2>3, <2>4, <2>5 DEF TrackerAloneNext
<1> QED BY <1>1, <1>2, PTL DEF TrackerAlone

(* The three facts about the tables and packets need each other.           *)
LEMMA TrackerInvariant == TrackerAlone => []TrackerInv
<1>1. TrackerAloneInit => TrackerInv
  BY TrackerInitInv DEF TrackerAloneInit
<1>2. TrackerInv /\ TrackerAloneTypeOK /\ [TrackerAloneNext]_<<network, trackerVars>> => TrackerInv'
  <2> SUFFICES ASSUME TrackerInv, NetworkTypeOK, TrackerTypeOK,
                      [TrackerAloneNext]_<<network, trackerVars>>
               PROVE  TrackerInv'
    BY DEF TrackerAloneTypeOK
  <2>1. CASE TrackerServes
    BY <2>1, TrackerServesInv
  <2>2. ASSUME UNCHANGED <<st_clientAddrs, st_groups, st_numGroups>>,
              BagToSet(assign') \subseteq BagToSet(assign)
        PROVE  TrackerInv'
    BY <2>2 DEF TrackerInv, GroupSlots, SharersHaveAddresses, CountedRecordsFollow
  <2>3. CASE CheckIfShouldTerminate
    BY <2>2, <2>3 DEF CheckIfShouldTerminate, network
  <2>4. CASE AnyClientAnnounces
    BY <2>2, <2>4 DEF AnyClientAnnounces, trackerVars
  <2>5. CASE AnyClientTakesReply
    BY <2>2, <2>5, WithoutTakesOne DEF AnyClientTakesReply, trackerVars, NetworkTypeOK
  <2>6. CASE UNCHANGED <<network, trackerVars>>
    BY <2>2, <2>6 DEF network, trackerVars
  <2> QED BY <2>1, <2>3, <2>4, <2>5, <2>6 DEF TrackerAloneNext
<1> QED BY <1>1, <1>2, TrackerTypeCorrect, PTL DEF TrackerAlone

(* No two files share a group, and the slots in use are counted. *)
THEOREM GroupsDistinct == TrackerAlone => []GroupSlots
<1>1. TrackerInv => GroupSlots
  BY DEF TrackerInv
<1> QED BY <1>1, TrackerInvariant, PTL

(* Whoever is listed as sharing has an address that a record can carry.    *)
THEOREM SharersAddressed == TrackerAlone => []SharersHaveAddresses
<1>1. TrackerInv => SharersHaveAddresses
  BY DEF TrackerInv
<1> QED BY <1>1, TrackerInvariant, PTL

(* A neighbour count other than zero is that of the records behind it.     *)
THEOREM CountsTellRecords == TrackerAlone => []CountedRecordsFollow
<1>1. TrackerInv => CountedRecordsFollow
  BY DEF TrackerInv
<1> QED BY <1>1, TrackerInvariant, PTL

(* A group keeps its slot, its known size and its sharing clients. *)
THEOREM GroupsOnlyGrow == TrackerAlone => TrackerNeverForgets
<1> DEFINE Grows ==
      \A f \in Files :
        /\ st_groups[f].index # 0 => st_groups'[f].index = st_groups[f].index
        /\ st_groups[f].size # 0 => st_groups'[f].size = st_groups[f].size
        /\ st_groups[f].sharing \subseteq st_groups'[f].sharing
<1>1. ASSUME NEW m, HandleGroupUpdateRequest(m) PROVE Grows
  BY <1>1 DEF HandleGroupUpdateRequest, IndexAfter, SharingAfter, SizeAfter, Fresh
<1>2. [TrackerAloneNext]_<<network, trackerVars>> => [Grows]_<<network, trackerVars>>
  <2> SUFFICES ASSUME TrackerAloneNext PROVE Grows
    OBVIOUS
  <2>1. CASE TrackerServes
    BY <1>1, <2>1 DEF TrackerServes
  <2>2. CASE st_groups' = st_groups
    BY <2>2
  <2> HIDE DEF Grows
  <2> QED BY <2>1, <2>2 DEF TrackerAloneNext, CheckIfShouldTerminate, AnyClientAnnounces,
                            AnyClientTakesReply, trackerVars
<1> QED BY <1>2, PTL DEF TrackerAlone, TrackerNeverForgets
=============================================================================
