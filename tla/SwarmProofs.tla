----------------------------- MODULE SwarmProofs -----------------------------
(***************************************************************************)
(* What holds of a swarm of any size, with any files and tasks, and any    *)
(* number of datagrams in flight: its types; why a client only asks        *)
(* clients that can serve it and why segments arrive where there is room   *)
(* for them; and that the swarm implements FileSharing.                    *)
(***************************************************************************)
EXTENDS Swarm, TrackerProofs

LEMMA ProtocolFacts ==
  /\ \A f \in Files : NumSegments[f] \in Nat \ {0}
  /\ \A c \in Clients : Tasks(c) \subseteq Files
  /\ \A c \in Clients : OwnedAtStart[c] \subseteq Files
  /\ NoClient \notin Clients
BY ProtocolAssumption DEF Tasks

(* Only datagrams of S are new between the clients. *)
PeerGains(S) == IsABag(peer') /\ BagToSet(peer') \subseteq BagToSet(peer) \cup S

LEMMA SentGains ==
  ASSUME IsABag(peer), NEW S, peer' \in Sent(peer, SetToBag(S), MaxBetween)
  PROVE  PeerGains(S)
<1>1. IsABag(SetToBag(S)) /\ BagToSet(SetToBag(S)) = S
  BY SetIsBag
<1> QED
  BY <1>1, SentAddsOnly DEF PeerGains

(* A handler receives one datagram, and sends at most those of S. *)
LEMMA TakenGains ==
  ASSUME IsABag(peer), NEW m \in BagToSet(peer), NEW S,
         \/ peer' = Without(peer, m)
         \/ peer' \in Sent(Without(peer, m), SetToBag(S), MaxBetween)
  PROVE  PeerGains(S)
<1>1. IsABag(Without(peer, m)) /\ BagToSet(Without(peer, m)) \subseteq BagToSet(peer)
  BY WithoutTakesOne
<1>2. IsABag(SetToBag(S)) /\ BagToSet(SetToBag(S)) = S
  BY SetIsBag
<1>3. CASE peer' = Without(peer, m)
  BY <1>1, <1>3 DEF PeerGains
<1>4. CASE peer' \in Sent(Without(peer, m), SetToBag(S), MaxBetween)
  BY <1>1, <1>2, <1>4, SentAddsOnly DEF PeerGains
<1> QED
  BY <1>3, <1>4
-----------------------------------------------------------------------------
(* Type correctness *)

LEMMA ClientInitTypeOK ==
  ASSUME ClientInit
  PROVE  ClientTypeOK
<1> USE ProtocolFacts, ProtocolAssumption, ClientAssumption DEF ClientInit
<1>1. status \in [Clients -> {"running", "stopped"}]
  OBVIOUS
<1>2. /\ enabled \in [Clients -> SUBSET Files]
      /\ \A c \in Clients : enabled[c] \subseteq Tasks(c)
  OBVIOUS
<1>3. /\ nseg \in [Clients -> [Files -> Nat]]
      /\ \A c \in Clients : \A f \in Files : nseg[c][f] \in Sizes(f)
  BY DEF Sizes
<1>4. have \in [Clients -> [Files -> SUBSET Nat]] /\ blank \in [Clients -> [Files -> SUBSET Nat]]
  BY DEF Segments
<1>5. segmentToClient \in [Clients -> SourceTables]
  BY DEF SourceTables
<1>6. /\ done \in [Clients -> SUBSET Files]
      /\ owned \in [Clients -> SUBSET Files]
      /\ servable \in [Clients -> SUBSET Files]
      /\ known \in [Clients -> SUBSET Files]
  BY DEF OwnedTasks
<1>7. sharers \in [Clients -> [Files -> SUBSET Clients]]
  BY DEF FirstSharers
<1>8. junk \in [Clients -> BOOLEAN] /\ addrs \in [Clients -> SUBSET Clients]
  OBVIOUS
<1>9. updates \in [Clients -> 0 .. GroupUpdateLimit] /\ progress \in [Clients -> 0 .. ProgressLimit]
  OBVIOUS
<1> QED BY <1>1, <1>2, <1>3, <1>4, <1>5, <1>6, <1>7, <1>8, <1>9 DEF ClientTypeOK

LEMMA StopTypeOK ==
  ASSUME ClientTypeOK, NEW c \in Clients, Stop(c)
  PROVE  ClientTypeOK'
<1> USE DEF Stop, ClientTypeOK
<1>1. status' \in [Clients -> {"running", "stopped"}]
  OBVIOUS
<1>2. /\ enabled' \in [Clients -> SUBSET Files]
      /\ \A d \in Clients : enabled'[d] \subseteq Tasks(d)
  OBVIOUS
<1>3. segmentToClient' \in [Clients -> SourceTables]
  <2>1. [f \in Files |-> [s \in Segments(f) |-> NoClient]] \in SourceTables
    BY DEF SourceTables
  <2> QED BY <2>1
<1>4. sharers' \in [Clients -> [Files -> SUBSET Clients]]
  OBVIOUS
<1>5. known' \in [Clients -> SUBSET Files] /\ addrs' \in [Clients -> SUBSET Clients]
  OBVIOUS
<1>6. junk' \in [Clients -> BOOLEAN]
  OBVIOUS
<1>7. updates' \in [Clients -> 0 .. GroupUpdateLimit] /\ progress' \in [Clients -> 0 .. ProgressLimit]
  BY ClientAssumption
<1> QED BY <1>1, <1>2, <1>3, <1>4, <1>5, <1>6, <1>7

(* The files a client announces are its tasks, with their size if known.   *)
LEMMA InterestTypeOK ==
  ASSUME SwarmTypeOK, NEW c \in Clients, NEW m \in GroupShowInterest(c)
  PROVE  InterestOK(m)
<1>1. enabled[c] \subseteq Tasks(c) /\ Tasks(c) \subseteq Files
  BY ProtocolFacts DEF SwarmTypeOK, ClientTypeOK
<1>2. \A f \in Files : nseg[c][f] \in Sizes(f)
  BY DEF SwarmTypeOK, ClientTypeOK
<1> QED BY <1>1, <1>2 DEF InterestOK, GroupShowInterest

LEMMA SendInterestTypeOK ==
  ASSUME SwarmTypeOK, NEW c \in Clients, SendInterestToTracker(c)
  PROVE  NetworkTypeOK' /\ ClientTypeOK'
<1>1. CASE Stop(c) /\ UNCHANGED network
  BY <1>1, StopTypeOK DEF SwarmTypeOK, network, NetworkTypeOK, InterestOK, AssignOK
<1>2. CASE ~Stop(c) \/ interest' # interest
  <2>1. /\ ~NoProgress(c)
        /\ updates' = [updates EXCEPT ![c] = IF @ < GroupUpdateLimit THEN @ + 1 ELSE @]
        /\ progress' = [progress EXCEPT ![c] = @ + 1]
        /\ done' = [done EXCEPT ![c] = @ \cup (enabled[c] \cap owned[c])]
        /\ UNCHANGED <<status, enabled, nseg, have, blank, segmentToClient, owned, servable,
                       groupVars, addrs, assign, peer>>
    BY <1>2 DEF SendInterestToTracker
  <2>2. /\ IsABag(interest')
        /\ \E S \in SUBSET GroupShowInterest(c) : BagToSet(interest') \subseteq BagToSet(interest) \cup S
    <3>1. IsABag(interest)
      BY DEF SwarmTypeOK, NetworkTypeOK
    <3>2. ASSUME NEW m \in GroupShowInterest(c), interest' \in Sent(interest, SetToBag({m}), MaxInFlight)
          PROVE  IsABag(interest') /\ BagToSet(interest') \subseteq BagToSet(interest) \cup {m}
      <4>1. IsABag(SetToBag({m})) /\ BagToSet(SetToBag({m})) = {m}
        BY SetIsBag
      <4> QED
        BY <3>1, <3>2, <4>1, SentAddsOnly
    <3>3. CASE interest' = interest
      BY <3>1, <3>3
    <3>4. CASE interest' # interest
      <4>1. PICK m \in GroupShowInterest(c) : interest' \in Sent(interest, SetToBag({m}), MaxInFlight)
        BY <1>2, <3>4 DEF SendInterestToTracker
      <4> QED
        BY <3>2, <4>1
    <3> QED BY <3>3, <3>4
  <2>3. NetworkTypeOK'
    BY <2>1, <2>2, InterestTypeOK DEF SwarmTypeOK, NetworkTypeOK, InterestOK, AssignOK
  <2>4. ClientTypeOK
    BY DEF SwarmTypeOK
  <2>5. updates' \in [Clients -> 0 .. GroupUpdateLimit]
    BY <2>1, <2>4, ClientAssumption DEF ClientTypeOK
  <2>6. progress' \in [Clients -> 0 .. ProgressLimit]
    BY <2>1, <2>4, ClientAssumption DEF ClientTypeOK, NoProgress
  <2>7. done' \in [Clients -> SUBSET Files]
    BY <2>1, <2>4 DEF ClientTypeOK
  <2>8. ClientTypeOK'
    BY <2>1, <2>4, <2>5, <2>6, <2>7 DEF ClientTypeOK, groupVars
  <2> QED BY <2>3, <2>8
<1> QED BY <1>1, <1>2 DEF SendInterestToTracker, network

LEMMA EnableTypeOK ==
  ASSUME SwarmTypeOK, NEW c \in Clients, NEW f \in Files, EnableDownload(c, f)
  PROVE  NetworkTypeOK' /\ ClientTypeOK'
BY DEF EnableDownload, SwarmTypeOK, ClientTypeOK, fileVars, groupVars, network, NetworkTypeOK,
       InterestOK, AssignOK

LEMMA PeerTypeOK ==
  ASSUME NetworkTypeOK, NEW ms \in SUBSET PeerMessages, PeerGains(ms),
         IsABag(interest'), BagToSet(interest') \subseteq BagToSet(interest),
         IsABag(assign'), BagToSet(assign') \subseteq BagToSet(assign)
  PROVE  NetworkTypeOK'
BY DEF NetworkTypeOK, InterestOK, AssignOK, PeerGains

LEMMA InfoRequestsTypeOK ==
  ASSUME SwarmTypeOK, NEW c \in Clients
  PROVE  /\ InfoRequests(c) \subseteq PeerMessages
         /\ \A m \in InfoRequests(c) : m.type = "INFO_REQ" /\ m.from # m.to
<1> SUFFICES ASSUME NEW m \in InfoRequests(c)
             PROVE  m \in PeerMessages /\ m.type = "INFO_REQ" /\ m.from # m.to
  OBVIOUS
<1>1. PICK f \in Tasks(c) :
        \E n \in sharers[c][f] \ {c} : m = PeerMessage("INFO_REQ", c, n, f, 0)
  BY DEF InfoRequests
<1>2. PICK n \in sharers[c][f] \ {c} : m = PeerMessage("INFO_REQ", c, n, f, 0)
  BY <1>1
<1>3. f \in Files /\ n \in Clients /\ n # c
  BY <1>2, ProtocolFacts DEF SwarmTypeOK, ClientTypeOK
<1> QED BY <1>2, <1>3 DEF PeerMessage, PeerMessages, PeerTypes

(* What is asked for is a segment of a file whose size is known, and the   *)
(* client asked is the one that segmentToClient names.                     *)
LEMMA SegmentRequestFacts ==
  ASSUME SwarmTypeOK, NEW c \in Clients, NEW f \in Fetching(c) \ Complete(c),
         NEW m \in SegmentRequestsFor(c, f)
  PROVE  /\ m \in PeerMessages
         /\ m.type = "SEG_REQ" /\ m.from = c /\ m.file \in Fetching(c) \ Complete(c)
         /\ m.seg \in Missing(c, m.file) /\ m.seg \in Segments(m.file)
         /\ m.to = segmentToClient[c][m.file][m.seg]
         /\ nseg[c][m.file] = NumSegments[m.file]
<1>1. PICK s \in Nat :
        /\ s \in Missing(c, f) /\ segmentToClient[c][f][s] \in addrs[c]
        /\ m = PeerMessage("SEG_REQ", c, segmentToClient[c][f][s], f, s)
  BY DEF SegmentRequestsFor, Missing
<1>2. f \in Files /\ nseg[c][f] # 0
  BY <1>1, ProtocolFacts DEF Fetching
<1>3. nseg[c][f] = NumSegments[f] /\ segmentToClient[c][f][s] \in Clients
  BY <1>1, <1>2 DEF SwarmTypeOK, ClientTypeOK, Sizes
<1>4. s \in Segments(f)
  BY <1>1, <1>3 DEF Missing, Segments
<1> QED BY <1>1, <1>2, <1>3, <1>4 DEF PeerMessage, PeerMessages, PeerTypes

(* All that a round can ask for, whatever is drawn how often. *)
PossibleRequests(c) == UNION {SegmentRequestsFor(c, f) : f \in Fetching(c) \ Complete(c)}

LEMMA PossibleRequestsTypeOK ==
  ASSUME SwarmTypeOK, NEW c \in Clients
  PROVE  PossibleRequests(c) \subseteq PeerMessages
BY SegmentRequestFacts DEF PossibleRequests

LEMMA SegmentRequestsAreBags ==
  ASSUME SwarmTypeOK, NEW c \in Clients, NEW ms \in SegmentRequests(c)
  PROVE  IsABag(ms) /\ BagToSet(ms) \subseteq PossibleRequests(c)
<1> DEFINE all == [m \in PossibleRequests(c) |-> Draws(c, m.file)]
<1>1. ms \in Remains(all, MaxBetween)
  BY DEF SegmentRequests, PossibleRequests
<1>2. PICK S \in SUBSET PossibleRequests(c) : ms \in [S -> 1 .. MaxBetween]
  BY <1>1 DEF Remains, BagToSet
<1> QED
  BY <1>2 DEF IsABag, BagToSet

(* A round sends some of them, or the client ends in it.                   *)
LEMMA RoundGains ==
  ASSUME SwarmTypeOK, NEW c \in Clients, SendClientSegmentRequests(c)
  PROVE  PeerGains(PossibleRequests(c)) /\ UNCHANGED <<interest, assign>>
<1>1. IsABag(peer)
  BY DEF SwarmTypeOK, NetworkTypeOK
<1>2. CASE UNCHANGED network
  BY <1>1, <1>2 DEF network, PeerGains
<1>3. CASE ~UNCHANGED network
  <2>1. /\ UNCHANGED <<interest, assign>>
        /\ \E ms \in SegmentRequests(c) : peer' \in Sent(peer, ms, MaxBetween)
    BY <1>3 DEF SendClientSegmentRequests
  <2> QED
    BY <1>1, <2>1, SegmentRequestsAreBags, SentAddsOnly DEF PeerGains
<1> QED
  BY <1>2, <1>3

LEMMA SendSegmentRequestsTypeOK ==
  ASSUME SwarmTypeOK, NEW c \in Clients, SendClientSegmentRequests(c)
  PROVE  NetworkTypeOK' /\ ClientTypeOK'
<1>1. NetworkTypeOK'
  BY RoundGains, PossibleRequestsTypeOK, PeerTypeOK DEF SwarmTypeOK, NetworkTypeOK
<1>2. CASE Stop(c)
  BY <1>1, <1>2, StopTypeOK DEF SwarmTypeOK
<1>3. CASE ~Stop(c)
  <2>1. /\ done' = [done EXCEPT ![c] = @ \cup Complete(c)]
        /\ JoinOwned(c, Complete(c))
        /\ UNCHANGED <<status, enabled, nseg, have, blank, segmentToClient, groupVars,
                       addrs, updates, progress>>
    BY <1>3 DEF SendClientSegmentRequests
  <2>2. Complete(c) \subseteq Files
    BY ProtocolFacts DEF Complete, Fetching
  <2>3. /\ done' \in [Clients -> SUBSET Files]
        /\ owned' \in [Clients -> SUBSET Files]
        /\ servable' \in [Clients -> SUBSET Files]
    BY <2>1, <2>2 DEF JoinOwned, SwarmTypeOK, ClientTypeOK
  <2>4. ClientTypeOK'
    BY <2>1, <2>3 DEF SwarmTypeOK, ClientTypeOK, groupVars
  <2> QED BY <1>1, <2>4
<1> QED BY <1>2, <1>3

LEMMA GroupUpdateClientTypeOK ==
  ASSUME SwarmTypeOK, NEW c \in Clients, NEW m \in BagToSet(assign), HandleTrackerGroupUpdate(c, m)
  PROVE  NetworkTypeOK' /\ ClientTypeOK'
<1> USE DEF SwarmTypeOK
<1>1. /\ Legible(c, m) \subseteq Files
      /\ \A f \in Legible(c, m) : m.entry[f].size \in Sizes(f) /\ Neighbors(m.entry[f]) \subseteq Clients
  BY ProtocolFacts DEF NetworkTypeOK, AssignOK, HandleTrackerGroupUpdate, Legible, Neighbors
<1>2. NetworkTypeOK'
  <2>1. IsABag(Without(assign, m)) /\ BagToSet(Without(assign, m)) \subseteq BagToSet(assign)
    BY WithoutTakesOne DEF NetworkTypeOK
  <2>2. assign' = Without(assign, m) /\ UNCHANGED <<interest, peer>>
    BY DEF HandleTrackerGroupUpdate
  <2>3. NetworkTypeOK
    OBVIOUS
  <2> QED
    BY <2>1, <2>2, <2>3, PeerTypeOK DEF NetworkTypeOK, PeerGains
<1>3. CASE Stop(c)
  BY <1>2, <1>3, StopTypeOK
<1>4. CASE ~Stop(c)
  <2>1. /\ nseg' = [nseg EXCEPT ![c] = [f \in Files |->
                      IF f \in Learns(c, m) THEN m.entry[f].size ELSE @[f]]]
        /\ have' = [have EXCEPT ![c] = [f \in Files |-> IF f \in Learns(c, m) THEN {} ELSE @[f]]]
        /\ blank' = [blank EXCEPT ![c] = [f \in Files |-> IF f \in Learns(c, m) THEN {} ELSE @[f]]]
        /\ addrs' = [addrs EXCEPT ![c] = @ \cup (UNION {Neighbors(m.entry[f]) : f \in Legible(c, m)})]
        /\ known' = [known EXCEPT ![c] = @ \cup (IF junk[c] THEN {} ELSE Legible(c, m))]
        /\ sharers' = [sharers EXCEPT ![c] = [f \in Files |->
                         IF f \in Legible(c, m) /\ (f \in known[c] \/ ~junk[c])
                         THEN @[f] \cup Neighbors(m.entry[f]) ELSE @[f]]]
        /\ junk' = [junk EXCEPT ![c] = @ \/ Legible(c, m) # DOMAIN m.entry]
        /\ UNCHANGED <<status, enabled, segmentToClient, done, owned, servable, updates, progress>>
    BY <1>4 DEF HandleTrackerGroupUpdate
  <2>2. ClientTypeOK
    OBVIOUS
  <2>3. /\ nseg' \in [Clients -> [Files -> Nat]]
        /\ \A d \in Clients : \A f \in Files : nseg'[d][f] \in Sizes(f)
    <3>1. \A f \in Files : Sizes(f) \subseteq Nat
      BY ProtocolFacts DEF Sizes
    <3>2. \A f \in Learns(c, m) : m.entry[f].size \in Sizes(f)
      BY <1>1 DEF Learns
    <3> QED BY <2>1, <2>2, <3>1, <3>2 DEF ClientTypeOK
  <2>4. have' \in [Clients -> [Files -> SUBSET Nat]] /\ blank' \in [Clients -> [Files -> SUBSET Nat]]
    BY <2>1, <2>2 DEF ClientTypeOK
  <2>5. addrs' \in [Clients -> SUBSET Clients]
    <3>1. (UNION {Neighbors(m.entry[f]) : f \in Legible(c, m)}) \subseteq Clients
      BY <1>1
    <3> QED BY <2>1, <2>2, <3>1 DEF ClientTypeOK
  <2>6. known' \in [Clients -> SUBSET Files] /\ junk' \in [Clients -> BOOLEAN]
    BY <1>1, <2>1, <2>2 DEF ClientTypeOK
  <2>7. sharers' \in [Clients -> [Files -> SUBSET Clients]]
    BY <1>1, <2>1, <2>2 DEF ClientTypeOK
  <2>8. ClientTypeOK'
    BY <2>1, <2>2, <2>3, <2>4, <2>5, <2>6, <2>7 DEF ClientTypeOK
  <2> QED BY <1>2, <2>8
<1> QED BY <1>3, <1>4

(* All that an INFO_REQ can put on the network: an INFO_REP, for a file    *)
(* that the client serves.                                                 *)
LEMMA InfoRequestReplies ==
  ASSUME SwarmTypeOK, NEW c \in Clients, NEW m \in PeerMessages
  PROVE  /\ m.file \notin servable[c] => InfoReplies(c, m) = {}
         /\ \A r \in InfoReplies(c, m) :
              /\ r \in PeerMessages /\ r.type = "INFO_REP"
              /\ r.from = c /\ r.to = m.from /\ r.file = m.file
<1>1. m.file \notin servable[c] => InfoReplies(c, m) = {}
  BY DEF InfoReplies
<1>2. ASSUME NEW r \in InfoReplies(c, m)
      PROVE  /\ r \in PeerMessages /\ r.type = "INFO_REP"
             /\ r.from = c /\ r.to = m.from /\ r.file = m.file
  <2>1. NumSegments[m.file] \in Nat /\ nseg[c][m.file] \in Nat
    BY ProtocolFacts DEF PeerMessages, SwarmTypeOK, ClientTypeOK
  <2>2. PICK n \in Nat : r = PeerMessage("INFO_REP", c, m.from, m.file, n)
    BY <2>1 DEF InfoReplies
  <2> QED
    BY <2>2 DEF PeerMessage, PeerMessages, PeerTypes
<1> QED
  BY <1>1, <1>2

LEMMA InfoRequestTypeOK ==
  ASSUME SwarmTypeOK, NEW c \in Clients, NEW m \in BagToSet(peer), HandleClientInfoRequest(c, m)
  PROVE  NetworkTypeOK' /\ ClientTypeOK'
<1>1. m \in PeerMessages
  BY DEF SwarmTypeOK, NetworkTypeOK
<1>2. PeerGains(InfoReplies(c, m)) /\ UNCHANGED <<interest, assign>>
  BY TakenGains DEF HandleClientInfoRequest, SwarmTypeOK, NetworkTypeOK
<1>3. InfoReplies(c, m) \subseteq PeerMessages
  BY <1>1, InfoRequestReplies
<1>4. NetworkTypeOK'
  BY <1>2, <1>3, PeerTypeOK DEF SwarmTypeOK, NetworkTypeOK
<1>5. ClientTypeOK'
  BY <1>1, ClientAssumption DEF HandleClientInfoRequest, RequestCounted, SenderKnown, SwarmTypeOK, ClientTypeOK,
     PeerMessages, fileVars, groupVars
<1> QED BY <1>4, <1>5

LEMMA SegmentRequestTypeOK ==
  ASSUME SwarmTypeOK, NEW c \in Clients, NEW m \in BagToSet(peer), HandleClientSegmentRequest(c, m)
  PROVE  NetworkTypeOK' /\ ClientTypeOK'
<1>1. m \in PeerMessages
  BY DEF SwarmTypeOK, NetworkTypeOK
<1>2. SegmentReply(c, m) \in PeerMessages
  BY <1>1 DEF SegmentReply, CarriesData, PeerMessage, PeerMessages, PeerTypes
<1>3. PeerGains({SegmentReply(c, m)}) /\ UNCHANGED <<interest, assign>>
  BY TakenGains DEF HandleClientSegmentRequest, SwarmTypeOK, NetworkTypeOK
<1>4. NetworkTypeOK'
  BY <1>2, <1>3, PeerTypeOK DEF SwarmTypeOK, NetworkTypeOK
<1>5. CASE Stop(c)
  BY <1>4, <1>5, StopTypeOK DEF SwarmTypeOK
<1>6. CASE ~Stop(c)
  <2>1. /\ updates' = [updates EXCEPT ![c] = 0]
        /\ addrs' = [addrs EXCEPT ![c] = @ \cup {m.from}]
        /\ UNCHANGED <<status, enabled, fileVars, groupVars, progress>>
    BY <1>6 DEF HandleClientSegmentRequest, RequestCounted, SenderKnown
  <2>2. ClientTypeOK'
    BY <1>1, <2>1, ClientAssumption DEF SwarmTypeOK, ClientTypeOK, PeerMessages, fileVars, groupVars
  <2> QED BY <1>4, <2>2
<1> QED BY <1>5, <1>6

(* A table of sources stays one when the row of one file is replaced.      *)
LEMMA RowTypeOK ==
  ASSUME NEW t \in SourceTables, NEW f \in Files,
         NEW row \in [Segments(f) -> Clients \cup {NoClient}]
  PROVE  [t EXCEPT ![f] = row] \in SourceTables
BY DEF SourceTables

LEMMA InfoReplyTypeOK ==
  ASSUME SwarmTypeOK, NEW c \in Clients, NEW m \in BagToSet(peer), HandleClientInfoReply(c, m)
  PROVE  NetworkTypeOK' /\ ClientTypeOK'
<1>1. m \in PeerMessages
  BY DEF SwarmTypeOK, NetworkTypeOK
<1>2. NetworkTypeOK'
  <2>1. PeerGains({}) /\ UNCHANGED <<interest, assign>>
    BY TakenGains DEF HandleClientInfoReply, SwarmTypeOK, NetworkTypeOK
  <2> QED
    BY <2>1, PeerTypeOK DEF SwarmTypeOK, NetworkTypeOK
<1>3. segmentToClient' \in [Clients -> SourceTables]
  <2>1. segmentToClient \in [Clients -> SourceTables]
    BY DEF SwarmTypeOK, ClientTypeOK
  <2>2. segmentToClient[c] \in SourceTables
    BY <2>1
  <2>3. [segmentToClient[c] EXCEPT ![m.file] =
           [s \in Segments(m.file) |-> IF s < m.seg THEN m.from ELSE segmentToClient[c][m.file][s]]]
          \in SourceTables
    <3> DEFINE row == [s \in Segments(m.file) |->
                         IF s < m.seg THEN m.from ELSE segmentToClient[c][m.file][s]]
    <3>1. m.file \in Files /\ m.from \in Clients
      BY <1>1 DEF PeerMessages
    <3>2. segmentToClient[c][m.file] \in [Segments(m.file) -> Clients \cup {NoClient}]
      BY <2>2, <3>1 DEF SourceTables
    <3>3. row \in [Segments(m.file) -> Clients \cup {NoClient}]
      BY <3>1, <3>2
    <3>4. [segmentToClient[c] EXCEPT ![m.file] = row] \in SourceTables
      <4> HIDE DEF row
      <4> QED BY <2>2, <3>1, <3>3, RowTypeOK
    <3> QED BY <3>4
  <2>4. m.file \in Tasks(c) =>
          segmentToClient' = [segmentToClient EXCEPT ![c] =
            [segmentToClient[c] EXCEPT ![m.file] =
               [s \in Segments(m.file) |-> IF s < m.seg THEN m.from ELSE segmentToClient[c][m.file][s]]]]
    BY <2>1 DEF HandleClientInfoReply
  <2>5. m.file \notin Tasks(c) => segmentToClient' = segmentToClient
    BY DEF HandleClientInfoReply
  <2> QED BY <2>1, <2>3, <2>4, <2>5
<1>4. ClientTypeOK'
  BY <1>1, <1>3 DEF HandleClientInfoReply, SenderKnown, SwarmTypeOK, ClientTypeOK, PeerMessages, groupVars
<1> QED BY <1>2, <1>4

LEMMA SegmentReplyTypeOK ==
  ASSUME SwarmTypeOK, NEW c \in Clients, NEW m \in BagToSet(peer), HandleClientSegmentReply(c, m)
  PROVE  NetworkTypeOK' /\ ClientTypeOK'
<1>1. m \in PeerMessages
  BY DEF SwarmTypeOK, NetworkTypeOK
<1>2. NetworkTypeOK'
  <2>1. PeerGains({}) /\ UNCHANGED <<interest, assign>>
    BY TakenGains DEF HandleClientSegmentReply, SwarmTypeOK, NetworkTypeOK
  <2> QED
    BY <2>1, PeerTypeOK DEF SwarmTypeOK, NetworkTypeOK
<1>3. CASE Stop(c)
  BY <1>2, <1>3, StopTypeOK DEF SwarmTypeOK
<1>4. CASE ~Stop(c)
  <2>1. /\ progress' = [progress EXCEPT ![c] = 0]
        /\ addrs' = [addrs EXCEPT ![c] = @ \cup {m.from}]
        /\ UNCHANGED <<status, enabled, nseg, segmentToClient, done, owned, servable,
                       groupVars, updates>>
    BY <1>4 DEF HandleClientSegmentReply, SenderKnown
  <2>2. have' \in [Clients -> [Files -> SUBSET Nat]] /\ blank' \in [Clients -> [Files -> SUBSET Nat]]
    <3>1. m.file \in Files /\ m.seg \in Nat
      BY <1>1 DEF PeerMessages
    <3>2. CASE m.file \in Tasks(c)
      <4>1. /\ have' = [have EXCEPT ![c][m.file] = @ \cup {m.seg}]
            /\ blank' = [blank EXCEPT ![c][m.file] =
                 IF m.full THEN @ \ {m.seg}
                 ELSE IF m.seg \in have[c][m.file] THEN @ ELSE @ \cup {m.seg}]
        BY <1>4, <3>2 DEF HandleClientSegmentReply
      <4> QED BY <3>1, <4>1 DEF SwarmTypeOK, ClientTypeOK
    <3>3. CASE m.file \notin Tasks(c)
      BY <1>4, <3>3 DEF HandleClientSegmentReply, SwarmTypeOK, ClientTypeOK
    <3> QED BY <3>2, <3>3
  <2>3. addrs' \in [Clients -> SUBSET Clients] /\ progress' \in [Clients -> 0 .. ProgressLimit]
    BY <1>1, <2>1, ClientAssumption DEF SwarmTypeOK, ClientTypeOK, PeerMessages
  <2>4. ClientTypeOK
    BY DEF SwarmTypeOK
  <2>5. ClientTypeOK'
    BY <2>1, <2>2, <2>3, <2>4 DEF ClientTypeOK, groupVars
  <2> QED BY <1>2, <2>5
<1> QED BY <1>3, <1>4

(* Asking for offers: requests are sent, or the client ends in it. *)
LEMMA InfoRoundGains ==
  ASSUME SwarmTypeOK, NEW c \in Clients, SendClientInfoRequests(c)
  PROVE  PeerGains(InfoRequests(c)) /\ UNCHANGED <<interest, assign>>
BY SentGains DEF SendClientInfoRequests, network, PeerGains, SwarmTypeOK, NetworkTypeOK

(* Every step of a client. *)
LEMMA ClientNextTypeOK ==
  ASSUME SwarmTypeOK, NEW c \in Clients, ClientNext(c), UNCHANGED trackerVars
  PROVE  SwarmTypeOK'
<1>1. TrackerTypeOK'
  BY DEF SwarmTypeOK, TrackerTypeOK, trackerVars
<1>2. CASE SendClientInfoRequests(c)
  <2>1. NetworkTypeOK'
    BY <1>2, InfoRoundGains, PeerTypeOK, InfoRequestsTypeOK DEF SwarmTypeOK, NetworkTypeOK
  <2>2. CASE Stop(c)
    BY <1>1, <2>1, <2>2, StopTypeOK DEF SwarmTypeOK
  <2>3. CASE UNCHANGED clientVars
    BY <1>1, <2>1, <2>3 DEF SwarmTypeOK, ClientTypeOK, clientVars, fileVars, groupVars
  <2> QED BY <1>2, <2>2, <2>3 DEF SendClientInfoRequests
<1>3. CASE \E f \in Files : EnableDownload(c, f)
  BY <1>1, <1>3, EnableTypeOK DEF SwarmTypeOK
<1>4. CASE SendInterestToTracker(c)
  BY <1>1, <1>4, SendInterestTypeOK DEF SwarmTypeOK
<1>5. CASE SendClientSegmentRequests(c)
  BY <1>1, <1>5, SendSegmentRequestsTypeOK DEF SwarmTypeOK
<1>6. CASE ClientTakesDatagram(c)
  BY <1>1, <1>6, GroupUpdateClientTypeOK, InfoRequestTypeOK, InfoReplyTypeOK,
     SegmentRequestTypeOK, SegmentReplyTypeOK DEF SwarmTypeOK, ClientTakesDatagram
<1> QED BY <1>2, <1>3, <1>4, <1>5, <1>6 DEF ClientNext

LEMMA SwarmInitTypeOK == Init => SwarmTypeOK
<1>1. Init => NetworkTypeOK
  BY EmptyIsBag DEF Init, NetworkInit, NetworkTypeOK
<1> QED BY <1>1, TrackerInitTypeOK, ClientInitTypeOK DEF Init, SwarmTypeOK

LEMMA SwarmNextTypeOK == SwarmTypeOK /\ [Next]_vars => SwarmTypeOK'
<1> SUFFICES ASSUME SwarmTypeOK, [Next]_vars
             PROVE  SwarmTypeOK'
  OBVIOUS
<1> USE DEF SwarmTypeOK
<1>1. UNCHANGED clientVars => ClientTypeOK'
  BY DEF ClientTypeOK, clientVars, fileVars, groupVars
<1>2. CASE TrackerServes /\ UNCHANGED clientVars
  BY <1>1, <1>2, TrackerServesTypeOK
<1>3. CASE CheckIfShouldTerminate /\ UNCHANGED clientVars
  BY <1>1, <1>3 DEF CheckIfShouldTerminate, network, NetworkTypeOK, InterestOK, AssignOK, TrackerTypeOK
<1>4. CASE \E c \in Clients : ClientNext(c) /\ UNCHANGED trackerVars
  BY <1>4, ClientNextTypeOK
<1>5. CASE PortClosed
  <2>1. IsABag(interest) /\ IsABag(assign) /\ IsABag(peer)
    BY DEF NetworkTypeOK
  <2>2. NetworkTypeOK'
    <3>1. /\ IsABag(interest') /\ BagToSet(interest') \subseteq BagToSet(interest)
          /\ IsABag(assign') /\ BagToSet(assign') \subseteq BagToSet(assign)
          /\ PeerGains({})
      BY <1>5, <2>1, WithoutTakesOne DEF PortClosed, PeerGains
    <3> QED
      BY <3>1, PeerTypeOK
  <2> QED BY <1>1, <1>5, <2>2 DEF PortClosed, trackerVars, TrackerTypeOK
<1>6. CASE UNCHANGED vars
  BY <1>1, <1>6 DEF vars, network, trackerVars, NetworkTypeOK, InterestOK, AssignOK, TrackerTypeOK
<1> QED BY <1>2, <1>3, <1>4, <1>5, <1>6 DEF Next, AllStopped

(* The tables of every process, and every datagram between them, stay of   *)
(* their kind: no handler stores or sends what another cannot take.        *)
THEOREM SwarmTypeCorrect == Spec => []SwarmTypeOK
BY SwarmInitTypeOK, SwarmNextTypeOK, PTL DEF Spec
-----------------------------------------------------------------------------
(* What is asked for, and what comes *)

(* What a datagram between clients says is true when it is sent, and stays *)
(* true however long it takes.                                             *)
PeerOK(m) ==
  /\ m.from # m.to
  /\ m.type = "INFO_REP" => m.file \in servable[m.from]
  /\ m.type = "SEG_REQ" =>
       /\ m.file \in servable[m.to] \cap Tasks(m.from)
       /\ m.seg \in Segments(m.file)
       /\ nseg[m.from][m.file] = NumSegments[m.file]
  /\ m.type = "SEG_REP" =>
       /\ m.file \in servable[m.from] \cap Tasks(m.to)
       /\ m.seg \in Segments(m.file)
       /\ nseg[m.to][m.file] = NumSegments[m.file]
       /\ m.seg < NumSegments[m.file] - 1 => m.full

PeerInv == \A m \in BagToSet(peer) : PeerOK(m)

(* What a client serves it has, it holds nothing but segments of the file, *)
(* and nothing of a file whose size it does not know.                      *)
HoldingsInv ==
  \A c \in Clients :
    /\ servable[c] \subseteq owned[c]
    /\ \A f \in Files :
         /\ have[c][f] \subseteq Segments(f)
         /\ nseg[c][f] = 0 => have[c][f] = {}

SwarmInv ==
  /\ PeerInv
  /\ HoldingsInv
  /\ SourcesCanServe
  /\ OwnedIsComplete
  /\ DoneIsOwned
  /\ NoBlankSegments
-----------------------------------------------------------------------------
(* Steps that leave the files alone *)

LEMMA QuietStep ==
  ASSUME SwarmInv, UNCHANGED <<nseg, have, blank, done, owned, servable>>, SourcesCanServe',
         \A m \in BagToSet(peer') : m \in BagToSet(peer) \/ PeerOK(m)
  PROVE  SwarmInv'
<1>1. PeerInv'
  BY DEF SwarmInv, PeerInv, PeerOK
<1>2. HoldingsInv' /\ OwnedIsComplete' /\ DoneIsOwned' /\ NoBlankSegments'
  BY DEF SwarmInv, HoldingsInv, OwnedIsComplete, DoneIsOwned, NoBlankSegments
<1> QED BY <1>1, <1>2 DEF SwarmInv

(* Sources stay good while addresses are only added.                       *)
LEMMA SourcesStay ==
  ASSUME SourcesCanServe, UNCHANGED <<segmentToClient, servable>>,
         \A c \in Clients : addrs[c] \subseteq addrs'[c]
  PROVE  SourcesCanServe'
BY DEF SourcesCanServe

LEMMA StopSources ==
  ASSUME SourcesCanServe, ClientTypeOK, NEW c \in Clients, Stop(c)
  PROVE  SourcesCanServe'
<1>1. /\ segmentToClient' =
           [segmentToClient EXCEPT ![c] = [f \in Files |-> [s \in Segments(f) |-> NoClient]]]
      /\ addrs' = [addrs EXCEPT ![c] = {}]
      /\ servable' = servable
  BY DEF Stop
<1>2. \A f \in Files : \A s \in Segments(f) : segmentToClient'[c][f][s] = NoClient
  BY <1>1 DEF ClientTypeOK
<1>3. \A d \in Clients \ {c} : segmentToClient'[d] = segmentToClient[d] /\ addrs'[d] = addrs[d]
  BY <1>1 DEF ClientTypeOK
<1> QED BY <1>1, <1>2, <1>3 DEF SourcesCanServe

LEMMA StopInv ==
  ASSUME SwarmTypeOK, SwarmInv, NEW c \in Clients, Stop(c),
         \A m \in BagToSet(peer') : m \in BagToSet(peer) \/ PeerOK(m)
  PROVE  SwarmInv'
<1>1. SourcesCanServe'
  BY StopSources DEF SwarmInv, SwarmTypeOK
<1> QED BY <1>1, QuietStep DEF Stop

LEMMA SendInterestInv ==
  ASSUME SwarmTypeOK, SwarmInv, NEW c \in Clients, SendInterestToTracker(c)
  PROVE  SwarmInv'
<1>1. CASE Stop(c)
  BY <1>1, StopInv DEF SendInterestToTracker
<1>2. CASE ~Stop(c)
  <2>1. /\ done' = [done EXCEPT ![c] = @ \cup (enabled[c] \cap owned[c])]
        /\ UNCHANGED <<nseg, have, blank, segmentToClient, owned, servable, addrs, peer>>
    BY <1>2 DEF SendInterestToTracker
  <2>2. enabled[c] \cap owned[c] \subseteq done[c]
    BY DEF SwarmTypeOK, ClientTypeOK, SwarmInv, DoneIsOwned
  <2>3. done' = done
    BY <2>1, <2>2 DEF SwarmTypeOK, ClientTypeOK
  <2>4. SourcesCanServe'
    BY <2>1, SourcesStay DEF SwarmInv
  <2> QED BY <2>1, <2>3, <2>4, QuietStep
<1> QED BY <1>1, <1>2

LEMMA InfoRequestsInv ==
  ASSUME SwarmTypeOK, SwarmInv, NEW c \in Clients, SendClientInfoRequests(c)
  PROVE  SwarmInv'
<1>1. \A m \in InfoRequests(c) : PeerOK(m)
  BY InfoRequestsTypeOK DEF PeerOK
<1>2. \A m \in BagToSet(peer') : m \in BagToSet(peer) \/ PeerOK(m)
  BY <1>1, InfoRoundGains DEF PeerGains
<1>3. CASE Stop(c)
  BY <1>2, <1>3, StopInv
<1>4. CASE UNCHANGED clientVars
  <2>1. UNCHANGED <<nseg, have, blank, done, owned, servable, segmentToClient, addrs>>
    BY <1>4 DEF clientVars, fileVars
  <2>2. SourcesCanServe'
    BY <2>1, SourcesStay DEF SwarmInv
  <2> QED BY <1>2, <2>1, <2>2, QuietStep
<1> QED BY <1>3, <1>4 DEF SendClientInfoRequests

LEMMA InfoRequestInv ==
  ASSUME SwarmTypeOK, SwarmInv, NEW c \in Clients, NEW m \in BagToSet(peer), HandleClientInfoRequest(c, m)
  PROVE  SwarmInv'
<1>1. m \in PeerMessages /\ PeerOK(m) /\ m.to = c
  BY DEF SwarmTypeOK, NetworkTypeOK, SwarmInv, PeerInv, HandleClientInfoRequest
<1>2. \A r \in InfoReplies(c, m) : PeerOK(r)
  BY <1>1, InfoRequestReplies DEF PeerOK
<1>3. \A r \in BagToSet(peer') : r \in BagToSet(peer) \/ PeerOK(r)
  <2>1. PeerGains(InfoReplies(c, m))
    BY TakenGains DEF HandleClientInfoRequest, SwarmTypeOK, NetworkTypeOK
  <2> QED
    BY <1>2, <2>1 DEF PeerGains
<1>4. /\ UNCHANGED <<nseg, have, blank, done, owned, servable, segmentToClient>>
      /\ addrs' = [addrs EXCEPT ![c] = @ \cup {m.from}]
  BY DEF HandleClientInfoRequest, SenderKnown, fileVars
<1>5. SourcesCanServe'
  BY <1>4, SourcesStay DEF SwarmInv, SwarmTypeOK, ClientTypeOK
<1> QED BY <1>3, <1>4, <1>5, QuietStep

LEMMA SegmentRequestInv ==
  ASSUME SwarmTypeOK, SwarmInv, NEW c \in Clients, NEW m \in BagToSet(peer), HandleClientSegmentRequest(c, m)
  PROVE  SwarmInv'
<1>1. m \in PeerMessages /\ PeerOK(m) /\ m.to = c /\ m.type = "SEG_REQ"
  BY DEF SwarmTypeOK, NetworkTypeOK, SwarmInv, PeerInv, HandleClientSegmentRequest
<1>2. PeerOK(SegmentReply(c, m))
  BY <1>1 DEF PeerOK, SegmentReply, PeerMessage, CarriesData
<1>3. \A r \in BagToSet(peer') : r \in BagToSet(peer) \/ PeerOK(r)
  <2>1. PeerGains({SegmentReply(c, m)})
    BY TakenGains DEF HandleClientSegmentRequest, SwarmTypeOK, NetworkTypeOK
  <2> QED
    BY <1>2, <2>1 DEF PeerGains
<1>4. CASE Stop(c)
  BY <1>3, <1>4, StopInv
<1>5. CASE ~Stop(c)
  <2>1. /\ UNCHANGED <<nseg, have, blank, done, owned, servable, segmentToClient>>
        /\ addrs' = [addrs EXCEPT ![c] = @ \cup {m.from}]
    BY <1>5 DEF HandleClientSegmentRequest, SenderKnown, fileVars
  <2>2. SourcesCanServe'
    BY <2>1, SourcesStay DEF SwarmInv, SwarmTypeOK, ClientTypeOK
  <2> QED BY <1>3, <2>1, <2>2, QuietStep
<1> QED BY <1>4, <1>5

(* The client that offers its segments is another one, it serves the file, *)
(* and its address is known from this very datagram.                       *)
LEMMA InfoReplyInv ==
  ASSUME SwarmTypeOK, SwarmInv, NEW c \in Clients, NEW m \in BagToSet(peer), HandleClientInfoReply(c, m)
  PROVE  SwarmInv'
<1>1. /\ m \in PeerMessages /\ PeerOK(m) /\ m.to = c /\ m.type = "INFO_REP"
      /\ peer' = Without(peer, m)
      /\ UNCHANGED <<nseg, have, blank, done, owned, servable>>
      /\ addrs' = [addrs EXCEPT ![c] = @ \cup {m.from}]
  BY DEF SwarmTypeOK, NetworkTypeOK, SwarmInv, PeerInv, HandleClientInfoReply, SenderKnown
<1>2. m.from # c /\ m.file \in servable[m.from] /\ m.from \in addrs'[c]
  BY <1>1 DEF PeerOK, SwarmTypeOK, ClientTypeOK
<1>3. \A d \in Clients : addrs[d] \subseteq addrs'[d]
  BY <1>1 DEF SwarmTypeOK, ClientTypeOK
<1>4. ASSUME NEW d \in Clients, NEW f \in Files, NEW s \in Segments(f)
      PROVE  \/ segmentToClient'[d][f][s] = segmentToClient[d][f][s]
             \/ d = c /\ f = m.file /\ segmentToClient'[d][f][s] = m.from
  <2>1. segmentToClient \in [Clients -> SourceTables] /\ segmentToClient[d] \in SourceTables
    BY DEF SwarmTypeOK, ClientTypeOK
  <2>2. DOMAIN segmentToClient[d] = Files
    BY <2>1 DEF SourceTables
  <2> QED BY <2>1, <2>2 DEF HandleClientInfoReply
<1>5. SourcesCanServe'
  BY <1>1, <1>2, <1>3, <1>4 DEF SwarmInv, SourcesCanServe
<1>6. BagToSet(peer') \subseteq BagToSet(peer)
  BY <1>1, WithoutTakesOne DEF SwarmTypeOK, NetworkTypeOK
<1> QED BY <1>1, <1>5, <1>6, QuietStep
-----------------------------------------------------------------------------
(* Steps that change what a client holds or has *)

(* A file found complete is a task, and all of it is held.                 *)
LEMMA CompleteHolds ==
  ASSUME SwarmTypeOK, SwarmInv, NEW c \in Clients, NEW f \in Complete(c)
  PROVE  f \in Tasks(c) /\ nseg[c][f] = NumSegments[f] /\ have[c][f] = Segments(f)
<1>1. f \in Tasks(c) /\ f \in Files /\ nseg[c][f] # 0 /\ Missing(c, f) = {}
  BY ProtocolFacts DEF Complete, Fetching
<1>2. nseg[c][f] = NumSegments[f]
  BY <1>1 DEF SwarmTypeOK, ClientTypeOK, Sizes
<1>3. have[c][f] \subseteq Segments(f)
  BY <1>1 DEF SwarmInv, HoldingsInv
<1> QED BY <1>1, <1>2, <1>3 DEF Missing, Segments

(* The only way from a download to an owned file is to hold every segment. *)
LEMMA SendSegmentRequestsInv ==
  ASSUME SwarmTypeOK, SwarmInv, NEW c \in Clients, SendClientSegmentRequests(c)
  PROVE  SwarmInv'
<1>1. \A m \in PossibleRequests(c) : PeerOK(m)
  <2> SUFFICES ASSUME NEW f \in Fetching(c) \ Complete(c), NEW m \in SegmentRequestsFor(c, f)
               PROVE  PeerOK(m)
    BY DEF PossibleRequests
  <2>1. /\ m \in PeerMessages /\ m.type = "SEG_REQ" /\ m.from = c
        /\ m.seg \in Segments(m.file) /\ nseg[c][m.file] = NumSegments[m.file]
        /\ m.to = segmentToClient[c][m.file][m.seg] /\ m.file \in Tasks(c)
    BY SegmentRequestFacts DEF Fetching
  <2>2. m.to \in Clients /\ m.file \in Files
    BY <2>1 DEF PeerMessages
  <2>3. m.to # NoClient
    BY <2>2, ProtocolFacts
  <2>4. m.to # c /\ m.file \in servable[m.to]
    BY <2>1, <2>2, <2>3 DEF SwarmInv, SourcesCanServe
  <2> QED BY <2>1, <2>4 DEF PeerOK
<1>2. \A m \in BagToSet(peer') : m \in BagToSet(peer) \/ PeerOK(m)
  BY <1>1, RoundGains DEF PeerGains
<1>3. CASE Stop(c)
  BY <1>2, <1>3, StopInv
<1>4. CASE ~Stop(c)
  <2>1. PICK found \in SUBSET Complete(c) :
          /\ done' = [done EXCEPT ![c] = @ \cup Complete(c)]
          /\ owned' = [owned EXCEPT ![c] = @ \cup Complete(c)]
          /\ servable' = [servable EXCEPT ![c] = @ \cup found]
          /\ UNCHANGED <<nseg, have, blank, segmentToClient, addrs>>
    BY <1>4 DEF SendClientSegmentRequests, JoinOwned
  <2>2. \A d \in Clients : servable[d] \subseteq servable'[d]
    BY <2>1 DEF SwarmTypeOK, ClientTypeOK
  <2>3. SourcesCanServe'
    BY <2>1, <2>2 DEF SwarmInv, SourcesCanServe, SwarmTypeOK, ClientTypeOK, SourceTables
  <2>4. PeerInv'
    <3>1. \A m \in BagToSet(peer') : m \in PeerMessages /\ PeerOK(m)
      BY <1>2, RoundGains, PossibleRequestsTypeOK DEF PeerGains, SwarmInv, PeerInv, SwarmTypeOK, NetworkTypeOK
    <3>2. ASSUME NEW m \in BagToSet(peer') PROVE PeerOK(m)'
      <4>1. m.from \in Clients /\ m.to \in Clients
        BY <3>1 DEF PeerMessages
      <4> QED BY <2>1, <2>2, <3>1, <4>1 DEF PeerOK
    <3> QED BY <3>2 DEF PeerInv
  <2>5. \A f \in Complete(c) :
          f \in Tasks(c) /\ nseg[c][f] = NumSegments[f] /\ have[c][f] = Segments(f)
    BY CompleteHolds
  <2>6. OwnedIsComplete'
    BY <2>1, <2>5 DEF SwarmInv, OwnedIsComplete, SwarmTypeOK, ClientTypeOK
  <2>7. DoneIsOwned'
    BY <2>1, <2>5 DEF SwarmInv, DoneIsOwned, SwarmTypeOK, ClientTypeOK
  <2>8. HoldingsInv'
    BY <2>1 DEF SwarmInv, HoldingsInv, SwarmTypeOK, ClientTypeOK
  <2>9. NoBlankSegments'
    BY <2>1 DEF SwarmInv, NoBlankSegments
  <2> QED BY <2>3, <2>4, <2>6, <2>7, <2>8, <2>9 DEF SwarmInv
<1> QED BY <1>3, <1>4

(* A size is learned once, and nothing is held of the file at that time.   *)
LEMMA LearnsNothingHeld ==
  ASSUME SwarmTypeOK, SwarmInv, NEW c \in Clients, NEW m \in BagToSet(assign),
         HandleTrackerGroupUpdate(c, m), ~Stop(c)
  PROVE  /\ have' = have
         /\ \A d \in Clients : \A f \in Files : nseg[d][f] # 0 => nseg'[d][f] = nseg[d][f]
         /\ \A d \in Clients : \A f \in Files : nseg'[d][f] = 0 => nseg[d][f] = 0
         /\ \A d \in Clients : \A f \in Files : blank'[d][f] \in {blank[d][f], {}}
<1>1. /\ nseg' = [nseg EXCEPT ![c] = [f \in Files |->
                    IF f \in Learns(c, m) THEN m.entry[f].size ELSE @[f]]]
      /\ have' = [have EXCEPT ![c] = [f \in Files |-> IF f \in Learns(c, m) THEN {} ELSE @[f]]]
      /\ blank' = [blank EXCEPT ![c] = [f \in Files |-> IF f \in Learns(c, m) THEN {} ELSE @[f]]]
  BY DEF HandleTrackerGroupUpdate
<1>2. \A f \in Learns(c, m) : nseg[c][f] = 0 /\ m.entry[f].size # 0
  BY DEF Learns
<1>3. \A f \in Files : f \in Learns(c, m) => have[c][f] = {}
  BY <1>2 DEF SwarmInv, HoldingsInv
<1>4. have \in [Clients -> [Files -> SUBSET Nat]] /\ have[c] \in [Files -> SUBSET Nat]
  BY DEF SwarmTypeOK, ClientTypeOK
<1>5. [f \in Files |-> IF f \in Learns(c, m) THEN {} ELSE have[c][f]] = have[c]
  BY <1>3, <1>4
<1>6. have' = have
  BY <1>1, <1>4, <1>5
<1>7. /\ \A d \in Clients : \A f \in Files : nseg[d][f] # 0 => nseg'[d][f] = nseg[d][f]
      /\ \A d \in Clients : \A f \in Files : nseg'[d][f] = 0 => nseg[d][f] = 0
  BY <1>1, <1>2 DEF SwarmTypeOK, ClientTypeOK
<1>8. \A d \in Clients : \A f \in Files : blank'[d][f] \in {blank[d][f], {}}
  BY <1>1 DEF SwarmTypeOK, ClientTypeOK
<1> QED BY <1>6, <1>7, <1>8

LEMMA GroupUpdateClientInv ==
  ASSUME SwarmTypeOK, SwarmInv, NEW c \in Clients, NEW m \in BagToSet(assign), HandleTrackerGroupUpdate(c, m)
  PROVE  SwarmInv'
<1>1. CASE Stop(c)
  BY <1>1, StopInv DEF HandleTrackerGroupUpdate
<1>2. CASE ~Stop(c)
  <2>1. /\ UNCHANGED <<segmentToClient, done, owned, servable, peer>>
        /\ addrs' = [addrs EXCEPT ![c] = @ \cup (UNION {Neighbors(m.entry[f]) : f \in Legible(c, m)})]
    BY <1>2 DEF HandleTrackerGroupUpdate
  <2>2. /\ have' = have
        /\ \A d \in Clients : \A f \in Files : nseg[d][f] # 0 => nseg'[d][f] = nseg[d][f]
        /\ \A d \in Clients : \A f \in Files : nseg'[d][f] = 0 => nseg[d][f] = 0
        /\ \A d \in Clients : \A f \in Files : blank'[d][f] \in {blank[d][f], {}}
    BY <1>2, LearnsNothingHeld
  <2>3. SourcesCanServe'
    <3>1. \A d \in Clients : addrs[d] \subseteq addrs'[d]
      BY <2>1 DEF SwarmTypeOK, ClientTypeOK
    <3> QED BY <2>1, <3>1, SourcesStay DEF SwarmInv
  <2>4. \A f \in Files : NumSegments[f] # 0
    BY ProtocolFacts
  <2>5. PeerInv'
    <3> SUFFICES ASSUME NEW p \in BagToSet(peer) PROVE PeerOK(p)'
      BY <2>1 DEF PeerInv
    <3>1. p.from \in Clients /\ p.to \in Clients /\ p.file \in Files /\ PeerOK(p)
      BY DEF SwarmInv, PeerInv, SwarmTypeOK, NetworkTypeOK, PeerMessages
    <3> QED BY <2>1, <2>2, <2>4, <3>1 DEF PeerOK
  <2>6. OwnedIsComplete'
    BY <2>1, <2>2, <2>4, ProtocolFacts DEF SwarmInv, OwnedIsComplete
  <2>7. HoldingsInv'
    BY <2>1, <2>2 DEF SwarmInv, HoldingsInv
  <2>8. DoneIsOwned' /\ NoBlankSegments'
    BY <2>1, <2>2 DEF SwarmInv, DoneIsOwned, NoBlankSegments
  <2> QED BY <2>3, <2>5, <2>6, <2>7, <2>8 DEF SwarmInv
<1> QED BY <1>1, <1>2

(* What the arrival of a segment changes in have: nothing, or one segment  *)
(* of a task that another client owns and this one does not.               *)
LEMMA SegmentArrives ==
  ASSUME SwarmTypeOK, SwarmInv, NEW c \in Clients, NEW m \in BagToSet(peer),
         HandleClientSegmentReply(c, m), ~Stop(c)
  PROVE  \/ have' = have
         \/ /\ m.file \in Tasks(c) \ owned[c] /\ m.file \in Files
            /\ m.seg \in Segments(m.file)
            /\ m.from \in Clients \ {c} /\ m.file \in owned[m.from]
            /\ nseg[c][m.file] # 0
            /\ have' = [have EXCEPT ![c][m.file] = @ \cup {m.seg}]
<1>1. m \in PeerMessages /\ PeerOK(m) /\ m.to = c /\ m.type = "SEG_REP"
  BY DEF SwarmTypeOK, NetworkTypeOK, SwarmInv, PeerInv, HandleClientSegmentReply
<1>2. /\ m.file \in Files /\ m.from \in Clients \ {c} /\ m.file \in owned[m.from]
      /\ m.seg \in Segments(m.file) /\ nseg[c][m.file] # 0
  BY <1>1, ProtocolFacts DEF PeerOK, PeerMessages, SwarmInv, HoldingsInv
<1>3. CASE m.file \notin Tasks(c)
  BY <1>3 DEF HandleClientSegmentReply
<1>4. CASE m.file \in Tasks(c)
  <2>1. have' = [have EXCEPT ![c][m.file] = @ \cup {m.seg}]
    BY <1>4 DEF HandleClientSegmentReply
  <2>2. CASE m.file \in owned[c]
    <3>1. have[c][m.file] \cup {m.seg} = have[c][m.file]
      BY <1>2, <1>4, <2>2 DEF SwarmInv, OwnedIsComplete
    <3>2. have' = have
      BY <1>2, <2>1, <3>1 DEF SwarmTypeOK, ClientTypeOK
    <3> QED BY <3>2
  <2> QED BY <1>2, <1>4, <2>1, <2>2
<1> QED BY <1>3, <1>4

LEMMA SegmentReplyInv ==
  ASSUME SwarmTypeOK, SwarmInv, NEW c \in Clients, NEW m \in BagToSet(peer), HandleClientSegmentReply(c, m)
  PROVE  SwarmInv'
<1>0. peer' = Without(peer, m) /\ BagToSet(peer') \subseteq BagToSet(peer)
  BY WithoutTakesOne DEF HandleClientSegmentReply, SwarmTypeOK, NetworkTypeOK
<1>1. CASE Stop(c)
  BY <1>0, <1>1, StopInv
<1>2. CASE ~Stop(c)
  <2>1. /\ UNCHANGED <<nseg, segmentToClient, done, owned, servable>>
        /\ addrs' = [addrs EXCEPT ![c] = @ \cup {m.from}]
    BY <1>2 DEF HandleClientSegmentReply, SenderKnown
  <2>2. m \in PeerMessages /\ PeerOK(m) /\ m.to = c /\ m.type = "SEG_REP"
    BY DEF SwarmTypeOK, NetworkTypeOK, SwarmInv, PeerInv, HandleClientSegmentReply
  <2>3. SourcesCanServe'
    BY <2>1, SourcesStay DEF SwarmInv, SwarmTypeOK, ClientTypeOK
  <2>4. PeerInv' /\ DoneIsOwned'
    BY <1>0, <2>1 DEF SwarmInv, PeerInv, PeerOK, DoneIsOwned
  <2>5. HoldingsInv' /\ OwnedIsComplete'
    <3>1. CASE have' = have
      BY <2>1, <3>1 DEF SwarmInv, HoldingsInv, OwnedIsComplete
    <3>2. CASE /\ m.file \in Tasks(c) \ owned[c] /\ m.file \in Files
               /\ m.seg \in Segments(m.file)
               /\ nseg[c][m.file] # 0
               /\ have' = [have EXCEPT ![c][m.file] = @ \cup {m.seg}]
      BY <2>1, <3>2 DEF SwarmInv, HoldingsInv, OwnedIsComplete, SwarmTypeOK, ClientTypeOK
    <3> QED BY <1>2, <3>1, <3>2, SegmentArrives
  <2>6. NoBlankSegments'
    <3>1. CASE m.file \in Tasks(c)
      <4>1. blank' = [blank EXCEPT ![c][m.file] =
              IF m.full THEN @ \ {m.seg}
              ELSE IF m.seg \in have[c][m.file] THEN @ ELSE @ \cup {m.seg}]
        BY <1>2, <3>1 DEF HandleClientSegmentReply
      <4>2. m.full \/ m.seg = NumSegments[m.file] - 1
        <5>1. m.file \in Files
          BY <2>2 DEF PeerMessages
        <5> QED
          BY <2>2, <5>1, ProtocolFacts DEF PeerOK, Segments
      <4> QED BY <4>1, <4>2 DEF SwarmInv, NoBlankSegments, SwarmTypeOK, ClientTypeOK
    <3>2. CASE m.file \notin Tasks(c)
      BY <1>2, <3>2 DEF HandleClientSegmentReply, SwarmInv, NoBlankSegments
    <3> QED BY <3>1, <3>2
  <2> QED BY <2>3, <2>4, <2>5, <2>6 DEF SwarmInv
<1> QED BY <1>1, <1>2
-----------------------------------------------------------------------------
LEMMA SwarmInitInv == Init => SwarmInv
<1> SUFFICES ASSUME Init PROVE SwarmInv
  OBVIOUS
<1>1. PeerInv
  BY EmptyIsBag DEF Init, NetworkInit, PeerInv
<1>2. SourcesCanServe
  BY DEF Init, ClientInit, SourcesCanServe
<1>3. HoldingsInv
  BY ProtocolFacts DEF Init, ClientInit, HoldingsInv
<1>4. OwnedIsComplete
  BY ProtocolFacts DEF Init, ClientInit, OwnedIsComplete, OwnedTasks
<1>5. DoneIsOwned
  BY DEF Init, ClientInit, DoneIsOwned, OwnedTasks
<1>6. NoBlankSegments
  BY DEF Init, ClientInit, NoBlankSegments
<1> QED BY <1>1, <1>2, <1>3, <1>4, <1>5, <1>6 DEF SwarmInv

LEMMA ClientNextInv ==
  ASSUME SwarmTypeOK, SwarmInv, NEW c \in Clients, ClientNext(c)
  PROVE  SwarmInv'
<1>1. CASE \E f \in Files : EnableDownload(c, f)
  <2>1. UNCHANGED <<nseg, have, blank, done, owned, servable, segmentToClient, addrs, peer>>
    BY <1>1 DEF EnableDownload, fileVars, network
  <2>2. SourcesCanServe'
    BY <2>1, SourcesStay DEF SwarmInv
  <2> QED BY <2>1, <2>2, QuietStep
<1>2. CASE SendInterestToTracker(c)
  BY <1>2, SendInterestInv
<1>3. CASE SendClientInfoRequests(c)
  BY <1>3, InfoRequestsInv
<1>4. CASE SendClientSegmentRequests(c)
  BY <1>4, SendSegmentRequestsInv
<1>5. CASE ClientTakesDatagram(c)
  BY <1>5, GroupUpdateClientInv, InfoRequestInv, InfoReplyInv, SegmentRequestInv,
     SegmentReplyInv DEF ClientTakesDatagram
<1> QED BY <1>1, <1>2, <1>3, <1>4, <1>5 DEF ClientNext

LEMMA SwarmNextInv == SwarmTypeOK /\ SwarmInv /\ [Next]_vars => SwarmInv'
<1> SUFFICES ASSUME SwarmTypeOK, SwarmInv, [Next]_vars
             PROVE  SwarmInv'
  OBVIOUS
<1>1. ASSUME UNCHANGED clientVars, BagToSet(peer') \subseteq BagToSet(peer)
      PROVE  SwarmInv'
  <2>1. UNCHANGED <<nseg, have, blank, done, owned, servable, segmentToClient, addrs>>
    BY <1>1 DEF clientVars, fileVars
  <2>2. SourcesCanServe'
    BY <2>1, SourcesStay DEF SwarmInv
  <2> QED BY <1>1, <2>1, <2>2, QuietStep
<1>2. CASE TrackerServes /\ UNCHANGED clientVars
  BY <1>1, <1>2 DEF TrackerServes
<1>3. CASE CheckIfShouldTerminate /\ UNCHANGED clientVars
  BY <1>1, <1>3 DEF CheckIfShouldTerminate, network
<1>4. CASE \E c \in Clients : ClientNext(c) /\ UNCHANGED trackerVars
  BY <1>4, ClientNextInv
<1>5. CASE PortClosed
  <2>1. BagToSet(peer') \subseteq BagToSet(peer)
    BY <1>5, WithoutTakesOne DEF PortClosed, SwarmTypeOK, NetworkTypeOK
  <2> QED
    BY <1>1, <1>5, <2>1 DEF PortClosed
<1>6. CASE UNCHANGED vars
  BY <1>1, <1>6 DEF vars, network
<1> QED BY <1>2, <1>3, <1>4, <1>5, <1>6 DEF Next, AllStopped

LEMMA SwarmInvariant == Spec => [](SwarmTypeOK /\ SwarmInv)
BY SwarmTypeCorrect, SwarmInitInv, SwarmNextInv, PTL DEF Spec

(* A client only takes for a source of a segment whoever has the whole     *)
(* file, can be found to have it, and can be reached: segmentToClient      *)
(* needs no reset.                                                         *)
THEOREM OnlyServersAsked == Spec => []SourcesCanServe
<1>1. SwarmInv => SourcesCanServe
  BY DEF SwarmInv
<1> QED BY <1>1, SwarmInvariant, PTL

(* A CLNT_SEG_REP never meets a download without size, or one that the     *)
(* segment lies outside of.                                                *)
THEOREM RoomForSegments == Spec => []NoSegmentBeforeSize
<1>1. SwarmTypeOK /\ SwarmInv => NoSegmentBeforeSize
  <2> SUFFICES ASSUME SwarmTypeOK, SwarmInv, NEW m \in BagToSet(peer), m.type = "SEG_REP"
               PROVE  nseg[m.to][m.file] = NumSegments[m.file] /\ m.seg < nseg[m.to][m.file]
    BY DEF NoSegmentBeforeSize
  <2>1. m.file \in Files
    BY DEF SwarmTypeOK, NetworkTypeOK, PeerMessages
  <2>2. nseg[m.to][m.file] = NumSegments[m.file] /\ m.seg \in Segments(m.file)
    BY DEF SwarmInv, PeerInv, PeerOK
  <2> QED BY <2>1, <2>2, ProtocolFacts DEF Segments
<1> QED BY <1>1, SwarmInvariant, PTL

(* Every file in s_ownedFiles is all there. *)
THEOREM OwnedFilesComplete == Spec => []OwnedIsComplete
<1>1. SwarmInv => OwnedIsComplete
  BY DEF SwarmInv
<1> QED BY <1>1, SwarmInvariant, PTL

(* A task is done exactly when its file is among s_ownedFiles.             *)
THEOREM TasksDone == Spec => []DoneIsOwned
<1>1. SwarmInv => DoneIsOwned
  BY DEF SwarmInv
<1> QED BY <1>1, SwarmInvariant, PTL

(* No segment before a file's last is marked as held without its data.     *)
THEOREM SegmentsCarryData == Spec => []NoBlankSegments
<1>1. SwarmInv => NoBlankSegments
  BY DEF SwarmInv
<1> QED BY <1>1, SwarmInvariant, PTL
-----------------------------------------------------------------------------
(* The swarm implements FileSharing *)

AbstractStep == Abstract!Next \/ UNCHANGED Abstract!vars

LEMMA SameHoldings ==
  ASSUME UNCHANGED <<have, owned, status>>
  PROVE  AbstractStep
BY DEF AbstractStep, Abstract!vars, Running

LEMMA StopIsLeave ==
  ASSUME ClientTypeOK, NEW c \in Clients, Running(c), Stop(c)
  PROVE  AbstractStep
<1>1. status' = [status EXCEPT ![c] = "stopped"] /\ UNCHANGED <<have, owned>>
  BY DEF Stop
<1>2. {d \in Clients : ~Running(d)}' = {d \in Clients : ~Running(d)} \cup {c}
  BY <1>1 DEF Running, ClientTypeOK
<1>3. Abstract!Leave(c)
  BY <1>1, <1>2 DEF Abstract!Leave
<1> QED BY <1>3 DEF AbstractStep, Abstract!Next

LEMMA RoundIsFinish ==
  ASSUME SwarmTypeOK, SwarmInv, NEW c \in Clients, SendClientSegmentRequests(c)
  PROVE  AbstractStep
<1>1. CASE Stop(c)
  BY <1>1, StopIsLeave DEF SendClientSegmentRequests, SwarmTypeOK
<1>2. CASE ~Stop(c)
  <2>1. /\ Running(c)
        /\ owned' = [owned EXCEPT ![c] = @ \cup Complete(c)]
        /\ UNCHANGED <<have, status>>
    BY <1>2 DEF SendClientSegmentRequests, JoinOwned
  <2>2. Complete(c) \subseteq Files \ owned[c]
    BY ProtocolFacts DEF Complete, Fetching
  <2>3. \A f \in Complete(c) : have[c][f] = 0 .. NumSegments[f] - 1
    BY CompleteHolds DEF Segments
  <2>4. {d \in Clients : ~Running(d)}' = {d \in Clients : ~Running(d)}
    BY <2>1 DEF Running
  <2>5. Abstract!Finish(c)
    BY <2>1, <2>2, <2>3, <2>4 DEF Abstract!Finish
  <2> QED BY <2>5 DEF AbstractStep, Abstract!Next
<1> QED BY <1>1, <1>2

LEMMA ArrivalIsAcquire ==
  ASSUME SwarmTypeOK, SwarmInv, NEW c \in Clients, NEW m \in BagToSet(peer), HandleClientSegmentReply(c, m)
  PROVE  AbstractStep
<1>1. CASE Stop(c)
  BY <1>1, StopIsLeave DEF HandleClientSegmentReply, SwarmTypeOK
<1>2. CASE ~Stop(c)
  <2>1. Running(c) /\ UNCHANGED <<owned, status>>
    BY <1>2 DEF HandleClientSegmentReply
  <2>2. CASE have' = have
    BY <2>1, <2>2, SameHoldings
  <2>3. CASE have' # have
    <3>1. /\ m.file \in Tasks(c) \ owned[c] /\ m.file \in Files
          /\ m.seg \in Segments(m.file)
          /\ m.from \in Clients \ {c} /\ m.file \in owned[m.from]
          /\ have' = [have EXCEPT ![c][m.file] = @ \cup {m.seg}]
      BY <1>2, <2>3, SegmentArrives
    <3>2. {d \in Clients : ~Running(d)}' = {d \in Clients : ~Running(d)}
      BY <2>1 DEF Running
    <3>3. Abstract!Acquire(c, m.file, m.seg)
      BY <2>1, <3>1, <3>2 DEF Abstract!Acquire, Segments
    <3> QED BY <3>1, <3>3 DEF AbstractStep, Abstract!Next, Segments
  <2> QED BY <2>2, <2>3
<1> QED BY <1>1, <1>2

LEMMA ClientStepIsAbstract ==
  ASSUME SwarmTypeOK, SwarmInv, NEW c \in Clients, ClientNext(c)
  PROVE  AbstractStep
<1> USE DEF SwarmTypeOK
<1>1. CASE \E f \in Files : EnableDownload(c, f)
  BY <1>1, SameHoldings DEF EnableDownload, fileVars
<1>2. CASE SendInterestToTracker(c)
  BY <1>2, StopIsLeave, SameHoldings DEF SendInterestToTracker
<1>3. CASE SendClientInfoRequests(c)
  BY <1>3, StopIsLeave, SameHoldings DEF SendClientInfoRequests, clientVars, fileVars
<1>4. CASE SendClientSegmentRequests(c)
  BY <1>4, RoundIsFinish
<1>5. CASE \E m \in BagToSet(assign) : HandleTrackerGroupUpdate(c, m)
  <2>1. PICK m \in BagToSet(assign) : HandleTrackerGroupUpdate(c, m)
    BY <1>5
  <2>2. CASE Stop(c)
    BY <2>1, <2>2, StopIsLeave DEF HandleTrackerGroupUpdate
  <2>3. CASE ~Stop(c)
    <3>1. have' = have
      BY <2>1, <2>3, LearnsNothingHeld
    <3>2. UNCHANGED <<owned, status>>
      BY <2>1, <2>3 DEF HandleTrackerGroupUpdate
    <3> QED BY <3>1, <3>2, SameHoldings
  <2> QED BY <2>2, <2>3
<1>6. CASE \E m \in BagToSet(peer) : HandleClientInfoRequest(c, m) \/ HandleClientInfoReply(c, m)
  BY <1>6, SameHoldings DEF HandleClientInfoRequest, HandleClientInfoReply, fileVars
<1>7. CASE \E m \in BagToSet(peer) : HandleClientSegmentRequest(c, m)
  BY <1>7, StopIsLeave, SameHoldings DEF HandleClientSegmentRequest, fileVars
<1>8. CASE \E m \in BagToSet(peer) : HandleClientSegmentReply(c, m)
  BY <1>8, ArrivalIsAcquire
<1> QED BY <1>1, <1>2, <1>3, <1>4, <1>5, <1>6, <1>7, <1>8 DEF ClientNext, ClientTakesDatagram

LEMMA StepIsAbstract == SwarmTypeOK /\ SwarmInv /\ [Next]_vars => AbstractStep
<1> SUFFICES ASSUME SwarmTypeOK, SwarmInv, [Next]_vars
             PROVE  AbstractStep
  OBVIOUS
<1>1. ASSUME UNCHANGED clientVars PROVE AbstractStep
  BY <1>1, SameHoldings DEF clientVars, fileVars
<1>2. CASE \E c \in Clients : ClientNext(c) /\ UNCHANGED trackerVars
  BY <1>2, ClientStepIsAbstract
<1> QED BY <1>1, <1>2 DEF Next, PortClosed, AllStopped, vars

LEMMA InitIsAbstract == Init => Abstract!Init
<1> SUFFICES ASSUME Init PROVE Abstract!Init
  OBVIOUS
<1>1. have = [c \in Clients |-> [f \in Files |-> IF f \in OwnedTasks(c) THEN Segments(f) ELSE {}]]
      /\ owned = OwnedAtStart
  BY DEF Init, ClientInit
<1>2. \A f \in Files : Segments(f) \subseteq Nat
  BY DEF Segments
<1>3. have \in [Clients -> [Files -> SUBSET Nat]]
  BY <1>1, <1>2
<1>4. \A c \in Clients : \A f \in Files :
        have[c][f] \in {{}, IF f \in OwnedAtStart[c] THEN 0 .. NumSegments[f] - 1 ELSE {}}
  BY <1>1 DEF OwnedTasks, Segments
<1> QED BY <1>1, <1>3, <1>4 DEF Abstract!Init

(* A swarm behaves as FileSharing says, whatever tracker, network and      *)
(* timers do: a segment is only got from an owner of the whole file, a     *)
(* file is only called owned once all of it is held.                       *)
THEOREM SwarmImplementsFileSharing == Spec => SharesFiles
<1>1. AbstractStep => [Abstract!Next]_(Abstract!vars)
  BY DEF AbstractStep
<1> QED BY <1>1, SwarmInvariant, InitIsAbstract, StepIsAbstract, PTL
     DEF Spec, SharesFiles, Abstract!Spec

(* No step of the swarm takes a segment away, or touches a complete file:  *)
(* no step of FileSharing does.                                            *)
THEOREM SegmentsStay == Spec => SegmentsNeverLost
<1> DEFINE Kept ==
      \A c \in Clients : \A f \in Files :
        /\ have[c][f] \subseteq have'[c][f]
        /\ f \in owned[c] => have'[c][f] = have[c][f]
<1>1. SwarmTypeOK /\ AbstractStep => Kept
  <2> SUFFICES ASSUME ClientTypeOK, AbstractStep PROVE Kept
    BY DEF SwarmTypeOK
  <2> USE DEF ClientTypeOK
  <2>1. CASE UNCHANGED Abstract!vars
    BY <2>1 DEF Abstract!vars
  <2>2. ASSUME NEW c \in Clients, NEW f \in Files, NEW s \in 0 .. NumSegments[f] - 1,
               Abstract!Acquire(c, f, s)
        PROVE  Kept
    BY <2>2 DEF Abstract!Acquire
  <2>3. ASSUME NEW c \in Clients, Abstract!Finish(c) \/ Abstract!Leave(c)
        PROVE  Kept
    BY <2>3 DEF Abstract!Finish, Abstract!Leave
  <2> QED BY <2>1, <2>2, <2>3 DEF AbstractStep, Abstract!Next
<1>2. SwarmTypeOK /\ SwarmInv /\ [Next]_vars => [Kept]_vars
  BY <1>1, StepIsAbstract
<1> QED BY <1>2, SwarmInvariant, PTL DEF Spec, SegmentsNeverLost
-----------------------------------------------------------------------------
(* Replies run out *)

(* All datagrams about segments. *)
SegmentMessages ==
  [type : {"SEG_REQ", "SEG_REP"}, from : Clients, to : Clients, file : Files,
   seg : UNION {Segments(f) : f \in Files}, full : BOOLEAN]

LEMMA SegmentMessagesFinite == IsFiniteSet(SegmentMessages)
<1> DEFINE N == UNION {Segments(f) : f \in Files}
           P4 == N \X BOOLEAN
           P3 == Files \X P4
           P2 == Clients \X P3
           P1 == Clients \X P2
           P == {"SEG_REQ", "SEG_REP"} \X P1
           pack == [m \in SegmentMessages |->
                      <<m.type, <<m.from, <<m.to, <<m.file, <<m.seg, m.full>>>>>>>>>>]
<1>1. IsFiniteSet(N)
  <2> DEFINE segs == [f \in Files |-> Segments(f)]
             SS == {Segments(f) : f \in Files}
  <2>1. IsFiniteSet(Files) /\ \A f \in Files : IsFiniteSet(Segments(f))
    <3>1. \A f \in Files : NumSegments[f] - 1 \in Int
      BY ProtocolFacts
    <3> QED
      BY <3>1, ProtocolAssumption, FS_Interval DEF Segments
  <2>2. segs \in Surjection(Files, SS)
    BY DEF Surjection
  <2>3. IsFiniteSet(SS)
    BY <2>1, <2>2, FS_Surjection
  <2> QED
    BY <2>1, <2>3, FS_UNION
<1> HIDE DEF N
<1>2. /\ IsFiniteSet(Clients) /\ IsFiniteSet(Files) /\ IsFiniteSet(BOOLEAN)
      /\ IsFiniteSet({"SEG_REQ", "SEG_REP"})
  <2>1. ASSUME NEW a, NEW b PROVE IsFiniteSet({a, b})
    <3>1. IsFiniteSet({a})
      BY FS_Singleton
    <3>2. IsFiniteSet({a} \cup {b})
      BY <3>1, FS_AddElement
    <3>3. {a, b} = {a} \cup {b}
      OBVIOUS
    <3> QED
      BY <3>2, <3>3
  <2>2. BOOLEAN = {TRUE, FALSE}
    OBVIOUS
  <2> QED
    BY <2>1, <2>2, ProtocolAssumption
<1>3. IsFiniteSet(P4)
  BY <1>1, <1>2, FS_Product
<1>4. IsFiniteSet(P3)
  <2> HIDE DEF P4
  <2> QED
    BY <1>2, <1>3, FS_Product
<1>5. IsFiniteSet(P2)
  <2> HIDE DEF P3
  <2> QED
    BY <1>2, <1>4, FS_Product
<1>6. IsFiniteSet(P1)
  <2> HIDE DEF P2
  <2> QED
    BY <1>2, <1>5, FS_Product
<1>7. IsFiniteSet(P)
  <2> HIDE DEF P1
  <2> QED
    BY <1>2, <1>6, FS_Product
<1>8. pack \in Injection(SegmentMessages, P)
  <2>1. pack \in [SegmentMessages -> P]
    BY DEF SegmentMessages, N
  <2>2. ASSUME NEW m \in SegmentMessages, NEW r \in SegmentMessages, pack[m] = pack[r]
        PROVE  m = r
    BY <2>2 DEF SegmentMessages
  <2> HIDE DEF P, pack
  <2> QED
    BY <2>1, <2>2 DEF Injection, IsInjective
<1> HIDE DEF P, pack
<1> QED
  BY <1>7, <1>8, FS_Injection

(* The copies of m are numbered from 1.                                    *)
LEMMA CopiesNumbered ==
  ASSUME NEW net, IsABag(net)
  PROVE  /\ \A m : CopiesOf(net, m) \in Nat
         /\ \A m, k : <<m, k>> \in Copies(net) <=> k \in 1 .. CopiesOf(net, m)
         /\ \A x \in Copies(net) : x = <<x[1], x[2]>> /\ x[1] \in BagToSet(net)
<1>1. \A m \in BagToSet(net) : net[m] \in Nat /\ net[m] > 0
  BY DEF IsABag, BagToSet
<1>2. \A m : CopiesOf(net, m) \in Nat
  BY <1>1 DEF CopiesOf
<1>3. ASSUME NEW m, NEW k
      PROVE  <<m, k>> \in Copies(net) <=> k \in 1 .. CopiesOf(net, m)
  <2>1. CASE m \in BagToSet(net)
    BY <2>1 DEF Copies, CopiesOf
  <2>2. CASE m \notin BagToSet(net)
    <3>1. 1 .. CopiesOf(net, m) = {}
      BY <2>2 DEF CopiesOf
    <3>2. <<m, k>> \notin Copies(net)
      BY <2>2 DEF Copies
    <3> QED
      BY <3>1, <3>2
  <2> QED
    BY <2>1, <2>2
<1>4. \A x \in Copies(net) : x = <<x[1], x[2]>> /\ x[1] \in BagToSet(net)
  BY DEF Copies
<1> QED
  BY <1>2, <1>3, <1>4

(* A copy that was not there before is one of what was sent.               *)
LEMMA NewCopiesSent ==
  ASSUME NEW net, IsABag(net), NEW ms, IsABag(ms), NEW room, NEW net2 \in Sent(net, ms, room),
         NEW x \in Copies(net2) \ Copies(net)
  PROVE  x[1] \in BagToSet(ms)
<1>1. /\ IsABag(net2)
      /\ \A m \in BagToSet(net2) : net2[m] <= CopiesOf(net, m) + CopiesOf(ms, m)
  BY SentAddsOnly
<1> DEFINE m == x[1]
           k == x[2]
<1>2. x = <<m, k>> /\ m \in BagToSet(net2)
  BY <1>1, CopiesNumbered
<1>3. k \in 1 .. CopiesOf(net2, m) /\ k \notin 1 .. CopiesOf(net, m)
  <2>1. <<m, k>> \in Copies(net2) /\ <<m, k>> \notin Copies(net)
    BY <1>2
  <2> HIDE DEF m, k
  <2> QED
    BY <1>1, <2>1, CopiesNumbered
<1>4. CopiesOf(net2, m) = net2[m] /\ CopiesOf(net2, m) <= CopiesOf(net, m) + CopiesOf(ms, m)
  BY <1>1, <1>2 DEF CopiesOf
<1>5. CopiesOf(net2, m) \in Nat /\ CopiesOf(net, m) \in Nat /\ CopiesOf(ms, m) \in Nat
  BY <1>1, CopiesNumbered
<1> HIDE DEF m, k
<1>6. CopiesOf(ms, m) # 0
  BY <1>3, <1>4, <1>5
<1>7. m \in BagToSet(ms)
  BY <1>6 DEF CopiesOf
<1> QED
  BY <1>7 DEF m

(* Receiving a datagram takes the copy with the highest number away.       *)
LEMMA CopyTaken ==
  ASSUME NEW net, IsABag(net), NEW m \in BagToSet(net)
  PROVE  /\ <<m, net[m]>> \in Copies(net)
         /\ Copies(Without(net, m)) = Copies(net) \ {<<m, net[m]>>}
<1> DEFINE r == Without(net, m)
           last == <<m, net[m]>>
<1>1. /\ IsABag(r)
      /\ \A x : CopiesOf(r, x) = IF x = m THEN CopiesOf(net, x) - 1 ELSE CopiesOf(net, x)
  BY WithoutTakesOne
<1>2. CopiesOf(net, m) = net[m] /\ net[m] \in Nat /\ net[m] > 0
  BY DEF CopiesOf, IsABag, BagToSet
<1> HIDE DEF r
<1>3. /\ \A x : CopiesOf(net, x) \in Nat /\ CopiesOf(r, x) \in Nat
      /\ \A x, k : <<x, k>> \in Copies(net) <=> k \in 1 .. CopiesOf(net, x)
      /\ \A x, k : <<x, k>> \in Copies(r) <=> k \in 1 .. CopiesOf(r, x)
      /\ \A x \in Copies(net) : x = <<x[1], x[2]>>
      /\ \A x \in Copies(r) : x = <<x[1], x[2]>>
  BY <1>1, CopiesNumbered
<1>4. last \in Copies(net)
  BY <1>2, <1>3
<1>5. ASSUME NEW x, NEW k
      PROVE  <<x, k>> \in Copies(r) <=> <<x, k>> \in Copies(net) /\ <<x, k>> # last
  <2>1. CASE x # m
    BY <1>1, <1>3, <2>1
  <2>2. CASE x = m
    <3>1. k \in 1 .. (net[m] - 1) <=> k \in 1 .. net[m] /\ k # net[m]
      BY <1>2
    <3>2. CopiesOf(r, x) = net[m] - 1 /\ CopiesOf(net, x) = net[m]
      BY <1>1, <1>2, <2>2
    <3>3. <<x, k>> \in Copies(r) <=> k \in 1 .. (net[m] - 1)
      BY <1>3, <3>2
    <3>4. <<x, k>> \in Copies(net) <=> k \in 1 .. net[m]
      BY <1>3, <3>2
    <3>5. <<x, k>> # last <=> k # net[m]
      BY <2>2
    <3> QED
      BY <3>1, <3>3, <3>4, <3>5
  <2> QED
    BY <2>1, <2>2
<1> HIDE DEF last
<1>6. \A x : x \in Copies(r) <=> x \in Copies(net) /\ x # last
  BY <1>3, <1>5
<1>7. Copies(r) = Copies(net) \ {last}
  BY <1>6
<1> QED
  BY <1>4, <1>7 DEF last, r

(* One datagram sent is at most one copy more.                             *)
LEMMA CopyAdded ==
  ASSUME NEW net, IsABag(net), NEW r, NEW room, NEW net2 \in Sent(net, SetToBag({r}), room)
  PROVE  Copies(net2) \subseteq Copies(net) \cup {<<r, CopiesOf(net, r) + 1>>}
<1>1. /\ IsABag(SetToBag({r})) /\ BagToSet(SetToBag({r})) = {r}
      /\ CopiesOf(SetToBag({r}), r) = 1
  BY SetIsBag DEF CopiesOf
<1>2. /\ IsABag(net2)
      /\ \A m \in BagToSet(net2) : net2[m] <= CopiesOf(net, m) + CopiesOf(SetToBag({r}), m)
  BY <1>1, SentAddsOnly
<1> SUFFICES ASSUME NEW x \in Copies(net2) \ Copies(net)
             PROVE  x = <<r, CopiesOf(net, r) + 1>>
  OBVIOUS
<1>3. x[1] = r
  BY <1>1, NewCopiesSent
<1> DEFINE k == x[2]
<1>4. x = <<r, k>> /\ r \in BagToSet(net2)
  BY <1>2, <1>3, CopiesNumbered
<1>5. <<r, k>> \in Copies(net2) /\ <<r, k>> \notin Copies(net)
  BY <1>4
<1> HIDE DEF k
<1>6. k \in 1 .. CopiesOf(net2, r) /\ k \notin 1 .. CopiesOf(net, r)
  BY <1>2, <1>5, CopiesNumbered
<1>7. CopiesOf(net2, r) <= CopiesOf(net, r) + 1
  BY <1>1, <1>2, <1>4 DEF CopiesOf
<1>8. CopiesOf(net2, r) \in Nat /\ CopiesOf(net, r) \in Nat
  BY <1>2, CopiesNumbered
<1>9. k = CopiesOf(net, r) + 1
  BY <1>6, <1>7, <1>8
<1> QED
  BY <1>4, <1>9

LEMMA SpentIsFinite ==
  ASSUME SwarmTypeOK, SwarmInv, NEW c \in Clients
  PROVE  IsFiniteSet(Spent(c)) /\ Cardinality(Spent(c)) \in Nat
<1> DEFINE D == BagToSet(peer) \cap SegmentMessages
           copies == [m \in D |-> {m} \X (1 .. peer[m])]
           SS == {copies[m] : m \in D}
<1>1. Spent(c) \subseteq UNION SS
  <2> SUFFICES ASSUME NEW x \in Spent(c) PROVE x[1] \in D /\ x \in copies[x[1]]
    OBVIOUS
  <2> DEFINE m == x[1]
  <2>1. m \in PeerMessages /\ m \in BagToSet(peer) /\ m.type \in {"SEG_REQ", "SEG_REP"}
        /\ x \in {m} \X (1 .. peer[m])
    BY DEF Spent, Copies, SwarmTypeOK, NetworkTypeOK
  <2>2. m.seg \in Segments(m.file) /\ m.file \in Files
    BY <2>1 DEF SwarmInv, PeerInv, PeerOK, PeerMessages
  <2>3. m \in D
    BY <2>1, <2>2 DEF PeerMessages, SegmentMessages
  <2> QED
    BY <2>1, <2>3
<1>2. IsFiniteSet(D)
  BY SegmentMessagesFinite, FS_Subset
<1>3. copies \in Surjection(D, SS)
  BY DEF Surjection
<1>4. IsFiniteSet(SS)
  <2> HIDE DEF copies, D
  <2> QED
    BY <1>2, <1>3, FS_Surjection
<1>5. \A m \in D : IsFiniteSet({m} \X (1 .. peer[m]))
  <2> SUFFICES ASSUME NEW m \in D PROVE IsFiniteSet({m} \X (1 .. peer[m]))
    OBVIOUS
  <2>1. peer[m] \in Nat
    BY DEF SwarmTypeOK, NetworkTypeOK, IsABag, BagToSet
  <2>2. IsFiniteSet(1 .. peer[m])
    BY <2>1, FS_Interval
  <2>3. IsFiniteSet({m})
    BY FS_Singleton
  <2> QED
    BY <2>2, <2>3, FS_Product
<1>6. \A T \in SS : IsFiniteSet(T)
  BY <1>5
<1>7. IsFiniteSet(UNION SS)
  <2> HIDE DEF SS
  <2> QED
    BY <1>4, <1>6, FS_UNION
<1> QED
  BY <1>1, <1>7, FS_Subset, FS_CardinalityType

(* What RepliesRunOut says of one client and one step. *)
RunsOut(c) ==
  have'[c] = have[c] =>
    /\ Cardinality(Spent(c)') <= Cardinality(Spent(c))
    /\ Running(c)' /\ progress'[c] < progress[c] => Cardinality(Spent(c)') < Cardinality(Spent(c))

LEMMA FewerSpent ==
  ASSUME SwarmTypeOK, SwarmInv, NEW c \in Clients, Spent(c)' \subseteq Spent(c)
  PROVE  /\ Cardinality(Spent(c)') <= Cardinality(Spent(c))
         /\ Spent(c)' # Spent(c) => Cardinality(Spent(c)') < Cardinality(Spent(c))
<1> DEFINE S == Spent(c)
           T == Spent(c)'
<1>1. IsFiniteSet(S) /\ Cardinality(S) \in Nat /\ T \subseteq S
  BY SpentIsFinite
<1> HIDE DEF S, T
<1>2. /\ IsFiniteSet(T) /\ Cardinality(T) <= Cardinality(S)
      /\ Cardinality(S) = Cardinality(T) => S = T
  BY <1>1, FS_Subset
<1>3. Cardinality(T) \in Nat
  BY <1>2, FS_CardinalityType
<1> QED
  BY <1>1, <1>2, <1>3 DEF S, T

(* A step that sends nothing about a held segment. *)
LEMMA NothingSpent ==
  ASSUME SwarmTypeOK, SwarmInv, NEW c \in Clients,
         \A x \in Copies(peer') \ Copies(peer) :
           \/ x[1].type \in {"INFO_REQ", "INFO_REP"}
           \/ x[1].type = "SEG_REQ" /\ x[1].seg \notin have[x[1].from][x[1].file],
         Running(c)' => ~(progress'[c] < progress[c])
  PROVE  RunsOut(c)
<1> SUFFICES ASSUME have'[c] = have[c] PROVE Cardinality(Spent(c)') <= Cardinality(Spent(c))
  BY DEF RunsOut
<1>1. Spent(c)' \subseteq Spent(c)
  BY DEF Spent
<1> QED
  BY <1>1, FewerSpent

LEMMA SegmentRequestRunsOut ==
  ASSUME SwarmTypeOK, SwarmInv, NEW e \in Clients, NEW m \in BagToSet(peer),
         HandleClientSegmentRequest(e, m), NEW c \in Clients
  PROVE  RunsOut(c)
<1> DEFINE r == SegmentReply(e, m)
           old == <<m, peer[m]>>
           new == <<r, CopiesOf(Without(peer, m), r) + 1>>
<1>1. /\ m.type = "SEG_REQ" /\ have' = have
      /\ old \in Copies(peer) /\ Copies(peer') \subseteq (Copies(peer) \ {old}) \cup {new}
      /\ Running(c)' => progress'[c] = progress[c]
  <2>1. m.type = "SEG_REQ" /\ have' = have
    BY DEF HandleClientSegmentRequest, Stop, fileVars
  <2>2. old \in Copies(peer) /\ Copies(Without(peer, m)) = Copies(peer) \ {old}
    BY CopyTaken DEF SwarmTypeOK, NetworkTypeOK
  <2>3. Copies(peer') \subseteq Copies(Without(peer, m)) \cup {new}
    <3>1. IsABag(Without(peer, m))
      BY WithoutTakesOne DEF SwarmTypeOK, NetworkTypeOK
    <3>2. CASE peer' = Without(peer, m)
      BY <3>2
    <3>3. CASE peer' \in Sent(Without(peer, m), SetToBag({r}), MaxBetween)
      <4> HIDE DEF r
      <4> QED
        BY <3>1, <3>3, CopyAdded
    <3> QED
      BY <3>2, <3>3 DEF HandleClientSegmentRequest
  <2>4. Running(c)' => progress'[c] = progress[c]
    BY DEF HandleClientSegmentRequest, Stop, RequestCounted, Running, SwarmTypeOK, ClientTypeOK
  <2> QED
    BY <2>1, <2>2, <2>3, <2>4
<1>2. r.type = "SEG_REP" /\ r.to = m.from /\ r.file = m.file /\ r.seg = m.seg
  BY DEF SegmentReply, PeerMessage
<1>3. old[1] = m /\ new[1] = r
  OBVIOUS
<1> HIDE DEF r, old, new
<1>4. progress[c] \in Nat
  BY DEF SwarmTypeOK, ClientTypeOK
<1>5. SUFFICES Cardinality(Spent(c)') <= Cardinality(Spent(c))
  BY <1>1, <1>4 DEF RunsOut
<1>6. CASE old \in Spent(c)
  <2> DEFINE S == Spent(c)
             T == Spent(c)'
  <2>1. T \subseteq (S \ {old}) \cup {new}
    BY <1>1 DEF Spent
  <2>2. IsFiniteSet(S) /\ Cardinality(S) \in Nat
    BY SpentIsFinite
  <2>3. old \in S
    BY <1>6
  <2> HIDE DEF S, T
  <2>4. IsFiniteSet(S \ {old}) /\ Cardinality(S \ {old}) = Cardinality(S) - 1
    BY <2>2, <2>3, FS_RemoveElement
  <2> DEFINE R == S \ {old}
             U == R \cup {new}
  <2> HIDE DEF R
  <2>5. IsFiniteSet(U) /\ Cardinality(U) <= Cardinality(S)
    <3>1. IsFiniteSet(R) /\ Cardinality(R) = Cardinality(S) - 1
      BY <2>4 DEF R
    <3>2. /\ IsFiniteSet(U)
          /\ Cardinality(U) = IF new \in R THEN Cardinality(R) ELSE Cardinality(R) + 1
      BY <3>1, FS_AddElement
    <3> QED
      BY <2>2, <3>1, <3>2
  <2> HIDE DEF U
  <2>6. IsFiniteSet(T) /\ Cardinality(T) <= Cardinality(U)
    BY <2>1, <2>5, FS_Subset DEF U, R
  <2>7. Cardinality(T) \in Nat /\ Cardinality(U) \in Nat
    BY <2>5, <2>6, FS_CardinalityType
  <2> QED
    BY <2>2, <2>5, <2>6, <2>7 DEF S, T
<1>7. CASE old \notin Spent(c)
  <2>1. m.from = c => m.seg \notin have[c][m.file]
    BY <1>1, <1>3, <1>7 DEF Spent
  <2>2. Spent(c)' \subseteq Spent(c)
    BY <1>1, <1>2, <1>3, <2>1 DEF Spent
  <2> QED
    BY <2>2, FewerSpent
<1> QED
  BY <1>6, <1>7

LEMMA SegmentReplyRunsOut ==
  ASSUME SwarmTypeOK, SwarmInv, NEW e \in Clients, NEW m \in BagToSet(peer),
         HandleClientSegmentReply(e, m), NEW c \in Clients
  PROVE  RunsOut(c)
<1> DEFINE old == <<m, peer[m]>>
<1>1. /\ m \in PeerMessages /\ PeerOK(m) /\ m.to = e /\ m.type = "SEG_REP"
      /\ m.file \in Tasks(e) /\ m.file \in Files
  BY DEF SwarmTypeOK, NetworkTypeOK, SwarmInv, PeerInv, PeerOK, PeerMessages, HandleClientSegmentReply
<1>2. old \in Copies(peer) /\ Copies(peer') = Copies(peer) \ {old}
  BY CopyTaken DEF HandleClientSegmentReply, SwarmTypeOK, NetworkTypeOK
<1>3. old[1] = m
  OBVIOUS
<1> HIDE DEF old
<1> SUFFICES ASSUME have'[c] = have[c]
             PROVE  /\ Cardinality(Spent(c)') <= Cardinality(Spent(c))
                    /\ Running(c)' /\ progress'[c] < progress[c] =>
                         Cardinality(Spent(c)') < Cardinality(Spent(c))
  BY DEF RunsOut
<1>4. Spent(c)' \subseteq Spent(c) /\ old \notin Spent(c)'
  BY <1>2 DEF Spent
<1>5. ASSUME Running(c)', progress'[c] < progress[c]
      PROVE  old \in Spent(c)
  <2>1. progress[c] \in Nat
    BY DEF SwarmTypeOK, ClientTypeOK
  <2>2. /\ e = c
        /\ have' = [have EXCEPT ![e][m.file] = @ \cup {m.seg}]
    BY <1>1, <1>5, <2>1 DEF HandleClientSegmentReply, Stop, Running, SwarmTypeOK, ClientTypeOK
  <2>3. have'[c][m.file] = have[c][m.file] \cup {m.seg}
    BY <1>1, <2>2 DEF SwarmTypeOK, ClientTypeOK
  <2> QED
    BY <1>1, <1>2, <1>3, <2>2, <2>3 DEF Spent
<1> QED
  BY <1>4, <1>5, FewerSpent

LEMMA ClientStepRunsOut ==
  ASSUME SwarmTypeOK, SwarmInv, NEW e \in Clients, ClientNext(e), NEW c \in Clients
  PROVE  RunsOut(c)
<1>0. progress[c] \in Nat
  BY DEF SwarmTypeOK, ClientTypeOK
<1>1. CASE \E f \in Files : EnableDownload(e, f)
  BY <1>0, <1>1, NothingSpent DEF EnableDownload, network
<1>2. CASE SendInterestToTracker(e)
  <2>1. peer' = peer
    BY <1>2 DEF SendInterestToTracker
  <2>2. Running(c)' => ~(progress'[c] < progress[c])
    <3>1. CASE Stop(e)
      BY <1>0, <3>1 DEF Stop, Running, SwarmTypeOK, ClientTypeOK
    <3>2. CASE progress' = [progress EXCEPT ![e] = @ + 1]
      <4>1. progress'[c] = progress[c] \/ progress'[c] = progress[c] + 1
        BY <3>2 DEF SwarmTypeOK, ClientTypeOK
      <4> QED
        BY <1>0, <4>1
    <3> QED
      BY <1>2, <3>1, <3>2 DEF SendInterestToTracker
  <2> QED
    BY <2>1, <2>2, NothingSpent
<1>3. CASE SendClientInfoRequests(e)
  <2>1. Running(c)' => progress'[c] = progress[c]
    BY <1>3 DEF SendClientInfoRequests, clientVars, Stop, Running, SwarmTypeOK, ClientTypeOK
  <2>2. \A x \in Copies(peer') \ Copies(peer) : x[1].type = "INFO_REQ"
    <3>1. IsABag(SetToBag(InfoRequests(e))) /\ BagToSet(SetToBag(InfoRequests(e))) = InfoRequests(e)
      BY SetIsBag
    <3>2. peer' = peer \/ peer' \in Sent(peer, SetToBag(InfoRequests(e)), MaxBetween)
      BY <1>3 DEF SendClientInfoRequests, network
    <3>3. IsABag(peer)
      BY DEF SwarmTypeOK, NetworkTypeOK
    <3>4. \A x \in Copies(peer') \ Copies(peer) : x[1] \in InfoRequests(e)
      BY <3>1, <3>2, <3>3, NewCopiesSent
    <3> QED
      BY <3>4, InfoRequestsTypeOK
  <2> QED
    BY <1>0, <2>1, <2>2, NothingSpent
<1>4. CASE SendClientSegmentRequests(e)
  <2>1. Running(c)' => progress'[c] = progress[c]
    BY <1>4 DEF SendClientSegmentRequests, Stop, Running, SwarmTypeOK, ClientTypeOK
  <2>2. \A m \in PossibleRequests(e) : m.type = "SEG_REQ" /\ m.seg \notin have[m.from][m.file]
    BY SegmentRequestFacts DEF PossibleRequests, Missing
  <2>3. \A x \in Copies(peer') \ Copies(peer) : x[1] \in PossibleRequests(e)
    <3>1. peer' = peer \/ \E ms \in SegmentRequests(e) : peer' \in Sent(peer, ms, MaxBetween)
      BY <1>4 DEF SendClientSegmentRequests, network
    <3>2. IsABag(peer)
      BY DEF SwarmTypeOK, NetworkTypeOK
    <3> QED
      BY <3>1, <3>2, SegmentRequestsAreBags, NewCopiesSent
  <2> QED
    BY <1>0, <2>1, <2>2, <2>3, NothingSpent
<1>5. CASE \E m \in BagToSet(assign) : HandleTrackerGroupUpdate(e, m)
  <2>1. peer' = peer /\ (Running(c)' => progress'[c] = progress[c])
    BY <1>5 DEF HandleTrackerGroupUpdate, Stop, Running, SwarmTypeOK, ClientTypeOK
  <2> QED
    BY <1>0, <2>1, NothingSpent
<1>6. CASE \E m \in BagToSet(peer) : HandleClientInfoRequest(e, m)
  <2>1. PICK m \in BagToSet(peer) : HandleClientInfoRequest(e, m)
    BY <1>6
  <2>2. \A x \in Copies(peer') \ Copies(peer) : x[1].type = "INFO_REP"
    <3>1. m \in PeerMessages /\ IsABag(peer)
      BY DEF SwarmTypeOK, NetworkTypeOK
    <3>2. IsABag(Without(peer, m))
      BY <3>1, WithoutTakesOne
    <3>3. Copies(Without(peer, m)) \subseteq Copies(peer)
      BY <3>1, CopyTaken
    <3>4. IsABag(SetToBag(InfoReplies(e, m))) /\ BagToSet(SetToBag(InfoReplies(e, m))) = InfoReplies(e, m)
      BY SetIsBag
    <3>5. peer' \in Sent(Without(peer, m), SetToBag(InfoReplies(e, m)), MaxBetween)
      BY <2>1 DEF HandleClientInfoRequest
    <3>6. \A x \in Copies(peer') \ Copies(peer) : x[1] \in InfoReplies(e, m)
      BY <3>2, <3>3, <3>4, <3>5, NewCopiesSent
    <3> QED
      BY <2>1, <3>1, <3>6, InfoRequestReplies
  <2>3. progress' = progress
    BY <2>1 DEF HandleClientInfoRequest, RequestCounted
  <2> QED
    BY <1>0, <2>2, <2>3, NothingSpent
<1>7. CASE \E m \in BagToSet(peer) : HandleClientInfoReply(e, m)
  <2>1. PICK m \in BagToSet(peer) : peer' = Without(peer, m) /\ progress' = progress
    BY <1>7 DEF HandleClientInfoReply
  <2>2. Copies(peer') \subseteq Copies(peer)
    BY <2>1, CopyTaken DEF SwarmTypeOK, NetworkTypeOK
  <2> QED
    BY <1>0, <2>1, <2>2, NothingSpent
<1>8. CASE \E m \in BagToSet(peer) : HandleClientSegmentRequest(e, m)
  BY <1>8, SegmentRequestRunsOut
<1>9. CASE \E m \in BagToSet(peer) : HandleClientSegmentReply(e, m)
  BY <1>9, SegmentReplyRunsOut
<1> QED BY <1>1, <1>2, <1>3, <1>4, <1>5, <1>6, <1>7, <1>8, <1>9 DEF ClientNext, ClientTakesDatagram

(* Late and repeated replies keep nobody for ever: each time one of them   *)
(* sets the count of rounds back, the supply that could do so shrinks, and *)
(* only a new segment adds to it.                                          *)
THEOREM RepliesEnd == Spec => RepliesRunOut
<1> DEFINE RunOut == \A c \in Clients : RunsOut(c)
<1>1. SwarmTypeOK /\ SwarmInv /\ [Next]_vars => [RunOut]_vars
  <2> SUFFICES ASSUME SwarmTypeOK, SwarmInv, Next, NEW c \in Clients
               PROVE  RunsOut(c)
    OBVIOUS
  <2>1. ASSUME Copies(peer') \subseteq Copies(peer), UNCHANGED clientVars PROVE RunsOut(c)
    <3>1. progress[c] \in Nat /\ progress' = progress
      BY <2>1 DEF SwarmTypeOK, ClientTypeOK, clientVars
    <3> QED
      BY <2>1, <3>1, NothingSpent
  <2>2. CASE \E e \in Clients : ClientNext(e) /\ UNCHANGED trackerVars
    BY <2>2, ClientStepRunsOut
  <2>3. CASE PortClosed
    <3>1. UNCHANGED clientVars
      BY <2>3 DEF PortClosed
    <3>2. peer' = peer \/ \E m \in BagToSet(peer) : peer' = Without(peer, m)
      BY <2>3 DEF PortClosed
    <3>3. Copies(peer') \subseteq Copies(peer)
      BY <3>2, CopyTaken DEF SwarmTypeOK, NetworkTypeOK
    <3> QED
      BY <2>1, <3>1, <3>3
  <2> QED
    BY <2>1, <2>2, <2>3 DEF Next, TrackerServes, CheckIfShouldTerminate, AllStopped, vars, network
<1>2. RepliesRunOut <=> [][RunOut]_vars
  BY DEF RepliesRunOut, RunsOut
<1> QED BY <1>1, <1>2, SwarmInvariant, PTL DEF Spec
-----------------------------------------------------------------------------
(* The tracker in the swarm *)

LEMMA ClientsOnlyTakeAssign ==
  ASSUME SwarmTypeOK, NEW c \in Clients, ClientNext(c)
  PROVE  BagToSet(assign') \subseteq BagToSet(assign)
<1>1. CASE ClientTakesDatagram(c)
  BY <1>1, WithoutTakesOne DEF ClientTakesDatagram, HandleTrackerGroupUpdate, HandleClientInfoRequest,
     HandleClientInfoReply, HandleClientSegmentRequest, HandleClientSegmentReply, SwarmTypeOK, NetworkTypeOK
<1>2. CASE ~ClientTakesDatagram(c)
  BY <1>2 DEF ClientNext, EnableDownload, SendInterestToTracker, SendClientInfoRequests,
     SendClientSegmentRequests, network
<1> QED BY <1>1, <1>2

(* What is proved of the tracker among clients that announce anything      *)
(* holds in the swarm too: one slot per file, an address for each client   *)
(* it lists, and records for each that it counts.                          *)
THEOREM TrackerInSwarm == Spec => [](GroupSlots /\ SharersHaveAddresses /\ CountedRecordsFollow)
<1>1. Init => TrackerInv
  BY TrackerInitInv DEF Init
<1>2. SwarmTypeOK /\ TrackerInv /\ [Next]_vars => TrackerInv'
  <2> SUFFICES ASSUME SwarmTypeOK, TrackerInv, [Next]_vars
               PROVE  TrackerInv'
    OBVIOUS
  <2>1. ASSUME BagToSet(assign') \subseteq BagToSet(assign), UNCHANGED <<st_groups, st_numGroups, st_clientAddrs>>
        PROVE  TrackerInv'
    BY <2>1 DEF TrackerInv, GroupSlots, SharersHaveAddresses, CountedRecordsFollow
  <2>2. CASE TrackerServes
    BY <2>2, TrackerServesInv DEF SwarmTypeOK
  <2>3. CASE CheckIfShouldTerminate
    BY <2>1, <2>3 DEF CheckIfShouldTerminate, network
  <2>4. CASE \E c \in Clients : ClientNext(c) /\ UNCHANGED trackerVars
    BY <2>1, <2>4, ClientsOnlyTakeAssign DEF trackerVars
  <2>5. CASE PortClosed
    <3>1. BagToSet(assign') \subseteq BagToSet(assign)
      BY <2>5, WithoutTakesOne DEF PortClosed, SwarmTypeOK, NetworkTypeOK
    <3> QED
      BY <2>1, <2>5, <3>1 DEF PortClosed, trackerVars
  <2>6. CASE UNCHANGED vars
    BY <2>1, <2>6 DEF vars, network, trackerVars
  <2> QED BY <2>2, <2>3, <2>4, <2>5, <2>6 DEF Next, AllStopped
<1>3. TrackerInv => GroupSlots /\ SharersHaveAddresses /\ CountedRecordsFollow
  BY DEF TrackerInv
<1> QED BY <1>1, <1>2, <1>3, SwarmTypeCorrect, PTL DEF Spec
=============================================================================
