------------------------------- MODULE Client -------------------------------
(***************************************************************************)
(* A client process (Client.c): one single-threaded loop that runs the     *)
(* head of its timer queue when it has expired or when the socket has been *)
(* idle for 10 microseconds, and otherwise handles one datagram.  Timers   *)
(* fire early, so no action here waits for time to pass.                   *)
(*                                                                         *)
(* Every variable is a function of the client.  Undefined behaviour of the *)
(* code (a heap or stack overrun, a read of an uninitialised variable) is  *)
(* a choice between the outcomes it may have: the client crashes, or goes  *)
(* on as written.                                                          *)
(***************************************************************************)
EXTENDS Protocol

CONSTANTS
  GroupUpdateLimit,  \* 2: group updates without a request before a client that is done exits
  ProgressLimit,     \* 4: group updates without a segment before any client exits
  Batch,             \* 8: segment requests per file and round
  UninitSharers      \* [Files -> SUBSET Clients]: ids from numsegments up, whose
                     \* flag in the group of an owned file is never initialised

ASSUME ClientAssumption ==
  /\ GroupUpdateLimit \in Nat /\ ProgressLimit \in Nat /\ Batch \in Nat \ {0}
  /\ UninitSharers \in [Files -> SUBSET Clients]

VARIABLES
  status,           \* "running" or "stopped", by an exit or by a crash
  enabled,          \* tasks whose start time has come
  nseg,             \* numFileSegments of each file's download, 0 while the size is unknown
  have,             \* haveFileSegments
  blank,            \* segments marked as held, but not known to hold data
  segmentToClient,
  done,             \* tasks with doneDownloading set
  owned,            \* files in s_ownedFiles
  servable,         \* those of them that a request's name finds
  known,            \* files with a group in sc_groups
  sharers,          \* sharingClients of those groups
  junk,             \* sc_groups holds a group with the empty name
  addrs,            \* clients in sc_clientAddrs
  updates,          \* sc_numGroupUpdates
  progress          \* sc_numDownloadProgress

fileVars == <<nseg, have, blank, segmentToClient, done, owned, servable>>
groupVars == <<known, sharers, junk>>
clientVars == <<status, enabled, fileVars, groupVars, addrs, updates, progress>>

Running(c) == status[c] = "running"

(* For each file, and each segment of it, the client to ask. *)
SourceTables ==
  {t \in [Files -> UNION {[Segments(f) -> Clients \cup {NoClient}] : f \in Files}] :
     \A f \in Files : t[f] \in [Segments(f) -> Clients \cup {NoClient}]}

OwnedTasks(c) == OwnedAtStart[c] \cap Tasks(c)

(* The loop that clears a new group runs to numsegments where MAX_CLIENTS  *)
(* was meant; the flag of the client itself is overwritten for a task.     *)
FirstSharers(c, f, garbage) ==
  IF f \notin OwnedAtStart[c] THEN {}
  ELSE IF f \notin Tasks(c) THEN garbage
  ELSE (garbage \ {c}) \cup (IF f \in Willing[c] THEN {c} ELSE {})

(* A client without tasks leaves at once.  One with files may end before:  *)
(* it exits if a file cannot be opened, and clears as many entries of a    *)
(* group as the file has segments, which may be more than there are.       *)
StartStatus(c) ==
  {IF Tasks(c) = {} THEN "stopped" ELSE "running"}
    \cup (IF OwnedAtStart[c] # {} THEN {"stopped"} ELSE {})

ClientInit ==
  /\ status \in {s \in [Clients -> {"running", "stopped"}] :
                  \A c \in Clients : s[c] \in StartStatus(c)}
  /\ enabled = [c \in Clients |-> {}]
  /\ nseg = [c \in Clients |-> [f \in Files |-> IF f \in OwnedTasks(c) THEN NumSegments[f] ELSE 0]]
  /\ have = [c \in Clients |-> [f \in Files |-> IF f \in OwnedTasks(c) THEN Segments(f) ELSE {}]]
  /\ blank = [c \in Clients |-> [f \in Files |-> {}]]
  /\ segmentToClient = [c \in Clients |-> [f \in Files |-> [s \in Segments(f) |-> NoClient]]]
  /\ done = [c \in Clients |-> OwnedTasks(c)]
  /\ owned = OwnedAtStart
  /\ servable = OwnedAtStart
  /\ known = OwnedAtStart
  /\ \E garbage \in [Clients -> [Files -> SUBSET (UNION {UninitSharers[f] : f \in Files})]] :
       /\ \A c \in Clients : \A f \in Files :
            garbage[c][f] \subseteq (IF f \in OwnedAtStart[c] THEN UninitSharers[f] ELSE {})
       /\ sharers = [c \in Clients |-> [f \in Files |-> FirstSharers(c, f, garbage[c][f])]]
  /\ junk = [c \in Clients |-> FALSE]
  /\ addrs = [c \in Clients |-> {}]
  /\ updates = [c \in Clients |-> 0]
  /\ progress = [c \in Clients |-> 0]

ClientTypeOK ==
  /\ status \in [Clients -> {"running", "stopped"}]
  /\ enabled \in [Clients -> SUBSET Files]
  /\ \A c \in Clients : enabled[c] \subseteq Tasks(c)
  /\ nseg \in [Clients -> [Files -> Nat]]
  /\ \A c \in Clients : \A f \in Files : nseg[c][f] \in Sizes(f)
  /\ have \in [Clients -> [Files -> SUBSET Nat]]
  /\ blank \in [Clients -> [Files -> SUBSET Nat]]
  /\ segmentToClient \in [Clients -> SourceTables]
  /\ done \in [Clients -> SUBSET Files]
  /\ owned \in [Clients -> SUBSET Files]
  /\ servable \in [Clients -> SUBSET Files]
  /\ known \in [Clients -> SUBSET Files]
  /\ sharers \in [Clients -> [Files -> SUBSET Clients]]
  /\ junk \in [Clients -> BOOLEAN]
  /\ addrs \in [Clients -> SUBSET Clients]
  /\ updates \in [Clients -> 0 .. GroupUpdateLimit]
  /\ progress \in [Clients -> 0 .. ProgressLimit]
-----------------------------------------------------------------------------
(* An exit or a crash: the other processes cannot tell one from the other. *)
(* What a process knows of the others goes when it stops; which segments   *)
(* and files it got is kept, for the properties to speak of.               *)
Stop(c) ==
  /\ status' = [status EXCEPT ![c] = "stopped"]
  /\ enabled' = [enabled EXCEPT ![c] = {}]
  /\ segmentToClient' =
       [segmentToClient EXCEPT ![c] = [f \in Files |-> [s \in Segments(f) |-> NoClient]]]
  /\ known' = [known EXCEPT ![c] = {}]
  /\ sharers' = [sharers EXCEPT ![c] = [f \in Files |-> {}]]
  /\ junk' = [junk EXCEPT ![c] = FALSE]
  /\ addrs' = [addrs EXCEPT ![c] = {}]
  /\ updates' = [updates EXCEPT ![c] = 0]
  /\ progress' = [progress EXCEPT ![c] = 0]
  /\ UNCHANGED <<nseg, have, blank, done, owned, servable>>
-----------------------------------------------------------------------------
(* Timers *)

EnableDownload(c, f) ==
  /\ Running(c) /\ f \in Tasks(c) \ enabled[c]
  /\ enabled' = [enabled EXCEPT ![c] = @ \cup {f}]
  /\ UNCHANGED <<status, fileVars, groupVars, addrs, updates, progress, network>>

NothingMoreToDo(c) == updates[c] >= GroupUpdateLimit /\ Tasks(c) \subseteq done[c]

(* Fault: one round too many. *)
NoProgressLate(c) == progress[c] > ProgressLimit

NoProgress(c) == progress[c] >= ProgressLimit

(* n_type is assigned in three of the four cases: a client that has the    *)
(* file and does not share it sends whatever the variable held.            *)
AnnouncedTypes(c, f) ==
  IF f \in owned[c]
  THEN IF f \in Willing[c] THEN {2} ELSE TypeCodes
  ELSE IF f \in Willing[c] THEN {1} ELSE {0}

GroupShowInterest(c) ==
  {[id    |-> c,
    entry |-> [f \in enabled[c] |-> [size |-> nseg[c][f], type |-> types[f]]]] :
     types \in {t \in [enabled[c] -> TypeCodes] : \A f \in enabled[c] : t[f] \in AnnouncedTypes(c, f)}}

(* The counter of group updates stops at the limit it is compared with.    *)
SendInterestToTracker(c) ==
  /\ Running(c)
  /\ UNCHANGED <<assign, peer>>
  /\ \/ /\ NothingMoreToDo(c) \/ NoProgress(c)
        /\ Stop(c)
        /\ UNCHANGED interest
     \/ /\ ~NothingMoreToDo(c) /\ ~NoProgress(c)
        /\ updates' = [updates EXCEPT ![c] = IF @ < GroupUpdateLimit THEN @ + 1 ELSE @]
        /\ progress' = [progress EXCEPT ![c] = @ + 1]
        /\ done' = [done EXCEPT ![c] = @ \cup (enabled[c] \cap owned[c])]
        /\ \/ enabled[c] = {} /\ UNCHANGED interest
           \/ /\ enabled[c] # {}
              /\ \E m \in GroupShowInterest(c) : interest' \in Sent(interest, SetToBag({m}), MaxInFlight)
        /\ UNCHANGED <<status, enabled, nseg, have, blank, segmentToClient, owned, servable,
                       groupVars, addrs>>

(* Fault: a client that is listed as sharing asks itself. *)
InfoRequestsToSelf(c) ==
  UNION {{PeerMessage("INFO_REQ", c, n, f, 0) : n \in sharers[c][f] \cap addrs[c]} :
           f \in {g \in Tasks(c) \cap known[c] : nseg[c][g] # 0}}

(* For every task of known size, whether it is complete or not.  A client  *)
(* whose address is not known gets nothing: port -1 is nobody's.           *)
InfoRequests(c) ==
  UNION {{PeerMessage("INFO_REQ", c, n, f, 0) : n \in (sharers[c][f] \cap addrs[c]) \ {c}} :
           f \in {g \in Tasks(c) \cap known[c] : nseg[c][g] # 0}}

(* The packet of each task of known size is two bytes longer than the      *)
(* memory allocated for it.                                                *)
SendClientInfoRequests(c) ==
  /\ Running(c)
  /\ \/ /\ peer' \in Sent(peer, SetToBag(InfoRequests(c)), MaxBetween)
        /\ UNCHANGED <<clientVars, interest, assign>>
     \/ /\ \E f \in Tasks(c) : nseg[c][f] # 0
        /\ Stop(c)
        /\ UNCHANGED network

(* Fault: a task is fetched before its size is known. *)
FetchingUnsized(c) == Tasks(c) \ (done[c] \cup owned[c])

Fetching(c) == {f \in Tasks(c) \ (done[c] \cup owned[c]) : nseg[c][f] # 0}

(* Fault: the last segment is left out. *)
MissingButLast(c, f) == (0 .. nseg[c][f] - 2) \ have[c][f]

Missing(c, f) == (0 .. nseg[c][f] - 1) \ have[c][f]

Complete(c) == {f \in Fetching(c) : Missing(c, f) = {}}

SegmentRequestsFor(c, f) ==
  {PeerMessage("SEG_REQ", c, segmentToClient[c][f][s], f, s) :
     s \in {t \in Missing(c, f) : segmentToClient[c][f][t] \in addrs[c]}}

(* As many segments of a file are drawn as it misses, up to Batch.         *)
Draws(c, f) == IF Cardinality(Missing(c, f)) < Batch THEN Cardinality(Missing(c, f)) ELSE Batch

OfFile(ms, f) == [m \in {x \in BagToSet(ms) : x.file = f} |-> ms[m]]

(* What a round may ask for, as far as the network has room for it at all. *)
(* Segments are drawn at random with repetitions, so that a bag may hold a *)
(* request several times; a segment without a known source is drawn in     *)
(* vain.                                                                   *)
SegmentRequests(c) ==
  LET requests == UNION {SegmentRequestsFor(c, f) : f \in Fetching(c) \ Complete(c)}
  IN {ms \in Remains([m \in requests |-> Draws(c, m.file)], MaxBetween) :
        \A f \in Files : BagCardinality(OfFile(ms, f)) <= Draws(c, f)}

(* Fault: only what may be shared joins s_ownedFiles. *)
JoinOwnedIfWilling(c, S) ==
  /\ owned' = [owned EXCEPT ![c] = @ \cup (S \cap Willing[c])]
  /\ servable' = [servable EXCEPT ![c] = @ \cup (S \cap Willing[c])]

(* A complete file is written to disk and joins s_ownedFiles under a name  *)
(* copied without its terminating NUL into an uninitialised structure.     *)
JoinOwned(c, S) ==
  /\ owned' = [owned EXCEPT ![c] = @ \cup S]
  /\ \E found \in SUBSET S : servable' = [servable EXCEPT ![c] = @ \cup found]

(* A client that cannot write a complete file to disk exits. *)
SendClientSegmentRequests(c) ==
  /\ Running(c)
  /\ \/ /\ done' = [done EXCEPT ![c] = @ \cup Complete(c)]
        /\ JoinOwned(c, Complete(c))
        /\ \E ms \in SegmentRequests(c) : peer' \in Sent(peer, ms, MaxBetween)
        /\ UNCHANGED <<status, enabled, nseg, have, blank, segmentToClient, groupVars,
                       addrs, updates, progress, interest, assign>>
     \/ /\ Complete(c) # {}
        /\ Stop(c)
        /\ UNCHANGED network
-----------------------------------------------------------------------------
(* Datagrams *)

(* The entries of a GROUP_ASSIGN that are read where they were written:    *)
(* behind an entry with records that its count leaves out, the bytes of    *)
(* those records are read as entries.                                      *)
Legible(c, m) ==
  {f \in DOMAIN m.entry :
     \A g \in DOMAIN m.entry :
       TaskNo[c][g] < TaskNo[c][f] => m.entry[g].count = Cardinality(m.entry[g].recs)}

Neighbors(e) == IF e.count = 0 THEN {} ELSE e.recs

(* Fault: every GROUP_ASSIGN sets the download up again. *)
LearnsAgain(c, m) == {f \in Legible(c, m) : m.entry[f].size # 0}

Learns(c, m) == {f \in Legible(c, m) : nseg[c][f] = 0 /\ m.entry[f].size # 0}

(* A record read as an entry starts with a zero byte, so it makes a group  *)
(* with an empty name, or overruns the tables.  Groups are looked up by    *)
(* their own length: the empty name takes every file that is not known.    *)
HandleTrackerGroupUpdate(c, m) ==
  /\ Running(c) /\ m.to = c
  /\ assign' = Without(assign, m)
  /\ UNCHANGED <<interest, peer>>
  /\ \/ /\ nseg' = [nseg EXCEPT ![c] = [f \in Files |->
                      IF f \in Learns(c, m) THEN m.entry[f].size ELSE @[f]]]
        /\ have' = [have EXCEPT ![c] = [f \in Files |-> IF f \in Learns(c, m) THEN {} ELSE @[f]]]
        /\ blank' = [blank EXCEPT ![c] = [f \in Files |-> IF f \in Learns(c, m) THEN {} ELSE @[f]]]
        /\ addrs' = [addrs EXCEPT ![c] = @ \cup (UNION {Neighbors(m.entry[f]) : f \in Legible(c, m)})]
        /\ known' = [known EXCEPT ![c] = @ \cup (IF junk[c] THEN {} ELSE Legible(c, m))]
        /\ sharers' = [sharers EXCEPT ![c] = [f \in Files |->
                         IF f \in Legible(c, m) /\ (f \in known[c] \/ ~junk[c])
                         THEN @[f] \cup Neighbors(m.entry[f]) ELSE @[f]]]
        /\ junk' = [junk EXCEPT ![c] = @ \/ Legible(c, m) # DOMAIN m.entry]
        /\ UNCHANGED <<status, enabled, segmentToClient, done, owned, servable, updates, progress>>
     \/ Legible(c, m) # DOMAIN m.entry /\ Stop(c)

(* Fault: serving counts as progress. *)
RequestCountedAsProgress(c) ==
  /\ updates' = [updates EXCEPT ![c] = 0]
  /\ progress' = [progress EXCEPT ![c] = 0]

(* A request shows that others need this client, but is no progress of its *)
(* own; whoever sends a datagram is known from then on.                    *)
RequestCounted(c) == updates' = [updates EXCEPT ![c] = 0] /\ UNCHANGED progress

SenderKnown(c, m) == addrs' = [addrs EXCEPT ![c] = @ \cup {m.from}]

(* Fault: a download offers its segments too, before it has them. *)
InfoRepliesOfDownloads(c, m) ==
  IF nseg[c][m.file] # 0
  THEN {PeerMessage("INFO_REP", c, m.from, m.file, nseg[c][m.file])}
  ELSE {}

(* An owned file offers all its segments, one still downloading none.      *)
InfoReplies(c, m) ==
  IF m.file \in servable[c]
  THEN {PeerMessage("INFO_REP", c, m.from, m.file,
          IF m.file \in OwnedAtStart[c] THEN NumSegments[m.file] ELSE nseg[c][m.file])}
  ELSE {}

HandleClientInfoRequest(c, m) ==
  /\ Running(c) /\ m.to = c /\ m.type = "INFO_REQ"
  /\ RequestCounted(c) /\ SenderKnown(c, m)
  /\ peer' \in Sent(Without(peer, m), SetToBag(InfoReplies(c, m)), MaxBetween)
  /\ UNCHANGED <<status, enabled, fileVars, groupVars, interest, assign>>

HasSegment(c, m) == m.file \in Tasks(c) /\ m.seg \in have[c][m.file]

(* What is known to be sent with data: a segment of a file that is found   *)
(* by its name, but for the last one.  Whether that carries any byte       *)
(* depends on the size of the file: with 28 bytes left over it has none.   *)
CarriesData(c, f, s) == f \in servable[c] /\ s < NumSegments[f] - 1

(* segmentSizes of a downloaded file are MAX_SEGMENTS, which rawData has   *)
(* no room for, but for the last segment's: that is right, or too large by *)
(* a few bytes that the client may survive.                                *)
CopySurvived(c, m) ==
  m.file \in servable[c] \ OwnedAtStart[c] => m.seg = nseg[c][m.file] - 1

(* Fault: segments counted from 1. *)
SegmentReplyFromOne(c, m) ==
  [PeerMessage("SEG_REP", c, m.from, m.file, m.seg + 1) EXCEPT !.full = CarriesData(c, m.file, m.seg)]

SegmentReply(c, m) ==
  [PeerMessage("SEG_REP", c, m.from, m.file, m.seg) EXCEPT !.full = CarriesData(c, m.file, m.seg)]

(* Every SEG_REP is written 4 bytes past the buffer allocated for it.      *)
HandleClientSegmentRequest(c, m) ==
  /\ Running(c) /\ m.to = c /\ m.type = "SEG_REQ"
  /\ UNCHANGED <<interest, assign>>
  /\ \/ /\ RequestCounted(c) /\ SenderKnown(c, m)
        /\ \/ ~HasSegment(c, m) /\ peer' = Without(peer, m)
           \/ /\ HasSegment(c, m) /\ CopySurvived(c, m)
              /\ peer' \in Sent(Without(peer, m), SetToBag({SegmentReply(c, m)}), MaxBetween)
        /\ UNCHANGED <<status, enabled, fileVars, groupVars>>
     \/ HasSegment(c, m) /\ Stop(c) /\ peer' = Without(peer, m)

HandleClientInfoReply(c, m) ==
  /\ Running(c) /\ m.to = c /\ m.type = "INFO_REP"
  /\ peer' = Without(peer, m)
  /\ segmentToClient' =
       IF m.file \in Tasks(c)
       THEN [segmentToClient EXCEPT ![c][m.file] =
               [s \in Segments(m.file) |-> IF s < m.seg THEN m.from ELSE @[s]]]
       ELSE segmentToClient
  /\ SenderKnown(c, m)
  /\ UNCHANGED <<status, enabled, nseg, have, blank, done, owned, servable,
                 groupVars, updates, progress, interest, assign>>

(* The last segment is sent with a wrong size, and data for a file of      *)
(* unknown size has no room at all: rawFile may be overrun.                *)
Overruns(c, m) == m.file \in Tasks(c) /\ m.seg + 1 >= nseg[c][m.file]

HandleClientSegmentReply(c, m) ==
  /\ Running(c) /\ m.to = c /\ m.type = "SEG_REP"
  /\ peer' = Without(peer, m)
  /\ UNCHANGED <<interest, assign>>
  /\ \/ /\ progress' = [progress EXCEPT ![c] = 0]
        /\ IF m.file \in Tasks(c)
           THEN /\ have' = [have EXCEPT ![c][m.file] = @ \cup {m.seg}]
                /\ blank' = [blank EXCEPT ![c][m.file] =
                     IF m.full THEN @ \ {m.seg}
                     ELSE IF m.seg \in have[c][m.file] THEN @ ELSE @ \cup {m.seg}]
           ELSE UNCHANGED <<have, blank>>
        /\ SenderKnown(c, m)
        /\ UNCHANGED <<status, enabled, nseg, segmentToClient, done, owned, servable,
                       groupVars, updates>>
     \/ Overruns(c, m) /\ Stop(c)
-----------------------------------------------------------------------------
ClientTakesDatagram(c) ==
  \/ \E m \in BagToSet(assign) : HandleTrackerGroupUpdate(c, m)
  \/ \E m \in BagToSet(peer) :
       \/ HandleClientInfoRequest(c, m)
       \/ HandleClientInfoReply(c, m)
       \/ HandleClientSegmentRequest(c, m)
       \/ HandleClientSegmentReply(c, m)

ClientNext(c) ==
  \/ \E f \in Files : EnableDownload(c, f)
  \/ SendInterestToTracker(c)
  \/ SendClientInfoRequests(c)
  \/ SendClientSegmentRequests(c)
  \/ ClientTakesDatagram(c)
=============================================================================
