-------------------------------- MODULE Swarm --------------------------------
(***************************************************************************)
(* One tracker and its clients: every process of a FreeBits run but the    *)
(* manager, once it has handed out the configuration.                      *)
(***************************************************************************)
EXTENDS Tracker, Client

vars == <<network, trackerVars, clientVars>>

Init == NetworkInit /\ TrackerInit /\ ClientInit

(* A datagram for a process that has stopped reaches a closed port. *)
PortClosed ==
  /\ \/ ~trackerUp /\ \E m \in BagToSet(interest) : interest' = Without(interest, m) /\ UNCHANGED <<assign, peer>>
     \/ \E m \in BagToSet(assign) : ~Running(m.to) /\ assign' = Without(assign, m) /\ UNCHANGED <<interest, peer>>
     \/ \E m \in BagToSet(peer) : ~Running(m.to) /\ peer' = Without(peer, m) /\ UNCHANGED <<interest, assign>>
  /\ UNCHANGED <<trackerVars, clientVars>>

(* Every process has returned: the manager's wait loop ends. *)
AllStopped ==
  /\ ~trackerUp /\ \A c \in Clients : ~Running(c)
  /\ UNCHANGED vars

Next ==
  \/ TrackerServes /\ UNCHANGED clientVars
  \/ CheckIfShouldTerminate /\ UNCHANGED clientVars
  \/ \E c \in Clients : ClientNext(c) /\ UNCHANGED trackerVars
  \/ PortClosed
  \/ AllStopped

Spec == Init /\ [][Next]_vars

(* The timers of the tracker and of the group updates re-arm themselves    *)
(* and take precedence over the socket, so both keep firing in a process   *)
(* that runs.  Nothing else is promised: any datagram may be lost.         *)
Fairness ==
  /\ WF_vars(CheckIfShouldTerminate /\ UNCHANGED clientVars)
  /\ \A c \in Clients : WF_vars(SendInterestToTracker(c) /\ UNCHANGED trackerVars)

FairSpec == Spec /\ Fairness
-----------------------------------------------------------------------------
SwarmTypeOK == NetworkTypeOK /\ TrackerTypeOK /\ ClientTypeOK

(* Whoever a client takes for a source of a segment has the whole file in  *)
(* its s_ownedFiles under a name that its lookups find, and its address is *)
(* known.  An unknown address would turn every request into a datagram to  *)
(* port -1, a source without the file into silence or empty segments, and  *)
(* nothing ever sets segmentToClient back.                                 *)
SourcesCanServe ==
  \A c \in Clients : \A f \in Files : \A s \in Segments(f) :
    LET d == segmentToClient[c][f][s]
    IN d # NoClient => d # c /\ f \in servable[d] /\ d \in addrs[c]

(* A segment on its way finds room: its receiver knows the size of the     *)
(* file, from which it allocated rawFile, and the segment lies inside.     *)
(* handleClientSegmentReply checks neither.                                *)
NoSegmentBeforeSize ==
  \A m \in BagToSet(peer) : m.type = "SEG_REP" =>
    /\ nseg[m.to][m.file] = NumSegments[m.file]
    /\ m.seg < nseg[m.to][m.file]

(* A file handed on to others, or declared done, is all there. *)
OwnedIsComplete ==
  \A c \in Clients : \A f \in owned[c] \cap Tasks(c) :
    nseg[c][f] = NumSegments[f] /\ have[c][f] = Segments(f)

(* doneDownloading is set in three places, and the lookup that skips a     *)
(* task goes by s_ownedFiles: the exit rule needs the two to agree.        *)
DoneIsOwned == \A c \in Clients : done[c] = owned[c] \cap Tasks(c)

(* No segment but the last of a file is marked as held on the strength of  *)
(* a SEG_REP without data: its bytes in rawFile would stay zero, and a     *)
(* held segment is never asked for again.  (The last may be, when the      *)
(* sizes that are sent wrong leave nothing of it.)                         *)
NoBlankSegments ==
  \A c \in Clients : \A f \in Files : blank[c][f] \subseteq {NumSegments[f] - 1}

(* A late GROUP_ASSIGN never clears what was downloaded, nor does a late   *)
(* SEG_REP touch a file that is complete.                                  *)
SegmentsNeverLost ==
  [][\A c \in Clients : \A f \in Files :
       /\ have[c][f] \subseteq have'[c][f]
       /\ f \in owned[c] => have'[c][f] = have[c][f]]_vars

(* What is in flight between asking client c for a segment and its reply,  *)
(* and brings it nothing new: every copy of a datagram counts.             *)
Spent(c) ==
  {x \in Copies(peer) :
     LET m == x[1]
     IN /\ (m.type = "SEG_REQ" /\ m.from = c) \/ (m.type = "SEG_REP" /\ m.to = c)
        /\ m.seg \in have[c][m.file]}

(* Only news prolongs a client's stay.  As long as it gets no segment that *)
(* it does not hold, what is in flight without news does not become more,  *)
(* and whenever the count of rounds without a segment is set back, one of  *)
(* these is used up.  Segments are drawn with repetitions (Client.c:612),  *)
(* each copy of a request has its own reply, and each reply sets the count *)
(* back (Client.c:859): all of them end by themselves.                     *)
RepliesRunOut ==
  [][\A c \in Clients : have'[c] = have[c] =>
       /\ Cardinality(Spent(c)') <= Cardinality(Spent(c))
       /\ Running(c)' /\ progress'[c] < progress[c] =>
            Cardinality(Spent(c)') < Cardinality(Spent(c))]_vars

(* The swarm shares files as FileSharing says. *)
Abstract ==
  INSTANCE FileSharing WITH
    holds <- have,
    complete <- owned,
    gone <- {c \in Clients : ~Running(c)}

SharesFiles == Abstract!Spec

(* The sharing clients of a group are clients that its tasks let share the *)
(* file: "request a group, but not willing to share" is a type of its own  *)
(* (Client.c:1169).  sendInterestToTracker leaves n_type unassigned for a  *)
(* client that has the file and does not share it.                         *)
OnlyWillingListed ==
  \A f \in Files : st_groups[f].sharing \subseteq {c \in Clients : f \in Willing[c]}

(* README, "Termination method": "If downloading tasks are complete and    *)
(* there is no request from other clients for 2 rounds of group update, it *)
(* terminates"; the other exit announces "no download or sharing           *)
(* progress" (Client.c:1098), but no request resets its counter.           *)
NoExitWhileServing ==
  [][\A c \in Clients :
       SendInterestToTracker(c) /\ ~Running(c)' /\ Tasks(c) \subseteq done[c] =>
          updates[c] >= GroupUpdateLimit]_vars

(* Every client leaves in the end, and the tracker after them, so that the *)
(* manager's wait loop ends: no exchange of requests, replies and counters *)
(* keeps the swarm alive forever, whatever is lost.                        *)
EveryoneLeaves == <>(~trackerUp /\ \A c \in Clients : ~Running(c))
=============================================================================
