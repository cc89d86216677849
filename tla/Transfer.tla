------------------------------ MODULE Transfer ------------------------------
(***************************************************************************)
(* The bytes of one file on their way from the client that has it to a     *)
(* client that downloads it: what Swarm abstracts to numbers of segments.  *)
(* The tracker's part is that it passes the announced size on, in the same *)
(* 16-bit conversion.  A byte of rawFile is either known to be the file's  *)
(* own or not.                                                             *)
(***************************************************************************)
EXTENDS Integers, FiniteSets

CONSTANTS
  SegmentSize,   \* SEGMENT_SIZE, 32
  SizeField,     \* 65536: htons and ntohs keep this much of a size
  Missed,        \* 4: bytes of the fields that the pktsize of SEG_REP leaves out
  ListedWhole,   \* 234: segments that a whole INFO_REP lists, in 512 bytes
  FileSizes,     \* sizes of the file in bytes
  MaxInFlight    \* different datagrams of either kind on the network

ASSUME TransferAssumption ==
  /\ SegmentSize \in Nat \ {0} /\ SizeField \in Nat /\ SegmentSize <= SizeField
  /\ Missed \in 0 .. SegmentSize
  /\ ListedWhole \in Nat
  /\ FileSizes \subseteq Nat
  /\ MaxInFlight \in Nat \ {0}

VARIABLES
  size,       \* of the owner's file
  filesize,   \* of the download, 0 while unknown
  sources,    \* segments whose segmentToClient names the owner
  requests,   \* segments of the SEG_REQ datagrams in flight, in one copy or several
  replies,    \* SEG_REP datagrams in flight, in one copy or several
  held,       \* haveFileSegments
  right,      \* offsets of rawFile that hold the file's own byte
  beyond,     \* something was written past the end of rawFile
  written,    \* size of the file written to disk, NotWritten before
  up          \* the downloader runs: it has not crashed, nor does it wait in recvfrom for ever

transferVars == <<size, filesize, sources, requests, replies, held, right, beyond, written, up>>

NotWritten == -1

(* 320 kB: MAX_SEGMENTS segments. *)
MaxFileSize == 10240 * SegmentSize
-----------------------------------------------------------------------------
NumSegmentsOf(n) == n \div SegmentSize + 1

(* Fault: the length of the part that lies in the last segment, 0 for none. *)
LastSizeOrNone(n) == n % SegmentSize

(* What lies between the end of the file and the end of its last segment,  *)
(* where the part of the file in that segment was meant.                   *)
LastSize(n) == SegmentSize * NumSegmentsOf(n) - n

(* Fault: the last segment is as long as the others. *)
FullSegmentSize(n, s) == SegmentSize

SegmentSizeOf(n, s) == IF s = NumSegmentsOf(n) - 1 THEN LastSize(n) ELSE SegmentSize

(* Fault: the client id is left out of the pktsize as well. *)
SegmentReplyShorter(s) ==
  [segment |-> s, size |-> SegmentSizeOf(size, s), data |-> SegmentSizeOf(size, s) - Missed - 2]

(* data is the number of bytes of the segment that the datagram carries; a *)
(* negative one has lost bytes of its own header.                          *)
SegmentReplyOf(s) ==
  [segment |-> s, size |-> SegmentSizeOf(size, s), data |-> SegmentSizeOf(size, s) - Missed]

TransferInit ==
  /\ size \in FileSizes
  /\ filesize = 0 /\ sources = {}
  /\ requests = {} /\ replies = {}
  /\ held = {} /\ right = {} /\ beyond = FALSE
  /\ written = NotWritten
  /\ up = TRUE

SegmentsOfDownload == 0 .. NumSegmentsOf(filesize) - 1

MissingSegments == SegmentsOfDownload \ held

(* The size travels from the owner to the tracker and on to the client.    *)
LearnSize ==
  /\ up /\ filesize = 0 /\ size % SizeField # 0
  /\ filesize' = size % SizeField
  /\ held' = {} /\ right' = {}
  /\ UNCHANGED <<size, sources, requests, replies, beyond, written, up>>

(* INFO_REQ and INFO_REP: the owner lists all of its segments.  A list of  *)
(* more than 512 bytes is cut; other datagrams are read in place of its    *)
(* rest, behind the packet if it is longer than 1024, or there are none    *)
(* and the client waits for ever.                                          *)
LearnSources ==
  /\ up /\ filesize # 0
  /\ \/ /\ NumSegmentsOf(size) <= ListedWhole
        /\ sources' = sources \cup SegmentsOfDownload
        /\ UNCHANGED up
     \/ /\ NumSegmentsOf(size) > ListedWhole
        /\ \E junk \in SUBSET {s \in SegmentsOfDownload : s >= ListedWhole} :
             sources' = sources \cup {s \in SegmentsOfDownload : s < ListedWhole} \cup junk
        /\ UNCHANGED up
     \/ /\ NumSegmentsOf(size) > ListedWhole
        /\ up' = FALSE
        /\ UNCHANGED sources
  /\ UNCHANGED <<size, filesize, requests, replies, held, right, beyond, written>>

(* Every round draws with replacement: the copies of a request count once. *)
AskForSegment ==
  /\ up /\ filesize # 0 /\ written = NotWritten
  /\ Cardinality(requests) < MaxInFlight
  /\ \E s \in MissingSegments \cap sources : requests' = requests \cup {s}
  /\ UNCHANGED <<size, filesize, sources, replies, held, right, beyond, written, up>>

(* Fault: the last segment is written out in full. *)
WriteWholeSegments ==
  /\ up /\ filesize # 0 /\ written = NotWritten
  /\ MissingSegments = {}
  /\ written' = SegmentSize * NumSegmentsOf(filesize)
  /\ UNCHANGED <<size, filesize, sources, requests, replies, held, right, beyond, up>>

WriteDownloadedFile ==
  /\ up /\ filesize # 0 /\ written = NotWritten
  /\ MissingSegments = {}
  /\ written' = filesize
  /\ UNCHANGED <<size, filesize, sources, requests, replies, held, right, beyond, up>>

(* Each copy of a request is answered, and more of them may be to come.    *)
OwnerServes ==
  \E s \in requests :
    /\ Cardinality(replies) < MaxInFlight
    /\ requests' \in {requests, requests \ {s}}
    /\ replies' = replies \cup {SegmentReplyOf(s)}
    /\ UNCHANGED <<size, filesize, sources, held, right, beyond, written, up>>

(* The last bytes of a segment come from behind the datagram.  Of a header *)
(* that was cut, the size of the segment does too (JunkSizes bounds it),   *)
(* and the low byte of its number if three bytes are missing.              *)
JunkSizes == {0, SegmentSize, 2 * SegmentSize}

SizesRead(r) == IF r.data >= 0 THEN {r.size} ELSE JunkSizes

SegmentsRead(r) == IF r.data >= -2 THEN {r.segment} ELSE 0 .. NumSegmentsOf(filesize)

TakeReply ==
  \E r \in replies : \E s \in SegmentsRead(r) : \E n \in SizesRead(r) :
    LET first == s * SegmentSize
        past  == n > 0 /\ first + n > filesize
    IN /\ up
       /\ replies' \in {replies, replies \ {r}}
       /\ \/ /\ held' = held \cup {s}
             /\ right' = (right \ (first .. first + n - 1))
                           \cup {o \in first .. first + r.data - 1 : o < size /\ o < filesize}
             /\ beyond' = (beyond \/ past)
             /\ UNCHANGED up
          \/ /\ past
             /\ up' = FALSE /\ beyond' = TRUE
             /\ UNCHANGED <<held, right>>
       /\ UNCHANGED <<size, filesize, sources, requests, written>>

DatagramLost ==
  /\ \/ \E s \in requests : requests' = requests \ {s} /\ UNCHANGED replies
     \/ \E r \in replies : replies' = replies \ {r} /\ UNCHANGED requests
  /\ UNCHANGED <<size, filesize, sources, held, right, beyond, written, up>>

TransferNext ==
  \/ LearnSize \/ LearnSources \/ AskForSegment \/ WriteDownloadedFile
  \/ OwnerServes \/ TakeReply \/ DatagramLost

TransferSpec == TransferInit /\ [][TransferNext]_transferVars
-----------------------------------------------------------------------------
(* The header of every SEG_REP of the file is whole. *)
WholeHeaders == LastSize(size) >= Missed

TransferTypeOK ==
  /\ size \in FileSizes
  /\ filesize \in 0 .. SizeField - 1
  /\ sources \subseteq Nat
  /\ requests \subseteq Nat
  /\ replies \subseteq [segment : Nat, size : 1 .. SegmentSize, data : Int]
  /\ held \subseteq Nat
  /\ right \subseteq 0 .. filesize - 1
  /\ beyond \in BOOLEAN
  /\ written \in {NotWritten, filesize}
  /\ up \in BOOLEAN

(* Of every segment held, all the bytes that its size announced but the    *)
(* final four are the file's, however often and in whatever order replies  *)
(* came: 28 good bytes in 32, as in the downloaded 0-csu_cs557_foo.txt.    *)
HeldBytesAreRight ==
  WholeHeaders =>
    \A s \in held :
      {o \in s * SegmentSize .. s * SegmentSize + SegmentSizeOf(filesize, s) - Missed - 1 :
         o < filesize} \subseteq right

(* A file that is written to disk is as long as the owner's, if its size   *)
(* fits in the 16 bits in which it travels, whatever became of the size of *)
(* its last segment and of the replies (README, phase 3: "the files are    *)
(* corrupted, but the sizes are correct").                                 *)
SizesAreCorrect == written # NotWritten /\ size < SizeField => written = size

(* The same of every file that the README supports: "This program only     *)
(* supports sharing of files 320kB or less."  htons leaves the lower half  *)
(* of a size, so that files of 64 kB and more are written short.           *)
SupportedSizesAreCorrect == written # NotWritten /\ size <= MaxFileSize => written = size

(* rawFile is overrun only through the wrong size of the last segment, so  *)
(* never by a file that fills at least half of its last segment and whose  *)
(* header is whole: data of any other segment stays in its place.          *)
OverrunOnlyByLastSize ==
  beyond => \/ size >= SizeField
            \/ ~WholeHeaders
            \/ 2 * (size % SegmentSize) < SegmentSize
=============================================================================
