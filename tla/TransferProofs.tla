--------------------------- MODULE TransferProofs ---------------------------
(***************************************************************************)
(* Proofs about the bytes of a file, for any sizes of file, segment and    *)
(* size field, and any number of datagrams on the network.                 *)
(***************************************************************************)
EXTENDS Transfer, TLAPS

LEMMA Constants ==
  /\ SegmentSize \in Nat /\ SegmentSize > 0 /\ SizeField \in Nat /\ SegmentSize <= SizeField
  /\ Missed \in Nat /\ Missed <= SegmentSize
BY TransferAssumption

(* The first byte of a segment, and what of a size lies in the last one.   *)
First(s) == s * SegmentSize
Rest(n) == n % SegmentSize

LEMMA RestOfSize ==
  ASSUME NEW n \in Nat
  PROVE  /\ Rest(n) \in Nat /\ Rest(n) < SegmentSize
         /\ n \div SegmentSize \in Nat
         /\ Rest(n) = n - First(n \div SegmentSize)
<1>1. SegmentSize \in Int /\ SegmentSize > 0 /\ n \in Int /\ n >= 0
  BY Constants
<1>2. n \div SegmentSize \in Nat
  BY <1>1, SMTT(20)
<1>3. n % SegmentSize \in Nat /\ n % SegmentSize < SegmentSize
  BY <1>1, SMTT(20)
<1>4. n % SegmentSize = n - (n \div SegmentSize) * SegmentSize
  BY <1>1, SMTT(20)
<1> QED
  BY <1>2, <1>3, <1>4, Zenon DEF Rest, First

LEMMA SizeOnTheWire ==
  ASSUME NEW n \in Nat
  PROVE  /\ n % SizeField \in Nat /\ n % SizeField < SizeField
         /\ n < SizeField => n % SizeField = n
         /\ n >= SizeField => (n % SizeField) + SizeField <= n
<1>1. SizeField \in Int /\ SizeField > 0 /\ n \in Int /\ n >= 0
  BY Constants
<1> DEFINE q == n \div SizeField
           m == n % SizeField
<1>2. q \in Nat /\ m \in Nat /\ m < SizeField
  BY <1>1, SMTT(20)
<1>3. m = n - q * SizeField
  BY <1>1, SMTT(20)
<1> HIDE DEF q, m
<1>4. q = 0 => m = n
  BY <1>1, <1>2, <1>3
<1>5. ASSUME q # 0 PROVE m + SizeField <= n
  <2>1. PICK k \in Nat : q = k + 1
    BY <1>2, <1>5, q - 1 \in Nat
  <2>2. q * SizeField = k * SizeField + SizeField /\ k * SizeField \in Nat
    BY <2>1, Constants
  <2> QED
    BY <1>1, <1>2, <1>3, <2>2
<1> QED
  BY <1>1, <1>2, <1>4, <1>5 DEF m

(* Segments lie behind one another. *)
LEMMA SegmentsApart ==
  ASSUME NEW s \in Nat, NEW t \in Nat
  PROVE  /\ First(s) \in Nat
         /\ s < t => First(s) + SegmentSize <= First(t)
         /\ First(s + 1) = First(s) + SegmentSize
<1>1. First(s) \in Nat /\ First(s + 1) = First(s) + SegmentSize
  BY Constants DEF First
<1>2. ASSUME s < t PROVE First(s) + SegmentSize <= First(t)
  <2>1. PICK k \in Nat : t = s + 1 + k
    BY <1>2, t - s - 1 \in Nat
  <2>2. k * SegmentSize \in Nat /\ s * SegmentSize \in Nat
    BY Constants
  <2>3. t * SegmentSize = s * SegmentSize + SegmentSize + k * SegmentSize
    BY <2>1, Constants
  <2> QED
    BY <2>2, <2>3, Constants DEF First
<1> QED
  BY <1>1, <1>2

(* Where the last segment begins, and its length. *)
LEMMA LastSegment ==
  ASSUME NEW n \in Nat
  PROVE  /\ NumSegmentsOf(n) \in Nat /\ NumSegmentsOf(n) >= 1
         /\ First(NumSegmentsOf(n) - 1) = n - Rest(n)
         /\ LastSize(n) = SegmentSize - Rest(n)
         /\ Rest(n) \in Nat /\ Rest(n) < SegmentSize
<1> DEFINE q == n \div SegmentSize
<1>1. q \in Nat /\ Rest(n) \in Nat /\ Rest(n) < SegmentSize /\ Rest(n) = n - First(q)
  BY RestOfSize, Zenon
<1> DEFINE x == SegmentSize * (q + 1)
<1>2. NumSegmentsOf(n) = q + 1 /\ LastSize(n) = x - n
  BY Zenon DEF NumSegmentsOf, LastSize
<1> HIDE DEF q
<1>3. First(q) \in Nat /\ x = First(q) + SegmentSize
  BY <1>1, Constants DEF First
<1> HIDE DEF x
<1>4. LastSize(n) = First(q) + SegmentSize - n
  BY <1>1, <1>2, <1>3, Constants
<1>5. NumSegmentsOf(n) \in Nat /\ NumSegmentsOf(n) >= 1 /\ NumSegmentsOf(n) - 1 = q
  BY <1>1, <1>2
<1>6. First(NumSegmentsOf(n) - 1) = First(q)
  BY <1>5, Zenon
<1> QED
  BY <1>1, <1>3, <1>4, <1>5, <1>6, Constants

LEMMA SegmentSizes ==
  ASSUME NEW n \in Nat, NEW s
  PROVE  SegmentSizeOf(n, s) \in Nat /\ SegmentSizeOf(n, s) >= 1 /\ SegmentSizeOf(n, s) <= SegmentSize
<1>1. LastSize(n) \in Nat /\ LastSize(n) >= 1 /\ LastSize(n) <= SegmentSize
  BY LastSegment, Constants
<1> QED
  BY <1>1, Constants DEF SegmentSizeOf

(* A file that is at least as long has at least as many segments. *)
LEMMA MoreSegments ==
  ASSUME NEW m \in Nat, NEW n \in Nat, m <= n
  PROVE  NumSegmentsOf(m) <= NumSegmentsOf(n)
<1>1. /\ NumSegmentsOf(m) \in Nat /\ NumSegmentsOf(m) >= 1
      /\ NumSegmentsOf(n) \in Nat /\ NumSegmentsOf(n) >= 1
  BY LastSegment
<1> DEFINE a == NumSegmentsOf(m) - 1
           b == NumSegmentsOf(n) - 1
<1>2. First(a) = m - Rest(m) /\ Rest(m) \in Nat
  BY LastSegment
<1>3. First(b) = n - Rest(n) /\ Rest(n) \in Nat /\ Rest(n) < SegmentSize
  BY LastSegment
<1>4. a \in Nat /\ b \in Nat
  BY <1>1
<1> HIDE DEF a, b
<1>5. ~(b < a)
  BY <1>2, <1>3, <1>4, SegmentsApart, Constants
<1> QED
  BY <1>1, <1>4, <1>5 DEF a, b
-----------------------------------------------------------------------------
(* The invariant *)
Asked == 0 .. NumSegmentsOf(filesize) - 1

GoodReply(r) ==
  /\ r \in [segment : Nat, size : Nat, data : Int]
  /\ r.segment \in Asked
  /\ r.size = SegmentSizeOf(size, r.segment)
  /\ r.data = r.size - Missed

SizesInv ==
  /\ size \in FileSizes
  /\ filesize \in {0, size % SizeField}
  /\ sources \subseteq Nat
  /\ written \in {NotWritten, filesize}
  /\ filesize = 0 => requests = {} /\ replies = {} /\ held = {} /\ written = NotWritten
  /\ beyond \in BOOLEAN /\ up \in BOOLEAN

DatagramsInv == requests \subseteq Asked /\ \A r \in replies : GoodReply(r)

BytesInv ==
  /\ held \subseteq Nat
  /\ right \subseteq 0 .. filesize - 1
  /\ HeldBytesAreRight

TransferInv == SizesInv /\ DatagramsInv /\ BytesInv /\ OverrunOnlyByLastSize

LEMMA SizeTypes ==
  ASSUME SizesInv
  PROVE  /\ size \in Nat /\ filesize \in Nat /\ filesize < SizeField /\ filesize <= size
         /\ filesize # 0 => filesize = size \/ (size >= SizeField /\ filesize + SegmentSize <= size)
<1>1. size \in Nat
  BY TransferAssumption DEF SizesInv
<1> QED
  BY <1>1, SizeOnTheWire, Constants DEF SizesInv

LEMMA TransferStarts == TransferInit => TransferInv
<1> SUFFICES ASSUME TransferInit PROVE TransferInv
  OBVIOUS
<1>1. SizesInv
  BY DEF TransferInit, SizesInv
<1>2. DatagramsInv /\ BytesInv
  BY DEF TransferInit, DatagramsInv, BytesInv, HeldBytesAreRight
<1>3. OverrunOnlyByLastSize
  BY DEF TransferInit, OverrunOnlyByLastSize
<1> QED
  BY <1>1, <1>2, <1>3 DEF TransferInv
-----------------------------------------------------------------------------
(* What a reply of a whole header does to rawFile. *)

(* The bytes of the file that a reply carries, and those it overwrites.    *)
Carried(r) == {o \in First(r.segment) .. First(r.segment) + r.data - 1 : o < size /\ o < filesize}
Overwritten(r) == First(r.segment) .. First(r.segment) + r.size - 1

PartOf(s) == {o \in First(s) .. First(s) + SegmentSizeOf(filesize, s) - Missed - 1 : o < filesize}

LEMMA HeldParts == HeldBytesAreRight <=> (WholeHeaders => \A s \in held : PartOf(s) \subseteq right)
BY DEF HeldBytesAreRight, PartOf, First

(* An asked segment is as long for the owner as for the client, or the     *)
(* client's is the last one and shorter.                                   *)
LEMMA OwnerSizes ==
  ASSUME SizesInv, filesize # 0, NEW s \in Asked
  PROVE  /\ SegmentSizeOf(filesize, s) <= SegmentSizeOf(size, s)
         /\ WholeHeaders => SegmentSizeOf(size, s) >= Missed
<1>1. size \in Nat /\ filesize \in Nat /\ (filesize = size \/ filesize + SegmentSize <= size)
  BY SizeTypes
<1>2. /\ NumSegmentsOf(filesize) \in Nat /\ NumSegmentsOf(size) \in Nat
      /\ NumSegmentsOf(filesize) >= 1 /\ NumSegmentsOf(size) >= 1
      /\ LastSize(size) <= SegmentSize /\ LastSize(filesize) <= SegmentSize
      /\ LastSize(size) \in Int /\ LastSize(filesize) \in Int
  BY <1>1, LastSegment, Constants
<1>3. s \in Nat /\ s <= NumSegmentsOf(filesize) - 1
  BY <1>2 DEF Asked
<1>4. filesize # size => NumSegmentsOf(filesize) < NumSegmentsOf(size)
  <2> SUFFICES ASSUME filesize + SegmentSize <= size
               PROVE  NumSegmentsOf(filesize) < NumSegmentsOf(size)
    BY <1>1
  <2> DEFINE a == NumSegmentsOf(filesize) - 1
             b == NumSegmentsOf(size) - 1
  <2>1. First(a) = filesize - Rest(filesize) /\ Rest(filesize) \in Nat
    BY <1>1, LastSegment
  <2>2. First(b) = size - Rest(size) /\ Rest(size) \in Nat /\ Rest(size) < SegmentSize
    BY <1>1, LastSegment
  <2>3. a \in Nat /\ b \in Nat
    BY <1>2
  <2> HIDE DEF a, b
  <2>4. First(a) < First(b)
    BY <1>1, <2>1, <2>2, Constants
  <2>5. ~(b < a) /\ a # b
    BY <2>3, <2>4, SegmentsApart, Constants
  <2> QED
    BY <1>2, <2>3, <2>5 DEF a, b
<1>5. CASE s = NumSegmentsOf(size) - 1
  <2>1. filesize = size
    BY <1>2, <1>3, <1>4, <1>5
  <2> QED
    BY <2>1, <1>2, <1>5, Constants DEF SegmentSizeOf, WholeHeaders
<1>6. CASE s # NumSegmentsOf(size) - 1
  BY <1>2, <1>6, Constants DEF SegmentSizeOf
<1> QED
  BY <1>5, <1>6

(* Of a whole header, size and number are what the owner wrote. *)
LEMMA WholeReplies ==
  ASSUME TransferInv, WholeHeaders, NEW r \in replies
  PROVE  /\ filesize # 0 /\ r.segment \in Nat /\ r.segment \in Asked
         /\ r.size = SegmentSizeOf(size, r.segment)
         /\ r.size \in Nat /\ r.size <= SegmentSize
         /\ r.data = r.size - Missed
         /\ SizesRead(r) = {r.size} /\ SegmentsRead(r) = {r.segment}
<1>1. filesize # 0 /\ SizesInv /\ GoodReply(r)
  BY DEF TransferInv, SizesInv, DatagramsInv
<1>2. size \in Nat
  BY <1>1, SizeTypes
<1>3. r.size <= SegmentSize /\ r.size \in Nat
  BY <1>1, <1>2, SegmentSizes DEF GoodReply
<1>4. r.size >= Missed
  BY <1>1, OwnerSizes DEF GoodReply
<1>5. r.data >= 0 /\ r.data >= -2
  BY <1>1, <1>3, <1>4, Constants DEF GoodReply
<1> QED
  BY <1>1, <1>3, <1>5 DEF GoodReply, SizesRead, SegmentsRead

(* What a part may hold lies in its segment. *)
LEMMA PartsInside ==
  ASSUME SizesInv, NEW s \in Nat, NEW o \in PartOf(s)
  PROVE  o \in Nat /\ o >= First(s) /\ o < First(s) + SegmentSize /\ o < filesize
<1>1. filesize \in Nat
  BY SizeTypes
<1>2. First(s) \in Nat
  BY SegmentsApart
<1>3. SegmentSizeOf(filesize, s) \in Nat /\ SegmentSizeOf(filesize, s) <= SegmentSize
  BY <1>1, SegmentSizes
<1> QED
  BY <1>1, <1>2, <1>3, Constants DEF PartOf

(* The part of the segment in a reply is carried by it. *)
LEMMA PartIsCarried ==
  ASSUME TransferInv, WholeHeaders, NEW r \in replies
  PROVE  PartOf(r.segment) \subseteq Carried(r)
<1>1. /\ filesize # 0 /\ r.segment \in Asked /\ r.segment \in Nat
      /\ r.size = SegmentSizeOf(size, r.segment) /\ r.size \in Nat
      /\ r.data = r.size - Missed
  BY WholeReplies
<1>2. SizesInv
  BY DEF TransferInv
<1>3. SegmentSizeOf(filesize, r.segment) <= r.size
  BY <1>1, <1>2, OwnerSizes
<1>4. size \in Nat /\ filesize \in Nat /\ filesize <= size
  BY <1>2, SizeTypes
<1>5. SegmentSizeOf(filesize, r.segment) \in Nat /\ First(r.segment) \in Nat
  BY <1>1, <1>4, SegmentSizes, SegmentsApart
<1> QED
  BY <1>1, <1>3, <1>4, <1>5, Constants DEF PartOf, Carried

(* Nothing of another segment is overwritten by it. *)
LEMMA OtherPartsStay ==
  ASSUME TransferInv, WholeHeaders, NEW r \in replies, NEW t \in Nat, t # r.segment
  PROVE  PartOf(t) \cap Overwritten(r) = {}
<1>1. r.segment \in Nat /\ r.size \in Nat /\ r.size <= SegmentSize
  BY WholeReplies
<1>2. First(t) \in Nat /\ First(r.segment) \in Nat
  BY <1>1, SegmentsApart
<1>3. First(t) + SegmentSize <= First(r.segment) \/ First(r.segment) + SegmentSize <= First(t)
  <2>1. t < r.segment \/ r.segment < t
    BY <1>1
  <2>2. t < r.segment => First(t) + SegmentSize <= First(r.segment)
    BY <1>1, SegmentsApart, Zenon
  <2>3. r.segment < t => First(r.segment) + SegmentSize <= First(t)
    BY <1>1, SegmentsApart, Zenon
  <2> QED
    BY <2>1, <2>2, <2>3
<1> SUFFICES ASSUME NEW o \in PartOf(t) PROVE o \notin Overwritten(r)
  OBVIOUS
<1>4. o \in Nat /\ o >= First(t) /\ o < First(t) + SegmentSize
  BY PartsInside DEF TransferInv
<1> QED
  BY <1>1, <1>2, <1>3, <1>4, Constants DEF Overwritten

(* Past the end of rawFile only by the last segment of a file that fills   *)
(* less than half of it.                                                   *)
LEMMA PastTheEnd ==
  ASSUME TransferInv, WholeHeaders, size < SizeField, NEW r \in replies,
         First(r.segment) + r.size > filesize
  PROVE  2 * (size % SegmentSize) < SegmentSize
<1> DEFINE last == NumSegmentsOf(size) - 1
<1>1. /\ filesize # 0 /\ r.segment \in Asked /\ r.segment \in Nat
      /\ r.size = SegmentSizeOf(size, r.segment) /\ r.size \in Nat /\ r.size <= SegmentSize
  BY WholeReplies
<1>2. size \in Nat /\ filesize = size
  BY <1>1, SizeTypes, Constants DEF TransferInv
<1>3. /\ NumSegmentsOf(size) \in Nat /\ NumSegmentsOf(size) >= 1
      /\ First(last) = size - Rest(size) /\ LastSize(size) = SegmentSize - Rest(size)
      /\ Rest(size) \in Nat
  BY <1>2, LastSegment
<1>4. last \in Nat /\ r.segment <= last
  BY <1>1, <1>2, <1>3 DEF Asked
<1>5. r.segment = last => r.size = LastSize(size)
  BY <1>1 DEF SegmentSizeOf
<1> HIDE DEF last
<1>6. r.segment # last => First(r.segment) + SegmentSize <= First(last)
  BY <1>1, <1>4, SegmentsApart
<1>7. First(r.segment) \in Nat
  BY <1>1, SegmentsApart
<1>8. r.segment = last
  BY <1>1, <1>2, <1>3, <1>6, <1>7, Constants
<1>9. 2 * Rest(size) < SegmentSize
  BY <1>2, <1>3, <1>5, <1>8, Constants
<1> QED
  BY <1>9 DEF Rest
-----------------------------------------------------------------------------
(* Every step keeps the invariant. *)

LEMMA LearnSizeKeeps == TransferInv /\ LearnSize => TransferInv'
<1> SUFFICES ASSUME TransferInv, LearnSize PROVE TransferInv'
  OBVIOUS
<1>1. requests = {} /\ replies = {} /\ written = NotWritten
  BY DEF TransferInv, SizesInv, LearnSize
<1>2. SizesInv'
  BY <1>1, Zenon DEF TransferInv, SizesInv, LearnSize
<1>3. DatagramsInv'
  BY <1>1 DEF DatagramsInv, LearnSize
<1>4. BytesInv'
  BY DEF BytesInv, HeldBytesAreRight, LearnSize
<1>5. OverrunOnlyByLastSize'
  BY DEF TransferInv, OverrunOnlyByLastSize, WholeHeaders, LearnSize
<1> QED
  BY <1>2, <1>3, <1>4, <1>5 DEF TransferInv

(* The parts of the invariant that only look at what a step left alone.    *)
LEMMA BytesUntouched ==
  ASSUME TransferInv, UNCHANGED <<size, filesize, held, right, beyond>>
  PROVE  BytesInv' /\ OverrunOnlyByLastSize'
<1>1. BytesInv'
  BY DEF TransferInv, BytesInv, HeldBytesAreRight, WholeHeaders
<1>2. OverrunOnlyByLastSize'
  BY DEF TransferInv, OverrunOnlyByLastSize, WholeHeaders
<1> QED
  BY <1>1, <1>2

LEMMA RequestsKeep ==
  ASSUME TransferInv, LearnSources \/ AskForSegment \/ WriteDownloadedFile
  PROVE  TransferInv'
<1>1. SizesInv'
  <2>1. sources' \subseteq Nat
    <3>1. SegmentsOfDownload \subseteq Nat
      BY DEF SegmentsOfDownload
    <3>2. CASE LearnSources
      BY <3>1, <3>2 DEF TransferInv, SizesInv, LearnSources
    <3>3. CASE AskForSegment \/ WriteDownloadedFile
      BY <3>3 DEF TransferInv, SizesInv, AskForSegment, WriteDownloadedFile
    <3> QED
      BY <3>2, <3>3
  <2>3. up' \in BOOLEAN
    BY DEF TransferInv, SizesInv, LearnSources, AskForSegment, WriteDownloadedFile
  <2>2. filesize # 0
    BY DEF LearnSources, AskForSegment, WriteDownloadedFile
  <2> QED
    BY <2>1, <2>2, <2>3 DEF TransferInv, SizesInv, LearnSources, AskForSegment, WriteDownloadedFile
<1>2. DatagramsInv'
  <2>1. MissingSegments \subseteq Asked
    BY DEF MissingSegments, SegmentsOfDownload, Asked
  <2>2. requests' \subseteq Asked /\ replies' = replies /\ filesize' = filesize /\ size' = size
    BY <2>1 DEF TransferInv, DatagramsInv, LearnSources, AskForSegment, WriteDownloadedFile
  <2> QED
    BY <2>2 DEF TransferInv, DatagramsInv, Asked, GoodReply
<1>3. UNCHANGED <<size, filesize, held, right, beyond>>
  BY DEF LearnSources, AskForSegment, WriteDownloadedFile
<1> QED
  BY <1>1, <1>2, <1>3, BytesUntouched DEF TransferInv

LEMMA DatagramsKeep ==
  ASSUME TransferInv, OwnerServes \/ DatagramLost
  PROVE  TransferInv'
<1>1. filesize # 0
  BY DEF TransferInv, SizesInv, OwnerServes, DatagramLost
<1>2. SizesInv'
  BY <1>1 DEF TransferInv, SizesInv, OwnerServes, DatagramLost
<1>3. \A s \in Asked : GoodReply(SegmentReplyOf(s))
  <2> TAKE s \in Asked
  <2>1. size \in Nat /\ filesize \in Nat
    BY SizeTypes DEF TransferInv
  <2>2. SegmentSizeOf(size, s) \in Nat
    BY <2>1, SegmentSizes
  <2>3. s \in Nat
    BY <2>1, LastSegment DEF Asked
  <2> QED
    BY <2>2, <2>3, Constants DEF GoodReply, SegmentReplyOf
<1>4. DatagramsInv'
  <2>1. /\ requests' \subseteq requests /\ filesize' = filesize /\ size' = size
        /\ \A r \in replies' : r \in replies \/ \E s \in requests : r = SegmentReplyOf(s)
    BY DEF OwnerServes, DatagramLost
  <2>2. requests \subseteq Asked /\ \A r \in replies : GoodReply(r)
    BY DEF TransferInv, DatagramsInv
  <2>3. \A r \in replies' : GoodReply(r)
    BY <1>3, <2>1, <2>2, Zenon
  <2>4. \A r \in replies' : GoodReply(r)'
    BY <2>1, <2>3 DEF GoodReply, Asked
  <2> QED
    BY <2>1, <2>2, <2>4 DEF DatagramsInv, Asked
<1>5. UNCHANGED <<size, filesize, held, right, beyond>>
  BY DEF OwnerServes, DatagramLost
<1> QED
  BY <1>2, <1>4, <1>5, BytesUntouched DEF TransferInv

(* What TakeReply does with what it reads. *)
Taken(r, s, n) ==
  /\ up
  /\ replies' \in {replies, replies \ {r}}
  /\ (\/ /\ held' = held \cup {s}
         /\ right' = (right \ (s * SegmentSize .. s * SegmentSize + n - 1))
                       \cup {o \in s * SegmentSize .. s * SegmentSize + r.data - 1 :
                               o < size /\ o < filesize}
         /\ beyond' = (beyond \/ (n > 0 /\ s * SegmentSize + n > filesize))
         /\ UNCHANGED up
      \/ /\ n > 0 /\ s * SegmentSize + n > filesize
         /\ up' = FALSE /\ beyond' = TRUE
         /\ UNCHANGED <<held, right>>)
  /\ UNCHANGED <<size, filesize, sources, requests, written>>

LEMMA TakeReplyKeeps == TransferInv /\ TakeReply => TransferInv'
<1> SUFFICES ASSUME TransferInv, TakeReply PROVE TransferInv'
  OBVIOUS
<1>reply. PICK r \in replies : \E s \in SegmentsRead(r) : \E n \in SizesRead(r) : Taken(r, s, n)
  BY DEF TakeReply, Taken
<1>segment. PICK s \in SegmentsRead(r) : \E n \in SizesRead(r) : Taken(r, s, n)
  BY <1>reply
<1>1. PICK n \in SizesRead(r) : Taken(r, s, n)
  BY <1>segment
<1> DEFINE past == n > 0 /\ First(s) + n > filesize
           lost == First(s) .. First(s) + n - 1
           new == {o \in First(s) .. First(s) + r.data - 1 : o < size /\ o < filesize}
<1>2. /\ replies' \subseteq replies
      /\ UNCHANGED <<size, filesize, sources, requests, written>>
  BY <1>1 DEF Taken
<1>3. \/ /\ held' = held \cup {s} /\ right' = (right \ lost) \cup new
         /\ beyond' = (beyond \/ past) /\ up' = up
      \/ past /\ up' = FALSE /\ beyond' = TRUE /\ held' = held /\ right' = right
  BY <1>1 DEF First, Taken
<1>4. filesize # 0 /\ filesize \in Nat /\ size \in Nat /\ GoodReply(r)
  BY SizeTypes DEF TransferInv, SizesInv, DatagramsInv
<1>5. s \in Nat
  <2>1. r.segment \in Nat
    BY <1>4 DEF GoodReply
  <2>2. NumSegmentsOf(filesize) \in Nat
    BY <1>4, LastSegment
  <2> QED
    BY <2>1, <2>2 DEF SegmentsRead
<1>6. WholeHeaders => s = r.segment /\ n = r.size
  BY WholeReplies
<1>7. First(s) \in Nat
  BY <1>5, SegmentsApart
<1>8. WholeHeaders => lost = Overwritten(r) /\ new = Carried(r)
  BY <1>6, Zenon DEF Overwritten, Carried
<1>9. WholeHeaders /\ size < SizeField /\ past => 2 * (size % SegmentSize) < SegmentSize
  BY <1>6, PastTheEnd
<1>10. new \subseteq 0 .. filesize - 1
  <2>1. r.data \in Int
    BY <1>4 DEF GoodReply
  <2> QED
    BY <2>1, <1>4, <1>7
<1>11. past \in BOOLEAN
  OBVIOUS
<1> HIDE DEF past, lost, new
<1>12. SizesInv'
  <2>1. beyond' \in BOOLEAN
    BY <1>3, <1>11, Zenon DEF TransferInv, SizesInv
  <2>2. up' \in BOOLEAN
    BY <1>3, Zenon DEF TransferInv, SizesInv
  <2> QED
    BY <1>2, <1>4, <2>1, <2>2, Zenon DEF TransferInv, SizesInv
<1>13. DatagramsInv'
  BY <1>2 DEF TransferInv, DatagramsInv, GoodReply, Asked
<1>14. held' \subseteq Nat /\ right' \subseteq 0 .. filesize' - 1
  BY <1>2, <1>3, <1>5, <1>10 DEF TransferInv, BytesInv
<1>15. HeldBytesAreRight'
  <2> SUFFICES ASSUME WholeHeaders PROVE \A t \in held' : PartOf(t) \subseteq right'
    BY <1>2 DEF HeldBytesAreRight, WholeHeaders, PartOf, First
  <2>1. \A t \in held : PartOf(t) \subseteq right
    BY HeldParts DEF TransferInv, BytesInv
  <2>2. CASE held' = held /\ right' = right
    BY <2>1, <2>2
  <2>3. CASE held' = held \cup {s} /\ right' = (right \ lost) \cup new
    <3>1. PartOf(s) \subseteq right'
      BY <2>3, <1>6, <1>8, PartIsCarried
    <3>2. ASSUME NEW t \in held, t # s PROVE PartOf(t) \subseteq right'
      <4>1. PartOf(t) \cap Overwritten(r) = {}
        BY <1>6, <3>2, OtherPartsStay DEF TransferInv, BytesInv
      <4> QED
        BY <4>1, <2>1, <2>3, <1>8
    <3> QED
      BY <2>3, <3>1, <3>2
  <2> QED
    BY <1>3, <2>2, <2>3
<1>16. OverrunOnlyByLastSize'
  <2>1. size \in Nat /\ SizeField \in Nat
    BY <1>4, Constants
  <2>2. CASE past
    BY <1>2, <1>9, <2>1, <2>2 DEF OverrunOnlyByLastSize, WholeHeaders
  <2>3. CASE ~past
    BY <1>2, <1>3, <2>3, Zenon DEF TransferInv, OverrunOnlyByLastSize, WholeHeaders
  <2> QED
    BY <2>2, <2>3
<1> QED
  BY <1>12, <1>13, <1>14, <1>15, <1>16 DEF TransferInv, BytesInv

LEMMA TransferKept == TransferInv /\ [TransferNext]_transferVars => TransferInv'
<1> SUFFICES ASSUME TransferInv, [TransferNext]_transferVars PROVE TransferInv'
  OBVIOUS
<1>1. CASE UNCHANGED transferVars
  <2>1. SizesInv' /\ DatagramsInv'
    BY <1>1 DEF transferVars, TransferInv, SizesInv, DatagramsInv, GoodReply, Asked
  <2>2. BytesInv' /\ OverrunOnlyByLastSize'
    BY <1>1, BytesUntouched DEF transferVars
  <2> QED
    BY <2>1, <2>2 DEF TransferInv
<1>2. CASE TransferNext
  BY <1>2, LearnSizeKeeps, RequestsKeep, DatagramsKeep, TakeReplyKeeps DEF TransferNext
<1> QED
  BY <1>1, <1>2

THEOREM TransferInvariant == TransferSpec => []TransferInv
BY TransferStarts, TransferKept, PTL DEF TransferSpec

(* Every reply announces 1 to SegmentSize bytes, and rawFile holds nothing *)
(* outside the file, whatever is lost or answered twice.                   *)
THEOREM TransferTypeCorrect == TransferSpec => []TransferTypeOK
<1>1. TransferInv => TransferTypeOK
  <2> SUFFICES ASSUME TransferInv PROVE TransferTypeOK
    OBVIOUS
  <2>1. size \in Nat /\ filesize \in Nat /\ filesize < SizeField
    BY SizeTypes DEF TransferInv
  <2>2. requests \subseteq Nat
    BY <2>1, LastSegment DEF TransferInv, DatagramsInv, Asked
  <2>3. replies \subseteq [segment : Nat, size : 1 .. SegmentSize, data : Int]
    <3> SUFFICES ASSUME NEW r \in replies
                 PROVE  r \in [segment : Nat, size : 1 .. SegmentSize, data : Int]
      OBVIOUS
    <3>1. r \in [segment : Nat, size : Nat, data : Int] /\ r.size = SegmentSizeOf(size, r.segment)
      BY DEF TransferInv, DatagramsInv, GoodReply
    <3>2. r.size \in 1 .. SegmentSize
      BY <2>1, <3>1, SegmentSizes, Constants
    <3> QED
      BY <3>1, <3>2
  <2>4. filesize \in 0 .. SizeField - 1
    BY <2>1, Constants
  <2> QED
    BY <2>2, <2>3, <2>4 DEF TransferInv, SizesInv, BytesInv, TransferTypeOK
<1> QED
  BY <1>1, TransferInvariant, PTL

(* Of a held segment, all but the last four bytes are the file's.          *)
THEOREM HeldBytesRight == TransferSpec => []HeldBytesAreRight
<1>1. TransferInv => HeldBytesAreRight
  BY DEF TransferInv, BytesInv
<1> QED
  BY <1>1, TransferInvariant, PTL

(* What is written to disk is as long as the owner's file, if its size     *)
(* fits in the size field.                                                 *)
THEOREM SizesCorrect == TransferSpec => []SizesAreCorrect
<1>1. TransferInv => SizesAreCorrect
  <2> SUFFICES ASSUME TransferInv, written # NotWritten, size < SizeField
               PROVE  written = size
    BY DEF SizesAreCorrect
  <2>1. filesize # 0 /\ written = filesize
    BY DEF TransferInv, SizesInv
  <2>2. size \in Nat /\ (filesize = size \/ size >= SizeField)
    BY <2>1, SizeTypes DEF TransferInv
  <2> QED
    BY <2>1, <2>2, Constants
<1> QED
  BY <1>1, TransferInvariant, PTL

(* rawFile is overrun through the size of the last segment only.           *)
THEOREM OverrunsOnlyByLastSize == TransferSpec => []OverrunOnlyByLastSize
<1>1. TransferInv => OverrunOnlyByLastSize
  BY DEF TransferInv
<1> QED
  BY <1>1, TransferInvariant, PTL
=============================================================================
