# A verification project for FreeBits

FreeBits (`FreeBits.c`, `Tracker.c`, `Client.c`) is a peer-to-peer file sharing
program. A *manager* process reads `manager.conf`, forks one *tracker* and a
number of *clients*, gives each client its part of the configuration over TCP,
and waits until all of them have exited. From then on tracker and clients talk
over UDP only. This directory holds TLA+ modules of all of these: the tracker and
the clients with the network between them, the bytes of a file on its way, the
timers library, the loop that every process runs, and the start-up with its
configuration file; the TLC runs that check them on small instances; and proofs
by TLAPS for instances of any size.

Line numbers refer to the files under `src/`.

## Inventory

| Component | State | Operations | Interacts by |
|---|---|---|---|
| Manager, `FreeBits.c` | the configuration, its TCP socket, the children | fork tracker, accept its port, fork clients one by one and send each its configuration, wait | TCP, `fork`, `wait` |
| Configuration reader, `Manager.h` | - | `readMgrCfg` | a file, read once |
| Tracker, `Tracker.c` | `st_clientAddrs`, `st_groups`, `st_reqGroups`, `st_terminate` | `handleGroupUpdateRequest`, `createGroupAssignPkt`, `checkIfShouldTerminate`, the receive loop | `GROUP_SHOW_INTEREST` in, `GROUP_ASSIGN` out |
| Client, `Client.c`, `Client.h` | `s_downloads`, `s_ownedFiles`, `sc_clientAddrs`, `sc_groups`, the two round counters | four kinds of timers, five kinds of datagrams | the tracker's two messages and four messages between clients |
| File contents | `rawFile`, `haveFileSegments`, `segmentSizes`, `filesize` | segmenting, `CLNT_SEG_REP`, `writeDownloadedFile` | bytes in `CLNT_SEG_REP` |
| Receive loops, in `clientDoWork` and `trackerDoWork` | a 512-byte buffer, the packet it is copied into | run expired timers, wait 10 microseconds, read one datagram, and more if its `pktsize` says so | the socket, the timers |
| Timers library, `timers.cc`, `timers-c.cc` | an ordered list of events | add, remove, run the head, re-arm | callbacks into tracker and client |
| `tools.cc`, `test-app.*`, build files, sample data | - | - | - |

Each process is single-threaded: one pass of its loop runs one timer or handles
one datagram to its end, so these are the atomic steps of the models. What is
hard is between the processes: datagrams are lost and reordered, requests are
drawn with repetitions and repeated in the next round, replies come when their reason is gone,
clients turn from downloaders to sources while others watch, any client may
exit (by one of two counters of rounds) or crash (there are several buffer
overruns on ordinary paths), and nobody is told. A further difficulty is the
code's own: timers run as soon as the socket has been idle for 10 microseconds
(`Client.c:1572-1587`), so no delay of the configuration can be relied on.

What makes the components correct:

- *tracker*: one slot per file; a record for every neighbour it counts; nothing
  it has told is taken back; it lists only clients that share;
- *client*: it asks only clients that can serve; segments are never cleared or
  lost, and none but a last one is accepted without its data; a file that it serves or calls done is
  complete; the exit rules neither take a serving client away nor keep the
  swarm alive for ever;
- *whole swarm*: a file spreads from clients that have all of it, segment by
  segment; everyone leaves in the end;
- *file contents*: which bytes arrive, the size of what is written, and when
  memory is overrun;
- *receive loops*: a handler sees one whole datagram if it fits the buffer, no
  rest of a packet of up to two buffers is written outside it, and neither timers
  nor datagrams starve but by what the configuration and the clock do;
- *timers*: the list stays sorted by time, loses and repeats nothing whatever
  callbacks do, and is never empty when its head is taken;
- *configuration reader*: every client gets what the file says of it;
- *manager*: one connection at a time, each client with its own configuration and
  the tracker's port, nobody let down but by a failure, and an end of `main`.

`PROJECT.json` lists the hazards line by line with the properties that watch
them.

## Modules

| Module | Content |
|---|---|
| `Protocol` | constants (clients, files, tasks), message types, the UDP network |
| `Tracker` | the tracker, and `TrackerAlone`: the tracker among clients that announce anything |
| `Client` | the client: one action per timer callback and per message handler |
| `Swarm` | tracker and clients over the network, fairness, the properties of the whole |
| `FileSharing` | the abstract specification that `Swarm` implements |
| `Transfer` | the bytes of one file between an owner and a downloader |
| `TimerService` | what the timers library promises: a set of timers with due times |
| `Timers` | the sorted event list and the operations of class `Timers`, which implement `TimerService` |
| `EventLoop` | the loop of a client or a tracker: timers, socket, packets longer than the buffer |
| `Config` | the configuration reader, and what a configuration file says |
| `Manager` | the start of all processes; extends `Config` |
| `MCTracker`, `MCSwarm`, `MCRelay`, `MCTasks`, `MCTransfer`, `MCTimers`, `MCEventLoop`, `MCManager` | instances for TLC |
| `TrackerProofs`, `SwarmProofs`, `TransferProofs`, `TimersProofs`, `EventLoopProofs`, `ManagerProofs` | theorems and proofs |
| `ConfigProofs` | lemmas about the configuration reader, for `ManagerProofs` |
| `QueueProofs` | lemmas about insertion and removal in a sorted sequence, for the two queues |

The modules meet where one process meets another. `Swarm` composes tracker,
clients and network. It lets every timer run at any moment and every datagram be
handled whole; `EventLoop` is why: an idle client does run its timers at any
moment, and packets that fit the buffer are whole (`WholeIfItFits`). What
`EventLoop` assumes of the queue, an ordered insertion before equal times, is
what `Timers` does with absolute times (`AddPlaceProperties` in `TimersProofs`);
only two equal times in different forms, see below, may come in the other order. `Manager` ends where `Swarm` begins, with
clients that know their tasks and the tracker's port, and it assumes of their end
what `EveryoneLeaves` says.

A definition headed "Fault:" is not part of a specification. It is the form that
the definition after it would take with a plausible mistake in the code; each
of them breaks a property of the runs, which shows that the property depends on
that piece of code.

### Network (`Protocol`)

Each leg of the network (client to tracker, tracker to client, client to
client) is a bag of datagrams. `Sent` adds some of the datagrams that are sent
and loses the others; at most `MaxInFlight` are in a leg to or from the tracker
and `MaxBetween` in that between clients, as if receive buffers were that small.
One copy of a datagram leaves the bag when it is handled (`Without`), so it may be
overtaken by any other. A reply that waits for its packet delay in the timer
queue of its sender (`sendClientInfoReply`, `sendClientSegmentReply`,
`sendClientSegmentRequest`) counts as in flight already: its receiver cannot
tell, and a sender that exits loses it as the network might. UDP on one host
does not duplicate datagrams, so the model does not either. What the program itself
sends twice is there twice: the requests of one round, which are drawn with
repetitions (`SegmentRequests`), those of later rounds, and the reply to each of
them.

A file is a model value with a number of segments; a size is that number, and 0
means "not known" as in the code. The abstraction is exact under these
assumptions, which the instances meet: no configured name is a prefix of
another (the lookups compare prefixes), fewer than 25 clients and files,
files below 64 kB whose size is not 31 bytes above a multiple of 32 (with one
byte left of the complement, the cut of four reaches into the segment's number; see
`Transfer`), and datagrams of at most 512 bytes: an INFO_REP of at most 234
segments, fewer than 13 tasks (see `EventLoop`).

### Tracker (`Tracker`)

`st_groups` is a function of the file; its `index` field is the file's slot in
the table, from 1, and 0 while it has none. `TrackerServes` is a whole pass of
the loop: reset `st_terminate`, `HandleGroupUpdateRequest`,
`CreateGroupAssignPkt`, send. The latter has the lookup of the code:
`group = &st_groups[i]` (line 190) where `j` runs, so the group of the k-th
requested file is whatever sits in slot k. If that is the right file, entry and
records are right; if not, size and count are 0 but the records of the wrong
group follow. The packet is allocated for the right groups' records
(lines 143-161), so more wrong ones overrun it; then the tracker may crash.
`CheckIfShouldTerminate` is the 30-second timer. `downClients` is never read and
left out.

### Client (`Client`)

| Code | Action |
|---|---|
| `clientDoWork` up to the loop (1421-1556) | `ClientInit` |
| `enableDownload` | `EnableDownload` |
| `sendInterestToTracker`, with both exits | `SendInterestToTracker` |
| `sendClientInfoRequests` | `SendClientInfoRequests` |
| `sendClientSegmentRequests`, `writeDownloadedFile` | `SendClientSegmentRequests` |
| `handleTrackerGroupUpdate` | `HandleTrackerGroupUpdate` |
| `handleClientInfoRequest`, `handleClientInfoReply` | actions of the same names |
| `handleClientSegmentRequest`, `handleClientSegmentReply` | actions of the same names |

State variables keep the code's names where they can: `nseg` is
`numFileSegments` (0 exactly when `filesize` is 0), `have` is
`haveFileSegments`, `owned` is the set of names in `s_ownedFiles`, `known` and
`sharers` are `sc_groups`, `addrs` is `sc_clientAddrs`, `updates` and
`progress` are `sc_numGroupUpdates` and `sc_numDownloadProgress`.

Undefined behaviour is a choice of outcomes:

- the name of a completed file is copied without NUL into an uninitialised
  structure (582), so lookups that go by the length of that name (258, 389) may
  miss it: `servable` is a nondeterministic part of `owned`;
- `n_type` is unassigned for a client that has a file and does not share it
  (1167): any type is announced;
- `sharingClients` of an owned file is cleared only up to its number of segments
  (1471): `UninitSharers`, a constant of the instance, may start set;
- records behind a count of 0 are read as further entries: a group with the
  empty name (`junk`), which then hides files not known yet, or a crash;
- every `CLNT_SEG_REP` is written four bytes past its packet (396-427), every
  `CLNT_INFO_REQ` two bytes past its (969-975), a downloaded file's segments have
  size 10240 (585) and are copied into 32 bytes, and the last segment may overrun
  `rawFile` (900): the client may crash in each case;
- the group of an owned file is cleared up to its number of segments, which may be
  more than the 25 entries there are (1471): a client with files may crash before
  its loop (`StartStatus`).

A crash and an exit are the same step, `Stop`, since the other processes cannot tell
one from the other. Two more exits are among them: a configured file that cannot be
opened (1424), and a complete file that cannot be written (518).

`full` says of a `CLNT_SEG_REP` that it is known to carry data of the file, and
`CarriesData` when it does: a segment of a file that the server's lookup finds, but
not the last one. The last may be empty. Its announced size is the complement
(1462), of which four bytes are cut (396), so that nothing is left of it if the
size of the file is 28 to 31 bytes above a multiple of 32; and a file relayed by a
downloader has another wrong size for it (589), of which nothing is left for
two segments of 32 to 34 bytes in all. `blank` records segments that were marked as
held although their reply was not known to carry anything, and `NoBlankSegments`
says that only last ones are.

`SegmentRequests` abstracts the random draw: any bag of the requests that
`segmentToClient` allows, of at most `Draws` for each file, since the same segment may
be drawn several times (612) and one without a source is drawn in vain (615). A request to a client whose
address is not known goes to port -1 and is left out. A process that stops loses
its tables; `have`, `owned` and what describes them are kept for the properties.

### File contents (`Transfer`)

A file of a given size in bytes, real segments of 32 bytes, the announced size
modulo 65536 (`htons` on a 32-bit value at 1182, `Tracker.c:309`,
`Client.c:1685`), `LastSize` with the complement of line 1462, and the
`pktsize` of `CLNT_SEG_REP` that counts three of five fields (396). `right` is
the set of offsets of `rawFile` known to hold the file's byte. When less than 4
bytes are left in the last segment the cut goes into the header, and segment
size and number are read from behind the datagram (`SizesRead`, `SegmentsRead`,
the lengths bounded by `JunkSizes`). Datagrams in flight are sets here that stand
for any number of copies: one that is taken may stay. The list of an INFO_REP of
more than `ListedWhole` segments is cut: the first of them are learned, any of the
others may be, or the downloader waits for the rest for ever (`LearnSources`).

### Timers library (`Timers`, `TimerService`)

`eq` is `EventQueue`: a sequence of an expiration time, in the two parts of
`struct timeval`, and a handle; `timeout_` and `next_handle_` are the fields of
the same names, and the handle stands for the `TimerEntry`. `ExecuteNextTimer` is
two steps, because its callback may call the library in between: `StartNextTimer`
takes the head off, and `KeepTimer`, `ChangeTimer` or `DiscardTimer` follow from
the callback's result. `TimevalCmp`, `TimevalSub` and `TimevalAddusecs` are the
arithmetic of the code, including the sum of exactly one second that is not
carried (`timers.cc:132`). `SetClock` lets the wall clock take any reading, also
an earlier one. The pointer walk of `Eq_Add` is the place where it stops
(`AddPlace`). Not in the model: `RandDelay`, and the deletion of the callback
object by the C wrapper.

`TimerService` has no list and no parts of times: a timer is due at the clock's
reading plus its timeout, the earliest one starts. The refinement maps `eq` to
the function of due times.

### Event loop (`EventLoop`)

| Code | Action |
|---|---|
| `if` of `Timers_NextTimerTime`, `ExecuteNextTimer` (1562-1567) | `RunExpired`, to the callback |
| `Timers_AddTimer` in a callback or handler (for example 659) | `AddMessage` |
| the rest of `ExecuteNextTimer` (`timers.cc:388-401`) | `CallbackDone` |
| `select` entered (1569-1571) | `EnterSelect` |
| `select` returns 0 (1577-1587; nothing in the tracker) | `SelectIdle` |
| first `recvfrom` (1592-1607; `Tracker.c:490-508`) | `ReceiveFirst` |
| the loop for the rest (1610-1617; `Tracker.c:511-520`) | `ReceiveRest` |
| the handler of the packet (1620-1650) | `HandlePacket` |

Times are relative (`left`), so that the loop may run for ever in finitely many
states. `Tick` lets time pass anywhere: while the loop waits, between two of its
steps, and while callbacks and handlers run, so that timers may expire again before
the loop comes to its socket. `Delays` are those that a configuration may give, 0
among them (`Client.c:1547-1556` takes any); only the tracker's 30 seconds are not
0. A packet is what was put together: how many bytes came, the length of the
last datagram, and the ranges of bytes that are from other datagrams. Both loops
have their own arguments of the second `recvfrom`: a client asks for
`pktsize - 512` bytes behind the length of the datagram before, the tracker for
one byte at the same place. What does not fit is dropped by the kernel. Handlers
and periodic callbacks of a client add any number of one-shot timers, one by one
(messages that wait for their packet delay; `sendClientSegmentRequests` adds up to
eight for each file); the timers of downloads that are not enabled yet are one-shots
that are there from the start. A rest that leaves the packet is undefined
behaviour: the process goes on, or is `down`.

### Start-up (`Config`, `Manager`)

`Config` has the reader as it is: one pass, five flags (`section`), one line at a
time. A line is its kind and the words `sscanf` finds in it. `Written` says what a
file means in terms of its sections, by the places of its lines and without a pass;
`ReadsWhatIsWritten` compares the two. `WellFormed` is what the reader takes for granted: ids below the number
of clients, a line of delays for each client, and lines that `sscanf` can read.

`Manager` has one action per system call of `main` at which something else may
come between: the reading of a line, `setupManagerTCPComms`, each `fork`,
`listen`, each `accept` with the messages that follow it, and the end of `wait`.
`status` is the state of each child. A client's stream holds the two halves that
TCP may make of `struct Client`, and the port; the second `recv` has the length of
the whole structure (1306) and may take the port as well (`overrun`), after which
the client waits for a port until the connection closes, which it does only when
every process that inherited it is gone (`Closed`).

Every call that may fail does. In the manager: `SetUp` for
`setupManagerTCPComms` (339-361), `ManagerFails` for `fork`, `accept`, `recv` and
`send` (131, 158, 176-187). The children have inherited the listening socket, so a
connection that the manager has not accepted when it fails stays open, and its
client waits for ever; one that it has accepted is closed, and its client calls
`recv` for ever, which returns 0 (`StructureNeverComes`, `Client.c:1305-1310`). In
the children: `FailEarly` before the loop, `Refused`, and a process that dies between
`connect` and its first message (`silent`), which the manager passes over if it was
a client (`Serve`, 183), and does not notice if it was the tracker
(`AcceptTracker`, 138: the port is then whatever the variable held). `Hang` is the
end of a process that waits for the rest of a long packet for ever
(`Client.c:1612`, `Tracker.c:514`) or runs timers without delay for ever. Only a
`manager.conf` that cannot be opened (`Manager.h:46`) is left out: the program ends
before it has started anything.

## Runs

| Run | Instance | Shows |
|---|---|---|
| `tracker` | 2 clients, 2 files, one client with both tasks and one with the second file in first place | type correctness; `GroupSlots`, `SharersHaveAddresses`, `CountedRecordsFollow`; `TrackerNeverForgets` |
| `swarm` | seed and downloader, one file of 2 segments, limits 2 and 1, three datagrams between clients, with fairness | `SwarmTypeOK`, `NoSegmentBeforeSize`, `OwnedIsComplete`; that the swarm implements `FileSharing` (`SharesFiles`), so that no segment is ever lost; with copies of one round's requests, late and repeated replies: `RepliesRunOut`, `EveryoneLeaves` |
| `relay` | a seed and two downloaders of which one shares, limits 1 | a downloader that becomes a source: `SourcesCanServe`, `NoBlankSegments` |
| `tasks` | two one-segment files that the clients list in opposite order, uninitialised flags, limits 1 | wrong groups, misread records, crashes by overrun, a task that is not shared: `DoneIsOwned`, `SharesFiles` |
| `transfer` | 27 file sizes, up to five segments or beyond 64 kB, lists of segments cut after three | `TransferTypeOK`, `HeldBytesAreRight`, `SizesAreCorrect`, `OverrunOnlyByLastSize` |
| `timers` | three timers, timeouts and clock readings in quarters of a second | `TimersTypeOK`, `KeptSorted`, `EachTimerOnce`, `TimeLeftIsRight`, and that the list implements `TimerService` (`ImplementsService`) |
| `loop` | a client or a tracker, two periodic timers and two that run once, four pairs of delays with and without 0, four sizes of datagrams | `LoopTypeOK`, `HeadExists`, `WritesInside`, `TypeBytesKept`, `WholeIfItFits`, `EarlyOnlyWhenIdle`, `ExpiredRunOut`, `TimersKeepRunning`, `DatagramsAreRead` |
| `manager` | three configuration files, with two, three and one clients | `ManagerTypeOK`, `ReadsWhatIsWritten`, `OwnConfiguration`, `OneAtATime`, `PortReaches`, `NobodyWaitsInVain`, `MainReturns` |
| `neighbors`, `unwilling`, `serving`, `sizes` | as above | one disagreement each of code and documentation, see below |

Bounds. Two clients are enough for every exchange between two; `relay` has three,
the fewest in which a downloader serves another. One datagram per leg (`MaxInFlight
= 1`) still allows loss, delay across any number of steps and the three legs
overtaking each other, because a datagram may stay in flight while its sender goes
through any number of rounds; two in one leg are covered by the proofs, by
`transfer`, where every datagram may have copies, and by `swarm`, where `MaxBetween
= 3` lets three copies of a request or of a reply be in flight, or requests together
with replies that make them useless. The file of `swarm` misses two segments at
first, so that the copies may come from one round's draws or from two rounds.
Without a second datagram no count of rounds would be set back by what brings
nothing new, and `RepliesRunOut` would have nothing to say; the theorem `RepliesEnd`
has it for any number of them. Two segments distinguish a last segment from another,
one-segment files have a case of their own (585-590). The limits (2 and 4 in the
code) are smaller in the runs: `swarm` has 2 and 1, so that a client leaves after
one round without a segment unless a reply sets its count back, which is what
`RepliesRunOut` and `EveryoneLeaves` are about; with the real ones and several
datagrams there are too many states. Only `serving`, which ends at its
counterexample, has 2 and 4. The theorems hold for any limits. The tracker's and the
client's round counters stop at their limits, so no other bound is needed there.

`timers` has three handles: a head, a timer between and a last one, which are the
three places of an insertion and a removal. Quarters of a second make sums below,
at and above one second, and the clock goes forward and back across a whole second.
In `loop` the buffer has 16 bytes in place of 512, and the sizes keep its
proportions: 8 fits, 16 fills it exactly, 28 is cut and may need two rests, and 36
is longer than two buffers. With `MaxQueue = 1` one datagram waits at a time, and
those behind a long one come while the loop waits for its rest; more would only add
states, for the loop never looks behind the first. The delays are 0 for neither, one or both
of the rounds, since that is what keeps a client from its socket. The three files of `manager` are the sample's shape; delays only, given
out of order and one of them twice, with lines behind the end; and several files
of one client with a file that ends without its last terminator.

Deadlock is checked in all runs except those of `Transfer`, where the transfer just
ends, and `manager`, where `main` may stall (see `MainReturns`). `AllStopped` is the
end of `wait` in the manager. A run takes a few seconds to four minutes; `relay` and
`manager` are the longest.

Fairness. `FairSpec` asks for weak fairness of the tracker's termination timer
and of every client's `SendInterestToTracker`. Both timers return 0, so
`ExecuteNextTimer` re-arms them, and an expired timer takes precedence over the
socket (`Client.c:1563-1567`, `Tracker.c:453-459`): a process that runs cannot be
kept from them, which is what `TimersKeepRunning` shows for the loop. Nothing is
assumed of the network, which may lose everything, nor of the timers that are
started per message.

`FairLoopSpec` asks for weak fairness of the loop's step, since the process goes
on unless it waits for a rest, and strong fairness of `Tick`, since time passes.
Nothing is assumed of arrivals, nor of how long callbacks take: `DatagramsAreRead`
holds for the datagrams that come, unless the timers never let the loop through,
and then a periodic timer has no delay or timers expire again and again.
`TimersKeepRunning` holds although datagrams may come in every pass.

`FairManagerSpec` asks for weak fairness of the manager's step, of connecting, of
each client's reading and of exits: these processes run, and children leave in
the end, which `EveryoneLeaves` says of them, but for those that hang: `Hang` may
come before any exit. Nothing is assumed of failures.

### Findings

- `neighbors`: the wrong slot at `Tracker.c:190` sends neighbours that are not
  counted (`NumNeighborsIsListed`, README "Message format").
- `unwilling`: the unassigned `n_type` lets the tracker list a client that does
  not share (`OnlyWillingListed`, comment at `Client.c:1169`).
- `serving`: a client that has everything and only serves exits after four
  rounds although it is being asked (`NoExitWhileServing`, README "Termination
  method"). The obvious change, to count a request as progress, is the fault
  `RequestCountedAsProgress`: it would break `EveryoneLeaves`, for complete
  clients go on asking each other and would keep each other alive.
- `sizes`: of the "320kB or less" of README:61 ("Idiosyncrasies"), files of 64 kB
  and more are written with their size modulo 65536 (`SupportedSizesAreCorrect`), and
  not at all if that is 0. `SizesAreCorrect` says that the size of every smaller file
  is right, whatever is wrong with its bytes.

Further observations, stated in the modules by what holds in spite of them:

- `CLNT_SEG_REP` is four bytes short (`Client.c:396`), against the "full message" of
  README:27; this explains the corruption that the README reports without knowing its
  reason. `HeldBytesAreRight` says that it is the only loss inside a segment that is
  not the last: 28 good bytes of 32, as in `0-csu_cs557_foo.txt`.
- A client runs its first timer whenever the socket has been idle for 10
  microseconds, although the comment there says the timer has expired
  (`Client.c:1576-1579`); `EarlyOnlyWhenIdle` says that this is the only way a
  timer runs early, and that the tracker's never does.
- A packet longer than the buffer is not "the full message" of `README:27`: its
  rest is lost, and later datagrams are taken for it. `WholeIfItFits`,
  `TypeBytesKept` and `WritesInside` say what is still right; a client's packet
  of more than 1024 bytes may be written outside its memory (`Client.c:1612`).
- The manager waits for ever when the tracker connects before `listen`
  (`FreeBits.c:125`) or a client dies before it connects (`FreeBits.c:174`), and a
  client does when its second `recv` swallows the port (`Client.c:1306`) or its
  manager fails before it answers. Nor does the manager's `wait` end while a child
  waits for the rest of a packet. `MainReturns` and `NobodyWaitsInVain` say that these
  are the causes, and whom they reach.
- A periodic timer with delay 0 keeps a client from its socket as long as it takes
  precedence; the configuration may ask for it by a packet delay or a `reqtimeout` of
  0 (`Client.c:1547-1556`). So do timers that expire faster than their callbacks
  run. `ExpiredRunOut` says that there is no third cause.

## Proofs

The theorems hold for all constants that satisfy the assumptions of their
modules. TLC evaluates the assumptions in every run. For tracker and swarm they
are `ProtocolAssumption` and `ClientAssumption`: finite sets of clients and files,
numbers of segments, tasks whose positions differ, limits that are natural
numbers.

- `TrackerTypeCorrect`, `SwarmTypeCorrect`: the type invariants, one lemma per
  action. Two parts of `ClientTypeOK` are there because the proof needs them:
  `enabled` stays within the tasks, and a known size is the real one.
- `GroupsDistinct`, `SharersAddressed`, `CountsTellRecords`: the three safety
  invariants of the tracker, for any number of clients and files. The induction
  needs all of them together (`TrackerInv`): `CountedRecordsFollow` says that a
  datagram to a client counts exactly the records that it carries when a file
  sits in its own slot, and that follows only if slots are unique (`GroupSlots`)
  and every counted client has a record (`SharersHaveAddresses`). The lemmas
  `PositionRange` and `PositionInjective` show that the entries of a datagram have
  the places 1 to n, once each.
- `GroupsOnlyGrow`: no step takes a size, a slot or a sharing client back.
- `TrackerInSwarm`: the same invariants with the real clients around the tracker.
- `OnlyServersAsked`, `RoomForSegments`, `OwnedFilesComplete`, `TasksDone`,
  `SegmentsCarryData`: the safety invariants of the swarm. None is inductive:
  what a client stores comes out of datagrams sent long before, so `SwarmInv`
  adds what each datagram says (`PeerInv`). An INFO_REP was sent by a client that
  serves the file; a SEG_REQ goes to such a client and comes from one that knows
  the size; a SEG_REP lies inside the file and carries data unless it is for the
  last segment. All of it stays true in flight because `servable` and known sizes
  only grow. `HoldingsInv` adds that nothing is held of a file of unknown size, so
  that learning the size clears nothing.
- `SwarmImplementsFileSharing`: with `SwarmInv`, a CLNT_SEG_REP that arrives is
  `Acquire` or a stutter, a round of segment requests is `Finish`, an exit or a
  crash is `Leave`, and every other step stutters. `SegmentsStay` follows from it,
  because no step of `FileSharing` takes a segment away.
- `RepliesEnd`: the safety core of `EveryoneLeaves`. A client leaves after four
  rounds without a segment, and every SEG_REP sets that count back, also one that
  brings nothing new. `Spent` is what is in flight between a client's asking for a
  segment that it meanwhile holds and the reply, every copy of it (`Copies`). It is
  finite; a round asks for nothing that is held, a request becomes at most one reply
  (the lemmas on bags around `CopiesNumbered` and `NewCopiesSent`), so only a new segment
  makes it more, and every count that is set back without one makes it less. So
  between two new segments the count is set back only as often as there were
  datagrams in flight, for any number of clients, any draws and any network. It needs of
  `SwarmInv` that requests are for tasks of the asker and inside the file.

`SwarmInv` has itself been checked by TLC on the instances of `swarm`, `relay` and
`tasks` before it was proved.

- `Transfer` (`TransferAssumption`: a segment is not larger than the range of the
  size field). `TransferTypeCorrect`, `HeldBytesRight`, `SizesCorrect`,
  `OverrunsOnlyByLastSize`, from `TransferInv`: every reply in flight announces
  the owner's size of its segment and carries `Missed` bytes less, and what a
  client believes of the size is the owner's or that modulo the field. The lemmas
  on division (`RestOfSize`, `SizeOnTheWire`, `LastSegment`) carry the arithmetic;
  `SizeOnTheWire` makes `SizesCorrect` say "the owner's size" for every size that the
  field holds, and `SegmentsApart` shows that the bytes of one segment are not touched
  by the reply for another.
- `Timers` (`TimersAssumption`: timeouts whose microseconds fit an int, which is
  36 minutes). `TimersTypeCorrect`, `QueueSorted`, `TimersKept`, `TimeLeftCorrect`
  and `TimersImplementService`, from `TimersInv`. Sortedness is not inductive by
  itself: a comparison by seconds first is a comparison of times only if no event
  has more than a second in its microseconds (`ComparisonOrders`), which
  `DelayIsAdded` shows of `TimevalAddusecs` and the invariant keeps. `QueueGrows`
  and `QueueShrinks` say what an insertion and a removal do to the handles, the
  times and the due times of the queue; they rest on `QueueProofs`.
- `EventLoop` (`EventLoopAssumption`: finitely many timers, at least one of them
  periodic, any delays, packets and a buffer of at least 8 bytes).
  `LoopTypeCorrect`, `HeadAlwaysExists`, `WritesStayInside`, `TypeBytesStay`,
  `PacketsThatFitAreWhole`, `TimersRunOnTime`, from `LoopInv`. For
  `WritesStayInside` the invariant relates offset, length and what has come: the
  first rest of a client's packet goes behind the buffer, every other one to the
  length of the rest before it, which is at most `pktsize - 512`, as is its own;
  twice that is inside a packet of up to two buffers (`RestStaysInside`). The
  queue of the loop keeps its order and every periodic timer whatever callbacks
  add.
  `ExpiredTimersEnd` is the safety core of the two liveness properties of the loop:
  no step but `Tick` makes a timer expired that has a delay above 0, and a callback
  leaves its own timer expired only if its delay is 0. So in a loop without such
  delays every callback that runs between two ticks leaves one expired timer less. It
  rests on what an insertion adds (`Adds`): a timer with its whole delay to wait.
- `Config` and `Manager` (`ManagerAssumption`: well-formed files). `ReaderIsRight`
  says for files of any length and any number of clients that the reader's pass
  yields what the sections of the file say. It is no induction over the file but an
  ordinary invariant of the manager's steps, which read one line each:
  `ReaderOK` (`ConfigProofs`) says of the lines before `line` what section they end
  in and what has been made of each client's lines among them; each kind of line
  extends that by one place, and at the end the lines before `line` are the file.
- `ManagerInvariant` and `StartInvariant` are the invariants of the start-up. A process
  that is forked and has not connected is the one the manager is about to wait for
  (`ForkedInv`), which is `OneConnectionAtATime`; a client that is on its way still
  has the port as the last message of its stream (`StreamInv`), which is
  `PortReachesClients`; the structure in a client's stream, or in its hands, is
  what the file says of it (`DeliveryInv`), which with `ReaderIsRight` is
  `ConfigurationsReach`; whoever the manager waits for is coming, and whoever waits
  for the manager has bytes to read, or is the one client whose turn it was when the
  manager failed (`WaitsInv`), which is `NobodyIsLeftWaiting`, the
  safety core of `MainReturns`. `ManagerTypeCorrect` needs all three.

Only model-checked is the liveness under fairness: `EveryoneLeaves`,
`TimersKeepRunning`, `DatagramsAreRead` and `MainReturns`. Temporal reasoning about
fairness is out of the prover's reach; of each of the four its safety core is
proved, as said above. Every invariant and every action property of the runs that
pass is stated by a theorem.

## Not modelled

- The log files and debug dumps; `pktprob`, which no code reads; `downClients`,
  which is only written.
- `test-app.*`, a demonstration of the timers library, and the wrappers of
  `tools.cc` other than the clock; the build files and the sample data.
- `RandDelay` and the C wrapper's callback objects in the timers library: FreeBits
  does not call the first and never sees the second.
- Names that are prefixes of one another (`Client.c:1754`) and tables of 25
  entries (`Client.c:1744`): the models compare names as wholes and have no such
  bound. Both are listed as hazards without a property. The
  first needs a relation on names in place of equality in every lookup of
  `Client`, which is planned; what lies behind a table depends on the build.
- The bytes that a client serves from a file it has downloaded: its segments have
  size 10240 (585) and are copied into 32 bytes, so the outcome is undefined.
  `Client` has it as a choice, `Transfer` follows the bytes of an original only.
- Lines of the configuration that `sscanf` cannot read.

## Plan

1. Done: `Protocol`, `Tracker`, `Client`, `FileSharing`, `Swarm`, `Transfer`,
   `TimerService`, `Timers`, `EventLoop`, `Config`, `Manager`, with their runs;
   the theorems above.
2. Done since: the start-up for files of any length (`ReaderIsRight` and what rests
   on it), the safety cores of the liveness properties.
3. Open: names that are prefixes of one another, as a relation on the files of
   `Client` in place of equality; the tables of 25 entries.
