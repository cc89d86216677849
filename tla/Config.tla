------------------------------- MODULE Config -------------------------------
(***************************************************************************)
(* The reader of manager.conf (Manager.h): it goes through the file once   *)
(* and takes each line for what the flags say it must be by now.           *)
(*                                                                         *)
(* A line is a record: its kind, and for data the numbers and names that   *)
(* sscanf finds in it, in a sequence.                                      *)
(***************************************************************************)
EXTENDS Integers, SequencesExt

Comment == [kind |-> "comment"]
Blank == [kind |-> "blank"]
Data(words) == [kind |-> "data", words |-> words]

(* The memory of a client whose delays have not been read. *)
Unset == [id |-> -1, pktdelay |-> -1, reqtimeout |-> -1, files |-> <<>>, tasks |-> <<>>]

Task == [file : STRING, starttime : Nat, share : {0, 1}]

Client == [id : Nat, pktdelay : Nat, reqtimeout : Nat, files : Seq(STRING), tasks : Seq(Task)]

(* ManagerNew. "section" tells which of the five flags are set. *)
NewManager ==
  [section |-> "numclients", reqtimeout |-> 0, clients |-> [c \in {} |-> Unset]]

NumClients(mgr) == Cardinality(DOMAIN mgr.clients)

(* Every section of several lines ends with a client id of -1. *)
Terminator(words) == words[1] = -1

NextSection ==
  [numclients |-> "reqtimeout", reqtimeout |-> "delays", delays |-> "files", files |-> "tasks",
   tasks |-> "over", over |-> "returned"]

(* Fault: each file takes the place of the one before. *)
TakeLastFileOnly(mgr, words) ==
  [mgr EXCEPT !.clients[words[1]].files = <<words[2]>>]

TakeFile(mgr, words) ==
  [mgr EXCEPT !.clients[words[1]].files = Append(@, words[2])]

TaskOn(words) == [file |-> words[2], starttime |-> words[3], share |-> words[4]]

TakeData(mgr, words) ==
  CASE mgr.section = "numclients" ->
         [mgr EXCEPT !.section = NextSection[@],
                     !.clients = [c \in 0 .. words[1] - 1 |-> Unset]]
    [] mgr.section = "reqtimeout" ->
         [mgr EXCEPT !.section = NextSection[@], !.reqtimeout = words[1]]
    [] mgr.section \in {"delays", "files", "tasks"} /\ Terminator(words) ->
         [mgr EXCEPT !.section = NextSection[@]]
    [] mgr.section = "delays" /\ ~Terminator(words) ->
         [mgr EXCEPT !.clients[words[1]] =
            [id |-> words[1], pktdelay |-> words[2], reqtimeout |-> mgr.reqtimeout,
             files |-> <<>>, tasks |-> <<>>]]
    [] mgr.section = "files" /\ ~Terminator(words) -> TakeFile(mgr, words)
    [] mgr.section = "tasks" /\ ~Terminator(words) ->
         [mgr EXCEPT !.clients[words[1]].tasks = Append(@, TaskOn(words))]
    [] mgr.section = "over" -> [mgr EXCEPT !.section = NextSection[@]]

(* A round of readMgrCfg's loop. *)
TakeLine(mgr, line) == IF line.kind = "data" THEN TakeData(mgr, line.words) ELSE mgr
-----------------------------------------------------------------------------
(* What a configuration file says, in terms of the whole file.  A line is  *)
(* given by its number; a section that is not terminated goes to the end.  *)
DataLines(file) == {i \in DOMAIN file : file[i].kind = "data"}

(* How many of the numbers S come up to i, and the k-th of them. *)
Place(S, i) == Cardinality({j \in S : j <= i})

Nth(S, k) == CHOOSE i \in {j \in S : Place(S, j) = k} : TRUE

InOrder(S) == [k \in 1 .. Cardinality(S) |-> Nth(S, k)]

(* The first two data lines are numbers, and the sections are behind them. *)
NumberOn(file, k) == file[Nth(DataLines(file), k)].words[1]

Body(file) == {i \in DataLines(file) : Place(DataLines(file), i) > 2}

Ends(file) == {i \in Body(file) : Terminator(file[i].words)}

Section(file, k) == {i \in Body(file) \ Ends(file) : Place(Ends(file), i) = k - 1}

Of(c, file, k) == {i \in Section(file, k) : file[i].words[1] = c}

(* What the lines S of a section say of their client. *)
LastDelay(file, S) == file[Nth(S, Cardinality(S))].words[2]

FilesOn(file, S) == [k \in DOMAIN InOrder(S) |-> file[InOrder(S)[k]].words[2]]

TasksOn(file, S) == [k \in DOMAIN InOrder(S) |-> TaskOn(file[InOrder(S)[k]].words)]

ClientOn(c, file, delays, files, tasks) ==
  [id |-> c, pktdelay |-> LastDelay(file, delays), reqtimeout |-> NumberOn(file, 2),
   files |-> FilesOn(file, files), tasks |-> TasksOn(file, tasks)]

Written(file) ==
  [c \in 0 .. NumberOn(file, 1) - 1 |->
     ClientOn(c, file, Of(c, file, 1), Of(c, file, 2), Of(c, file, 3))]

(* A file whose lines sscanf can read, in which every client has its       *)
(* delays and only ids from 0 to the number of clients less one occur, as  *)
(* the comment in manager.conf asks.                                       *)
WellFormed(file) ==
  /\ Len(file) \in Nat /\ DOMAIN file = 1 .. Len(file)
  /\ Cardinality(DataLines(file)) >= 2
  /\ NumberOn(file, 1) \in Nat /\ NumberOn(file, 2) \in Nat
  /\ \A k \in 1 .. 3 : \A i \in Section(file, k) : file[i].words[1] \in 0 .. NumberOn(file, 1) - 1
  /\ \A i \in Section(file, 1) : file[i].words[2] \in Nat
  /\ \A i \in Section(file, 2) : file[i].words[2] \in STRING
  /\ \A i \in Section(file, 3) : TaskOn(file[i].words) \in Task
  /\ \A c \in 0 .. NumberOn(file, 1) - 1 : Of(c, file, 1) # {}
=============================================================================
