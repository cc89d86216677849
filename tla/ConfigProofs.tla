---------------------------- MODULE ConfigProofs ----------------------------
(***************************************************************************)
(* The reader of manager.conf, for any file that is well formed: at every  *)
(* line, what it has stored is what the lines before it say, and its flags *)
(* tell how far it is.                                                     *)
(*                                                                         *)
(* The argument needs no induction on the file: the lines of a section are *)
(* a set of numbers, and a line that comes next is above them all.         *)
(***************************************************************************)
EXTENDS Config, FiniteSetTheorems, SequenceTheorems, TLAPS

(* Numbers of lines, counted.  S stands for the lines of some kind.        *)
LEMMA PlaceType ==
  ASSUME NEW S, IsFiniteSet(S), NEW i
  PROVE  /\ IsFiniteSet({j \in S : j <= i}) /\ Place(S, i) \in Nat
         /\ Place(S, i) <= Cardinality(S)
<1>1. {j \in S : j <= i} \in SUBSET S
  OBVIOUS
<1> QED
  BY <1>1, FS_Subset, FS_CardinalityType DEF Place

LEMMA PlaceGrows ==
  ASSUME NEW S, IsFiniteSet(S), S \subseteq Int, NEW i \in Int, NEW k \in Int, i <= k
  PROVE  /\ Place(S, i) <= Place(S, k)
         /\ \A x \in S : i < x /\ x <= k => Place(S, i) < Place(S, k)
<1> DEFINE A == {j \in S : j <= i}
           B == {j \in S : j <= k}
<1>1. A \in SUBSET B
  <2>1. \A j \in S : j \in Int
    OBVIOUS
  <2>2. \A j \in S : j <= i => j <= k
    BY <2>1
  <2> QED
    BY <2>2
<1>2. IsFiniteSet(B) /\ Cardinality(A) \in Nat /\ Cardinality(B) \in Nat
  BY PlaceType DEF Place
<1>3. ASSUME NEW x \in S, i < x, x <= k
      PROVE  A # B
  <2>1. x \in B /\ x \notin A
    BY <1>3
  <2> QED
    BY <2>1
<1>4. Place(S, i) = Cardinality(A) /\ Place(S, k) = Cardinality(B)
  BY DEF Place
<1> HIDE DEF A, B
<1>5. Cardinality(A) <= Cardinality(B) /\ (Cardinality(B) = Cardinality(A) => B = A)
  BY <1>1, <1>2, FS_Subset
<1> QED
  BY <1>2, <1>3, <1>4, <1>5

LEMMA PlaceNext ==
  ASSUME NEW S, IsFiniteSet(S), S \subseteq Int, NEW i \in Int
  PROVE  Place(S, i) = Place(S, i - 1) + (IF i \in S THEN 1 ELSE 0)
<1> DEFINE A == {j \in S : j <= i - 1}
<1>1. IsFiniteSet(A) /\ Cardinality(A) \in Nat /\ Place(S, i - 1) = Cardinality(A)
  BY PlaceType DEF Place
<1>2. i \notin A
  OBVIOUS
<1>3. /\ i \in S => {j \in S : j <= i} = A \cup {i}
      /\ i \notin S => {j \in S : j <= i} = A
  <2>1. \A j \in S : j <= i <=> j <= i - 1 \/ j = i
    OBVIOUS
  <2> QED
    BY <2>1
<1>4. /\ i \in S => Place(S, i) = Cardinality(A \cup {i})
      /\ i \notin S => Place(S, i) = Cardinality(A)
  BY <1>3 DEF Place
<1> HIDE DEF A
<1>5. Cardinality(A \cup {i}) = Cardinality(A) + 1
  BY <1>1, <1>2, FS_AddElement
<1> QED
  BY <1>1, <1>4, <1>5

LEMMA PlaceOfNone ==
  ASSUME NEW S, NEW i, \A x \in S : ~(x <= i)
  PROVE  Place(S, i) = 0
<1>1. {j \in S : j <= i} = {}
  OBVIOUS
<1> QED
  BY <1>1, FS_EmptySet DEF Place

LEMMA PlaceOfAll ==
  ASSUME NEW S, NEW i, \A x \in S : x <= i
  PROVE  Place(S, i) = Cardinality(S)
<1>1. {j \in S : j <= i} = S
  OBVIOUS
<1> QED
  BY <1>1 DEF Place

(* A line is found again by its place. *)
LEMMA NthIsUnique ==
  ASSUME NEW S, IsFiniteSet(S), S \subseteq Int, NEW i \in S
  PROVE  Nth(S, Place(S, i)) = i
<1>1. \A j \in S : Place(S, j) = Place(S, i) => j = i
  <2> SUFFICES ASSUME NEW j \in S, Place(S, j) = Place(S, i), j # i PROVE FALSE
    OBVIOUS
  <2>1. Place(S, i) \in Nat /\ i \in Int /\ j \in Int
    BY PlaceType
  <2>2. CASE i < j
    <3>1. i <= j
      BY <2>1, <2>2
    <3>2. Place(S, i) < Place(S, j)
      <4>1. \A x \in S : i < x /\ x <= j => Place(S, i) < Place(S, j)
        BY <2>1, <3>1, PlaceGrows, Zenon
      <4> QED
        BY <2>1, <2>2, <4>1
    <3> QED
      BY <2>1, <3>2
  <2>3. CASE j < i
    <3>1. j <= i
      BY <2>1, <2>3
    <3>2. Place(S, j) < Place(S, i)
      <4>1. \A x \in S : j < x /\ x <= i => Place(S, j) < Place(S, i)
        BY <2>1, <3>1, PlaceGrows, Zenon
      <4> QED
        BY <2>1, <2>3, <4>1
    <3> QED
      BY <2>1, <3>2
  <2> QED
    BY <2>1, <2>2, <2>3
<1>2. {j \in S : Place(S, j) = Place(S, i)} = {i}
  BY <1>1
<1> QED
  BY <1>2 DEF Nth

(* A line below all of S takes the next place. *)
LEMMA NthOfNext ==
  ASSUME NEW S, IsFiniteSet(S), S \subseteq Int, NEW n \in Int, \A j \in S : j < n
  PROVE  /\ Cardinality(S) \in Nat
         /\ IsFiniteSet(S \cup {n}) /\ Cardinality(S \cup {n}) = Cardinality(S) + 1
         /\ Nth(S \cup {n}, Cardinality(S) + 1) = n
         /\ \A k \in 1 .. Cardinality(S) : Nth(S \cup {n}, k) = Nth(S, k)
<1> DEFINE T == S \cup {n}
<1>1. n \notin S /\ Cardinality(S) \in Nat /\ T \subseteq Int
  BY FS_CardinalityType
<1>2. IsFiniteSet(T) /\ Cardinality(T) = Cardinality(S) + 1
  BY <1>1, FS_AddElement
<1>3. \A j \in S : {h \in T : h <= j} = {h \in S : h <= j}
  OBVIOUS
<1>4. \A j \in S : Place(T, j) = Place(S, j)
  BY <1>3 DEF Place
<1>5. Place(T, n) = Cardinality(T)
  <2>1. \A h \in T : h <= n
    OBVIOUS
  <2> QED
    BY <2>1, PlaceOfAll
<1>6. Nth(T, Cardinality(S) + 1) = n
  <2>1. n \in T
    OBVIOUS
  <2> HIDE DEF T
  <2> QED
    BY <1>1, <1>2, <1>5, <2>1, NthIsUnique
<1>7. ASSUME NEW k \in 1 .. Cardinality(S) PROVE Nth(T, k) = Nth(S, k)
  <2>1. {j \in T : Place(T, j) = k} = {j \in S : Place(S, j) = k}
    <3>1. Place(T, n) # k
      BY <1>1, <1>2, <1>5
    <3>2. \A j : j \in T <=> j \in S \/ j = n
      OBVIOUS
    <3> HIDE DEF T
    <3> QED
      BY <1>4, <3>1, <3>2
  <2> HIDE DEF T
  <2> QED
    BY <2>1 DEF Nth
<1> QED
  BY <1>1, <1>2, <1>6, <1>7

LEMMA IntervalEnds == \A m, n \in Nat : 1 .. m = 1 .. n => m = n
<1> SUFFICES ASSUME NEW m \in Nat, NEW n \in Nat, 1 .. m = 1 .. n PROVE m = n
  OBVIOUS
<1>1. (m > 0 => m \in 1 .. n) /\ (n > 0 => n \in 1 .. m)
  OBVIOUS
<1> QED
  BY <1>1

(* A sequence with one value more. *)
LEMMA AppendIsFunction ==
  ASSUME NEW T, NEW n \in Nat, NEW s \in [1 .. n -> T], NEW r \in [1 .. n + 1 -> T],
         \A k \in 1 .. n : r[k] = s[k]
  PROVE  r = Append(s, r[n + 1])
<1>1. s \in Seq(T) /\ r \in Seq(T) /\ r[n + 1] \in T
  BY n + 1 \in Nat, n + 1 \in 1 .. n + 1, SeqDef
<1>2. Len(s) = n /\ Len(r) = n + 1
  <2>1. DOMAIN s = 1 .. n /\ DOMAIN r = 1 .. n + 1
    OBVIOUS
  <2>2. DOMAIN s = 1 .. Len(s) /\ DOMAIN r = 1 .. Len(r) /\ Len(s) \in Nat /\ Len(r) \in Nat
    BY <1>1, LenProperties
  <2>3. 1 .. Len(s) = 1 .. n /\ 1 .. Len(r) = 1 .. n + 1
    BY <2>1, <2>2, Zenon
  <2> QED
    BY <2>2, <2>3, IntervalEnds
<1> DEFINE a == Append(s, r[n + 1])
<1>3. /\ a \in Seq(T) /\ Len(a) = Len(s) + 1
      /\ \A k \in 1 .. Len(s) : a[k] = s[k]
      /\ a[Len(s) + 1] = r[n + 1]
  BY <1>1, AppendProperties
<1> HIDE DEF a
<1>4. \A k \in 1 .. Len(r) : r[k] = a[k]
  BY <1>2, <1>3
<1>5. r = a
  BY <1>1, <1>2, <1>3, <1>4, SeqEqual
<1> QED
  BY <1>5 DEF a

(* What is taken from a section's next line. *)
LEMMA OneLineMore ==
  ASSUME NEW f, NEW S, IsFiniteSet(S), S \subseteq Int, NEW n \in Int, \A j \in S : j < n
  PROVE  /\ LastDelay(f, S \cup {n}) = f[n].words[2]
         /\ FilesOn(f, S \cup {n}) = Append(FilesOn(f, S), f[n].words[2])
         /\ TasksOn(f, S \cup {n}) = Append(TasksOn(f, S), TaskOn(f[n].words))
<1> DEFINE T == S \cup {n}
           m == Cardinality(S)
<1>1. /\ m \in Nat /\ Cardinality(T) = m + 1 /\ Nth(T, m + 1) = n
      /\ \A k \in 1 .. m : Nth(T, k) = Nth(S, k)
  BY NthOfNext
<1> HIDE DEF T
<1>2. InOrder(S) = [k \in 1 .. m |-> Nth(S, k)] /\ InOrder(T) = [k \in 1 .. m + 1 |-> Nth(T, k)]
  BY <1>1 DEF InOrder
<1> HIDE DEF m
<1>3. /\ DOMAIN InOrder(S) = 1 .. m /\ DOMAIN InOrder(T) = 1 .. m + 1 /\ InOrder(T)[m + 1] = n
      /\ \A k \in 1 .. m : k \in 1 .. m + 1 /\ InOrder(T)[k] = InOrder(S)[k]
  BY <1>1, <1>2
<1>4. LastDelay(f, T) = f[n].words[2]
  BY <1>1 DEF LastDelay
<1>5. FilesOn(f, T) = Append(FilesOn(f, S), f[n].words[2])
  <2> DEFINE V == {f[InOrder(T)[k]].words[2] : k \in 1 .. m + 1}
             s == FilesOn(f, S)
             r == FilesOn(f, T)
  <2>1. /\ s = [k \in 1 .. m |-> f[InOrder(S)[k]].words[2]]
        /\ r = [k \in 1 .. m + 1 |-> f[InOrder(T)[k]].words[2]]
    BY <1>3 DEF FilesOn
  <2> HIDE DEF s, r
  <2>2. s \in [1 .. m -> V] /\ r \in [1 .. m + 1 -> V]
    BY <1>3, <2>1
  <2>3. \A k \in 1 .. m : r[k] = s[k]
    BY <1>3, <2>1
  <2>4. r[m + 1] = f[n].words[2]
    BY <1>1, <1>3, <2>1
  <2> HIDE DEF V
  <2>5. r = Append(s, r[m + 1])
    BY <1>1, <2>2, <2>3, AppendIsFunction
  <2> QED
    BY <2>4, <2>5 DEF s, r
<1>6. TasksOn(f, T) = Append(TasksOn(f, S), TaskOn(f[n].words))
  <2> DEFINE V == {TaskOn(f[InOrder(T)[k]].words) : k \in 1 .. m + 1}
             s == TasksOn(f, S)
             r == TasksOn(f, T)
  <2>1. /\ s = [k \in 1 .. m |-> TaskOn(f[InOrder(S)[k]].words)]
        /\ r = [k \in 1 .. m + 1 |-> TaskOn(f[InOrder(T)[k]].words)]
    BY <1>3 DEF TasksOn
  <2> HIDE DEF s, r
  <2>2. s \in [1 .. m -> V] /\ r \in [1 .. m + 1 -> V]
    BY <1>3, <2>1
  <2>3. \A k \in 1 .. m : r[k] = s[k]
    BY <1>3, <2>1
  <2>4. r[m + 1] = TaskOn(f[n].words)
    BY <1>1, <1>3, <2>1
  <2> HIDE DEF V
  <2>5. r = Append(s, r[m + 1])
    BY <1>1, <2>2, <2>3, AppendIsFunction
  <2> QED
    BY <2>4, <2>5 DEF s, r
<1> QED
  BY <1>4, <1>5, <1>6 DEF T

LEMMA NothingOn == \A f : FilesOn(f, {}) = <<>> /\ TasksOn(f, {}) = <<>>
<1>1. InOrder({}) = <<>>
  BY FS_EmptySet DEF InOrder
<1> QED
  BY <1>1 DEF FilesOn, TasksOn
-----------------------------------------------------------------------------
Sections == {"numclients", "reqtimeout", "delays", "files", "tasks", "over", "returned"}

(* What has been read when line l comes next: the flags tell how many data *)
(* lines and terminators, and a client is what the lines say of it.        *)
Before(S, l) == {i \in S : i < l}

DataRead(f, l) == Place(DataLines(f), l - 1)
EndsRead(f, l) == Place(Ends(f), l - 1)

FlagsTell(f, l, m) ==
  /\ m.section = "numclients" => DataRead(f, l) = 0
  /\ m.section = "reqtimeout" => DataRead(f, l) = 1
  /\ m.section \notin {"numclients", "reqtimeout"} => DataRead(f, l) >= 2
  /\ m.section = "delays" => EndsRead(f, l) = 0
  /\ m.section = "files" => EndsRead(f, l) = 1
  /\ m.section = "tasks" => EndsRead(f, l) = 2
  /\ m.section \in {"over", "returned"} => EndsRead(f, l) >= 3

NumbersRead(f, l, m) ==
  /\ DOMAIN m.clients = IF DataRead(f, l) = 0 THEN {} ELSE 0 .. NumberOn(f, 1) - 1
  /\ DataRead(f, l) >= 2 => m.reqtimeout = NumberOn(f, 2)

SoFar(f, l, c) ==
  IF Before(Of(c, f, 1), l) = {} THEN Unset
  ELSE ClientOn(c, f, Before(Of(c, f, 1), l), Before(Of(c, f, 2), l), Before(Of(c, f, 3), l))

ClientsRead(f, l, m) == \A c \in DOMAIN m.clients : m.clients[c] = SoFar(f, l, c)

ReadSoFar(f, l, m) == FlagsTell(f, l, m) /\ NumbersRead(f, l, m) /\ ClientsRead(f, l, m)

ReaderType(m) ==
  /\ DOMAIN m = {"section", "reqtimeout", "clients"}
  /\ m.section \in Sections
  /\ m.clients \in [DOMAIN m.clients -> {Unset} \cup Client]

ReaderOK(f, l, m) == ReaderType(m) /\ ReadSoFar(f, l, m)
-----------------------------------------------------------------------------
LEMMA FileLines ==
  ASSUME NEW f, WellFormed(f), NEW S, S \subseteq DataLines(f)
  PROVE  IsFiniteSet(S) /\ S \subseteq Int /\ S \subseteq 1 .. Len(f)
<1>1. S \in SUBSET (1 .. Len(f)) /\ Len(f) \in Nat
  BY DEF WellFormed, DataLines
<1>2. IsFiniteSet(1 .. Len(f)) /\ 1 .. Len(f) \subseteq Int
  BY <1>1, FS_Interval
<1>3. IsFiniteSet(S)
  BY <1>1, <1>2, FS_Subset
<1> QED
  BY <1>1, <1>2, <1>3

LEMMA Parts ==
  ASSUME NEW f
  PROVE  /\ Body(f) \subseteq DataLines(f) /\ Ends(f) \subseteq Body(f)
         /\ \A k : Section(f, k) \subseteq Body(f) \ Ends(f)
         /\ \A k, c : Of(c, f, k) \subseteq Section(f, k)
BY DEF Body, Ends, Section, Of

LEMMA LineCounts ==
  ASSUME NEW f, WellFormed(f), NEW l \in Int
  PROVE  /\ DataRead(f, l) \in Nat /\ EndsRead(f, l) \in Nat
         /\ DataRead(f, l + 1) = DataRead(f, l) + (IF l \in DataLines(f) THEN 1 ELSE 0)
         /\ EndsRead(f, l + 1) = EndsRead(f, l) + (IF l \in Ends(f) THEN 1 ELSE 0)
         /\ DataRead(f, l + 1) = Place(DataLines(f), l)
         /\ EndsRead(f, l + 1) = Place(Ends(f), l)
<1>1. /\ IsFiniteSet(DataLines(f)) /\ DataLines(f) \subseteq Int
      /\ IsFiniteSet(Ends(f)) /\ Ends(f) \subseteq Int
  <2>1. Ends(f) \subseteq DataLines(f)
    BY Parts
  <2> QED
    BY <2>1, FileLines
<1>2. l + 1 - 1 = l
  OBVIOUS
<1>3. /\ DataRead(f, l + 1) = Place(DataLines(f), l)
      /\ EndsRead(f, l + 1) = Place(Ends(f), l)
  BY <1>2 DEF DataRead, EndsRead
<1>4. /\ Place(DataLines(f), l) = Place(DataLines(f), l - 1) + (IF l \in DataLines(f) THEN 1 ELSE 0)
      /\ Place(Ends(f), l) = Place(Ends(f), l - 1) + (IF l \in Ends(f) THEN 1 ELSE 0)
  BY <1>1, PlaceNext
<1>5. DataRead(f, l) \in Nat /\ EndsRead(f, l) \in Nat
  BY <1>1, PlaceType DEF DataRead, EndsRead
<1> QED
  BY <1>3, <1>4, <1>5 DEF DataRead, EndsRead

(* The two numbers come first. *)
LEMMA BodyIsBehind ==
  ASSUME NEW f, WellFormed(f), NEW l \in Int, DataRead(f, l) <= 2
  PROVE  EndsRead(f, l) = 0 /\ \A i \in Body(f) : ~(i < l)
<1>1. IsFiniteSet(DataLines(f)) /\ DataLines(f) \subseteq Int
  BY FileLines
<1>2. ASSUME NEW i \in Body(f), i < l PROVE FALSE
  <2>1. i \in DataLines(f) /\ Place(DataLines(f), i) > 2 /\ i \in Int
    BY <1>1 DEF Body
  <2>2. i <= l - 1
    BY <1>2, <2>1
  <2>3. Place(DataLines(f), i) <= Place(DataLines(f), l - 1)
    BY <1>1, <2>1, <2>2, PlaceGrows
  <2>4. Place(DataLines(f), i) \in Nat /\ Place(DataLines(f), l - 1) \in Nat
    BY <1>1, PlaceType
  <2> QED
    BY <2>1, <2>3, <2>4 DEF DataRead
<1>3. \A i \in Ends(f) : ~(i <= l - 1)
  <2>1. \A i \in Ends(f) : i \in Body(f) /\ i \in Int
    BY <1>1, Parts
  <2> QED
    BY <1>2, <2>1
<1>4. EndsRead(f, l) = 0
  BY <1>3, PlaceOfNone DEF EndsRead
<1> QED
  BY <1>2, <1>4

(* A section's lines are read between its predecessor's end and its own.   *)
LEMMA SectionIsThere ==
  ASSUME NEW f, WellFormed(f), NEW l \in Int, NEW k \in Int, NEW i \in Section(f, k)
  PROVE  /\ i \in Int
         /\ EndsRead(f, l) < k - 1 => ~(i < l)
         /\ EndsRead(f, l) > k - 1 => i < l
<1>1. IsFiniteSet(Ends(f)) /\ Ends(f) \subseteq Int /\ i \in Int
  <2>1. Ends(f) \subseteq DataLines(f) /\ {i} \subseteq DataLines(f)
    BY Parts
  <2> QED
    BY <2>1, FileLines
<1>2. Place(Ends(f), i) = k - 1
  BY DEF Section
<1>3. Place(Ends(f), i) \in Nat /\ Place(Ends(f), l - 1) \in Nat
  BY <1>1, PlaceType
<1>4. CASE i < l
  <2>1. i <= l - 1
    BY <1>1, <1>4
  <2>2. Place(Ends(f), i) <= Place(Ends(f), l - 1)
    BY <1>1, <2>1, PlaceGrows
  <2> QED
    BY <1>1, <1>2, <1>3, <1>4, <2>2 DEF EndsRead
<1>5. CASE ~(i < l)
  <2>1. l - 1 <= i
    BY <1>1, <1>5
  <2>2. Place(Ends(f), l - 1) <= Place(Ends(f), i)
    BY <1>1, <2>1, PlaceGrows
  <2> QED
    BY <1>1, <1>2, <1>3, <1>5, <2>2 DEF EndsRead
<1> QED
  BY <1>4, <1>5

LEMMA BeforeNext ==
  ASSUME NEW S, S \subseteq Int, NEW l \in Int
  PROVE  Before(S, l + 1) = IF l \in S THEN Before(S, l) \cup {l} ELSE Before(S, l)
<1>1. \A i \in S : i < l + 1 <=> i < l \/ i = l
  OBVIOUS
<1> QED
  BY <1>1 DEF Before

(* What a section's lines say of a client is one line more, or the same.   *)
LEMMA LinesOf ==
  ASSUME NEW f, WellFormed(f), NEW l \in DOMAIN f, NEW c, NEW k
  PROVE  /\ l \in Of(c, f, k) =>
              Before(Of(c, f, k), l + 1) = Before(Of(c, f, k), l) \cup {l}
         /\ l \notin Of(c, f, k) => Before(Of(c, f, k), l + 1) = Before(Of(c, f, k), l)
         /\ IsFiniteSet(Before(Of(c, f, k), l)) /\ Before(Of(c, f, k), l) \subseteq Int
         /\ l \in Int /\ \A i \in Before(Of(c, f, k), l) : i < l
<1> DEFINE O == Of(c, f, k)
           S == Before(O, l)
<1>1. l \in Int
  BY DEF WellFormed
<1>2. O \subseteq DataLines(f) /\ S \subseteq O
  BY Parts DEF Before
<1> HIDE DEF O
<1>3. O \subseteq Int /\ IsFiniteSet(S) /\ S \subseteq Int
  <2>1. S \subseteq DataLines(f)
    BY <1>2
  <2> HIDE DEF S
  <2> QED
    BY <1>2, <2>1, FileLines
<1>4. Before(O, l + 1) = IF l \in O THEN S \cup {l} ELSE S
  BY <1>1, <1>3, BeforeNext
<1>5. \A i \in S : i < l
  BY DEF Before
<1> QED
  BY <1>1, <1>3, <1>4, <1>5 DEF O

LEMMA SoFarIsSame ==
  ASSUME NEW f, WellFormed(f), NEW l \in DOMAIN f, NEW c, \A k \in 1 .. 3 : l \notin Of(c, f, k)
  PROVE  SoFar(f, l + 1, c) = SoFar(f, l, c)
<1>1. ASSUME NEW k \in 1 .. 3 PROVE Before(Of(c, f, k), l + 1) = Before(Of(c, f, k), l)
  <2>1. l \notin Of(c, f, k)
    OBVIOUS
  <2> QED
    BY <2>1, LinesOf
<1>2. /\ Before(Of(c, f, 1), l + 1) = Before(Of(c, f, 1), l)
      /\ Before(Of(c, f, 2), l + 1) = Before(Of(c, f, 2), l)
      /\ Before(Of(c, f, 3), l + 1) = Before(Of(c, f, 3), l)
  BY <1>1
<1> QED
  BY <1>2 DEF SoFar

(* The first two data lines. *)
LEMMA NumberStep ==
  ASSUME NEW f, WellFormed(f), NEW l \in DOMAIN f, l \in DataLines(f), DataRead(f, l) \in {0, 1}
  PROVE  /\ EndsRead(f, l + 1) = 0 /\ DataRead(f, l + 1) = DataRead(f, l) + 1
         /\ NumberOn(f, DataRead(f, l) + 1) = f[l].words[1]
         /\ \A c : SoFar(f, l, c) = Unset /\ SoFar(f, l + 1, c) = Unset
<1>1. l \in Int /\ l + 1 \in Int
  BY DEF WellFormed
<1>2. DataRead(f, l + 1) = DataRead(f, l) + 1 /\ DataRead(f, l + 1) = Place(DataLines(f), l)
  BY <1>1, LineCounts
<1>3. EndsRead(f, l + 1) = 0 /\ \A i \in Body(f) : ~(i < l + 1)
  BY <1>1, <1>2, BodyIsBehind
<1>4. \A i \in Body(f) : ~(i < l)
  BY <1>1, <1>2, BodyIsBehind
<1>5. NumberOn(f, DataRead(f, l) + 1) = f[l].words[1]
  <2>1. IsFiniteSet(DataLines(f)) /\ DataLines(f) \subseteq Int
    BY FileLines
  <2>2. Nth(DataLines(f), Place(DataLines(f), l)) = l
    BY <2>1, NthIsUnique
  <2> QED
    BY <1>2, <2>2 DEF NumberOn
<1>6. \A c : Of(c, f, 1) \subseteq Body(f)
  BY Parts
<1>7. \A c : Before(Of(c, f, 1), l) = {} /\ Before(Of(c, f, 1), l + 1) = {}
  BY <1>3, <1>4, <1>6 DEF Before
<1> QED
  BY <1>2, <1>3, <1>5, <1>7 DEF SoFar

(* The section of a line behind them. *)
LEMMA BodyStep ==
  ASSUME NEW f, WellFormed(f), NEW l \in DOMAIN f, l \in DataLines(f), DataRead(f, l) >= 2
  PROVE  /\ DataRead(f, l + 1) = DataRead(f, l) + 1
         /\ l \in Ends(f) <=> Terminator(f[l].words)
         /\ EndsRead(f, l + 1) = EndsRead(f, l) + (IF l \in Ends(f) THEN 1 ELSE 0)
         /\ \A k \in 1 .. 3 : l \in Section(f, k) <=> l \notin Ends(f) /\ EndsRead(f, l) = k - 1
<1>1. l \in Int
  BY DEF WellFormed
<1>2. /\ DataRead(f, l) \in Nat /\ EndsRead(f, l) \in Nat
      /\ DataRead(f, l + 1) = DataRead(f, l) + 1
      /\ EndsRead(f, l + 1) = EndsRead(f, l) + (IF l \in Ends(f) THEN 1 ELSE 0)
      /\ DataRead(f, l + 1) = Place(DataLines(f), l)
      /\ EndsRead(f, l + 1) = Place(Ends(f), l)
  BY <1>1, LineCounts
<1>3. l \in Body(f)
  BY <1>2 DEF Body
<1>4. l \in Ends(f) <=> Terminator(f[l].words)
  BY <1>3 DEF Ends
<1>5. l \notin Ends(f) => EndsRead(f, l) = Place(Ends(f), l)
  BY <1>2
<1> QED
  BY <1>2, <1>3, <1>4, <1>5 DEF Section

(* Every client has its delays when the first terminator has been read.    *)
LEMMA DelaysFirst ==
  ASSUME NEW f, WellFormed(f), NEW l \in Int, EndsRead(f, l) >= 1,
         NEW c \in 0 .. NumberOn(f, 1) - 1
  PROVE  Before(Of(c, f, 1), l) # {}
<1>1. PICK i : i \in Of(c, f, 1)
  BY DEF WellFormed
<1>2. i \in Section(f, 1)
  BY <1>1 DEF Of
<1>3. EndsRead(f, l) \in Nat
  BY LineCounts
<1>4. i < l
  <2>1. EndsRead(f, l) > 1 - 1
    BY <1>3
  <2> QED
    BY <1>2, <2>1, SectionIsThere
<1> QED
  BY <1>1, <1>4 DEF Before

(* A line of the client's own section, in each of the three. *)
LEMMA TakesDelay ==
  ASSUME NEW f, WellFormed(f), NEW l \in DOMAIN f, EndsRead(f, l) = 0,
         l \in Section(f, 1), \A k \in {2, 3} : l \notin Section(f, k)
  PROVE  SoFar(f, l + 1, f[l].words[1]) =
           [id |-> f[l].words[1], pktdelay |-> f[l].words[2], reqtimeout |-> NumberOn(f, 2),
            files |-> <<>>, tasks |-> <<>>]
<1> DEFINE c == f[l].words[1]
           S == Before(Of(c, f, 1), l)
<1>1. Before(Of(c, f, 1), l + 1) = S \cup {l}
  <2>1. l \in Of(c, f, 1)
    BY DEF Of
  <2> QED
    BY <2>1, LinesOf
<1>2. LastDelay(f, S \cup {l}) = f[l].words[2]
  <2>1. IsFiniteSet(S) /\ S \subseteq Int /\ l \in Int /\ \A i \in S : i < l
    BY LinesOf
  <2> HIDE DEF S
  <2> QED
    BY <2>1, OneLineMore
<1>3. ASSUME NEW k \in {2, 3} PROVE Before(Of(c, f, k), l + 1) = {}
  <2>1. \A i \in Section(f, k) : ~(i < l)
    <3>1. l \in Int /\ k \in Int /\ 0 < k - 1
      BY DEF WellFormed
    <3> QED
      BY <3>1, SectionIsThere
  <2>2. Before(Of(c, f, k), l) = {} /\ l \notin Of(c, f, k)
    BY <2>1, Parts DEF Before
  <2> QED
    BY <2>2, LinesOf
<1>4. S \cup {l} # {}
  OBVIOUS
<1> HIDE DEF S, c
<1>5. SoFar(f, l + 1, c) = ClientOn(c, f, S \cup {l}, {}, {})
  BY <1>1, <1>3, <1>4 DEF SoFar
<1> QED
  BY <1>2, <1>5, NothingOn DEF ClientOn, c

LEMMA TakesFile ==
  ASSUME NEW f, WellFormed(f), NEW l \in DOMAIN f, EndsRead(f, l) >= 1,
         NEW c \in 0 .. NumberOn(f, 1) - 1,
         l \notin Of(c, f, 1), l \in Of(c, f, 2), l \notin Of(c, f, 3)
  PROVE  SoFar(f, l + 1, c) = [SoFar(f, l, c) EXCEPT !.files = Append(@, f[l].words[2])]
<1> DEFINE S(k) == Before(Of(c, f, k), l)
<1>1. /\ Before(Of(c, f, 1), l + 1) = S(1)
      /\ Before(Of(c, f, 2), l + 1) = S(2) \cup {l}
      /\ Before(Of(c, f, 3), l + 1) = S(3)
  BY LinesOf
<1>2. FilesOn(f, S(2) \cup {l}) = Append(FilesOn(f, S(2)), f[l].words[2])
  <2>1. IsFiniteSet(S(2)) /\ S(2) \subseteq Int /\ l \in Int /\ \A i \in S(2) : i < l
    BY LinesOf
  <2> HIDE DEF S
  <2> QED
    BY <2>1, OneLineMore
<1>3. S(1) # {}
  <2>1. l \in Int
    BY DEF WellFormed
  <2> QED
    BY <2>1, DelaysFirst
<1> HIDE DEF S
<1>4. /\ SoFar(f, l, c) = ClientOn(c, f, S(1), S(2), S(3))
      /\ SoFar(f, l + 1, c) = ClientOn(c, f, S(1), S(2) \cup {l}, S(3))
  BY <1>1, <1>3 DEF SoFar, S
<1> DEFINE client == ClientOn(c, f, S(1), S(2), S(3))
<1>5. client.files = FilesOn(f, S(2))
  BY DEF ClientOn
<1>6. ClientOn(c, f, S(1), S(2) \cup {l}, S(3)) = [client EXCEPT !.files = FilesOn(f, S(2) \cup {l})]
  BY DEF ClientOn
<1> HIDE DEF client
<1>7. SoFar(f, l + 1, c) = [client EXCEPT !.files = Append(client.files, f[l].words[2])]
  BY <1>2, <1>4, <1>5, <1>6
<1> QED
  BY <1>4, <1>7 DEF client

LEMMA TakesTask ==
  ASSUME NEW f, WellFormed(f), NEW l \in DOMAIN f, EndsRead(f, l) >= 1,
         NEW c \in 0 .. NumberOn(f, 1) - 1,
         l \notin Of(c, f, 1), l \notin Of(c, f, 2), l \in Of(c, f, 3)
  PROVE  SoFar(f, l + 1, c) = [SoFar(f, l, c) EXCEPT !.tasks = Append(@, TaskOn(f[l].words))]
<1> DEFINE S(k) == Before(Of(c, f, k), l)
<1>1. /\ Before(Of(c, f, 1), l + 1) = S(1)
      /\ Before(Of(c, f, 2), l + 1) = S(2)
      /\ Before(Of(c, f, 3), l + 1) = S(3) \cup {l}
  BY LinesOf
<1>2. TasksOn(f, S(3) \cup {l}) = Append(TasksOn(f, S(3)), TaskOn(f[l].words))
  <2>1. IsFiniteSet(S(3)) /\ S(3) \subseteq Int /\ l \in Int /\ \A i \in S(3) : i < l
    BY LinesOf
  <2> HIDE DEF S
  <2> QED
    BY <2>1, OneLineMore
<1>3. S(1) # {}
  <2>1. l \in Int
    BY DEF WellFormed
  <2> QED
    BY <2>1, DelaysFirst
<1> HIDE DEF S
<1>4. /\ SoFar(f, l, c) = ClientOn(c, f, S(1), S(2), S(3))
      /\ SoFar(f, l + 1, c) = ClientOn(c, f, S(1), S(2), S(3) \cup {l})
  BY <1>1, <1>3 DEF SoFar, S
<1> DEFINE client == ClientOn(c, f, S(1), S(2), S(3))
<1>5. client.tasks = TasksOn(f, S(3))
  BY DEF ClientOn
<1>6. ClientOn(c, f, S(1), S(2), S(3) \cup {l}) = [client EXCEPT !.tasks = TasksOn(f, S(3) \cup {l})]
  BY DEF ClientOn
<1> HIDE DEF client
<1>7. SoFar(f, l + 1, c) = [client EXCEPT !.tasks = Append(client.tasks, TaskOn(f[l].words))]
  BY <1>2, <1>4, <1>5, <1>6
<1> QED
  BY <1>4, <1>7 DEF client
-----------------------------------------------------------------------------
(* A line that changes no client. *)
LEMMA ReaderStepElsewhere ==
  ASSUME NEW f, WellFormed(f), NEW l \in DOMAIN f, NEW m, NEW n,
         m.section \in Sections, ReadSoFar(f, l, m), n.clients = m.clients,
         \A k \in 1 .. 3 : l \notin Section(f, k)
  PROVE  ClientsRead(f, l + 1, n)
<1>1. \A c, k : k \in 1 .. 3 => l \notin Of(c, f, k)
  BY DEF Of
<1>2. \A c : SoFar(f, l + 1, c) = SoFar(f, l, c)
  BY <1>1, SoFarIsSame
<1> QED
  BY <1>2 DEF ReadSoFar, ClientsRead

(* A line that changes the client of its id. *)
LEMMA ReaderStepOneClient ==
  ASSUME NEW f, WellFormed(f), NEW l \in DOMAIN f, NEW m, NEW n, NEW g,
         ClientsRead(f, l, m), DOMAIN n.clients = DOMAIN m.clients,
         \A c \in DOMAIN m.clients :
           n.clients[c] = IF c = f[l].words[1] THEN g ELSE m.clients[c],
         f[l].words[1] \in DOMAIN m.clients => SoFar(f, l + 1, f[l].words[1]) = g
  PROVE  ClientsRead(f, l + 1, n)
<1> DEFINE w == f[l].words[1]
<1>1. ASSUME NEW c, c # w PROVE SoFar(f, l + 1, c) = SoFar(f, l, c)
  <2>1. \A k \in 1 .. 3 : l \notin Of(c, f, k)
    BY <1>1 DEF Of
  <2> QED
    BY <2>1, SoFarIsSame
<1>2. ASSUME NEW c \in DOMAIN n.clients PROVE n.clients[c] = SoFar(f, l + 1, c)
  <2>1. c \in DOMAIN m.clients /\ m.clients[c] = SoFar(f, l, c)
    BY DEF ClientsRead
  <2>2. CASE c = w
    BY <2>1, <2>2
  <2>3. CASE c # w
    BY <1>1, <2>1, <2>3
  <2> QED
    BY <2>2, <2>3
<1> QED
  BY <1>2 DEF ClientsRead

(* The reader keeps to what the file says, line by line. *)
LEMMA ReaderStep ==
  ASSUME NEW f, WellFormed(f), NEW l \in DOMAIN f, NEW m,
         DOMAIN m = {"section", "reqtimeout", "clients"}, m.section \in Sections \ {"returned"},
         ReadSoFar(f, l, m)
  PROVE  ReadSoFar(f, l + 1, TakeLine(m, f[l]))
<1> DEFINE w == f[l].words
           n == TakeLine(m, f[l])
<1>1. l \in Int /\ DataRead(f, l) \in Nat /\ EndsRead(f, l) \in Nat
  <2>1. l \in Int
    BY DEF WellFormed
  <2> QED
    BY <2>1, LineCounts
<1>2. CASE f[l].kind # "data"
  <2>1. n = m
    BY <1>2 DEF TakeLine
  <2>2. l \notin DataLines(f)
    BY <1>2 DEF DataLines
  <2>3. l \notin Ends(f) /\ \A k \in 1 .. 3 : l \notin Section(f, k)
    BY <2>2, Parts
  <2>4. DataRead(f, l + 1) = DataRead(f, l) /\ EndsRead(f, l + 1) = EndsRead(f, l)
    BY <1>1, <2>2, <2>3, LineCounts
  <2>5. ClientsRead(f, l + 1, m)
    BY <2>3, ReaderStepElsewhere
  <2>6. FlagsTell(f, l + 1, m) /\ NumbersRead(f, l + 1, m)
    BY <2>4 DEF ReadSoFar, FlagsTell, NumbersRead
  <2> QED
    BY <2>1, <2>5, <2>6 DEF ReadSoFar
<1>3. CASE f[l].kind = "data"
  <2>1. n = TakeData(m, w) /\ l \in DataLines(f)
    BY <1>3 DEF TakeLine, DataLines
  <2> SUFFICES ReadSoFar(f, l + 1, n)
    OBVIOUS
  <2> HIDE DEF n, w
  <2>2. CASE m.section = "numclients"
    <3>1. n.section = "reqtimeout" /\ n.clients = [c \in 0 .. w[1] - 1 |-> Unset]
      <4>1. n = [m EXCEPT !.section = NextSection[@], !.clients = [c \in 0 .. w[1] - 1 |-> Unset]]
        BY <2>1, <2>2 DEF TakeData
      <4> QED
        BY <2>2, <4>1 DEF NextSection
    <3>2. DataRead(f, l) = 0
      BY <2>2 DEF ReadSoFar, FlagsTell
    <3>3. /\ DataRead(f, l + 1) = 1 /\ NumberOn(f, 1) = w[1]
          /\ \A c : SoFar(f, l + 1, c) = Unset
      BY <2>1, <3>2, NumberStep DEF w
    <3>4. FlagsTell(f, l + 1, n) /\ NumbersRead(f, l + 1, n) /\ ClientsRead(f, l + 1, n)
      BY <3>1, <3>3 DEF FlagsTell, NumbersRead, ClientsRead
    <3> QED
      BY <3>4 DEF ReadSoFar
  <2>3. CASE m.section = "reqtimeout"
    <3>1. n.section = "delays" /\ n.clients = m.clients /\ n.reqtimeout = w[1]
      <4>1. n = [m EXCEPT !.section = NextSection[@], !.reqtimeout = w[1]]
        BY <2>1, <2>3 DEF TakeData
      <4> QED
        BY <2>3, <4>1 DEF NextSection
    <3>2. DataRead(f, l) = 1
      BY <2>3 DEF ReadSoFar, FlagsTell
    <3>3. /\ DataRead(f, l + 1) = 2 /\ NumberOn(f, 2) = w[1] /\ EndsRead(f, l + 1) = 0
          /\ \A c : SoFar(f, l, c) = Unset /\ SoFar(f, l + 1, c) = Unset
      BY <2>1, <3>2, NumberStep DEF w
    <3>4. FlagsTell(f, l + 1, n)
      BY <3>1, <3>3 DEF FlagsTell
    <3>5. NumbersRead(f, l + 1, n)
      BY <3>1, <3>2, <3>3 DEF ReadSoFar, NumbersRead
    <3>6. ClientsRead(f, l + 1, n)
      BY <3>1, <3>3 DEF ReadSoFar, ClientsRead
    <3> QED
      BY <3>4, <3>5, <3>6 DEF ReadSoFar
  <2>4. CASE m.section \in {"delays", "files", "tasks", "over"}
    <3>1. DataRead(f, l) >= 2
      BY <2>4 DEF ReadSoFar, FlagsTell
    <3>2. /\ DataRead(f, l + 1) = DataRead(f, l) + 1
          /\ l \in Ends(f) <=> Terminator(w)
          /\ EndsRead(f, l + 1) = EndsRead(f, l) + (IF l \in Ends(f) THEN 1 ELSE 0)
          /\ \A k \in 1 .. 3 : l \in Section(f, k) <=> l \notin Ends(f) /\ EndsRead(f, l) = k - 1
      BY <2>1, <3>1, BodyStep DEF w
    <3>3. NumbersRead(f, l + 1, n)
      <4>1. n.reqtimeout = m.reqtimeout /\ DOMAIN n.clients = DOMAIN m.clients
        <5>1. \/ n = [m EXCEPT !.section = NextSection[m.section]]
              \/ \E g : n = [m EXCEPT !.clients[w[1]] = g]
          BY <2>1, <2>4 DEF TakeData, TakeFile
        <5> QED
          BY <5>1
      <4> QED
        BY <1>1, <3>1, <3>2, <4>1 DEF ReadSoFar, NumbersRead
    <3>4. CASE m.section = "over"
      <4>1. n.section = "returned" /\ n.clients = m.clients
        <5>1. n = [m EXCEPT !.section = NextSection[@]]
          BY <2>1, <3>4 DEF TakeData
        <5> QED
          BY <3>4, <5>1 DEF NextSection
      <4>2. EndsRead(f, l) >= 3
        BY <3>4 DEF ReadSoFar, FlagsTell
      <4>3. FlagsTell(f, l + 1, n)
        BY <1>1, <3>1, <3>2, <4>1, <4>2 DEF FlagsTell
      <4>4. ClientsRead(f, l + 1, n)
        BY <1>1, <3>2, <4>1, <4>2, ReaderStepElsewhere
      <4> QED
        BY <3>3, <4>3, <4>4 DEF ReadSoFar
    <3>5. CASE m.section \in {"delays", "files", "tasks"} /\ Terminator(w)
      <4>1. n.section = NextSection[m.section] /\ n.clients = m.clients
        <5>1. n = [m EXCEPT !.section = NextSection[m.section]]
          BY <2>1, <3>5 DEF TakeData
        <5> QED
          BY <5>1
      <4>2. FlagsTell(f, l + 1, n)
        BY <1>1, <3>1, <3>2, <3>5, <4>1 DEF ReadSoFar, FlagsTell, NextSection
      <4>3. ClientsRead(f, l + 1, n)
        BY <3>2, <3>5, <4>1, ReaderStepElsewhere
      <4> QED
        BY <3>3, <4>2, <4>3 DEF ReadSoFar
    <3>6. CASE m.section \in {"delays", "files", "tasks"} /\ ~Terminator(w)
      <4>1. n.section = m.section
        <5>1. \E g : n = [m EXCEPT !.clients[w[1]] = g]
          BY <2>1, <3>6 DEF TakeData, TakeFile
        <5> QED
          BY <5>1
      <4>2. FlagsTell(f, l + 1, n)
        BY <1>1, <3>1, <3>2, <3>6, <4>1 DEF ReadSoFar, FlagsTell
      <4>3. /\ m.section = "delays" => EndsRead(f, l) = 0
            /\ m.section = "files" => EndsRead(f, l) = 1
            /\ m.section = "tasks" => EndsRead(f, l) = 2
        BY <3>6 DEF ReadSoFar, FlagsTell
      <4>4. DOMAIN m.clients = 0 .. NumberOn(f, 1) - 1
        BY <3>1, <1>1 DEF ReadSoFar, NumbersRead
      <4>5. ClientsRead(f, l, m) /\ m.reqtimeout = NumberOn(f, 2)
        BY <3>1 DEF ReadSoFar, NumbersRead
      <4>6. w[1] \in DOMAIN m.clients => m.clients[w[1]] = SoFar(f, l, w[1])
        BY <4>5 DEF ClientsRead
      <4>7. CASE m.section = "delays"
        <5> DEFINE g == [id |-> w[1], pktdelay |-> w[2], reqtimeout |-> m.reqtimeout,
                         files |-> <<>>, tasks |-> <<>>]
        <5>1. /\ DOMAIN n.clients = DOMAIN m.clients
              /\ \A c \in DOMAIN m.clients : n.clients[c] = IF c = w[1] THEN g ELSE m.clients[c]
          <6>1. n = [m EXCEPT !.clients[w[1]] = g]
            BY <2>1, <3>6, <4>7 DEF TakeData
          <6> HIDE DEF g
          <6> QED
            BY <6>1
        <5>2. /\ EndsRead(f, l) = 0 /\ l \in Section(f, 1)
              /\ \A k \in {2, 3} : l \notin Section(f, k)
          BY <3>2, <3>6, <4>3, <4>7
        <5>3. SoFar(f, l + 1, w[1]) = g
          BY <4>5, <5>2, TakesDelay DEF w
        <5> HIDE DEF g
        <5>5. ClientsRead(f, l + 1, n)
          BY <4>5, <5>1, <5>3, ReaderStepOneClient, Zenon DEF w
        <5> QED
          BY <3>3, <4>2, <5>5 DEF ReadSoFar
      <4>8. CASE m.section = "files"
        <5> DEFINE g == [m.clients[w[1]] EXCEPT !.files = Append(@, w[2])]
        <5>1. /\ DOMAIN n.clients = DOMAIN m.clients
              /\ \A c \in DOMAIN m.clients : n.clients[c] = IF c = w[1] THEN g ELSE m.clients[c]
          <6>1. n = [m EXCEPT !.clients[w[1]] = g]
            BY <2>1, <3>6, <4>8 DEF TakeData, TakeFile
          <6> HIDE DEF g
          <6> QED
            BY <6>1
        <5>2. /\ EndsRead(f, l) >= 1 /\ l \notin Section(f, 1) /\ l \in Section(f, 2)
              /\ l \notin Section(f, 3)
          BY <3>2, <3>6, <4>3, <4>8
        <5>3. l \notin Of(w[1], f, 1) /\ l \in Of(w[1], f, 2) /\ l \notin Of(w[1], f, 3)
          BY <5>2 DEF Of, w
        <5>4. ASSUME w[1] \in DOMAIN m.clients PROVE SoFar(f, l + 1, w[1]) = g
          <6>1. SoFar(f, l + 1, w[1]) = [SoFar(f, l, w[1]) EXCEPT !.files = Append(@, w[2])]
            BY <4>4, <5>2, <5>3, <5>4, TakesFile DEF w
          <6> QED
            BY <4>6, <5>4, <6>1
        <5> HIDE DEF g
        <5>5. ClientsRead(f, l + 1, n)
          BY <4>5, <5>1, <5>4, ReaderStepOneClient, Zenon DEF w
        <5> QED
          BY <3>3, <4>2, <5>5 DEF ReadSoFar
      <4>9. CASE m.section = "tasks"
        <5> DEFINE g == [m.clients[w[1]] EXCEPT !.tasks = Append(@, TaskOn(w))]
        <5>1. /\ DOMAIN n.clients = DOMAIN m.clients
              /\ \A c \in DOMAIN m.clients : n.clients[c] = IF c = w[1] THEN g ELSE m.clients[c]
          <6>1. n = [m EXCEPT !.clients[w[1]] = g]
            BY <2>1, <3>6, <4>9 DEF TakeData
          <6> HIDE DEF g
          <6> QED
            BY <6>1
        <5>2. /\ EndsRead(f, l) >= 1 /\ l \notin Section(f, 1) /\ l \notin Section(f, 2)
              /\ l \in Section(f, 3)
          BY <3>2, <3>6, <4>3, <4>9
        <5>3. l \notin Of(w[1], f, 1) /\ l \notin Of(w[1], f, 2) /\ l \in Of(w[1], f, 3)
          BY <5>2 DEF Of, w
        <5>4. ASSUME w[1] \in DOMAIN m.clients PROVE SoFar(f, l + 1, w[1]) = g
          <6>1. SoFar(f, l + 1, w[1]) = [SoFar(f, l, w[1]) EXCEPT !.tasks = Append(@, TaskOn(w))]
            BY <4>4, <5>2, <5>3, <5>4, TakesTask DEF w
          <6> QED
            BY <4>6, <5>4, <6>1
        <5> HIDE DEF g
        <5>5. ClientsRead(f, l + 1, n)
          BY <4>5, <5>1, <5>4, ReaderStepOneClient, Zenon DEF w
        <5> QED
          BY <3>3, <4>2, <5>5 DEF ReadSoFar
      <4> QED
        BY <3>3, <3>6, <4>2, <4>7, <4>8, <4>9 DEF ReadSoFar
    <3> QED
      BY <2>4, <3>4, <3>5, <3>6
  <2> QED
    BY <2>2, <2>3, <2>4 DEF Sections
<1> QED
  BY <1>2, <1>3

(* At the end of the file, or behind the tasks, everything has been read.  *)
LEMMA ReaderEnds ==
  ASSUME NEW f, WellFormed(f), NEW l \in 1 .. Len(f) + 1, NEW m, m.section \in Sections,
         ReadSoFar(f, l, m), l > Len(f) \/ m.section = "returned"
  PROVE  /\ DOMAIN m.clients = 0 .. NumberOn(f, 1) - 1
         /\ \A c \in DOMAIN m.clients : m.clients[c] = Written(f)[c]
<1>1. l \in Int /\ Len(f) \in Nat /\ DataRead(f, l) \in Nat /\ EndsRead(f, l) \in Nat
  <2>1. l \in Int /\ Len(f) \in Nat
    BY DEF WellFormed
  <2> QED
    BY <2>1, LineCounts
<1>2. DataRead(f, l) >= 2
  <2>1. CASE m.section = "returned"
    BY <2>1 DEF ReadSoFar, FlagsTell
  <2>2. CASE l > Len(f)
    <3>1. \A x \in DataLines(f) : x <= l - 1
      BY <1>1, <2>2 DEF DataLines, WellFormed
    <3>2. DataRead(f, l) = Cardinality(DataLines(f))
      BY <3>1, PlaceOfAll DEF DataRead
    <3> QED
      BY <3>2 DEF WellFormed
  <2> QED
    BY <2>1, <2>2
<1>3. ASSUME NEW k \in 1 .. 3, NEW i \in Section(f, k) PROVE i < l
  <2>1. CASE m.section = "returned"
    <3>1. EndsRead(f, l) >= 3
      BY <2>1 DEF ReadSoFar, FlagsTell
    <3>2. k \in Int /\ EndsRead(f, l) > k - 1
      BY <1>1, <3>1
    <3> QED
      BY <1>1, <3>2, SectionIsThere
  <2>2. CASE l > Len(f)
    <3>1. i \in DataLines(f)
      BY Parts
    <3>2. i \in 1 .. Len(f)
      BY <3>1 DEF DataLines, WellFormed
    <3> QED
      BY <1>1, <2>2, <3>2
  <2> QED
    BY <2>1, <2>2
<1>4. ASSUME NEW c, NEW k \in 1 .. 3 PROVE Before(Of(c, f, k), l) = Of(c, f, k)
  BY <1>3, Parts DEF Before
<1>5. DOMAIN m.clients = 0 .. NumberOn(f, 1) - 1
  BY <1>1, <1>2 DEF ReadSoFar, NumbersRead
<1>6. ASSUME NEW c \in DOMAIN m.clients PROVE m.clients[c] = Written(f)[c]
  <2>1. Of(c, f, 1) # {}
    BY <1>5 DEF WellFormed
  <2>2. m.clients[c] = SoFar(f, l, c)
    BY DEF ReadSoFar, ClientsRead
  <2>3. /\ Before(Of(c, f, 1), l) = Of(c, f, 1)
        /\ Before(Of(c, f, 2), l) = Of(c, f, 2)
        /\ Before(Of(c, f, 3), l) = Of(c, f, 3)
    BY <1>4
  <2>4. m.clients[c] = ClientOn(c, f, Of(c, f, 1), Of(c, f, 2), Of(c, f, 3))
    BY <2>1, <2>2, <2>3 DEF SoFar
  <2>5. Written(f)[c] = ClientOn(c, f, Of(c, f, 1), Of(c, f, 2), Of(c, f, 3))
    BY <1>5 DEF Written
  <2> QED
    BY <2>4, <2>5
<1> QED
  BY <1>5, <1>6

(* The types of what a line is taken for. *)
LEMMA LineTypes ==
  ASSUME NEW f, WellFormed(f), NEW l \in DOMAIN f, l \in DataLines(f), NEW m,
         ReadSoFar(f, l, m)
  PROVE  /\ m.section = "reqtimeout" => f[l].words[1] \in Nat
         /\ m.section \in {"delays", "files", "tasks"} /\ ~Terminator(f[l].words) =>
              f[l].words[1] \in Nat /\ f[l].words[1] \in DOMAIN m.clients
         /\ m.section = "delays" /\ ~Terminator(f[l].words) =>
              f[l].words[2] \in Nat /\ m.reqtimeout \in Nat
         /\ m.section \in {"files", "tasks"} /\ ~Terminator(f[l].words) =>
              m.clients[f[l].words[1]] # Unset
         /\ m.section = "files" /\ ~Terminator(f[l].words) => f[l].words[2] \in STRING
         /\ m.section = "tasks" /\ ~Terminator(f[l].words) =>
              TaskOn(f[l].words) \in Task
<1> DEFINE w == f[l].words
<1>1. l \in Int
  BY DEF WellFormed
<1>2. CASE m.section = "reqtimeout"
  <2>1. DataRead(f, l) = 1
    BY <1>2 DEF ReadSoFar, FlagsTell
  <2>2. NumberOn(f, 2) = w[1]
    BY <2>1, NumberStep
  <2> QED
    BY <1>2, <2>2 DEF WellFormed
<1>3. CASE m.section \in {"delays", "files", "tasks"} /\ ~Terminator(w)
  <2> DEFINE k == IF m.section = "delays" THEN 1 ELSE IF m.section = "files" THEN 2 ELSE 3
  <2>1. DataRead(f, l) >= 2 /\ EndsRead(f, l) = k - 1
    BY <1>3 DEF ReadSoFar, FlagsTell
  <2>2. l \in Section(f, k)
    BY <1>3, <2>1, BodyStep
  <2>3. w[1] \in 0 .. NumberOn(f, 1) - 1 /\ NumberOn(f, 1) \in Nat /\ NumberOn(f, 2) \in Nat
    BY <2>2 DEF WellFormed
  <2>4. DOMAIN m.clients = 0 .. NumberOn(f, 1) - 1 /\ m.reqtimeout = NumberOn(f, 2)
    BY <2>1 DEF ReadSoFar, NumbersRead
  <2>5. k = 2 \/ k = 3 => m.clients[w[1]] # Unset
    <3> SUFFICES ASSUME k = 2 \/ k = 3 PROVE m.clients[w[1]] # Unset
      OBVIOUS
    <3>1. Before(Of(w[1], f, 1), l) # {}
      BY <1>1, <2>1, <2>3, DelaysFirst
    <3>2. m.clients[w[1]] = SoFar(f, l, w[1])
      BY <2>3, <2>4 DEF ReadSoFar, ClientsRead
    <3>3. SoFar(f, l, w[1]).id = w[1]
      BY <3>1 DEF SoFar, ClientOn
    <3> QED
      BY <2>3, <3>2, <3>3 DEF Unset
  <2>6. /\ k = 1 => w[2] \in Nat
        /\ k = 2 => w[2] \in STRING
        /\ k = 3 => TaskOn(w) \in Task
    BY <2>2 DEF WellFormed
  <2> QED
    BY <1>3, <2>3, <2>4, <2>5, <2>6
<1> QED
  BY <1>2, <1>3

LEMMA TypedAppend ==
  ASSUME NEW g \in Client, NEW x
  PROVE  /\ x \in STRING => [g EXCEPT !.files = Append(@, x)] \in Client
         /\ x \in Task =>
              [g EXCEPT !.tasks = Append(@, x)] \in Client
<1>1. g.files \in Seq(STRING) /\ g.tasks \in Seq(Task)
  BY DEF Client
<1>2. x \in STRING => Append(g.files, x) \in Seq(STRING)
  BY <1>1, AppendProperties
<1>3. x \in Task => Append(g.tasks, x) \in Seq(Task)
  BY <1>1, AppendProperties
<1> DEFINE fs == Append(g.files, x)
           ts == Append(g.tasks, x)
<1> HIDE DEF fs, ts
<1>4. fs \in Seq(STRING) => [g EXCEPT !.files = fs] \in Client
  BY DEF Client
<1>5. ts \in Seq(Task) => [g EXCEPT !.tasks = ts] \in Client
  BY DEF Client
<1> QED
  BY <1>2, <1>3, <1>4, <1>5 DEF fs, ts

(* A line keeps the reader's types. *)
LEMMA TypesStep ==
  ASSUME NEW f, WellFormed(f), NEW l \in DOMAIN f, NEW m, m.section # "returned",
         ReaderOK(f, l, m)
  PROVE  ReaderType(TakeLine(m, f[l]))
<1> DEFINE w == f[l].words
           n == TakeLine(m, f[l])
<1> SUFFICES ReaderType(n)
  OBVIOUS
<1>1. /\ DOMAIN m = {"section", "reqtimeout", "clients"} /\ m.section \in Sections \ {"returned"}
      /\ m.clients \in [DOMAIN m.clients -> {Unset} \cup Client]
  BY DEF ReaderOK, ReaderType
<1>2. CASE f[l].kind # "data"
  BY <1>2 DEF TakeLine, ReaderOK
<1>3. CASE f[l].kind = "data"
  <2>1. n = TakeData(m, w) /\ l \in DataLines(f) /\ ReadSoFar(f, l, m)
    BY <1>3 DEF TakeLine, DataLines, ReaderOK
  <2>2. NextSection[m.section] \in Sections
    BY <1>1 DEF Sections, NextSection
  <2> HIDE DEF n
  <2>3. CASE m.section = "numclients"
    <3>1. n = [m EXCEPT !.section = NextSection[@], !.clients = [c \in 0 .. w[1] - 1 |-> Unset]]
      BY <2>1, <2>3 DEF TakeData
    <3>2. /\ DOMAIN n = DOMAIN m /\ n.section = NextSection[m.section]
          /\ n.clients = [c \in 0 .. w[1] - 1 |-> Unset]
      BY <1>1, <3>1
    <3> QED
      BY <1>1, <2>2, <3>2 DEF ReaderType
  <2>4. CASE \/ m.section \in {"reqtimeout", "over"}
             \/ m.section \in {"delays", "files", "tasks"} /\ Terminator(w)
    <3>1. \/ n = [m EXCEPT !.section = NextSection[@], !.reqtimeout = w[1]]
          \/ n = [m EXCEPT !.section = NextSection[@]]
      BY <2>1, <2>4 DEF TakeData
    <3>2. DOMAIN n = DOMAIN m /\ n.section = NextSection[m.section] /\ n.clients = m.clients
      BY <1>1, <3>1
    <3> QED
      BY <1>1, <2>2, <3>2 DEF ReaderType
  <2>5. CASE m.section \in {"delays", "files", "tasks"} /\ ~Terminator(w)
    <3>1. w[1] \in Nat /\ w[1] \in DOMAIN m.clients
      BY <2>1, <2>5, LineTypes
    <3>2. m.clients[w[1]] \in {Unset} \cup Client
      BY <1>1, <3>1
    <3>3. \E g \in Client : n = [m EXCEPT !.clients[w[1]] = g]
      <4>1. CASE m.section = "delays"
        <5> DEFINE g == [id |-> w[1], pktdelay |-> w[2], reqtimeout |-> m.reqtimeout,
                         files |-> <<>>, tasks |-> <<>>]
        <5>1. n = [m EXCEPT !.clients[w[1]] = g]
          BY <2>1, <2>5, <4>1 DEF TakeData
        <5>2. w[2] \in Nat /\ m.reqtimeout \in Nat
          BY <2>1, <2>5, <4>1, LineTypes
        <5>3. g \in Client
          BY <3>1, <5>2 DEF Client
        <5> QED
          BY <5>1, <5>3
      <4>2. CASE m.section = "files"
        <5> DEFINE g == [m.clients[w[1]] EXCEPT !.files = Append(@, w[2])]
        <5>1. n = [m EXCEPT !.clients[w[1]] = g]
          BY <2>1, <2>5, <4>2 DEF TakeData, TakeFile
        <5>2. w[2] \in STRING /\ m.clients[w[1]] \in Client
          BY <2>1, <2>5, <3>2, <4>2, LineTypes
        <5>3. g \in Client
          BY <5>2, TypedAppend
        <5> HIDE DEF g
        <5> QED
          BY <5>1, <5>3
      <4>3. CASE m.section = "tasks"
        <5> DEFINE g == [m.clients[w[1]] EXCEPT !.tasks = Append(@, TaskOn(w))]
        <5>1. n = [m EXCEPT !.clients[w[1]] = g]
          BY <2>1, <2>5, <4>3 DEF TakeData
        <5>2. TaskOn(w) \in Task /\ m.clients[w[1]] \in Client
          BY <2>1, <2>5, <3>2, <4>3, LineTypes
        <5>3. g \in Client
          BY <5>2, TypedAppend
        <5> HIDE DEF g
        <5> QED
          BY <5>1, <5>3
      <4> QED
        BY <2>5, <4>1, <4>2, <4>3
    <3>4. PICK g \in Client : n = [m EXCEPT !.clients[w[1]] = g]
      BY <3>3
    <3>5. /\ DOMAIN n = DOMAIN m /\ n.section = m.section
          /\ n.clients = [m.clients EXCEPT ![w[1]] = g]
      BY <1>1, <3>4
    <3>6. n.clients \in [DOMAIN m.clients -> {Unset} \cup Client]
      BY <1>1, <3>5
    <3> QED
      BY <1>1, <3>5, <3>6 DEF ReaderType
  <2> QED
    BY <1>1, <2>3, <2>4, <2>5 DEF Sections
<1> QED
  BY <1>2, <1>3
-----------------------------------------------------------------------------
(* The reader, from the first line to the last. *)
LEMMA ReaderStarts ==
  ASSUME NEW f, WellFormed(f)
  PROVE  ReaderOK(f, 1, NewManager)
<1>1. DataRead(f, 1) = 0
  <2>1. \A x \in DataLines(f) : ~(x <= 1 - 1)
    BY DEF DataLines, WellFormed
  <2> QED
    BY <2>1, PlaceOfNone DEF DataRead
<1>2. ReaderType(NewManager)
  BY DEF ReaderType, NewManager, Sections
<1>3. ReadSoFar(f, 1, NewManager)
  BY <1>1 DEF ReadSoFar, FlagsTell, NumbersRead, ClientsRead, NewManager
<1> QED
  BY <1>2, <1>3 DEF ReaderOK

LEMMA ReaderGoesOn ==
  ASSUME NEW f, WellFormed(f), NEW l \in DOMAIN f, NEW m, m.section # "returned",
         ReaderOK(f, l, m)
  PROVE  ReaderOK(f, l + 1, TakeLine(m, f[l]))
BY TypesStep, ReaderStep DEF ReaderOK, ReaderType

(* The clients are numbered, and each bears its number. *)
LEMMA WrittenClients ==
  ASSUME NEW f, WellFormed(f)
  PROVE  /\ NumberOn(f, 1) \in Nat
         /\ DOMAIN Written(f) = 0 .. NumberOn(f, 1) - 1
         /\ Cardinality(DOMAIN Written(f)) = NumberOn(f, 1)
         /\ \A c \in DOMAIN Written(f) : Written(f)[c].id = c
<1>1. NumberOn(f, 1) \in Nat /\ DOMAIN Written(f) = 0 .. NumberOn(f, 1) - 1
  BY DEF WellFormed, Written
<1>2. Cardinality(0 .. NumberOn(f, 1) - 1) = NumberOn(f, 1)
  BY <1>1, FS_Interval
<1> QED
  BY <1>1, <1>2 DEF Written, ClientOn

LEMMA ReaderIsThrough ==
  ASSUME NEW f, WellFormed(f), NEW l \in 1 .. Len(f) + 1, NEW m, ReaderOK(f, l, m),
         l > Len(f) \/ m.section = "returned"
  PROVE  m.clients = Written(f)
<1>1. /\ DOMAIN m.clients = 0 .. NumberOn(f, 1) - 1
      /\ \A c \in DOMAIN m.clients : m.clients[c] = Written(f)[c]
  BY ReaderEnds DEF ReaderOK, ReaderType
<1>2. m.clients \in [DOMAIN m.clients -> {Unset} \cup Client]
  BY DEF ReaderOK, ReaderType
<1>3. Written(f) = [c \in 0 .. NumberOn(f, 1) - 1 |-> Written(f)[c]]
  BY DEF Written
<1> QED
  BY <1>1, <1>2, <1>3
=============================================================================
