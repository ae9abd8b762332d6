-------------------------- MODULE LinuxCommandProofs --------------------------
(***************************************************************************)
(* Machine-checked proofs about LinuxCommand: what data_to_json may rely   *)
(* on when it pairs the lines of a dozen commands by their index, for any  *)
(* items a machine can have and any number of changes and failures.        *)
(***************************************************************************)
EXTENDS LinuxCommand, FiniteOrder

-----------------------------------------------------------------------------
(***************************************************************************)
(* The items of a finite set in order.                                     *)
(***************************************************************************)

Ascending(s) == \A i, j \in DOMAIN s : i < j => s[i] < s[j]

\* A finite set of natural numbers can be listed in ascending order.
LEMMA OrderExists ==
  ASSUME NEW S, S \subseteq Nat, IsFiniteSet(S)
  PROVE  \E s \in [1 .. Cardinality(S) -> S] : Ascending(s)
<1> DEFINE Sortable(T) == \E s \in [1 .. Cardinality(T) -> T] : Ascending(s)
           P == {n \in Nat : \A T \in SUBSET Nat :
                   IsFiniteSet(T) /\ Cardinality(T) = n => Sortable(T)}
<1>1. 0 \in P
  <2> SUFFICES ASSUME NEW T \in SUBSET Nat, IsFiniteSet(T), Cardinality(T) = 0
               PROVE  Sortable(T)
    OBVIOUS
  <2>1. [i \in 1 .. 0 |-> i] \in [1 .. Cardinality(T) -> T]
    OBVIOUS
  <2>2. Ascending([i \in 1 .. 0 |-> i])
    BY DEF Ascending
  <2>3. QED
    BY <2>1, <2>2
<1>2. ASSUME NEW n \in Nat, n \in P PROVE n + 1 \in P
  <2> SUFFICES ASSUME NEW T \in SUBSET Nat, IsFiniteSet(T),
                      Cardinality(T) = n + 1
               PROVE  Sortable(T)
    OBVIOUS
  <2>1. T # {}
    BY FS_EmptySet
  <2>2. PICK m \in T : \A k \in T : k <= m
    BY <2>1, GreatestNatural
  <2>3. IsFiniteSet(T \ {m}) /\ Cardinality(T \ {m}) = n
    <3>1. Cardinality(T \ {m}) = Cardinality(T) - 1
      BY FS_RemoveElement
    <3>2. QED
      BY <3>1, FS_RemoveElement
  <2>4. PICK s \in [1 .. n -> T \ {m}] : Ascending(s)
    BY <1>2, <2>3
  <2> DEFINE t == [i \in 1 .. n + 1 |-> IF i = n + 1 THEN m ELSE s[i]]
  <2>5. t \in [1 .. Cardinality(T) -> T]
    OBVIOUS
  <2>6. Ascending(t)
    <3> SUFFICES ASSUME NEW i \in 1 .. n + 1, NEW j \in 1 .. n + 1, i < j
                 PROVE  t[i] < t[j]
      BY DEF Ascending
    <3>1. i \in 1 .. n /\ s[i] \in T \ {m}
      OBVIOUS
    <3>2. CASE j = n + 1
      <4>1. s[i] <= m /\ s[i] # m /\ s[i] \in Nat /\ m \in Nat
        BY <2>2, <3>1
      <4>2. QED
        BY <3>1, <3>2, <4>1
    <3>3. CASE j # n + 1
      BY <2>4, <3>1, <3>3 DEF Ascending
    <3>4. QED
      BY <3>2, <3>3
  <2>7. QED
    BY <2>5, <2>6
<1>3. Nat \subseteq P
  <2> HIDE DEF P
  <2>1. QED
    BY <1>1, <1>2, SetInduction
<1>4. Cardinality(S) \in P
  BY <1>3, FS_CardinalityType
<1>5. QED
  BY <1>4

\* InOrder(S) lists each element of S, in ascending order.
LEMMA InOrderFacts ==
  ASSUME NEW S, S \subseteq Nat, IsFiniteSet(S)
  PROVE  /\ Cardinality(S) \in Nat
         /\ InOrder(S) \in [1 .. Cardinality(S) -> S]
         /\ InOrder(S) \in Seq(S)
         /\ Len(InOrder(S)) = Cardinality(S)
         /\ Ascending(InOrder(S))
         /\ \A x \in S : \E i \in 1 .. Cardinality(S) : InOrder(S)[i] = x
<1> DEFINE s == InOrder(S)
           n == Cardinality(S)
<1>1. n \in Nat
  BY FS_CardinalityType
<1>2. s \in [1 .. n -> S] /\ Ascending(s)
  BY OrderExists DEF InOrder, Ascending
<1>3. s \in Seq(S) /\ Len(s) = n
  BY <1>1, <1>2
<1>4. s \in Injection(1 .. n, S)
  <2>1. ASSUME NEW i \in 1 .. n, NEW j \in 1 .. n, s[i] = s[j] PROVE i = j
    <3>1. s[i] \in Nat /\ s[j] \in Nat
      BY <1>2
    <3>2. ~(i < j) /\ ~(j < i)
      BY <1>2, <2>1, <3>1 DEF Ascending
    <3>3. QED
      BY <1>1, <3>2
  <2>2. QED
    BY <1>2, <2>1 DEF Injection, IsInjective
<1>5. s \in Surjection(1 .. n, S)
  <2>1. Cardinality(1 .. n) = n
    BY <1>1, FS_Interval
  <2>2. QED
    BY <1>4, <2>1, FS_Injection
<1>6. \A x \in S : \E i \in 1 .. n : s[i] = x
  BY <1>5 DEF Surjection
<1>7. QED
  BY <1>1, <1>2, <1>3, <1>6

LEMMA OrderOfOne == InOrder({1})[1] = 1 /\ DOMAIN InOrder({1}) = {1}
<1>1. Cardinality({1}) = 1 /\ IsFiniteSet({1})
  BY FS_Singleton
<1>2. InOrder({1}) \in [1 .. Cardinality({1}) -> {1}]
  <2>1. {1} \subseteq Nat
    OBVIOUS
  <2>2. QED
    BY <1>1, <2>1, InOrderFacts
<1>3. QED
  BY <1>1, <1>2

\* Items that are added behind all others leave the places of these alone.
LEMMA OrderPrefix ==
  ASSUME NEW S, NEW T, S \subseteq T, T \subseteq Nat, IsFiniteSet(T),
         \A x \in T \ S : \A y \in S : y < x
  PROVE  /\ Cardinality(S) <= Cardinality(T)
         /\ \A i \in 1 .. Cardinality(S) : InOrder(S)[i] = InOrder(T)[i]
<1> DEFINE s == InOrder(S)
           t == InOrder(T)
           wrong == {i \in 1 .. Cardinality(S) : s[i] # t[i]}
<1>1. IsFiniteSet(S) /\ Cardinality(S) <= Cardinality(T)
  BY FS_Subset
<1>2. /\ Cardinality(S) \in Nat
      /\ \A i \in 1 .. Cardinality(S) : s[i] \in S /\ s[i] \in Nat
      /\ \A i, j \in 1 .. Cardinality(S) : i < j => s[i] < s[j]
      /\ \A x \in S : \E i \in 1 .. Cardinality(S) : s[i] = x
  BY <1>1, InOrderFacts DEF Ascending
<1>3. /\ Cardinality(T) \in Nat
      /\ \A i \in 1 .. Cardinality(T) : t[i] \in T /\ t[i] \in Nat
      /\ \A i, j \in 1 .. Cardinality(T) : i < j => t[i] < t[j]
      /\ \A x \in T : \E i \in 1 .. Cardinality(T) : t[i] = x
  BY InOrderFacts DEF Ascending
<1> HIDE DEF s, t
<1>4. ASSUME wrong # {} PROVE FALSE
  <2>1. PICK i \in wrong : \A j \in wrong : i <= j
    <3>1. wrong \subseteq Nat
      OBVIOUS
    <3> HIDE DEF wrong
    <3>2. QED
      BY <1>4, <3>1, LeastNatural
  <2>2. \A j \in 1 .. i - 1 : s[j] = t[j]
    BY <1>2, <2>1
  <2>3. i \in 1 .. Cardinality(S) /\ i \in 1 .. Cardinality(T) /\ s[i] # t[i]
    BY <1>1, <1>2, <1>3, <2>1
  <2>4. PICK k \in 1 .. Cardinality(T) : t[k] = s[i]
    BY <1>2, <1>3, <2>3
  <2>5. ~(k < i)
    <3>1. ASSUME k < i PROVE FALSE
      <4>1. k \in 1 .. Cardinality(S) /\ s[k] = t[k]
        BY <1>2, <1>3, <2>2, <2>3, <3>1
      <4>2. s[k] < s[i] /\ s[i] \in Nat
        BY <1>2, <2>3, <3>1, <4>1
      <4>3. QED
        BY <2>4, <4>1, <4>2
    <3>2. QED
      BY <3>1
  <2>6. i < k
    BY <1>3, <2>3, <2>4, <2>5
  <2>7. /\ t[i] < s[i] /\ t[i] \in Nat /\ s[i] \in Nat
        /\ s[i] \in S /\ t[i] \in T
    BY <1>2, <1>3, <2>3, <2>4, <2>6
  <2>8. t[i] \in S
    <3>1. ASSUME t[i] \notin S PROVE s[i] < t[i]
      BY <2>7, <3>1
    <3>2. QED
      BY <2>7, <3>1
  <2>9. PICK m \in 1 .. Cardinality(S) : s[m] = t[i]
    BY <1>2, <2>8
  <2>10. m < i
    BY <1>2, <2>3, <2>7, <2>9
  <2>11. t[m] = t[i] /\ m \in 1 .. Cardinality(T)
    BY <1>1, <1>2, <1>3, <2>2, <2>9, <2>10
  <2>12. t[m] < t[i]
    BY <1>3, <2>3, <2>10, <2>11
  <2>13. QED
    BY <2>7, <2>11, <2>12
<1>5. QED
  BY <1>1, <1>4 DEF s, t

-----------------------------------------------------------------------------
(***************************************************************************)
(* The commands and their lines.                                           *)
(***************************************************************************)

VectorOf(i) == Commands[i][1]
KindOf(i)   == Commands[i][2]

\* The thirteen commands fill a vector each.
LEMMA CommandFacts ==
  /\ Len(Commands) = 13 /\ DOMAIN Commands = 1 .. 13
  /\ \A i \in 1 .. 13 : VectorOf(i) \in Vector /\ KindOf(i) \in Kind
  /\ \A i, j \in 1 .. 13 : VectorOf(i) = VectorOf(j) => i = j
<1>1. Len(Commands) = 13 /\ DOMAIN Commands = 1 .. 13
  BY DEF Commands
<1>2. \A i \in 1 .. 13 : VectorOf(i) \in Vector
  BY <1>1 DEF Vector, VectorOf
<1>3. \A i \in 1 .. 13 : KindOf(i) \in Kind
  BY DEF KindOf, Commands, Kind, Changing
<1>4. \A i, j \in 1 .. 13 : VectorOf(i) = VectorOf(j) => i = j
  BY DEF VectorOf, Commands
<1>5. QED
  BY <1>1, <1>2, <1>3, <1>4

\* Which command fills which vector, and what it lists.
LEMMA CommandTable ==
  /\ VectorOf(1) = "cpuSource" /\ VectorOf(2) = "cpuMHz"
  /\ VectorOf(3) = "cpuCores" /\ VectorOf(4) = "memoryTotal"
  /\ VectorOf(5) = "memoryAvailable" /\ VectorOf(6) = "diskTotal"
  /\ VectorOf(7) = "diskAvailable" /\ VectorOf(8) = "ethFirst"
  /\ VectorOf(9) = "ethSecond" /\ VectorOf(10) = "dockerId"
  /\ VectorOf(11) = "dockerStats" /\ VectorOf(12) = "macAddress"
  /\ VectorOf(13) = "timestamp"
  /\ \A i \in 1 .. 13 :
       /\ KindOf(i) = "cpu" <=> i \in 1 .. 3
       /\ KindOf(i) = "memory" <=> i \in 4 .. 5
       /\ KindOf(i) = "mount" <=> i \in 6 .. 7
       /\ KindOf(i) = "iface" <=> i \in 8 .. 9
       /\ KindOf(i) = "container" <=> i \in 10 .. 11
       /\ KindOf(i) = "eth0" <=> i = 12
       /\ KindOf(i) = "clock" <=> i = 13
BY DEF VectorOf, KindOf, Commands

\* What a command prints of the items W.
LinesOf(W, k) ==
  IF k # "iface" THEN InOrder(W)
  ELSE [n \in 1 .. 2 * Len(InOrder(W)) |->
          IF n % 2 = 1 THEN InOrder(W)[(n + 1) \div 2] ELSE -InOrder(W)[n \div 2]]

LEMMA LinesAreOf == \A v, k : Lines(v, k) = LinesOf(world[k], k)
BY DEF Lines, LinesOf

LEMMA ItemSets ==
  ASSUME NEW W \in SUBSET Item
  PROVE  W \subseteq Nat /\ IsFiniteSet(W)
BY SampleAssumption, FS_Subset

\* The number of lines, and what they are about.
LEMMA LinesFacts ==
  ASSUME NEW W \in SUBSET Item, NEW k
  PROVE  /\ LinesOf(W, k) \in Seq(Line)
         /\ DOMAIN LinesOf(W, k) =
              1 .. (IF k = "iface" THEN 2 * Cardinality(W) ELSE Cardinality(W))
         /\ Cardinality(W) \in Nat
         /\ k # "iface" => ToSet(LinesOf(W, k)) = W
<1>1. /\ Cardinality(W) \in Nat /\ InOrder(W) \in [1 .. Cardinality(W) -> W]
      /\ InOrder(W) \in Seq(W) /\ Len(InOrder(W)) = Cardinality(W)
      /\ \A x \in W : \E i \in 1 .. Cardinality(W) : InOrder(W)[i] = x
  BY ItemSets, InOrderFacts
<1>2. W \subseteq Line /\ \A x \in W : -x \in Line
  BY DEF Line
<1>3. CASE k # "iface"
  <2>1. InOrder(W) \in Seq(Line)
    BY <1>1, <1>2
  <2>2. ToSet(InOrder(W)) = W
    BY <1>1 DEF ToSet
  <2>3. QED
    BY <1>1, <1>3, <2>1, <2>2 DEF LinesOf
<1>4. CASE k = "iface"
  <2> DEFINE n == 2 * Cardinality(W)
             line(i) == IF i % 2 = 1 THEN InOrder(W)[(i + 1) \div 2]
                                      ELSE -InOrder(W)[i \div 2]
  <2>1. ASSUME NEW i \in 1 .. n PROVE line(i) \in Line
    <3>1. CASE i % 2 = 1
      <4>1. (i + 1) \div 2 \in 1 .. Cardinality(W)
        BY <1>1, <2>1, <3>1
      <4>2. QED
        BY <1>1, <1>2, <3>1, <4>1
    <3>2. CASE i % 2 # 1
      <4>1. i \div 2 \in 1 .. Cardinality(W)
        BY <1>1, <2>1, <3>2
      <4>2. QED
        BY <1>1, <1>2, <3>2, <4>1
    <3>3. QED
      BY <3>1, <3>2
  <2>2. LinesOf(W, k) = [i \in 1 .. n |-> line(i)]
    BY <1>1, <1>4 DEF LinesOf
  <2>3. n \in Nat
    BY <1>1
  <2> HIDE DEF line, n
  <2>4. LinesOf(W, k) \in Seq(Line) /\ DOMAIN LinesOf(W, k) = 1 .. n
    BY <2>1, <2>2, <2>3
  <2>5. QED
    BY <1>1, <1>4, <2>4 DEF n
<1>5. QED
  BY <1>3, <1>4

\* An earlier listing of fewer items begins as a later one does, if those that
\* came stand behind all others.
LEMMA LinesPrefix ==
  ASSUME NEW W \in SUBSET Item, NEW V \in SUBSET Item, W \subseteq V, NEW k,
         \A x \in V \ W : \A y \in W : y < x
  PROVE  \A i \in DOMAIN LinesOf(W, k) :
           i \in DOMAIN LinesOf(V, k) /\ LinesOf(W, k)[i] = LinesOf(V, k)[i]
<1>1. /\ Cardinality(W) \in Nat /\ Len(InOrder(W)) = Cardinality(W)
      /\ Cardinality(V) \in Nat /\ Len(InOrder(V)) = Cardinality(V)
      /\ DOMAIN InOrder(W) = 1 .. Cardinality(W)
      /\ DOMAIN InOrder(V) = 1 .. Cardinality(V)
  BY ItemSets, InOrderFacts
<1>2. /\ Cardinality(W) <= Cardinality(V)
      /\ \A i \in 1 .. Cardinality(W) : InOrder(W)[i] = InOrder(V)[i]
  BY ItemSets, OrderPrefix
<1>3. CASE k # "iface"
  BY <1>1, <1>2, <1>3 DEF LinesOf
<1>4. CASE k = "iface"
  <2> SUFFICES ASSUME NEW i \in DOMAIN LinesOf(W, k)
               PROVE  /\ i \in DOMAIN LinesOf(V, k)
                      /\ LinesOf(W, k)[i] = LinesOf(V, k)[i]
    OBVIOUS
  <2>1. i \in 1 .. 2 * Cardinality(W) /\ i \in DOMAIN LinesOf(V, k)
    BY <1>1, <1>2, <1>4, LinesFacts
  <2>2. CASE i % 2 = 1
    <3>1. (i + 1) \div 2 \in 1 .. Cardinality(W)
      BY <1>1, <2>1, <2>2
    <3>2. QED
      BY <1>1, <1>2, <1>4, <2>1, <2>2, <3>1 DEF LinesOf
  <2>3. CASE i % 2 # 1
    <3>1. i \div 2 \in 1 .. Cardinality(W)
      BY <1>1, <2>1, <2>3
    <3>2. QED
      BY <1>1, <1>2, <1>4, <2>1, <2>3, <3>1 DEF LinesOf
  <2>4. QED
    BY <2>1, <2>2, <2>3
<1>5. QED
  BY <1>3, <1>4

-----------------------------------------------------------------------------
(***************************************************************************)
(* Type correctness.                                                       *)
(***************************************************************************)

LEMMA NextBounds == TypeOK => next \in 1 .. 14
<1>1. Len(Commands) + 1 = 14
  BY CommandFacts
<1>2. QED
  BY <1>1 DEF TypeOK

LEMMA InitTypeOK == Init => TypeOK
<1> SUFFICES ASSUME Init PROVE TypeOK
  OBVIOUS
<1>1. <<>> \in Seq(Line)
  OBVIOUS
<1>2. list \in [Vector -> Seq(Line)]
  BY <1>1 DEF Init
<1>3. next \in 1 .. Len(Commands) + 1
  BY CommandFacts DEF Init
<1>4. root = <<>> /\ world \in [Kind -> SUBSET Item]
  BY DEF Init
<1>5. changes \in 0 .. MaxChanges /\ failures \in 0 .. MaxFailures
  BY SampleAssumption DEF Init
<1>6. /\ ended \in BOOLEAN /\ left \cup joined \cup between \subseteq Changing
      /\ failed \subseteq Kind
  BY DEF Init
<1>7. QED
  BY <1>2, <1>3, <1>4, <1>5, <1>6 DEF TypeOK

\* Values that are read from the vectors are lines or what is behind them.
LEMMA ReadAtType ==
  ASSUME TypeOK, NEW v \in Vector, NEW i
  PROVE  ReadAt(v, i) \in Line \cup {Garbage}
<1>1. list[v] \in Seq(Line)
  BY DEF TypeOK
<1>2. QED
  BY <1>1 DEF ReadAt

LEMMA RowsType ==
  ASSUME TypeOK, NEW v \in Vector, NEW w \in Vector
  PROVE  RowsBy(v, w) \subseteq Line \X (Line \cup {Garbage})
<1>1. list[v] \in Seq(Line)
  BY DEF TypeOK
<1>2. QED
  BY <1>1, ReadAtType DEF RowsBy

LEMMA VectorNames ==
  {"cpuSource", "cpuMHz", "cpuCores", "memoryTotal", "memoryAvailable",
   "diskTotal", "diskAvailable", "ethFirst", "ethSecond", "dockerId",
   "dockerStats", "macAddress", "timestamp"} \subseteq Vector
BY CommandFacts, CommandTable

LEMMA ReportType ==
  ASSUME TypeOK
  PROVE  Report \in [Kind -> SUBSET (Line \X (Line \cup {Garbage}))]
<1>1. 1 \in Line
  BY SampleAssumption DEF Line
<1>2. DockerRows \subseteq Line \X (Line \cup {Garbage})
  <2>1. list["dockerId"] \in Seq(Line)
    BY VectorNames DEF TypeOK
  <2>2. ToSet(list["dockerId"]) \subseteq Line
    BY <2>1 DEF ToSet
  <2>3. QED
    BY <2>2 DEF DockerRows
<1>3. \A k \in Kind : Report[k] \subseteq Line \X (Line \cup {Garbage})
  <2> DEFINE Rows == Line \X (Line \cup {Garbage})
  <2>1. Report["cpu"] \subseteq Rows
    BY VectorNames, RowsType DEF Report, Kind, Changing
  <2>2. Report["mount"] \subseteq Rows
    BY VectorNames, RowsType DEF Report, Kind, Changing
  <2>3. Report["iface"] \subseteq Rows
    BY VectorNames, RowsType DEF Report, Kind, Changing
  <2>4. Report["container"] \subseteq Rows
    BY <1>2 DEF Report, Kind, Changing
  <2>5. Report["memory"] \subseteq Rows
    BY <1>1, VectorNames, ReadAtType DEF Report, Kind, Changing
  <2>6. Report["eth0"] \subseteq Rows
    BY <1>1, VectorNames, ReadAtType DEF Report, Kind, Changing
  <2>7. Report["clock"] \subseteq Rows
    BY <1>1, VectorNames, ReadAtType DEF Report, Kind, Changing
  <2>8. QED
    BY <2>1, <2>2, <2>3, <2>4, <2>5, <2>6, <2>7 DEF Kind, Changing
<1>4. Report = [k \in Kind |-> Report[k]]
  <2> DEFINE row(k) ==
        CASE k = "cpu" -> RowsBy("cpuMHz", "cpuSource") \cup RowsBy("cpuMHz", "cpuCores")
          [] k = "mount" -> RowsBy("diskTotal", "diskAvailable")
          [] k = "iface" -> RowsBy("ethFirst", "ethSecond")
          [] k = "container" -> DockerRows
          [] k = "memory" -> {<<1, ReadAt("memoryTotal", 1)>>,
                              <<1, ReadAt("memoryAvailable", 1)>>}
          [] k = "eth0" -> {<<1, ReadAt("macAddress", 1)>>}
          [] k = "clock" -> {<<1, ReadAt("timestamp", 1)>>}
  <2>1. Report = [k \in Kind |-> row(k)]
    BY DEF Report
  <2> HIDE DEF row
  <2>2. QED
    BY <2>1
<1>5. QED
  BY <1>3, <1>4

\* What WorldChanges does to the kind k.
Changed(k, x) ==
  \/ /\ x \in world[k]
     /\ world' = [world EXCEPT ![k] = world[k] \ {x}]
     /\ left' = left \cup ({k} \cap Listed)
     /\ UNCHANGED <<joined, between>>
  \/ /\ x \notin world[k]
     /\ world' = [world EXCEPT ![k] = world[k] \cup {x}]
     /\ joined' = joined \cup ({k} \cap Listed)
     /\ \/ between' = between \cup ({k} \cap Listed)
        \/ between' = between /\ \A y \in world[k] : ~(y > x)
     /\ UNCHANGED left

LEMMA WorldChange ==
  ASSUME TypeOK, WorldChanges
  PROVE  \E k \in Changing \cap Unlisted, x \in Item : Changed(k, x)
<1>1. PICK k \in Changing \cap Unlisted, x \in Item :
       /\ world' = [world EXCEPT ![k] = IF x \in world[k] THEN world[k] \ {x}
                                                        ELSE world[k] \cup {x}]
       /\ left' = IF x \in world[k] THEN left \cup ({k} \cap Listed) ELSE left
       /\ joined' = IF x \in world[k] THEN joined
                                      ELSE joined \cup ({k} \cap Listed)
       /\ between' = IF x \notin world[k] /\ \E y \in world[k] : y > x
                       THEN between \cup ({k} \cap Listed) ELSE between
  BY DEF WorldChanges
<1>2. CASE x \in world[k]
  BY <1>1, <1>2 DEF Changed
<1>3. CASE x \notin world[k]
  BY <1>1, <1>3 DEF Changed
<1>4. QED
  BY <1>2, <1>3

LEMMA NextTypeOK == TypeOK /\ [Next]_vars => TypeOK'
<1> SUFFICES ASSUME TypeOK, [Next]_vars PROVE TypeOK'
  OBVIOUS
<1>1. CASE ExecCommand
  <2>1. next \in 1 .. 13 /\ next' = next + 1
    BY <1>1, CommandFacts DEF ExecCommand, TypeOK
  <2>2. VectorOf(next) \in Vector /\ KindOf(next) \in Kind
    BY <2>1, CommandFacts
  <2>3. LinesOf(world[KindOf(next)], KindOf(next)) \in Seq(Line)
    BY <2>2, LinesFacts DEF TypeOK
  <2>4. list' \in [Vector -> Seq(Line)]
    BY <1>1, <2>2, <2>3, LinesAreOf DEF ExecCommand, VectorOf, KindOf, TypeOK
  <2>5. failures' \in 0 .. MaxFailures /\ failed' \subseteq Kind
    BY <1>1, <2>2, SampleAssumption DEF ExecCommand, KindOf, TypeOK
  <2>6. next' \in 1 .. Len(Commands) + 1
    BY <2>1, CommandFacts
  <2>7. UNCHANGED <<world, root, ended, changes, left, joined, between>>
    BY <1>1 DEF ExecCommand
  <2>8. QED
    BY <2>4, <2>5, <2>6, <2>7 DEF TypeOK
<1>2. CASE PopenFails
  BY <1>2 DEF PopenFails, history, TypeOK
<1>3. CASE DataToJson
  BY <1>3, ReportType DEF DataToJson, history, TypeOK
<1>4. CASE WorldChanges
  <2>1. PICK k \in Changing \cap Unlisted, x \in Item : Changed(k, x)
    BY <1>4, WorldChange
  <2>2. world' \in [Kind -> SUBSET Item]
    BY <2>1 DEF Changed, TypeOK, Kind
  <2>3. left' \cup joined' \cup between' \subseteq Changing
    BY <2>1 DEF Changed, TypeOK
  <2>4. changes' \in 0 .. MaxChanges
    BY <1>4, SampleAssumption DEF WorldChanges, TypeOK
  <2>5. QED
    BY <1>4, <2>2, <2>3, <2>4 DEF WorldChanges, TypeOK
<1>5. CASE UNCHANGED vars
  BY <1>5 DEF vars, TypeOK
<1>6. QED
  BY <1>1, <1>2, <1>3, <1>4, <1>5 DEF Next

\* Vectors, rows and histories keep their types.
THEOREM SampleTypeCorrect == Spec => []TypeOK
BY InitTypeOK, NextTypeOK, PTL DEF Spec

-----------------------------------------------------------------------------
(***************************************************************************)
(* The inductive invariant: what a listing says of the items there are.    *)
(***************************************************************************)

\* The items W of a listing of kind k, which is over, and those there are now:
\* the same as long as none came or went, no more as long as none went, and
\* before all others as long as none came between.
Relates(W, k) ==
  /\ W \in SUBSET Item
  /\ k \notin left \cup joined => W = world[k]
  /\ k \notin left => W \subseteq world[k]
  /\ k \notin left \cup between => \A x \in world[k] \ W : \A y \in W : y < x

\* No command before the next one is to list k again.
Over(k) == \A i \in next .. 13 : KindOf(i) # k

Listing(i) ==
  LET k == KindOf(i)
  IN  k \notin failed =>
        /\ \E W : Relates(W, k) /\ list[VectorOf(i)] = LinesOf(W, k)
        /\ Over(k) /\ (\A j \in 1 .. 13 : KindOf(j) = k => j <= i) =>
             list[VectorOf(i)] = LinesOf(world[k], k)

SampleInv ==
  /\ TypeOK
  /\ world["memory"] = {1} /\ world["clock"] = {1}
  /\ \A i \in 1 .. next - 1 : Listing(i)
  /\ root # <<>> => next = 14 /\ root = Report

LEMMA InitSample == Init => SampleInv
<1> SUFFICES ASSUME Init PROVE SampleInv
  OBVIOUS
<1>1. TypeOK
  BY InitTypeOK
<1>2. QED
  BY <1>1 DEF Init, SampleInv

\* What the invariant says of the listings hangs on these variables alone.
LEMMA ListingKept ==
  ASSUME UNCHANGED <<world, next, list, left, joined, between, failed>>
  PROVE  \A i : Listing(i)' <=> Listing(i)
BY DEF Listing, Relates, Over, VectorOf, KindOf, LinesOf

LEMMA SameReport == UNCHANGED list => Report' = Report
BY DEF Report, RowsBy, DockerRows, ReadAt

\* A command that prints its lines relates them to the items there are; one
\* that prints none is recorded.
LEMMA ExecSample == SampleInv /\ ExecCommand /\ TypeOK' => SampleInv'
<1> SUFFICES ASSUME SampleInv, ExecCommand, TypeOK' PROVE SampleInv'
  OBVIOUS
<1>1. /\ TypeOK /\ root = <<>> /\ root' = <<>> /\ next \in 1 .. 13
      /\ next' = next + 1
      /\ UNCHANGED <<world, left, joined, between>>
  <2>1. next <= 13
    BY CommandFacts DEF ExecCommand
  <2>2. QED
    BY <2>1, NextBounds DEF SampleInv, ExecCommand, Sampling
<1> DEFINE v == VectorOf(next)
           k == KindOf(next)
<1>2. v \in Vector /\ k \in Kind
  BY <1>1, CommandFacts
<1>3. \/ list' = [list EXCEPT ![v] = LinesOf(world[k], k)] /\ UNCHANGED failed
      \/ failed' = failed \cup {k} /\ UNCHANGED list
  BY LinesAreOf DEF ExecCommand, VectorOf, KindOf
<1>4. ASSUME NEW i \in 1 .. next PROVE Listing(i)'
  <2>1. \A W, j : Relates(W, j)' <=> Relates(W, j)
    BY <1>1 DEF Relates
  <2>2. \A W, j : LinesOf(W, j)' = LinesOf(W, j)
    BY DEF LinesOf
  <2>3. CASE i = next
    <3>1. CASE list' = [list EXCEPT ![v] = LinesOf(world[k], k)]
      <4>1. list'[v] = LinesOf(world[k], k)
        BY <1>1, <1>2, <3>1 DEF TypeOK
      <4>2. Relates(world[k], k)
        BY <1>1, <1>2 DEF Relates, TypeOK
      <4>3. QED
        BY <1>1, <2>1, <2>3, <4>1, <4>2 DEF Listing, VectorOf, KindOf
    <3>2. CASE failed' = failed \cup {k}
      BY <2>3, <3>2 DEF Listing, KindOf
    <3>3. QED
      BY <1>3, <3>1, <3>2
  <2>4. CASE i # next
    <3>1. i \in 1 .. next - 1 /\ i \in 1 .. 13 /\ Listing(i)
      BY <1>1, <2>4 DEF SampleInv
    <3>2. VectorOf(i) # v /\ VectorOf(i) \in Vector
      BY <1>1, <2>4, <3>1, CommandFacts
    <3>3. list'[VectorOf(i)] = list[VectorOf(i)]
      BY <1>1, <1>3, <3>2 DEF TypeOK
    <3>4. KindOf(i) \notin failed' => KindOf(i) \notin failed
      BY <1>3
    <3>5. Over(KindOf(i))' /\ (\A j \in 1 .. 13 : KindOf(j) = KindOf(i) => j <= i)
            => Over(KindOf(i))
      BY <1>1, <3>1 DEF Over, KindOf
    <3>6. QED
      BY <1>1, <2>1, <3>1, <3>3, <3>4, <3>5 DEF Listing, VectorOf, KindOf
  <2>5. QED
    BY <2>3, <2>4
<1>5. QED
  BY <1>1, <1>4 DEF SampleInv

\* An item that comes or goes is one of a kind that is still to be listed, and
\* is recorded if an earlier listing of the kind is over.
LEMMA WorldSample == SampleInv /\ WorldChanges /\ TypeOK' => SampleInv'
<1> SUFFICES ASSUME SampleInv, WorldChanges, TypeOK' PROVE SampleInv'
  OBVIOUS
<1>1. TypeOK /\ root = <<>> /\ UNCHANGED <<next, list, root, failed>>
  BY DEF SampleInv, WorldChanges, Sampling
<1>2. PICK k \in Changing \cap Unlisted, x \in Item : Changed(k, x)
  BY <1>1, WorldChange
<1>3. ~Over(k)
  BY <1>1, CommandFacts DEF Unlisted, Over, KindOf, TypeOK
<1>4. \A j \in Kind \ {k} : /\ world'[j] = world[j]
                            /\ j \in left' <=> j \in left
                            /\ j \in joined' <=> j \in joined
                            /\ j \in between' <=> j \in between
  BY <1>1, <1>2 DEF Changed, TypeOK
<1>5. ASSUME NEW i \in 1 .. next - 1 PROVE Listing(i)'
  <2>1. i \in 1 .. 13 /\ KindOf(i) \in Kind /\ Listing(i)
    BY <1>1, NextBounds, CommandFacts DEF SampleInv
  <2>2. CASE KindOf(i) # k
    <3>1. \A W : Relates(W, KindOf(i))' <=> Relates(W, KindOf(i))
      BY <1>4, <2>1, <2>2 DEF Relates, KindOf
    <3>2. QED
      BY <1>1, <1>4, <2>1, <2>2, <3>1 DEF Listing, Over, VectorOf, KindOf, LinesOf
  <2>3. CASE KindOf(i) = k
    <3>1. k \in Listed
      BY <2>1, <2>3 DEF Listed, KindOf
    <3>2. ASSUME NEW W, Relates(W, k) PROVE Relates(W, k)'
      <4>1. k \in Kind /\ world[k] \subseteq Item /\ Item \subseteq Int
        BY <1>1, SampleAssumption DEF TypeOK, Kind
      <4>2. CASE /\ x \in world[k] /\ left' = left \cup ({k} \cap Listed)
        BY <3>1, <3>2, <4>2 DEF Relates
      <4>3. CASE /\ x \notin world[k]
                 /\ world' = [world EXCEPT ![k] = world[k] \cup {x}]
                 /\ joined' = joined \cup ({k} \cap Listed)
                 /\ \/ between' = between \cup ({k} \cap Listed)
                    \/ between' = between /\ \A y \in world[k] : ~(y > x)
                 /\ UNCHANGED left
        <5>1. world'[k] = world[k] \cup {x} /\ k \in joined'
          BY <1>1, <3>1, <4>1, <4>3 DEF TypeOK
        <5>2. ASSUME k \notin left' \cup between', NEW z \in world'[k] \ W,
                     NEW y \in W
              PROVE  y < z
          <6>1. k \notin left /\ k \notin between /\ \A u \in world[k] : ~(u > x)
            BY <3>1, <4>3, <5>2
          <6>2. y \in world[k]
            BY <3>2, <5>2, <6>1 DEF Relates
          <6>3. CASE z = x
            <7>1. ~(y > x) /\ y # x /\ y \in Int /\ x \in Int
              BY <4>1, <4>3, <6>1, <6>2
            <7>2. QED
              BY <6>3, <7>1
          <6>4. CASE z # x
            BY <3>2, <5>1, <5>2, <6>1, <6>4 DEF Relates
          <6>5. QED
            BY <6>3, <6>4
        <5>3. k \notin left' => W \subseteq world'[k]
          BY <3>2, <4>3, <5>1 DEF Relates
        <5>4. QED
          BY <3>2, <5>1, <5>2, <5>3 DEF Relates
      <4>4. QED
        BY <1>2, <4>2, <4>3 DEF Changed
    <3>3. ~Over(k)'
      BY <1>1, <1>3 DEF Over, KindOf
    <3>4. QED
      BY <1>1, <2>1, <2>3, <3>2, <3>3 DEF Listing, VectorOf, KindOf, LinesOf
  <2>4. QED
    BY <2>2, <2>3
<1>6. world'["memory"] = {1} /\ world'["clock"] = {1}
  BY <1>4 DEF SampleInv, Kind, Changing
<1>7. QED
  BY <1>1, <1>5, <1>6 DEF SampleInv

LEMMA NextSample == SampleInv /\ [Next]_vars => SampleInv'
<1> SUFFICES ASSUME SampleInv, [Next]_vars PROVE SampleInv'
  OBVIOUS
<1>1. TypeOK /\ TypeOK'
  BY NextTypeOK DEF SampleInv
<1>2. ASSUME UNCHANGED <<world, next, list, left, joined, between, failed>>,
             root' = root \/ (next = 14 /\ root' = Report)
      PROVE  SampleInv'
  BY <1>1, <1>2, ListingKept, SameReport DEF SampleInv
<1>3. CASE PopenFails
  BY <1>2, <1>3 DEF PopenFails, history
<1>4. CASE DataToJson
  <2>1. next > 13
    BY <1>4, CommandFacts DEF DataToJson
  <2>2. QED
    BY <1>1, <1>2, <1>4, <2>1, NextBounds DEF DataToJson, history
<1>5. CASE UNCHANGED vars
  BY <1>2, <1>5 DEF vars
<1>6. QED
  BY <1>1, <1>3, <1>4, <1>5, ExecSample, WorldSample DEF Next

LEMMA SampleInvariant == Spec => []SampleInv
BY InitSample, NextSample, PTL DEF Spec

-----------------------------------------------------------------------------
(***************************************************************************)
(* What data_to_json makes of the vectors.                                 *)
(***************************************************************************)

\* Vectors with the same lines give rows of a single item each.
LEMMA EqualVectors ==
  ASSUME NEW v, NEW w, list[v] = list[w], NEW p \in RowsBy(v, w)
  PROVE  p[1] = p[2] /\ p[1] \in ToSet(list[v])
BY DEF RowsBy, ReadAt, ToSet

\* A vector that begins as another one, and is no longer, is paired with it
\* rightly.
LEMMA PrefixVectors ==
  ASSUME NEW v, NEW w,
         \A i \in DOMAIN list[v] : i \in DOMAIN list[w] /\ list[v][i] = list[w][i],
         NEW p \in RowsBy(v, w)
  PROVE  p[1] = p[2]
BY DEF RowsBy, ReadAt

\* What is read at an index that both vectors have is a line.
LEMMA LongVectors ==
  ASSUME TypeOK, NEW v \in Vector, NEW w \in Vector,
         DOMAIN list[v] \subseteq DOMAIN list[w], NEW p \in RowsBy(v, w)
  PROVE  p[1] \in Line /\ p[2] \in Line
<1>1. list[v] \in Seq(Line) /\ list[w] \in Seq(Line)
  BY DEF TypeOK
<1>2. QED
  BY <1>1 DEF RowsBy, ReadAt

\* At the end of the sampling, all vectors of a kind that was left in peace
\* hold the same lines.
LEMMA PeaceLines ==
  ASSUME SampleInv, next = 14, NEW i \in 1 .. 13,
         KindOf(i) \notin left \cup joined \cup failed
  PROVE  list[VectorOf(i)] = LinesOf(world[KindOf(i)], KindOf(i))
BY DEF SampleInv, Listing, Relates

\* The last vector of a kind holds what there is at the end.
LEMMA LastLines ==
  ASSUME SampleInv, next = 14, NEW i \in 1 .. 13, KindOf(i) \notin failed,
         \A j \in 1 .. 13 : KindOf(j) = KindOf(i) => j <= i
  PROVE  list[VectorOf(i)] = LinesOf(world[KindOf(i)], KindOf(i))
<1>1. Over(KindOf(i))
  BY DEF Over
<1>2. Listing(i)
  BY DEF SampleInv
<1>3. QED
  BY <1>1, <1>2 DEF Listing

\* A vector before it holds what there was then.
LEMMA EarlierLines ==
  ASSUME SampleInv, next = 14, NEW i \in 1 .. 13, KindOf(i) \notin failed
  PROVE  \E W : /\ Relates(W, KindOf(i))
                /\ list[VectorOf(i)] = LinesOf(W, KindOf(i))
<1>1. Listing(i)
  BY DEF SampleInv
<1>2. QED
  BY <1>1 DEF Listing

\* The command that lists k first, where another one lists it again.
FirstOf(k) == CASE k = "mount" -> 6 [] k = "iface" -> 8 [] k = "container" -> 10

\* The two vectors of the mount points, of the interfaces and of the containers.
LEMMA TwoVectors ==
  ASSUME SampleInv, next = 14, NEW k \in {"mount", "iface", "container"},
         k \notin failed
  PROVE  /\ \E W : Relates(W, k) /\ list[VectorOf(FirstOf(k))] = LinesOf(W, k)
         /\ list[VectorOf(FirstOf(k) + 1)] = LinesOf(world[k], k)
<1> DEFINE n == FirstOf(k)
<1>1. n \in 6 .. 10 /\ n + 1 \in 1 .. 13
  BY DEF FirstOf
<1>2. KindOf(n) = k /\ KindOf(n + 1) = k
      /\ \A j \in 1 .. 13 : KindOf(j) = k => j <= n + 1
  BY CommandTable DEF FirstOf
<1> HIDE DEF n
<1>3. QED
  BY <1>1, <1>2, EarlierLines, LastLines DEF n

\* data_to_json pairs lines by their index alone, and yet the values of a row
\* are of one item as long as none of its kind came, went or was not printed.
THEOREM SteadyRows == Spec => []SteadySample
<1>1. SampleInv => SteadySample
  <2> SUFFICES ASSUME SampleInv, root # <<>>,
                      NEW k \in Kind \ (left \cup joined \cup failed \cup {"eth0"}),
                      NEW p \in root[k]
               PROVE  p[1] = p[2]
    BY DEF SteadySample, SingleItems
  <2>1. next = 14 /\ p \in Report[k]
    BY DEF SampleInv
  <2>2. \A i \in 1 .. 13 : KindOf(i) = k =>
          list[VectorOf(i)] = LinesOf(world[k], k)
    BY <2>1, PeaceLines
  <2>3. CASE k = "cpu"
    <3>1. list["cpuSource"] = list["cpuMHz"] /\ list["cpuCores"] = list["cpuMHz"]
      BY <2>2, <2>3, CommandTable
    <3>2. QED
      BY <2>1, <2>3, <3>1, EqualVectors DEF Report, Kind, Changing
  <2>4. CASE k = "mount"
    <3>1. list["diskTotal"] = list["diskAvailable"]
      BY <2>2, <2>4, CommandTable
    <3>2. QED
      BY <2>1, <2>4, <3>1, EqualVectors DEF Report, Kind, Changing
  <2>5. CASE k = "iface"
    <3>1. list["ethFirst"] = list["ethSecond"]
      BY <2>2, <2>5, CommandTable
    <3>2. QED
      BY <2>1, <2>5, <3>1, EqualVectors DEF Report, Kind, Changing
  <2>6. CASE k = "container"
    <3>1. list["dockerId"] = list["dockerStats"]
      BY <2>2, <2>6, CommandTable
    <3>2. QED
      BY <2>1, <2>6, <3>1 DEF Report, Kind, Changing, DockerRows
  <2>7. CASE k = "memory"
    <3>1. /\ list["memoryTotal"] = InOrder({1})
          /\ list["memoryAvailable"] = InOrder({1})
      <4>1. LinesOf(world[k], k) = InOrder({1})
        BY <2>7 DEF SampleInv, LinesOf
      <4>2. QED
        BY <2>2, <2>7, <4>1, CommandTable
    <3>2. QED
      BY <2>1, <2>7, <3>1, OrderOfOne DEF Report, Kind, Changing, ReadAt
  <2>8. CASE k = "clock"
    <3>1. list["timestamp"] = InOrder({1})
      <4>1. LinesOf(world[k], k) = InOrder({1})
        BY <2>8 DEF SampleInv, LinesOf
      <4>2. QED
        BY <2>2, <2>8, <4>1, CommandTable
    <3>2. QED
      BY <2>1, <2>8, <3>1, OrderOfOne DEF Report, Kind, Changing, ReadAt
  <2>9. QED
    BY <2>3, <2>4, <2>5, <2>6, <2>7, <2>8 DEF Kind, Changing
<1>2. QED
  BY <1>1, SampleInvariant, PTL

\* Mount points and interfaces that are added at the end meanwhile are left
\* out of the report and disturb no row.
THEOREM JoinersDoNoHarm == Spec => []JoinersLeftOut
<1>1. SampleInv => JoinersLeftOut
  <2> SUFFICES ASSUME SampleInv, root # <<>>,
                      NEW k \in {"mount", "iface"} \ (left \cup between \cup failed),
                      NEW p \in root[k]
               PROVE  p[1] = p[2]
    BY DEF JoinersLeftOut, SingleItems
  <2>1. next = 14 /\ p \in Report[k]
    BY DEF SampleInv
  <2> DEFINE n == FirstOf(k)
  <2>2. /\ \E W : Relates(W, k) /\ list[VectorOf(n)] = LinesOf(W, k)
        /\ list[VectorOf(n + 1)] = LinesOf(world[k], k)
    BY <2>1, TwoVectors
  <2>3. PICK W : Relates(W, k) /\ list[VectorOf(n)] = LinesOf(W, k)
    BY <2>2
  <2>4. /\ W \in SUBSET Item /\ world[k] \in SUBSET Item /\ W \subseteq world[k]
        /\ \A x \in world[k] \ W : \A y \in W : y < x
    BY <2>3 DEF Relates, SampleInv, TypeOK, Kind, Changing
  <2> HIDE DEF n
  <2>5. \A i \in DOMAIN LinesOf(W, k) :
          i \in DOMAIN LinesOf(world[k], k)
            /\ LinesOf(W, k)[i] = LinesOf(world[k], k)[i]
    <3> DEFINE V == world[k]
    <3>1. V \in SUBSET Item /\ W \subseteq V /\ \A x \in V \ W : \A y \in W : y < x
      BY <2>4
    <3> HIDE DEF V
    <3>2. W \in SUBSET Item
      BY <2>4
    <3>3. \A i \in DOMAIN LinesOf(W, k) :
            i \in DOMAIN LinesOf(V, k) /\ LinesOf(W, k)[i] = LinesOf(V, k)[i]
      BY <3>1, <3>2, LinesPrefix
    <3>4. QED
      BY <3>3 DEF V
  <2>6. p \in RowsBy(VectorOf(n), VectorOf(n + 1))
    BY <2>1, CommandTable DEF Report, Kind, Changing, n, FirstOf
  <2>7. QED
    BY <2>2, <2>3, <2>5, <2>6, PrefixVectors
<1>2. QED
  BY <1>1, SampleInvariant, PTL

\* data_to_json stays within its vectors unless a command failed, there is no
\* eth0, an item went, or a CPU came, meanwhile.
THEOREM OverrunsAreLosses == Spec => []OverrunMeansLoss
<1>1. SampleInv => OverrunMeansLoss
  <2> SUFFICES ASSUME SampleInv, NEW k \in Kind \ (left \cup failed),
                      next > Len(Commands), k # "eth0",
                      ~(k = "cpu" /\ k \in joined),
                      NEW p \in Report[k], Garbage \in {p[1], p[2]}
               PROVE  FALSE
    BY DEF OverrunMeansLoss, Overrun
  <2>1. next = 14 /\ TypeOK
    BY CommandFacts, NextBounds DEF SampleInv
  <2>2. Garbage \notin Line
    <3>1. Line \subseteq Int
      <4>1. \A x \in Item : x \in Int /\ -x \in Int
        BY SampleAssumption
      <4>2. QED
        BY <4>1 DEF Line
    <3>2. QED
      BY <3>1, SampleAssumption
  <2>3. CASE k = "cpu"
    <3>1. \A i \in 1 .. 3 : list[VectorOf(i)] = LinesOf(world[k], k)
      BY <2>1, <2>3, PeaceLines, CommandTable
    <3>2. list["cpuSource"] = list["cpuMHz"] /\ list["cpuCores"] = list["cpuMHz"]
      BY <2>3, <3>1, CommandTable
    <3>3. QED
      BY <2>1, <2>2, <2>3, <3>2, LongVectors, VectorNames
         DEF Report, Kind, Changing
  <2>4. CASE k \in {"mount", "iface"}
    <3> DEFINE n == FirstOf(k)
    <3>1. /\ \E W : Relates(W, k) /\ list[VectorOf(n)] = LinesOf(W, k)
          /\ list[VectorOf(n + 1)] = LinesOf(world[k], k)
      BY <2>1, <2>4, TwoVectors
    <3>2. PICK W : Relates(W, k) /\ list[VectorOf(n)] = LinesOf(W, k)
      BY <3>1
    <3>3. /\ W \in SUBSET Item /\ world[k] \in SUBSET Item /\ W \subseteq world[k]
      BY <2>1, <3>2 DEF Relates, TypeOK
    <3>4. Cardinality(W) <= Cardinality(world[k])
      BY <3>3, ItemSets, FS_Subset
    <3>5. DOMAIN LinesOf(W, k) \subseteq DOMAIN LinesOf(world[k], k)
      BY <3>3, <3>4, LinesFacts
    <3>6. p \in RowsBy(VectorOf(n), VectorOf(n + 1))
      BY <2>4, CommandTable DEF Report, Kind, Changing, FirstOf
    <3>7. VectorOf(n) \in Vector /\ VectorOf(n + 1) \in Vector
      BY <2>4, CommandFacts DEF FirstOf
    <3> HIDE DEF n
    <3>8. QED
      BY <2>1, <2>2, <3>1, <3>2, <3>5, <3>6, <3>7, LongVectors
  <2>5. CASE k = "container"
    <3>1. /\ \E W : Relates(W, k) /\ list["dockerId"] = LinesOf(W, k)
          /\ list["dockerStats"] = LinesOf(world[k], k)
      BY <2>1, <2>5, TwoVectors, CommandTable DEF FirstOf
    <3>2. PICK W : Relates(W, k) /\ list["dockerId"] = LinesOf(W, k)
      BY <3>1
    <3>3. W \in SUBSET Item /\ world[k] \in SUBSET Item /\ W \subseteq world[k]
      BY <2>1, <3>2 DEF Relates, TypeOK
    <3>4. ToSet(list["dockerId"]) = W /\ ToSet(list["dockerStats"]) = world[k]
      <4>1. \A V \in SUBSET Item : ToSet(LinesOf(V, k)) = V
        BY <2>5, LinesFacts
      <4>2. QED
        BY <3>1, <3>2, <3>3, <4>1
    <3>5. p \in DockerRows
      BY <2>5 DEF Report, Kind, Changing
    <3>6. p[1] \in W /\ p[2] \in W
      BY <3>3, <3>4, <3>5 DEF DockerRows
    <3>7. QED
      BY <2>2, <3>3, <3>6 DEF Line
  <2>6. CASE k \in {"memory", "clock"}
    <3>1. k \notin left \cup joined
      BY <2>1, <2>6 DEF TypeOK, Changing
    <3>2. \A i \in 1 .. 13 : KindOf(i) = k => list[VectorOf(i)] = InOrder({1})
      BY <2>1, <2>6, <3>1, PeaceLines DEF SampleInv, LinesOf
    <3>3. p[1] = 1 /\ p[2] = 1
      BY <2>6, <3>2, CommandTable, OrderOfOne DEF Report, Kind, Changing, ReadAt
    <3>4. QED
      BY <3>3, SampleAssumption
  <2>7. QED
    BY <2>3, <2>4, <2>5, <2>6 DEF Kind, Changing
<1>2. QED
  BY <1>1, SampleInvariant, PTL
=============================================================================
