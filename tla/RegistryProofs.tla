--------------------------- MODULE RegistryProofs ---------------------------
(***************************************************************************)
(* The device registry, for any devices, roms, busses and length of the    *)
(* list, any configuration and any threads that use devices, as long as    *)
(* one thread at most scans: type correctness, EachDeviceOnce,             *)
(* UsedIsAlive, FoundIsBegun and NoWaitCycle of Registry.                  *)
(***************************************************************************)
EXTENDS Registry, SequenceTheorems, FiniteSetTheorems, TLAPS

\* What is known of a thread by where it is.
MakesDevice(t) == pc[t] \in {"init", "add"}
UsesDevice(t) == pc[t] \in {"found", "locked"}
InBusses(t) == pc[t] \in {"search", "init", "add"}

ObjType ==
  [rom : Roms \ Strange, state : {"created", "init", "running"}, ds : BOOLEAN,
   begun : Nat, alive : BOOLEAN]

Types ==
  /\ obj \in Seq(ObjType)
  /\ devices \in Seq(1 .. Len(obj)) /\ IsInjective(devices)
  /\ devList \in Seq(1 .. Len(obj))
  /\ listed \subseteq 1 .. Len(obj)
  /\ mtx \in Threads \cup {Nobody}
  /\ lock \in Seq(Threads \cup {Nobody}) /\ Len(lock) = Len(obj)
  /\ pc \in [Threads -> Scanning \cup {Idle, "found", "locked"}]
  /\ k \in [Threads -> Nat \ {0}]
  /\ todo \in [Threads -> SUBSET Codes]
  /\ at \in [Threads -> Nat]
  /\ up \in BOOLEAN /\ dead \in BOOLEAN

\* The list is sorted, and no longer than its array.
InOrder(o, l) == \A m, n \in 1 .. Len(l) : m < n => o[l[m]].rom < o[l[n]].rom
List == InOrder(obj, devList) /\ Len(devList) <= Capacity

\* Who holds what, and where: the device lock at its device, the bus mutex
\* while the devices of a bus are registered.
Locks ==
  /\ \A d \in 1 .. Len(lock) : lock[d] # Nobody =>
       pc[lock[d]] \in {"locked", "start"} /\ at[lock[d]] = d
  /\ mtx # Nobody => mtx \in Callers /\ InBusses(mtx)

\* There is one scan at a time, by those who scan, and no user before the configuration is
\* loaded.
OneScan ==
  /\ \A s, t \in Callers : Busy(s) /\ Busy(t) => s = t
  /\ \A t \in Threads : Busy(t) => t \in Callers
  /\ pc[Main] # Idle => \A t \in Threads : ~UsesDevice(t)

\* The devices there are, and what is found and used is one of them.
Alive ==
  /\ \A n \in 1 .. Len(devices) : obj[devices[n]].alive
  /\ Range(devList) \cup listed \subseteq Range(devices)
  /\ \A t \in Threads : UsesDevice(t) => at[t] \in Range(devices)

\* A new device has a rom the list does not have, and no one has found it.
New(t) ==
  /\ at[t] = Len(obj) /\ Len(devices) > 0 /\ devices[Len(devices)] = at[t]
  /\ at[t] \notin Range(devList) \cup listed
  /\ \A d \in Range(devList) : RomOf(d) # RomOf(at[t])
  /\ lock[at[t]] = Nobody
  /\ \A u \in Threads : UsesDevice(u) => at[u] # at[t]
NewDevices == \A t \in Callers : MakesDevice(t) => New(t)

\* L is what the list holds of the first n of the devices v: no other of them
\* has the rom of one in it, and those that are not in it come after it, when
\* it is full.
Held(o, v, L, n) ==
  /\ L \subseteq {v[p] : p \in 1 .. n}
  /\ \A p, q \in 1 .. n : v[p] \in L =>
       /\ o[v[q]].rom = o[v[p]].rom => q = p
       /\ v[q] \notin L => p < q
  /\ IsFiniteSet(L) /\ Cardinality(L) <= Capacity
  /\ \A q \in 1 .. n : v[q] \notin L => Cardinality(L) = Capacity

\* The list holds all devices - but the one not yet added and, while it is
\* filled, those from its place on.  A scan fills it with what it held before.
Filling ==
  /\ (pc[Main] # "rebuild" /\ \A t \in Callers : ~MakesDevice(t) /\ pc[t] # "fill") =>
       Held(obj, devices, Range(devList), Len(devices))
  /\ \A t \in Callers : MakesDevice(t) =>
       Held(obj, devices, Range(devList), Len(devices) - 1)
  /\ \A t \in Callers : pc[t] = "fill" =>
       /\ k[t] <= Len(devices) + 1
       /\ listed \subseteq {devices[p] : p \in 1 .. k[t] - 1}
       /\ Held(obj, devices, Range(devList), k[t] - 1)
       /\ pc[Main] = Idle =>
            \E L \in SUBSET Range(devices) :
              /\ Held(obj, devices, L, Len(devices))
              /\ Range(devList) = L \cap {devices[p] : p \in 1 .. k[t] - 1}

\* A device is begun once, when it becomes running, and the sweep has come
\* by all before its place; when it has ended, by all.
Running(d) == obj[d].state = "running" /\ obj[d].ds
Begun ==
  /\ \A d \in 1 .. Len(obj) :
       /\ obj[d].begun = (IF obj[d].state = "running" THEN 1 ELSE 0)
       /\ obj[d].state = "running" => obj[d].ds
  /\ \A t \in Callers : pc[t] \in {"sweep", "start"} =>
       /\ \A p \in 1 .. Len(devices) : p < k[t] => Running(devices[p])
       /\ up
  /\ \A t \in Callers : pc[t] = "start" =>
       /\ k[t] <= Len(devices) /\ at[t] = devices[k[t]]
       /\ obj[at[t]].ds /\ obj[at[t]].state # "running"
  /\ NoScan /\ up => \A p \in 1 .. Len(devices) : Running(devices[p])

Inv == Types /\ List /\ Locks /\ OneScan /\ Alive /\ NewDevices /\ Filling /\ Begun

-----------------------------------------------------------------------------
(***************************************************************************)
(* The sorted list                                                         *)
(***************************************************************************)

LEMMA Interval ==
  ASSUME NEW n \in Nat
  PROVE  IsFiniteSet(1 .. n) /\ Cardinality(1 .. n) = n
  BY FS_Interval

LEMMA Numbers ==
  /\ Roms \subseteq Nat /\ Capacity \in Nat /\ Capacity > 0
  /\ Canon \in [Codes -> Roms] /\ Strange \subseteq Roms
  /\ Nobody \notin Threads /\ Busses \in Nat
  BY RegistryAssumption DEF Threads, Callers

\* What a sequence is with an element inserted after place c.
LEMMA InsertAtDoes ==
  ASSUME NEW S, NEW l \in Seq(S), NEW d \in S, NEW c \in 0 .. Len(l)
  PROVE  LET i == InsertAt(l, c + 1, d)
         IN  /\ i \in Seq(S) /\ Len(i) = Len(l) + 1
             /\ \A n \in 1 .. Len(l) + 1 :
                  i[n] = IF n <= c THEN l[n] ELSE IF n = c + 1 THEN d ELSE l[n - 1]
<1> DEFINE a == SubSeq(l, 1, c)
           b == SubSeq(l, c + 1, Len(l))
           i == InsertAt(l, c + 1, d)
<1>1. c \in Nat /\ Len(l) \in Nat /\ c <= Len(l) /\ (c + 1) - 1 = c
  OBVIOUS
<1>2. i = (a \o <<d>>) \o b
  <2>1. i = (SubSeq(l, 1, (c + 1) - 1) \o <<d>>) \o b
    BY DEF InsertAt
  <2> QED BY <1>1, <2>1
<1>3. /\ a \in Seq(S) /\ Len(a) = c /\ \A n \in 1 .. c : a[n] = l[n]
  BY <1>1
<1>4. b \in Seq(S) /\ Len(b) = Len(l) - c
  BY <1>1
<1>5. ASSUME NEW n \in 1 .. Len(l) - c PROVE b[n] = l[c + n]
  BY <1>1, <1>4
<1> HIDE DEF a, b, i
<1>6. /\ a \o <<d>> \in Seq(S) /\ Len(a \o <<d>>) = c + 1
      /\ \A n \in 1 .. c : (a \o <<d>>)[n] = a[n]
      /\ (a \o <<d>>)[c + 1] = d
  BY <1>1, <1>3
<1> DEFINE e == a \o <<d>>
<1> HIDE DEF e
<1>7. e \in Seq(S) /\ Len(e) = c + 1 /\ (\A n \in 1 .. c : e[n] = l[n]) /\ e[c + 1] = d
  BY <1>3, <1>6 DEF e
<1>8. i = e \o b
  BY <1>2 DEF e
<1>9. i \in Seq(S) /\ Len(i) = Len(l) + 1
  <2>1. i \in Seq(S) /\ Len(i) = Len(e) + Len(b)
    BY <1>4, <1>7, <1>8, ConcatProperties, Zenon
  <2> QED BY <1>1, <1>4, <1>7, <2>1
<1>8a. \A n \in 1 .. Len(e) + Len(b) :
         i[n] = IF n <= Len(e) THEN e[n] ELSE b[n - Len(e)]
  BY <1>4, <1>7, <1>8, ConcatProperties, Zenon
<1>10. ASSUME NEW n \in 1 .. Len(l) + 1
      PROVE  i[n] = IF n <= c THEN l[n] ELSE IF n = c + 1 THEN d ELSE l[n - 1]
  <2>1. CASE n <= c + 1
    <3>1. n \in 1 .. Len(e) + Len(b) /\ n <= Len(e) /\ (n \in 1 .. c \/ n = c + 1)
      BY <1>1, <1>4, <1>7, <2>1
    <3>2. i[n] = e[n]
      BY ONLY <1>8a, <3>1
    <3>3. CASE n \in 1 .. c
      BY <1>1, <1>7, <3>2, <3>3
    <3>4. CASE n = c + 1
      BY <1>1, <1>7, <3>2, <3>4
    <3> QED BY <3>1, <3>3, <3>4
  <2>2. CASE n > c + 1
    <3>1. i[n] = b[n - (c + 1)]
      <4>1. n \in 1 .. Len(e) + Len(b) /\ ~(n <= Len(e)) /\ Len(e) = c + 1
        BY <1>1, <1>4, <1>7, <2>2
      <4> QED BY ONLY <1>8a, <4>1
    <3>2. n - (c + 1) \in 1 .. Len(l) - c /\ c + (n - (c + 1)) = n - 1
      BY <1>1, <2>2
    <3> QED BY <1>1, <1>5, <2>2, <3>1, <3>2
  <2> QED BY <1>1, <2>1, <2>2
<1> QED BY <1>9, <1>10 DEF i

\* What it is without its element at place c.
LEMMA RemoveAtDoes ==
  ASSUME NEW S, NEW l \in Seq(S), NEW c \in 1 .. Len(l)
  PROVE  LET i == RemoveAt(l, c)
         IN  /\ i \in Seq(S) /\ Len(i) = Len(l) - 1
             /\ \A n \in 1 .. Len(l) - 1 : i[n] = IF n < c THEN l[n] ELSE l[n + 1]
<1> DEFINE a == SubSeq(l, 1, c - 1)
           b == SubSeq(l, c + 1, Len(l))
           i == RemoveAt(l, c)
<1>1. c \in Nat /\ Len(l) \in Nat /\ c <= Len(l) /\ c - 1 \in Nat /\ c >= 1
  OBVIOUS
<1>2. i = a \o b
  BY DEF RemoveAt
<1>3. /\ a \in Seq(S) /\ Len(a) = c - 1 /\ \A n \in 1 .. c - 1 : a[n] = l[n]
  BY <1>1
<1>4. b \in Seq(S) /\ Len(b) = Len(l) - c
  BY <1>1
<1>5. ASSUME NEW n \in 1 .. Len(l) - c PROVE b[n] = l[c + n]
  BY <1>1, <1>4
<1> HIDE DEF a, b, i
<1>9. i \in Seq(S) /\ Len(i) = Len(l) - 1
  <2>1. i \in Seq(S) /\ Len(i) = Len(a) + Len(b)
    BY <1>2, <1>3, <1>4, ConcatProperties, Zenon
  <2> QED BY <1>1, <1>3, <1>4, <2>1
<1>10. ASSUME NEW n \in 1 .. Len(l) - 1
      PROVE  i[n] = IF n < c THEN l[n] ELSE l[n + 1]
  <2>1. CASE n < c
    BY <1>1, <1>2, <1>3, <1>4, <2>1
  <2>2. CASE ~(n < c)
    <3>1. i[n] = b[n - (c - 1)]
      BY <1>1, <1>2, <1>3, <1>4, <2>2
    <3>2. n - (c - 1) \in 1 .. Len(l) - c /\ c + (n - (c - 1)) = n + 1
      BY <1>1, <2>2
    <3> QED BY <1>1, <1>5, <2>2, <3>1, <3>2
  <2> QED BY <1>1, <2>1, <2>2
<1> QED BY <1>9, <1>10 DEF i
LEMMA RomsAreNumbers ==
  ASSUME obj \in Seq(ObjType), NEW d \in 1 .. Len(obj)
  PROVE  RomOf(d) \in Nat /\ RomOf(d) = obj[d].rom /\ RomOf(d) \in Roms \ Strange
<1>1. obj[d] \in ObjType
  OBVIOUS
<1> QED BY <1>1, Numbers DEF ObjType, RomOf

\* The vector of the devices holds objects, each once.
LEMMA DevicesAre ==
  ASSUME Types
  PROVE  /\ devices \in Seq(1 .. Len(obj)) /\ Len(devices) \in Nat /\ Len(obj) \in Nat
         /\ \A p \in 1 .. Len(devices) : devices[p] \in 1 .. Len(obj)
         /\ \A p, q \in 1 .. Len(devices) : devices[p] = devices[q] => p = q
<1>1. devices \in Seq(1 .. Len(obj)) /\ IsInjective(devices) /\ obj \in Seq(ObjType)
  BY DEF Types
<1>2. Len(devices) \in Nat /\ Len(obj) \in Nat /\ DOMAIN devices = 1 .. Len(devices)
  BY ONLY <1>1
<1>3. \A p \in 1 .. Len(devices) : devices[p] \in 1 .. Len(obj)
  BY ONLY <1>1
<1>4. \A p, q \in 1 .. Len(devices) : devices[p] = devices[q] => p = q
  BY ONLY <1>1, <1>2 DEF IsInjective
<1> QED BY <1>1, <1>2, <1>3, <1>4

\* No two places of the list have the same device.
LEMMA ListIsSet ==
  ASSUME obj \in Seq(ObjType), NEW l \in Seq(1 .. Len(obj)), InOrder(obj, l)
  PROVE  IsFiniteSet(Range(l)) /\ Cardinality(Range(l)) = Len(l)
<1>1. Len(l) \in Nat /\ DOMAIN l = 1 .. Len(l) /\ Range(l) = {l[n] : n \in 1 .. Len(l)}
  BY DEF Range
<1>2. ASSUME NEW m \in 1 .. Len(l), NEW n \in 1 .. Len(l), l[m] = l[n] PROVE m = n
  <2>1. obj[l[m]].rom \in Nat
    BY RomsAreNumbers
  <2>2. ~(m < n) /\ ~(n < m)
    BY <1>2, <2>1 DEF InOrder
  <2> QED BY <2>2
<1>3. l \in Bijection(1 .. Len(l), Range(l))
  BY <1>1, <1>2 DEF Bijection, Injection, Surjection, IsInjective, Range
<1>4. ExistsBijection(1 .. Len(l), Range(l))
  BY <1>3 DEF ExistsBijection
<1>5. IsFiniteSet(1 .. Len(l)) /\ Cardinality(1 .. Len(l)) = Len(l)
  BY <1>1, Interval
<1> QED BY <1>4, <1>5, FS_Bijection

\* The smaller ones are at its beginning, as many as there are.
LEMMA SmallerFirst ==
  ASSUME obj \in Seq(ObjType), NEW l \in Seq(1 .. Len(obj)), InOrder(obj, l), NEW r \in Nat
  PROVE  LET smaller == {n \in DOMAIN l : RomOf(l[n]) < r}
         IN  /\ Cardinality(smaller) \in 0 .. Len(l)
             /\ smaller = 1 .. Cardinality(smaller)
<1> DEFINE smaller == {n \in DOMAIN l : RomOf(l[n]) < r}
           c == Cardinality(smaller)
<1>1. Len(l) \in Nat /\ DOMAIN l = 1 .. Len(l) /\ smaller \in SUBSET (1 .. Len(l))
  OBVIOUS
<1>2. IsFiniteSet(1 .. Len(l)) /\ Cardinality(1 .. Len(l)) = Len(l)
  BY <1>1, Interval
<1>3. IsFiniteSet(smaller) /\ c <= Len(l)
  BY <1>1, <1>2, FS_Subset
<1>4. c \in Nat
  BY <1>3, FS_CardinalityType
<1>5. ASSUME NEW n \in smaller PROVE n <= c
  <2>1. n \in 1 .. Len(l) /\ obj[l[n]].rom \in Nat /\ obj[l[n]].rom < r
    BY <1>1, RomsAreNumbers
  <2>2. ASSUME NEW m \in 1 .. n PROVE m \in smaller
    <3>1. m \in 1 .. Len(l) /\ obj[l[m]].rom \in Nat /\ RomOf(l[m]) = obj[l[m]].rom
      <4>1. m \in 1 .. Len(l)
        BY <1>1, <2>1
      <4>2. l[m] \in 1 .. Len(obj)
        BY <4>1
      <4> QED BY <4>1, <4>2, RomsAreNumbers DEF RomOf
    <3>2. m = n \/ obj[l[m]].rom < obj[l[n]].rom
      BY <2>1, <3>1 DEF InOrder
    <3> QED BY <2>1, <3>1, <3>2
  <2>3. 1 .. n \in SUBSET smaller
    BY <2>2
  <2>4. Cardinality(1 .. n) = n
    BY <2>1, Interval
  <2> HIDE DEF smaller
  <2>5. Cardinality(1 .. n) <= Cardinality(smaller)
    BY <1>3, <2>3, FS_Subset
  <2> QED BY <2>4, <2>5
<1>6. smaller \in SUBSET (1 .. c)
  <2>1. \A n \in smaller : n \in Nat /\ n >= 1
    BY <1>1
  <2> HIDE DEF smaller
  <2> QED BY <1>4, <1>5, <2>1
<1>7. IsFiniteSet(1 .. c) /\ Cardinality(1 .. c) = c
  BY <1>4, Interval
<1>8. smaller = 1 .. c
  <2> HIDE DEF smaller
  <2> QED BY <1>6, <1>7, FS_Subset
<1> QED BY <1>1, <1>3, <1>4, <1>8

\* A device is inserted at its place.
LEMMA InsertedDoes ==
  ASSUME obj \in Seq(ObjType), NEW l \in Seq(1 .. Len(obj)), InOrder(obj, l),
         NEW d \in 1 .. Len(obj), \A e \in Range(l) : RomOf(e) # RomOf(d)
  PROVE  /\ Inserted(l, d) \in Seq(1 .. Len(obj)) /\ Len(Inserted(l, d)) = Len(l) + 1
         /\ InOrder(obj, Inserted(l, d))
         /\ Range(Inserted(l, d)) = Range(l) \cup {d}
<1> DEFINE smaller == {n \in DOMAIN l : RomOf(l[n]) < RomOf(d)}
           c == Cardinality(smaller)
           i == Inserted(l, d)
<1>1. c \in 0 .. Len(l) /\ smaller = 1 .. c
  BY SmallerFirst, RomsAreNumbers
<1>2. i = InsertAt(l, c + 1, d)
  BY DEF Inserted
<1>3. Len(l) \in Nat /\ c \in Nat /\ c <= Len(l)
  BY <1>1
<1> HIDE DEF c, i
<1>4. /\ i \in Seq(1 .. Len(obj)) /\ Len(i) = Len(l) + 1
      /\ \A n \in 1 .. Len(l) + 1 :
           i[n] = IF n <= c THEN l[n] ELSE IF n = c + 1 THEN d ELSE l[n - 1]
  <2> DEFINE S == 1 .. Len(obj)
  <2>1. c \in 0 .. Len(l) /\ l \in Seq(S) /\ d \in S
    BY <1>1
  <2> HIDE DEF S
  <2>2. /\ InsertAt(l, c + 1, d) \in Seq(S) /\ Len(InsertAt(l, c + 1, d)) = Len(l) + 1
        /\ \A n \in 1 .. Len(l) + 1 : InsertAt(l, c + 1, d)[n] =
             IF n <= c THEN l[n] ELSE IF n = c + 1 THEN d ELSE l[n - 1]
    BY <2>1, InsertAtDoes
  <2> QED BY <1>2, <2>2 DEF S
<1>5. \A n \in 1 .. Len(l) : /\ obj[l[n]].rom \in Nat /\ RomOf(l[n]) = obj[l[n]].rom
                             /\ obj[l[n]].rom # obj[d].rom /\ (n <= c <=> obj[l[n]].rom < obj[d].rom)
  <2>1. \A n \in 1 .. Len(l) : l[n] \in Range(l) /\ l[n] \in 1 .. Len(obj)
    BY DEF Range
  <2>2. RomOf(d) = obj[d].rom
    BY RomsAreNumbers
  <2>3. ASSUME NEW n \in 1 .. Len(l) PROVE n <= c <=> RomOf(l[n]) < RomOf(d)
    <3>1. n \in smaller <=> RomOf(l[n]) < RomOf(d)
      OBVIOUS
    <3>2. n \in 1 .. c <=> n <= c
      BY <1>3
    <3> QED BY <1>1, <3>1, <3>2
  <2> QED BY <2>1, <2>2, <2>3, RomsAreNumbers
<1>6. obj[d].rom \in Nat
  BY RomsAreNumbers
<1>a. ASSUME NEW n \in 1 .. Len(i)
      PROVE  \/ n <= c /\ n \in 1 .. Len(l) /\ i[n] = l[n]
             \/ n = c + 1 /\ i[n] = d
             \/ n > c + 1 /\ n - 1 \in 1 .. Len(l) /\ n - 1 > c /\ i[n] = l[n - 1]
  <2>1. i[n] = IF n <= c THEN l[n] ELSE IF n = c + 1 THEN d ELSE l[n - 1]
    BY <1>4
  <2>2. n \in 1 .. Len(l) + 1
    BY <1>4
  <2> QED BY <1>3, <2>1, <2>2
<1>7. ASSUME NEW m \in 1 .. Len(i), NEW n \in 1 .. Len(i), m < n
      PROVE  obj[i[m]].rom < obj[i[n]].rom
  <2>0. m \in Nat /\ n \in Nat
    BY <1>4
  <2>1. CASE n <= c
    <3>1. m <= c
      BY <1>3, <1>7, <2>0, <2>1
    <3>2. i[m] = l[m] /\ i[n] = l[n] /\ m \in 1 .. Len(l) /\ n \in 1 .. Len(l)
      BY <1>3, <1>a, <2>0, <2>1, <3>1
    <3> QED BY <1>7, <3>2 DEF InOrder
  <2>2. CASE n = c + 1
    <3>1. m <= c
      BY <1>3, <1>7, <2>0, <2>2
    <3>2. i[m] = l[m] /\ i[n] = d /\ m \in 1 .. Len(l)
      BY <1>3, <1>a, <2>0, <2>2, <3>1
    <3> QED BY <1>5, <3>1, <3>2
  <2>3. CASE n > c + 1
    <3>1. i[n] = l[n - 1] /\ n - 1 \in 1 .. Len(l) /\ n - 1 > c
      BY <1>3, <1>a, <2>0, <2>3
    <3>2. CASE m <= c
      <4>1. i[m] = l[m] /\ m \in 1 .. Len(l) /\ m < n - 1
        BY <1>3, <1>a, <2>0, <3>1, <3>2
      <4> QED BY <3>1, <4>1 DEF InOrder
    <3>3. CASE m = c + 1
      <4>1. i[m] = d
        BY <1>3, <1>a, <2>0, <3>3
      <4>2. ~(n - 1 <= c)
        BY <1>3, <2>0, <3>1
      <4> QED BY <1>5, <1>6, <3>1, <4>1, <4>2, SMTT(30)
    <3>4. CASE m > c + 1
      <4>1. i[m] = l[m - 1] /\ m - 1 \in 1 .. Len(l) /\ m - 1 < n - 1
        BY <1>3, <1>7, <1>a, <2>0, <3>4
      <4> QED BY <3>1, <4>1 DEF InOrder
    <3> QED BY <1>3, <2>0, <3>2, <3>3, <3>4
  <2> QED BY <1>3, <2>0, <2>1, <2>2, <2>3
<1>8. Range(i) = Range(l) \cup {d}
  <2>1. Range(i) = {i[n] : n \in 1 .. Len(i)} /\ Range(l) = {l[n] : n \in 1 .. Len(l)}
    BY <1>4, RangeEquality
  <2>2. ASSUME NEW n \in 1 .. Len(i) PROVE i[n] \in Range(l) \cup {d}
    BY <1>a, <2>1
  <2>3. ASSUME NEW n \in 1 .. Len(l) PROVE l[n] \in Range(i)
    <3>0. n \in 1 .. Len(l) + 1 /\ n + 1 \in 1 .. Len(l) + 1
      BY <1>3, <2>3
    <3>1. CASE n <= c
      <4>1. n \in 1 .. Len(i) /\ i[n] = l[n]
        BY ONLY <1>4, <3>0, <3>1
      <4> QED BY ONLY <2>1, <4>1
    <3>2. CASE ~(n <= c)
      <4>1. n + 1 \in 1 .. Len(i) /\ ~(n + 1 <= c) /\ n + 1 # c + 1 /\ n + 1 - 1 = n
        BY <1>1, <1>3, <1>4, <2>3, <3>2
      <4>2. i[n + 1] = l[n]
        <5> PICK m : m = n + 1
          OBVIOUS
        <5>1. m \in 1 .. Len(l) + 1 /\ ~(m <= c) /\ m # c + 1 /\ m - 1 = n
          BY <3>0, <4>1
        <5>2. \A q \in 1 .. Len(l) + 1 :
                i[q] = IF q <= c THEN l[q] ELSE IF q = c + 1 THEN d ELSE l[q - 1]
          BY <1>4
        <5>3. i[m] = IF m <= c THEN l[m] ELSE IF m = c + 1 THEN d ELSE l[m - 1]
          BY ONLY <5>1, <5>2, Zenon
        <5> QED BY <5>1, <5>3
      <4> QED BY ONLY <2>1, <4>1, <4>2
    <3> QED BY <3>1, <3>2
  <2>4. d \in Range(i)
    <3>1. c + 1 \in 1 .. Len(i) /\ i[c + 1] = d
      BY <1>1, <1>3, <1>4
    <3> QED BY <2>1, <3>1
  <2> QED BY <2>1, <2>2, <2>3, <2>4
<1> QED BY <1>4, <1>7, <1>8 DEF InOrder, i

LEMMA AddDeviceDoes ==
  ASSUME obj \in Seq(ObjType), NEW l \in Seq(1 .. Len(obj)), InOrder(obj, l), Len(l) <= Capacity,
         NEW d \in 1 .. Len(obj), \A e \in Range(l) : RomOf(e) # RomOf(d)
  PROVE  /\ AddDevice(l, d) \in Seq(1 .. Len(obj)) /\ Len(AddDevice(l, d)) <= Capacity
         /\ InOrder(obj, AddDevice(l, d))
         /\ Range(AddDevice(l, d)) =
              IF Cardinality(Range(l)) < Capacity THEN Range(l) \cup {d} ELSE Range(l)
<1>1. Cardinality(Range(l)) = Len(l) /\ Len(l) \in Nat
  BY ListIsSet
<1>2. FindIn(l, RomOf(d)) = {}
  BY DEF FindIn
<1>3. CASE Len(l) < Capacity
  <2>1. AddDevice(l, d) = Inserted(l, d)
    BY <1>1, <1>2, <1>3, Numbers DEF AddDevice
  <2>2. Len(l) + 1 <= Capacity
    BY <1>1, <1>3, Numbers
  <2>3. /\ Inserted(l, d) \in Seq(1 .. Len(obj)) /\ Len(Inserted(l, d)) = Len(l) + 1
        /\ InOrder(obj, Inserted(l, d))
        /\ Range(Inserted(l, d)) = Range(l) \cup {d}
    BY InsertedDoes
  <2> QED BY <1>1, <1>3, <2>1, <2>2, <2>3
<1>4. CASE ~(Len(l) < Capacity)
  <2>1. AddDevice(l, d) = l
    BY <1>1, <1>4, Numbers DEF AddDevice
  <2> QED BY <1>1, <1>4, <2>1
<1> QED BY <1>3, <1>4

-----------------------------------------------------------------------------
(***************************************************************************)
(* What the list holds                                                     *)
(***************************************************************************)

LEMMA HeldEmpty ==
  ASSUME NEW o, NEW v
  PROVE  Held(o, v, {}, 0)
<1>1. IsFiniteSet({}) /\ Cardinality({}) = 0
  BY FS_EmptySet
<1> QED BY <1>1, Numbers DEF Held

\* It depends on the roms of the first devices only.
LEMMA HeldSame ==
  ASSUME NEW o, NEW w, NEW v, NEW u, NEW L, NEW n \in Nat, Held(o, v, L, n),
         \A p \in 1 .. n : u[p] = v[p] /\ w[v[p]].rom = o[v[p]].rom
  PROVE  Held(w, u, L, n)
<1>1. {u[p] : p \in 1 .. n} = {v[p] : p \in 1 .. n}
  OBVIOUS
<1> QED BY <1>1 DEF Held

\* One more device: the list takes it when there is room.
LEMMA HeldAdd ==
  ASSUME NEW o, NEW v, NEW L, NEW n \in Nat, n > 0, Held(o, v, L, n - 1),
         \A p \in 1 .. n - 1 : v[p] # v[n],
         \A e \in L : o[e].rom # o[v[n]].rom
  PROVE  Held(o, v, IF Cardinality(L) < Capacity THEN L \cup {v[n]} ELSE L, n)
<1> DEFINE d == v[n]
           M == IF Cardinality(L) < Capacity THEN L \cup {d} ELSE L
<1>1. /\ L \subseteq {v[p] : p \in 1 .. n - 1}
      /\ \A p, q \in 1 .. n - 1 : v[p] \in L =>
           /\ o[v[q]].rom = o[v[p]].rom => q = p
           /\ v[q] \notin L => p < q
      /\ IsFiniteSet(L) /\ Cardinality(L) <= Capacity
      /\ \A q \in 1 .. n - 1 : v[q] \notin L => Cardinality(L) = Capacity
  BY DEF Held
<1>2. Cardinality(L) \in Nat /\ d \notin L
  BY <1>1, FS_CardinalityType
<1>3. 1 .. n = (1 .. n - 1) \cup {n} /\ \A p \in 1 .. n - 1 : p < n
  OBVIOUS
<1>4. CASE Cardinality(L) < Capacity
  <2>1. M = L \cup {d}
    BY <1>4
  <2>2. \A q \in 1 .. n - 1 : v[q] \in L
    BY <1>1, <1>2, <1>4, Numbers
  <2>3. IsFiniteSet(M) /\ Cardinality(M) = Cardinality(L) + 1
    BY <1>1, <1>2, <2>1, FS_AddElement
  <2>4. Cardinality(M) <= Capacity
    BY <1>2, <1>4, <2>3, Numbers
  <2>5. M \subseteq {v[p] : p \in 1 .. n}
    BY <1>1, <1>3, <2>1
  <2>6. \A q \in 1 .. n : v[q] \in M
    BY <1>3, <2>1, <2>2
  <2>7. ASSUME NEW p \in 1 .. n, NEW q \in 1 .. n, o[v[q]].rom = o[v[p]].rom PROVE q = p
    <3>1. CASE p \in 1 .. n - 1 /\ q \in 1 .. n - 1
      BY <1>1, <2>2, <2>7, <3>1
    <3>2. CASE p = n /\ q # n
      BY <1>3, <2>2, <2>7, <3>2
    <3>3. CASE q = n /\ p # n
      BY <1>3, <2>2, <2>7, <3>3
    <3> QED BY <1>3, <3>1, <3>2, <3>3
  <2> HIDE DEF M
  <2>8. Held(o, v, M, n)
    BY <2>3, <2>4, <2>5, <2>6, <2>7 DEF Held
  <2> QED BY <2>8 DEF M
<1>5. CASE ~(Cardinality(L) < Capacity)
  <2>1. M = L /\ Cardinality(L) = Capacity
    BY <1>1, <1>2, <1>5, Numbers
  <2>2. \A p \in 1 .. n : v[p] \in L => p \in 1 .. n - 1
    BY <1>2, <1>3
  <2>3. ASSUME NEW p \in 1 .. n, NEW q \in 1 .. n, v[p] \in L
        PROVE  (o[v[q]].rom = o[v[p]].rom => q = p) /\ (v[q] \notin L => p < q)
    <3>1. CASE q \in 1 .. n - 1
      BY <1>1, <2>2, <2>3, <3>1
    <3>2. CASE q = n
      BY <1>3, <2>2, <2>3, <3>2
    <3> QED BY <1>3, <3>1, <3>2
  <2>4. L \subseteq {v[p] : p \in 1 .. n}
    BY <1>1, <1>3
  <2>5. Held(o, v, L, n)
    BY <1>1, <2>1, <2>3, <2>4 DEF Held
  <2> QED BY <2>1, <2>5
<1> QED BY <1>4, <1>5

\* What a list held before, it will hold again when it is filled anew: the
\* next device is none with a rom it has got, and there is room for it just
\* when it was held before.
LEMMA HeldAgain ==
  ASSUME NEW o, NEW v, NEW L, NEW N \in Nat, Held(o, v, L, N), NEW n \in 1 .. N,
         \A p, q \in 1 .. N : v[p] = v[q] => p = q,
         NEW R, R = L \cap {v[p] : p \in 1 .. n - 1}
  PROVE  /\ \A e \in R : o[e].rom # o[v[n]].rom
         /\ L \cap {v[p] : p \in 1 .. n} =
              IF Cardinality(R) < Capacity THEN R \cup {v[n]} ELSE R
<1>1. /\ L \subseteq {v[p] : p \in 1 .. N}
      /\ \A p, q \in 1 .. N : v[p] \in L =>
           /\ o[v[q]].rom = o[v[p]].rom => q = p
           /\ v[q] \notin L => p < q
      /\ IsFiniteSet(L) /\ Cardinality(L) <= Capacity
      /\ \A q \in 1 .. N : v[q] \notin L => Cardinality(L) = Capacity
  BY DEF Held
<1>2. Cardinality(L) \in Nat
  BY <1>1, FS_CardinalityType
<1>3. 1 .. n = (1 .. n - 1) \cup {n} /\ \A p \in 1 .. n - 1 : p \in 1 .. N /\ p # n
  OBVIOUS
<1>4. ASSUME NEW e \in R PROVE o[e].rom # o[v[n]].rom
  <2>1. PICK p \in 1 .. n - 1 : e = v[p] /\ v[p] \in L
    OBVIOUS
  <2> QED BY <1>1, <1>3, <2>1
<1>5. R \in SUBSET L
  OBVIOUS
<1>6. IsFiniteSet(R) /\ Cardinality(R) <= Cardinality(L) /\ Cardinality(R) \in Nat
      /\ (Cardinality(R) = Cardinality(L) => R = L)
  BY <1>1, <1>5, FS_Subset, FS_CardinalityType
<1>7. L \cap {v[p] : p \in 1 .. n} = IF v[n] \in L THEN R \cup {v[n]} ELSE R
  BY <1>3
<1>8. CASE v[n] \in L
  <2>1. v[n] \notin R
    BY <1>3
  <2>2. R # L
    BY <1>8, <2>1
  <2>3. Cardinality(R) < Capacity
    BY <1>1, <1>2, <1>6, <2>2, Numbers
  <2> QED BY <1>4, <1>7, <1>8, <2>3
<1>9. CASE v[n] \notin L
  <2>1. ASSUME NEW e \in L PROVE e \in R
    <3>1. PICK p \in 1 .. N : v[p] = e
      BY <1>1
    <3>2. p < n
      BY <1>1, <1>9, <3>1
    <3> QED BY <3>1, <3>2
  <2>2. R = L
    BY <1>5, <2>1
  <2>3. Cardinality(R) = Capacity
    BY <1>1, <1>9, <2>2
  <2>4. ~(Cardinality(R) < Capacity)
    BY <2>3, Numbers
  <2> QED BY <1>4, <1>7, <1>9, <2>4
<1> QED BY <1>8, <1>9

-----------------------------------------------------------------------------
(***************************************************************************)
(* The steps of a scan                                                     *)
(***************************************************************************)

OneScanner == \A s, t \in Scanners : s = t

\* Who else may be at what, while t scans.
LEMMA Others ==
  ASSUME Types, OneScan, NEW t \in Callers, Busy(t)
  PROVE  /\ \A s \in Callers : s # t => ~Busy(s) /\ ~MakesDevice(s) /\ pc[s] \notin Scanning
         /\ t \in Threads /\ pc[t] \in Scanning /\ pc[t] # Idle /\ ~NoScan
         /\ t # Main => pc[Main] = Idle
<1>1. \A s \in Callers : s # t => ~Busy(s)
  BY DEF OneScan
<1>2. \A s \in Callers : MakesDevice(s) => Busy(s)
  BY DEF MakesDevice, Busy, Scanning
<1>3. t # Main => pc[Main] = Idle
  <2>1. pc[Main] \in {Idle, "found", "locked"} \/ Busy(Main)
    BY DEF Types, Busy, Threads, Callers
  <2>2. pc[Main] # Idle => ~UsesDevice(Main)
    BY DEF OneScan, Threads, Callers
  <2> QED BY <1>1, <2>1, <2>2 DEF UsesDevice, Callers
<1> QED BY <1>1, <1>2, <1>3 DEF Busy, NoScan, Threads, Scanning, Idle

\* The locks are where they were, but for what t does with them.
LEMMA LocksKept ==
  ASSUME Types, Locks, NEW t \in Threads,
         \A s \in Threads : s # t => pc'[s] = pc[s] /\ at'[s] = at[s],
         \A d \in 1 .. Len(lock') : lock'[d] # Nobody =>
           \/ d \in 1 .. Len(lock) /\ lock'[d] = lock[d] /\ lock[d] # t
           \/ lock'[d] = t /\ pc'[t] \in {"locked", "start"} /\ at'[t] = d,
         mtx' = mtx, mtx = t => pc'[t] \in {"search", "init", "add"}
  PROVE  Locks'
<1>1. ASSUME NEW d \in 1 .. Len(lock'), lock'[d] # Nobody
      PROVE  pc'[lock'[d]] \in {"locked", "start"} /\ at'[lock'[d]] = d
  <2>1. CASE d \in 1 .. Len(lock) /\ lock'[d] = lock[d] /\ lock[d] # t
    <3>1. lock[d] \in Threads
      BY <1>1, <2>1 DEF Types
    <3>2. pc[lock[d]] \in {"locked", "start"} /\ at[lock[d]] = d
      BY <1>1, <2>1 DEF Locks
    <3> QED BY <2>1, <3>1, <3>2
  <2> QED BY <1>1, <2>1
<1>2. mtx' # Nobody => mtx' \in Callers /\ pc'[mtx'] \in {"search", "init", "add"}
  BY DEF Locks, InBusses, Threads
<1> QED BY <1>1, <1>2 DEF Locks, InBusses

\* What a step of a scan leaves alone that only moves t on, to a place where
\* nothing is made, filled or begun.
LEMMA Moved ==
  ASSUME Inv, NEW t \in Callers, Busy(t), pc[t] # "start",
         UNCHANGED <<registry, lock, at, up>>,
         NEW x \in {"bus", "search", "rebuild"}, pc' = [pc EXCEPT ![t] = x],
         pc[t] \notin {"init", "add", "rebuild", "fill"},
         k' \in [Threads -> Nat \ {0}], todo' \in [Threads -> SUBSET Codes], dead' \in BOOLEAN,
         mtx' = Nobody \/ (mtx' = mtx /\ mtx # t) \/ (mtx' = t /\ x = "search")
  PROVE  Inv'
<1> USE DEF Inv
<1>0. /\ \A s \in Callers : s # t => pc[s] \notin Scanning
      /\ t \in Threads /\ pc[t] \in Scanning /\ pc[t] # Idle /\ (t # Main => pc[Main] = Idle)
      /\ pc \in [Threads -> Scanning \cup {Idle, "found", "locked"}]
      /\ pc' \in [Threads -> Scanning \cup {Idle, "found", "locked"}]
      /\ pc'[t] = x /\ \A s \in Threads : s # t => pc'[s] = pc[s]
      /\ Callers \subseteq Threads /\ Main \in Callers
      /\ obj' = obj /\ devices' = devices /\ devList' = devList /\ listed' = listed
      /\ lock' = lock /\ at' = at /\ up' = up
  BY Others DEF Types, Scanning, Threads, Callers, registry
<1>1. Types'
  BY <1>0 DEF Types
<1>2. List'
  BY <1>0 DEF List, InOrder
<1>3. Locks'
  <2>1. \A d \in 1 .. Len(lock) : lock[d] # Nobody => lock[d] \in Threads /\ lock[d] # t
    BY <1>0 DEF Locks, Types, Scanning
  <2>2. ASSUME NEW d \in 1 .. Len(lock), lock[d] # Nobody
        PROVE  pc'[lock[d]] \in {"locked", "start"} /\ at[lock[d]] = d
    BY <1>0, <2>1, <2>2 DEF Locks
  <2>3. mtx' # Nobody => mtx' \in Callers /\ pc'[mtx'] \in {"search", "init", "add"}
    BY <1>0 DEF Locks, InBusses
  <2> QED BY <1>0, <2>2, <2>3 DEF Locks, InBusses
<1>4. OneScan'
  BY <1>0 DEF OneScan, Busy, UsesDevice
<1>5. Alive'
  BY <1>0 DEF Alive, UsesDevice
<1>6. NewDevices'
  BY <1>0 DEF NewDevices, MakesDevice, Scanning
<1>7. Filling'
  BY <1>0 DEF Filling, MakesDevice, Scanning
<1>8. Begun'
  BY <1>0 DEF Begun, Scanning, NoScan, Busy, Running
<1> QED BY <1>1, <1>2, <1>3, <1>4, <1>5, <1>6, <1>7, <1>8

LEMMA LockBusInv == ASSUME Inv, NEW t \in Callers, LockBus(t) PROVE Inv'
<1>1. Busy(t) /\ pc[t] = "bus" /\ t \in Threads
  BY DEF LockBus, Busy, Scanning, Threads
<1>2. todo' \in [Threads -> SUBSET Codes] /\ k' \in [Threads -> Nat \ {0}] /\ dead' \in BOOLEAN
  BY DEF Inv, Types, LockBus
<1>3. pc' = [pc EXCEPT ![t] = "search"] /\ mtx' = t /\ UNCHANGED <<registry, lock, at, up>>
  BY DEF LockBus, Goto
<1> QED BY <1>1, <1>2, <1>3, Moved

LEMMA ArduinoInv == ASSUME Inv, NEW t \in Callers, Arduino(t) PROVE Inv'
<1>1. Busy(t) /\ pc[t] = "bus" /\ t \in Threads
  BY DEF Arduino, Busy, Scanning, Threads
<1>2. todo' \in [Threads -> SUBSET Codes] /\ k' \in [Threads -> Nat \ {0}] /\ dead' \in BOOLEAN
  BY RegistryAssumption DEF Inv, Types, Arduino
<1>3. pc' = [pc EXCEPT ![t] = "search"] /\ mtx' = mtx /\ UNCHANGED <<registry, lock, at, up>>
  BY DEF Arduino, Goto
<1>4. mtx = Nobody \/ mtx # t
  BY <1>1 DEF Inv, Locks, InBusses
<1> QED BY <1>1, <1>2, <1>3, <1>4, Moved

LEMMA NextBusInv == ASSUME Inv, NEW t \in Callers, NextBus(t) PROVE Inv'
<1>1. Busy(t) /\ pc[t] = "search" /\ t \in Threads
  BY DEF NextBus, Busy, Scanning, Threads
<1>2. todo' \in [Threads -> SUBSET Codes] /\ k' \in [Threads -> Nat \ {0}] /\ dead' \in BOOLEAN
  <2>1. k[t] + 1 \in Nat \ {0}
    BY <1>1 DEF Inv, Types
  <2> QED BY <2>1 DEF Inv, Types, NextBus
<1>3. /\ mtx' = IF mtx = t THEN Nobody ELSE mtx
      /\ UNCHANGED <<registry, lock, at, up>>
      /\ pc' = [pc EXCEPT ![t] = "rebuild"] \/ pc' = [pc EXCEPT ![t] = "bus"]
  BY DEF NextBus, Goto
<1>4. mtx' = Nobody \/ (mtx' = mtx /\ mtx # t)
  BY <1>3
<1>5. CASE pc' = [pc EXCEPT ![t] = "rebuild"]
  BY <1>1, <1>2, <1>3, <1>4, <1>5, Moved
<1>6. CASE pc' = [pc EXCEPT ![t] = "bus"]
  BY <1>1, <1>2, <1>3, <1>4, <1>6, Moved
<1> QED BY <1>3, <1>5, <1>6

\* A scan begins when there is no other, and the configuration is loaded.
LEMMA StartScanInv == ASSUME OneScanner, Inv, NEW t \in Callers, StartScan(t) PROVE Inv'
<1> USE DEF Inv
<1>0. /\ pc[Main] = Idle /\ t \in Scanners /\ pc[t] = Idle /\ t # Main /\ t \in Threads
      /\ pc \in [Threads -> Scanning \cup {Idle, "found", "locked"}]
      /\ pc' \in [Threads -> Scanning \cup {Idle, "found", "locked"}]
      /\ pc'[t] = "bus" /\ \A s \in Threads : s # t => pc'[s] = pc[s]
      /\ Callers \subseteq Threads /\ Main \in Callers
      /\ obj' = obj /\ devices' = devices /\ devList' = devList /\ listed' = listed
      /\ lock' = lock /\ at' = at /\ up' = up /\ mtx' = mtx
      /\ \A s \in Threads : s # t => k'[s] = k[s]
  BY RegistryAssumption DEF StartScan, Started, Types, Scanning, Threads, Callers, registry
<1>1. Types'
  BY <1>0 DEF Types, StartScan
<1>2. List'
  BY <1>0 DEF List, InOrder
<1>3. Locks'
  <2>1. \A d \in 1 .. Len(lock) : lock[d] # Nobody => lock[d] # t
    BY <1>0 DEF Locks, Idle
  <2>2. mtx # t
    BY <1>0, Numbers DEF Locks, InBusses, Idle
  <2> QED BY <1>0, <2>1, <2>2, LocksKept
<1>4. OneScan'
  <2>1. \A s \in Callers : s # t => pc'[s] \notin Scanning
    <3>1. \A s \in Scanners : s = t
      BY <1>0 DEF OneScanner
    <3> QED BY <1>0, <3>1 DEF Callers, Scanning, Idle
  <2>2. pc'[Main] = Idle
    BY <1>0
  <2>3. t \in Callers /\ \A s \in Threads : Busy(s)' => s \in Callers
    BY <1>0 DEF OneScan, Busy
  <2> QED BY <2>1, <2>2, <2>3 DEF OneScan, Busy
<1>5. Alive'
  BY <1>0 DEF Alive, UsesDevice
<1>6. NewDevices'
  BY <1>0 DEF NewDevices, MakesDevice, New, UsesDevice, RomOf
<1>7. Filling'
  <2>1. \A s \in Callers : pc[s] \notin Scanning
    <3>1. \A s \in Scanners : s = t
      BY <1>0 DEF OneScanner
    <3> QED BY <1>0, <3>1 DEF Callers, Scanning, Idle
  <2> QED BY <1>0, <2>1 DEF Filling, MakesDevice, Scanning, Idle
<1>8. Begun'
  <2>1. Busy(t)'
    BY <1>0 DEF Busy, Scanning
  <2> QED BY <1>0, <2>1 DEF Begun, NoScan, Running
<1> QED BY <1>1, <1>2, <1>3, <1>4, <1>5, <1>6, <1>7, <1>8

\* A step of a scan moves t to x, and no other thread.
LEMMA Moves ==
  ASSUME Types, OneScan, NEW t \in Callers, Busy(t),
         NEW x \in Scanning \cup {Idle}, pc' = [pc EXCEPT ![t] = x]
  PROVE  /\ t \in Threads /\ Callers \subseteq Threads /\ Main \in Callers
         /\ pc[t] \in Scanning /\ pc[t] # Idle /\ (t # Main => pc[Main] = Idle)
         /\ \A s \in Callers : s # t => pc[s] \notin Scanning /\ pc'[s] = pc[s] /\ pc'[s] \notin Scanning
         /\ pc' \in [Threads -> Scanning \cup {Idle, "found", "locked"}]
         /\ pc'[t] = x /\ \A s \in Threads : s # t => pc'[s] = pc[s]
         /\ OneScan'
         /\ \A u \in Threads : UsesDevice(u)' => u # t /\ UsesDevice(u) /\ pc'[u] = pc[u]
<1>1. /\ t \in Threads /\ Callers \subseteq Threads /\ Main \in Callers
      /\ pc[t] \in Scanning /\ pc[t] # Idle /\ (t # Main => pc[Main] = Idle)
      /\ \A s \in Callers : s # t => pc[s] \notin Scanning
  BY Others DEF Threads, Callers
<1>2. /\ pc' \in [Threads -> Scanning \cup {Idle, "found", "locked"}]
      /\ pc'[t] = x /\ \A s \in Threads : s # t => pc'[s] = pc[s]
  BY <1>1 DEF Types
<1>3. \A u \in Threads : UsesDevice(u)' => u # t /\ UsesDevice(u) /\ pc'[u] = pc[u]
  BY <1>2 DEF UsesDevice, Scanning, Idle
<1>4. OneScan'
  <2>1. \A s \in Callers : s # t => pc'[s] \notin Scanning
    BY <1>1, <1>2
  <2>2. pc'[Main] # Idle => pc[Main] # Idle
    BY <1>1, <1>2
  <2> QED BY <1>1, <1>3, <2>1, <2>2 DEF OneScan, Busy
<1> QED BY <1>1, <1>2, <1>3, <1>4

\* A new device: the search found a rom that the list does not have.
LEMMA MakeDeviceInv ==
  ASSUME Inv, NEW t \in Callers, pc[t] = "search", NEW c \in todo[t],
         todo' = [todo EXCEPT ![t] = @ \ {c}], ~Known(c), Canon[c] \notin Strange, MakeDevice(t, c),
         UNCHANGED <<devList, listed, mtx, k, up, dead>>
  PROVE  Inv'
<1> USE DEF Inv
<1> DEFINE N == Len(obj) + 1
<1>0. Busy(t) /\ pc' = [pc EXCEPT ![t] = "init"] /\ "init" \in Scanning \cup {Idle}
  BY DEF Busy, Scanning, MakeDevice, Goto
<1>1. /\ t \in Threads /\ Callers \subseteq Threads /\ Main \in Callers
      /\ (t # Main => pc[Main] = Idle)
      /\ \A s \in Callers : s # t => pc[s] \notin Scanning /\ pc'[s] = pc[s] /\ pc'[s] \notin Scanning
      /\ pc' \in [Threads -> Scanning \cup {Idle, "found", "locked"}]
      /\ pc'[t] = "init" /\ \A s \in Threads : s # t => pc'[s] = pc[s]
      /\ OneScan'
      /\ \A u \in Threads : UsesDevice(u)' => u # t /\ UsesDevice(u) /\ pc'[u] = pc[u]
  BY <1>0, Moves
<1>2. c \in Codes /\ Canon[c] \in Roms \ Strange /\ Canon[c] \in Nat
  BY <1>1, Numbers DEF Types
<1>3. /\ NewDevice(Canon[c], "created") \in ObjType
      /\ NewDevice(Canon[c], "created").rom = Canon[c]
      /\ NewDevice(Canon[c], "created").state = "created"
      /\ NewDevice(Canon[c], "created").begun = 0
      /\ NewDevice(Canon[c], "created").alive
  BY <1>2 DEF NewDevice, ObjType
<1>4. /\ obj' \in Seq(ObjType) /\ Len(obj') = N /\ N \in Nat /\ Len(obj) \in Nat
      /\ obj'[N] = NewDevice(Canon[c], "created")
      /\ \A d \in 1 .. Len(obj) : obj'[d] = obj[d] /\ d # N
      /\ N \in 1 .. N
  BY <1>3 DEF MakeDevice, Types
<1>5. /\ devices' \in Seq(1 .. N) /\ Len(devices') = Len(devices) + 1 /\ Len(devices) \in Nat
      /\ devices'[Len(devices')] = N
      /\ \A p \in 1 .. Len(devices) : devices'[p] = devices[p] /\ devices[p] \in 1 .. Len(obj)
  <2>1. devices' = Append(devices, N) /\ N \in 1 .. N
    BY <1>4 DEF MakeDevice
  <2>2. \A e \in 1 .. Len(obj) : e \in 1 .. N
    BY <1>4
  <2>3. devices \in Seq(1 .. N)
    BY <2>2, DevicesAre
  <2> QED BY ONLY <2>1, <2>3, DevicesAre, Types
<1>6. /\ lock' \in Seq(Threads \cup {Nobody}) /\ Len(lock') = N /\ lock'[N] = Nobody
      /\ \A d \in 1 .. Len(lock) : lock'[d] = lock[d]
      /\ Len(lock) = Len(obj)
  BY DEF MakeDevice, Types
<1>7. at' \in [Threads -> Nat] /\ at'[t] = N /\ \A s \in Threads : s # t => at'[s] = at[s]
  BY <1>1, <1>4 DEF MakeDevice, Types
<1>8. /\ \A p \in 1 .. Len(devices') : (p \in 1 .. Len(devices) \/ p = Len(devices'))
      /\ Range(devices') = Range(devices) \cup {N}
      /\ Range(devices) \subseteq 1 .. Len(obj)
      /\ Range(devList) \cup listed \subseteq 1 .. Len(obj)
  <2>1. \A p \in 1 .. Len(devices') : (p \in 1 .. Len(devices) \/ p = Len(devices'))
    BY <1>5
  <2>2. Range(devices') = {devices'[p] : p \in 1 .. Len(devices')}
    BY <1>5, RangeEquality
  <2>3. Range(devices) = {devices[p] : p \in 1 .. Len(devices)}
    BY RangeEquality DEF Types
  <2>4. 1 .. Len(devices') = 1 .. Len(devices) \cup {Len(devices')}
    BY <1>5
  <2>5. Range(devices') = Range(devices) \cup {N}
    <3>1. /\ devices'[Len(devices')] = N
          /\ \A p \in 1 .. Len(devices) : devices'[p] = devices[p]
      BY <1>5
    <3> HIDE DEF N
    <3> QED BY <2>2, <2>3, <2>4, <3>1
  <2>6. Range(devices) \subseteq 1 .. Len(obj)
    BY <1>5, <2>3
  <2>7. Range(devList) = {devList[p] : p \in 1 .. Len(devList)}
    BY RangeEquality DEF Types
  <2>8. Range(devList) \cup listed \subseteq 1 .. Len(obj)
    <3>1. listed \subseteq 1 .. Len(obj) /\ \A p \in 1 .. Len(devList) : devList[p] \in 1 .. Len(obj)
      BY DEF Types
    <3> QED BY <2>7, <3>1
  <2> QED BY <2>1, <2>5, <2>6, <2>8
<1> HIDE DEF N
<1>9. Types'
  <2>1. IsInjective(devices')
    <3>1. DOMAIN devices' = 1 .. Len(devices') /\ DOMAIN devices = 1 .. Len(devices)
      BY <1>5 DEF Types
    <3>2. \A p, q \in 1 .. Len(devices) : devices[p] = devices[q] => p = q
      BY <3>1, DevicesAre
    <3>3. \A p \in 1 .. Len(devices) : devices'[p] # N
      BY <1>4, <1>5
    <3> QED BY <1>5, <1>8, <3>1, <3>2, <3>3 DEF IsInjective
  <2>2. devices' \in Seq(1 .. Len(obj'))
    BY <1>4, <1>5
  <2>3. devList' \in Seq(1 .. Len(obj')) /\ listed' \subseteq 1 .. Len(obj')
    BY <1>4 DEF Types, N
  <2>4. todo' \in [Threads -> SUBSET Codes]
    BY <1>1 DEF Types
  <2> QED BY <1>1, <1>4, <1>6, <1>7, <2>1, <2>2, <2>3, <2>4 DEF Types
<1>10. List'
  <2>1. \A n \in 1 .. Len(devList) : devList[n] \in 1 .. Len(obj)
    BY DEF Types
  <2> QED BY <1>4, <2>1 DEF List, InOrder
<1>11. Locks'
  <2>1. \A d \in 1 .. Len(lock') : lock'[d] # Nobody => d \in 1 .. Len(lock) /\ lock'[d] = lock[d]
    BY <1>4, <1>6 DEF N
  <2>2. \A d \in 1 .. Len(lock) : lock[d] # Nobody => lock[d] # t
    BY DEF Locks
  <2>3. \A s \in Threads : s # t => pc'[s] = pc[s] /\ at'[s] = at[s]
    BY <1>1, <1>7
  <2>4. \A d \in 1 .. Len(lock') : lock'[d] # Nobody =>
           d \in 1 .. Len(lock) /\ lock'[d] = lock[d] /\ lock[d] # t
    BY <2>1, <2>2
  <2> QED BY <1>1, <2>3, <2>4, LocksKept
<1>12. Alive'
  <2>1. ASSUME NEW n \in 1 .. Len(devices') PROVE obj'[devices'[n]].alive
    <3>1. CASE n \in 1 .. Len(devices)
      BY <1>4, <1>5, <3>1 DEF Alive
    <3>2. CASE n = Len(devices')
      BY <1>3, <1>4, <1>5, <3>2
    <3> QED BY <1>8, <3>1, <3>2
  <2>2. \A u \in Threads : UsesDevice(u)' => at'[u] \in Range(devices')
    BY <1>1, <1>7, <1>8 DEF Alive
  <2> QED BY <1>8, <2>1, <2>2 DEF Alive
<1>13. NewDevices'
  <2>1. \A d \in Range(devList) : obj'[d].rom # Canon[c]
    <3>1. \A d \in Range(devList) : RomOf(d) # Canon[c]
      BY DEF Known, Find, FindIn
    <3> QED BY <1>4, <1>8, <3>1 DEF RomOf
  <2>2. obj'[at'[t]].rom = Canon[c] /\ lock'[at'[t]] = Nobody
    BY <1>3, <1>4, <1>6, <1>7
  <2>3. at'[t] \notin Range(devList) \cup listed
    BY <1>4, <1>7, <1>8
  <2>4. \A u \in Threads : UsesDevice(u)' => at'[u] # at'[t]
    BY <1>1, <1>4, <1>7, <1>8 DEF Alive
  <2>5. at'[t] = Len(obj') /\ Len(devices') > 0 /\ devices'[Len(devices')] = at'[t]
    BY <1>4, <1>5, <1>7
  <2>6. New(t)'
    BY <2>1, <2>2, <2>3, <2>4, <2>5 DEF New, RomOf
  <2> QED BY <1>1, <2>6 DEF NewDevices, MakesDevice, Scanning
<1>14. Filling'
  <2>1. Held(obj, devices, Range(devList), Len(devices))
    <3>1. pc[Main] # "rebuild"
      BY <1>1 DEF Idle
    <3>2. \A s \in Callers : ~MakesDevice(s) /\ pc[s] # "fill"
      BY <1>1 DEF MakesDevice, Scanning
    <3> QED BY <3>1, <3>2 DEF Filling
  <2>2. \A p \in 1 .. Len(devices) : devices'[p] = devices[p] /\ obj'[devices[p]].rom = obj[devices[p]].rom
    BY <1>4, <1>5
  <2>3. Held(obj', devices', Range(devList), Len(devices))
    BY <1>5, <2>1, <2>2, HeldSame
  <2>4. Len(devices') - 1 = Len(devices)
    BY <1>5
  <2>5. \A s \in Callers : MakesDevice(s)' => Held(obj', devices', Range(devList'), Len(devices') - 1)
    BY <2>3, <2>4
  <2>6. \A s \in Callers : pc'[s] # "fill"
    BY <1>1 DEF Scanning
  <2>7. ~(\A s \in Callers : ~MakesDevice(s)')
    BY <1>1 DEF MakesDevice
  <2> QED BY <2>5, <2>6, <2>7 DEF Filling
<1>15. Begun'
  <2>1. \A d \in 1 .. Len(obj') : /\ obj'[d].begun = (IF obj'[d].state = "running" THEN 1 ELSE 0)
                                  /\ obj'[d].state = "running" => obj'[d].ds
    <3>1. \A d \in 1 .. Len(obj') : d = N \/ d \in 1 .. Len(obj)
      BY <1>4 DEF N
    <3> QED BY <1>3, <1>4, <3>1 DEF Begun
  <2>2. \A s \in Callers : pc'[s] \notin {"sweep", "start"}
    BY <1>1 DEF Scanning
  <2>3. ~NoScan'
    BY <1>1 DEF NoScan, Busy, Scanning
  <2> QED BY <2>1, <2>2, <2>3 DEF Begun
<1> QED BY <1>1, <1>9, <1>10, <1>11, <1>12, <1>13, <1>14, <1>15

LEMMA UpdateDeviceInv == ASSUME Inv, NEW t \in Callers, UpdateDevice(t) PROVE Inv'
<1>1. PICK c \in todo[t] :
        /\ todo' = [todo EXCEPT ![t] = @ \ {c}]
        /\ IF Known(c) \/ Canon[c] \in Strange
             THEN AlreadyFound(t, c) /\ UNCHANGED <<obj, devices, lock>>
             ELSE MakeDevice(t, c)
  BY DEF UpdateDevice
<1>2. pc[t] = "search" /\ UNCHANGED <<devList, listed, mtx, k, up, dead>>
  BY DEF UpdateDevice
<1>3. CASE ~Known(c) /\ Canon[c] \notin Strange
  BY <1>1, <1>2, <1>3, MakeDeviceInv
<1>4. CASE Known(c) \/ Canon[c] \in Strange
  <2>1. UNCHANGED <<obj, devices, lock, pc, at>>
    BY <1>1, <1>4 DEF AlreadyFound
  <2>2. Busy(t) /\ t \in Threads
    BY <1>2 DEF Busy, Scanning, Threads
  <2>3. pc' = [pc EXCEPT ![t] = "search"]
    BY <1>2, <2>1, <2>2 DEF Inv, Types
  <2>4. todo' \in [Threads -> SUBSET Codes] /\ k' \in [Threads -> Nat \ {0}] /\ dead' \in BOOLEAN
    BY <1>1, <1>2, <2>2 DEF Inv, Types
  <2>5. mtx' = mtx /\ UNCHANGED <<registry, lock, at, up>>
    BY <1>2, <2>1 DEF registry
  <2>6. (mtx' = mtx /\ mtx # t) \/ mtx' = t
    BY <2>5
  <2> QED BY <1>2, <2>2, <2>3, <2>4, <2>5, <2>6, Moved
<1> QED BY <1>3, <1>4

\* Init, under its lock, gives the new device its state only.
LEMMA InitDeviceInv == ASSUME Inv, NEW t \in Callers, InitDevice(t) PROVE Inv'
<1> USE DEF Inv
<1>0. /\ Busy(t) /\ pc' = [pc EXCEPT ![t] = "add"] /\ "add" \in Scanning \cup {Idle}
      /\ pc[t] = "init" /\ MakesDevice(t)
      /\ UNCHANGED <<devices, devList, listed, mtx, lock, k, todo, at, up, dead>>
  BY DEF Busy, Scanning, InitDevice, Goto, MakesDevice
<1>1. /\ t \in Threads /\ Callers \subseteq Threads /\ Main \in Callers
      /\ (t # Main => pc[Main] = Idle)
      /\ \A s \in Callers : s # t => pc[s] \notin Scanning /\ pc'[s] = pc[s] /\ pc'[s] \notin Scanning
      /\ pc' \in [Threads -> Scanning \cup {Idle, "found", "locked"}]
      /\ pc'[t] = "add" /\ \A s \in Threads : s # t => pc'[s] = pc[s]
      /\ OneScan'
      /\ \A u \in Threads : UsesDevice(u)' => u # t /\ UsesDevice(u) /\ pc'[u] = pc[u]
  BY <1>0, Moves
<1>2. New(t) /\ at[t] = Len(obj) /\ at[t] \in 1 .. Len(obj) /\ obj[at[t]] \in ObjType
  <2>1. New(t)
    BY <1>0 DEF NewDevices
  <2> QED BY <2>1 DEF New, Types
<1>3. /\ obj' = [obj EXCEPT ![at[t]].state = IF @ = "running" THEN @ ELSE "init"]
      /\ DOMAIN obj = 1 .. Len(obj) /\ \A d \in 1 .. Len(obj) : obj[d] \in ObjType
  BY DEF InitDevice, Types
<1>4. /\ obj' \in Seq(ObjType) /\ Len(obj') = Len(obj)
      /\ \A d \in 1 .. Len(obj) :
           /\ obj'[d].rom = obj[d].rom /\ obj'[d].alive = obj[d].alive
           /\ obj'[d].begun = obj[d].begun /\ obj'[d].ds = obj[d].ds
           /\ obj'[d].state = "running" <=> obj[d].state = "running"
  <2>1. [obj[at[t]] EXCEPT !.state = IF @ = "running" THEN @ ELSE "init"] \in ObjType
    BY <1>2 DEF ObjType
  <2>2. obj' = [obj EXCEPT ![at[t]] = [obj[at[t]] EXCEPT !.state = IF @ = "running" THEN @ ELSE "init"]]
    BY <1>2, <1>3
  <2>3. obj' \in Seq(ObjType) /\ Len(obj') = Len(obj)
    BY <1>2, <2>1, <2>2 DEF Types
  <2>4. ASSUME NEW d \in 1 .. Len(obj)
        PROVE  /\ obj'[d].rom = obj[d].rom /\ obj'[d].alive = obj[d].alive
               /\ obj'[d].begun = obj[d].begun /\ obj'[d].ds = obj[d].ds
               /\ obj'[d].state = "running" <=> obj[d].state = "running"
    <3>1. CASE d = at[t]
      BY <1>2, <1>3, <2>2, <3>1 DEF ObjType
    <3>2. CASE d # at[t]
      BY <1>2, <1>3, <2>2, <3>2
    <3> QED BY <3>1, <3>2
  <2> QED BY <2>3, <2>4
<1>5. Types'
  BY <1>0, <1>1, <1>4 DEF Types
<1>6. List'
  <2>1. \A n \in 1 .. Len(devList) : devList[n] \in 1 .. Len(obj)
    BY DEF Types
  <2> QED BY <1>0, <1>4, <2>1 DEF List, InOrder
<1>7. Locks'
  <2>1. \A d \in 1 .. Len(lock) : lock[d] # Nobody => lock[d] # t
    BY <1>0 DEF Locks
  <2> QED BY <1>0, <1>1, <2>1, LocksKept
<1>8. \A p \in 1 .. Len(devices) : devices[p] \in 1 .. Len(obj)
  BY DEF Types
<1>9. Alive'
  BY <1>0, <1>1, <1>4, <1>8 DEF Alive
<1>10. NewDevices'
  <2>1. Range(devList) \subseteq 1 .. Len(obj)
    BY DEF Types, Range
  <2>2. \A d \in Range(devList) : obj'[d].rom # obj'[at[t]].rom
    BY <1>2, <1>4, <2>1 DEF New, RomOf
  <2>3. New(t)'
    BY <1>0, <1>1, <1>2, <1>4, <2>2 DEF New, RomOf
  <2> QED BY <1>1, <2>3 DEF NewDevices, MakesDevice, Scanning
<1>11. Filling'
  <2>1. Held(obj, devices, Range(devList), Len(devices) - 1) /\ Len(devices) - 1 \in Nat
    BY <1>0, <1>2 DEF Filling, New, Types
  <2>2. \A p \in 1 .. Len(devices) - 1 : devices'[p] = devices[p] /\ obj'[devices[p]].rom = obj[devices[p]].rom
    BY <1>0, <1>4, <1>8
  <2>3. Held(obj', devices', Range(devList), Len(devices) - 1)
    BY <2>1, <2>2, HeldSame
  <2>4. \A s \in Callers : MakesDevice(s)' => Held(obj', devices', Range(devList'), Len(devices') - 1)
    BY <1>0, <2>3
  <2>5. \A s \in Callers : pc'[s] # "fill"
    BY <1>1 DEF Scanning
  <2>6. ~(\A s \in Callers : ~MakesDevice(s)')
    BY <1>1 DEF MakesDevice
  <2> QED BY <2>4, <2>5, <2>6 DEF Filling
<1>12. Begun'
  <2>1. \A d \in 1 .. Len(obj') : /\ obj'[d].begun = (IF obj'[d].state = "running" THEN 1 ELSE 0)
                                  /\ obj'[d].state = "running" => obj'[d].ds
    BY <1>4 DEF Begun
  <2>2. \A s \in Callers : pc'[s] \notin {"sweep", "start"}
    BY <1>1 DEF Scanning
  <2>3. ~NoScan'
    BY <1>1 DEF NoScan, Busy, Scanning
  <2> QED BY <2>1, <2>2, <2>3 DEF Begun
<1> QED BY <1>1, <1>5, <1>6, <1>7, <1>9, <1>10, <1>11, <1>12

\* The new device goes where lower_bound() says, when there is room.
LEMMA AddNewInv == ASSUME Inv, NEW t \in Callers, AddNew(t) PROVE Inv'
<1> USE DEF Inv
<1>0. /\ Busy(t) /\ pc' = [pc EXCEPT ![t] = "search"] /\ "search" \in Scanning \cup {Idle}
      /\ pc[t] = "add" /\ MakesDevice(t) /\ devList' = AddDevice(devList, at[t])
      /\ UNCHANGED <<obj, devices, listed, mtx, lock, k, todo, at, up, dead>>
  BY DEF Busy, Scanning, AddNew, Goto, MakesDevice
<1>1. /\ t \in Threads /\ Callers \subseteq Threads /\ Main \in Callers
      /\ (t # Main => pc[Main] = Idle)
      /\ \A s \in Callers : s # t => pc[s] \notin Scanning /\ pc'[s] = pc[s] /\ pc'[s] \notin Scanning
      /\ pc' \in [Threads -> Scanning \cup {Idle, "found", "locked"}]
      /\ pc'[t] = "search" /\ \A s \in Threads : s # t => pc'[s] = pc[s]
      /\ OneScan'
      /\ \A u \in Threads : UsesDevice(u)' => u # t /\ UsesDevice(u) /\ pc'[u] = pc[u]
  BY <1>0, Moves
<1>2. /\ New(t) /\ at[t] = Len(obj) /\ at[t] \in 1 .. Len(obj)
      /\ Len(devices) \in Nat /\ Len(devices) > 0 /\ devices[Len(devices)] = at[t]
  <2>1. New(t)
    BY <1>0 DEF NewDevices
  <2> QED BY <2>1 DEF New, Types
<1>3. /\ devList' \in Seq(1 .. Len(obj)) /\ Len(devList') <= Capacity
      /\ InOrder(obj, devList')
      /\ Range(devList') =
           IF Cardinality(Range(devList)) < Capacity THEN Range(devList) \cup {at[t]} ELSE Range(devList)
  BY <1>0, <1>2, AddDeviceDoes DEF List, New, Types
<1>4. Types' /\ List'
  BY <1>0, <1>1, <1>3 DEF Types, List
<1>5. Locks'
  <2>1. \A d \in 1 .. Len(lock) : lock[d] # Nobody => lock[d] # t
    BY <1>0 DEF Locks
  <2> QED BY <1>0, <1>1, <2>1, LocksKept
<1>6. Alive'
  <2>1. at[t] \in Range(devices)
    BY <1>2, RangeEquality DEF Types
  <2>2. Range(devList') \subseteq Range(devList) \cup {at[t]}
    BY <1>3
  <2> QED BY <1>0, <1>1, <2>1, <2>2 DEF Alive
<1>7. NewDevices'
  BY <1>1 DEF NewDevices, MakesDevice, Scanning
<1>8. Filling'
  <2>1. Held(obj, devices, Range(devList), Len(devices) - 1)
    BY <1>0 DEF Filling
  <2>2. \A p \in 1 .. Len(devices) - 1 : devices[p] # devices[Len(devices)]
    <3> SUFFICES ASSUME NEW p \in 1 .. Len(devices) - 1 PROVE devices[p] # devices[Len(devices)]
      OBVIOUS
    <3>1. p \in 1 .. Len(devices) /\ Len(devices) \in 1 .. Len(devices) /\ p # Len(devices)
      BY ONLY p \in 1 .. Len(devices) - 1, Types, DevicesAre
    <3> QED BY ONLY <3>1, Types, DevicesAre
  <2>3. \A e \in Range(devList) : obj[e].rom # obj[devices[Len(devices)]].rom
    BY <1>2 DEF New, RomOf
  <2>4. Held(obj, devices, Range(devList'), Len(devices))
    BY <1>2, <1>3, <2>1, <2>2, <2>3, HeldAdd
  <2>5. \A s \in Callers : ~MakesDevice(s)' /\ pc'[s] # "fill"
    BY <1>1 DEF MakesDevice, Scanning
  <2> QED BY <1>0, <2>4, <2>5 DEF Filling
<1>9. Begun'
  <2>1. \A s \in Callers : pc'[s] \notin {"sweep", "start"}
    BY <1>1 DEF Scanning
  <2>2. ~NoScan'
    BY <1>1 DEF NoScan, Busy, Scanning
  <2> QED BY <1>0, <2>1, <2>2 DEF Begun
<1> QED BY <1>1, <1>4, <1>5, <1>6, <1>7, <1>8, <1>9

\* The list is emptied: what it held is what it will hold.
LEMMA RebuildInv == ASSUME Inv, NEW t \in Callers, Rebuild(t) PROVE Inv'
<1> USE DEF Inv
<1>0. /\ Busy(t) /\ pc' = [pc EXCEPT ![t] = "fill"] /\ "fill" \in Scanning \cup {Idle}
      /\ pc[t] = "rebuild" /\ devList' = <<>> /\ listed' = {} /\ k' = [k EXCEPT ![t] = 1]
      /\ UNCHANGED <<obj, devices, mtx, lock, todo, at, up, dead>>
  BY DEF Busy, Scanning, Rebuild, Goto, Emptied
<1>1. /\ t \in Threads /\ Callers \subseteq Threads /\ Main \in Callers
      /\ (t # Main => pc[Main] = Idle)
      /\ \A s \in Callers : s # t => pc[s] \notin Scanning /\ pc'[s] = pc[s] /\ pc'[s] \notin Scanning
      /\ pc' \in [Threads -> Scanning \cup {Idle, "found", "locked"}]
      /\ pc'[t] = "fill" /\ \A s \in Threads : s # t => pc'[s] = pc[s]
      /\ OneScan'
      /\ \A u \in Threads : UsesDevice(u)' => u # t /\ UsesDevice(u) /\ pc'[u] = pc[u]
  BY <1>0, Moves
<1>2. k' \in [Threads -> Nat \ {0}] /\ k'[t] = 1 /\ Len(devices) \in Nat
  BY <1>0, <1>1 DEF Types
<1>3. devList' \in Seq(1 .. Len(obj)) /\ Len(devList') = 0 /\ Range(devList') = {}
  BY <1>0 DEF Range
<1>4. Types'
  BY <1>0, <1>1, <1>2, <1>3 DEF Types
<1>5. List'
  BY <1>3, Numbers DEF List, InOrder
<1>6. Locks'
  <2>1. \A d \in 1 .. Len(lock) : lock[d] # Nobody => lock[d] # t
    BY <1>0 DEF Locks
  <2>2. mtx # t
    BY <1>0, <1>1, Numbers DEF Locks, InBusses
  <2> QED BY <1>0, <1>1, <2>1, <2>2, LocksKept
<1>7. Alive'
  BY <1>0, <1>1, <1>3 DEF Alive
<1>8. NewDevices'
  BY <1>1 DEF NewDevices, MakesDevice, Scanning
<1>9. Filling'
  <2>1. \A s \in Callers : ~MakesDevice(s)' /\ (pc'[s] = "fill" => s = t)
    BY <1>1 DEF MakesDevice, Scanning
  <2>2. Held(obj, devices, {}, 0) /\ k'[t] - 1 = 0 /\ {devices[p] : p \in 1 .. 0} = {}
    BY <1>2, HeldEmpty
  <2>3. ASSUME pc'[Main] = Idle
        PROVE  \E L \in SUBSET Range(devices) :
                 Held(obj, devices, L, Len(devices)) /\ {} = L \cap {devices[p] : p \in 1 .. 0}
    <3>1. pc[Main] = Idle
      BY <1>1, <2>3 DEF Idle
    <3>2. pc[Main] # "rebuild" /\ \A s \in Callers : ~MakesDevice(s) /\ pc[s] # "fill"
      BY <1>0, <1>1, <3>1 DEF MakesDevice, Scanning, Idle
    <3>3. Held(obj, devices, Range(devList), Len(devices))
      BY <3>2 DEF Filling
    <3>4. Range(devList) \in SUBSET Range(devices)
      BY DEF Alive
    <3> QED BY <2>2, <3>3, <3>4
  <2>4. k'[t] <= Len(devices) + 1
    BY <1>2
  <2>5. /\ k'[t] <= Len(devices') + 1
        /\ listed' \subseteq {devices'[p] : p \in 1 .. k'[t] - 1}
        /\ Held(obj', devices', Range(devList'), k'[t] - 1)
    BY <1>0, <1>3, <2>2, <2>4
  <2>6. pc'[Main] = Idle =>
          \E L \in SUBSET Range(devices') :
            /\ Held(obj', devices', L, Len(devices'))
            /\ Range(devList') = L \cap {devices'[p] : p \in 1 .. k'[t] - 1}
    BY <1>0, <1>3, <2>2, <2>3
  <2>7. ~(\A s \in Callers : ~MakesDevice(s)' /\ pc'[s] # "fill")
    BY <1>1
  <2> QED BY <2>1, <2>5, <2>6, <2>7 DEF Filling
<1>10. Begun'
  <2>1. \A s \in Callers : pc'[s] \notin {"sweep", "start"}
    BY <1>1 DEF Scanning
  <2>2. ~NoScan'
    BY <1>1 DEF NoScan, Busy, Scanning
  <2> QED BY <1>0, <2>1, <2>2 DEF Begun
<1> QED BY <1>1, <1>4, <1>5, <1>6, <1>7, <1>8, <1>9, <1>10

\* What t has to show of the list it fills.
FilledBy(t) ==
  /\ k[t] <= Len(devices) + 1
  /\ listed \subseteq {devices[p] : p \in 1 .. k[t] - 1}
  /\ Held(obj, devices, Range(devList), k[t] - 1)
  /\ pc[Main] = Idle =>
       \E L \in SUBSET Range(devices) :
         /\ Held(obj, devices, L, Len(devices))
         /\ Range(devList) = L \cap {devices[p] : p \in 1 .. k[t] - 1}

\* A device the list has no rom of is added and listed.
LEMMA KeepInv ==
  ASSUME Inv, NEW t \in Callers, pc[t] = "fill", k[t] <= Len(devices),
         NEW d, d = devices[k[t]], ~Duplicate(d),
         devList' = AddDevice(devList, d), listed' = listed \cup {d},
         k' = [k EXCEPT ![t] = @ + 1],
         UNCHANGED <<obj, devices, mtx, lock, pc, todo, at, up, dead>>
  PROVE  Inv'
<1> USE DEF Inv
<1>0. Busy(t) /\ pc' = [pc EXCEPT ![t] = "fill"] /\ "fill" \in Scanning \cup {Idle}
  BY DEF Busy, Scanning, Types, Threads
<1>1. /\ t \in Threads /\ Callers \subseteq Threads /\ Main \in Callers
      /\ (t # Main => pc[Main] = Idle)
      /\ \A s \in Callers : s # t => pc[s] \notin Scanning /\ pc'[s] = pc[s] /\ pc'[s] \notin Scanning
      /\ pc' \in [Threads -> Scanning \cup {Idle, "found", "locked"}]
      /\ pc'[t] = "fill" /\ \A s \in Threads : s # t => pc'[s] = pc[s]
      /\ OneScan'
      /\ \A u \in Threads : UsesDevice(u)' => u # t /\ UsesDevice(u) /\ pc'[u] = pc[u]
  BY <1>0, Moves
<1>2. /\ k[t] \in 1 .. Len(devices) /\ Len(devices) \in Nat /\ k[t] \in Nat /\ k[t] > 0
      /\ k' \in [Threads -> Nat \ {0}] /\ k'[t] = k[t] + 1 /\ k'[t] - 1 = k[t]
      /\ d \in 1 .. Len(obj)
  BY <1>1, SMTT(30) DEF Types
<1>3. /\ devList' \in Seq(1 .. Len(obj)) /\ Len(devList') <= Capacity
      /\ InOrder(obj, devList')
      /\ Range(devList') =
           IF Cardinality(Range(devList)) < Capacity THEN Range(devList) \cup {d} ELSE Range(devList)
  <2>1. \A e \in Range(devList) : RomOf(e) # RomOf(d)
    BY DEF Duplicate, Find, FindIn
  <2> QED BY <1>2, <2>1, AddDeviceDoes DEF List, Types
<1>4. Types' /\ List'
  BY <1>1, <1>2, <1>3 DEF Types, List
<1>5. Locks'
  <2>1. \A e \in 1 .. Len(lock) : lock[e] # Nobody => lock[e] # t
    BY DEF Locks
  <2>2. mtx # t
    BY <1>1, Numbers DEF Locks, InBusses
  <2> QED BY <1>1, <2>1, <2>2, LocksKept
<1>6. Alive'
  <2>1. d \in Range(devices)
    BY <1>2, RangeEquality DEF Types
  <2>2. Range(devList') \subseteq Range(devList) \cup {d}
    BY <1>3
  <2> QED BY <1>1, <2>1, <2>2 DEF Alive
<1>7. NewDevices'
  BY <1>1 DEF NewDevices, MakesDevice, Scanning
<1>8. Filling'
  <2>0. FilledBy(t)
    BY DEF Filling, FilledBy
  <2>1. \A s \in Callers : ~MakesDevice(s)' /\ (pc'[s] = "fill" => s = t)
    <3> SUFFICES ASSUME NEW s \in Callers
                 PROVE  ~MakesDevice(s)' /\ (pc'[s] = "fill" => s = t)
      OBVIOUS
    <3>1. CASE s = t
      BY ONLY <1>1, <3>1 DEF MakesDevice
    <3>2. CASE s # t
      <4>1. pc'[s] \notin Scanning
        BY ONLY <1>1, <3>2, s \in Callers
      <4> QED BY ONLY <3>2, <4>1 DEF MakesDevice, Scanning
    <3> QED BY <3>1, <3>2
  <2>2. \A p, q \in 1 .. Len(devices) : devices[p] = devices[q] => p = q
    BY DevicesAre
  <2>3. Held(obj, devices, Range(devList'), k[t])
    <3>1. Held(obj, devices, Range(devList), k[t] - 1)
      BY <2>0 DEF FilledBy
    <3>2. \A p \in 1 .. k[t] - 1 : devices[p] # devices[k[t]]
      BY <1>2, <2>2
    <3>3. \A e \in Range(devList) : obj[e].rom # obj[devices[k[t]]].rom
      BY DEF Duplicate, Find, FindIn, RomOf
    <3> QED BY <1>2, <1>3, <3>1, <3>2, <3>3, HeldAdd, ZenonT(60)
  <2>4. ASSUME pc[Main] = Idle
        PROVE  \E L \in SUBSET Range(devices) :
                 Held(obj, devices, L, Len(devices)) /\ Range(devList') = L \cap {devices[p] : p \in 1 .. k[t]}
    <3>1. PICK L \in SUBSET Range(devices) :
            /\ Held(obj, devices, L, Len(devices))
            /\ Range(devList) = L \cap {devices[p] : p \in 1 .. k[t] - 1}
      BY <2>0, <2>4 DEF FilledBy
    <3>2. L \cap {devices[p] : p \in 1 .. k[t]} = Range(devList')
      <4> DEFINE N == Len(devices)
                 n == k[t]
                 R == Range(devList)
      <4>1. /\ N \in Nat /\ n \in 1 .. N /\ Held(obj, devices, L, N)
            /\ \A p, q \in 1 .. N : devices[p] = devices[q] => p = q
            /\ R = L \cap {devices[p] : p \in 1 .. n - 1}
        BY <1>2, <2>2, <3>1
      <4> HIDE DEF N, n, R
      <4>2. L \cap {devices[p] : p \in 1 .. n} =
              IF Cardinality(R) < Capacity THEN R \cup {devices[n]} ELSE R
        BY <4>1, HeldAgain
      <4> QED BY <1>3, <4>2 DEF n, R
    <3> QED BY <3>1, <3>2
  <2>5. listed \cup {d} \subseteq {devices[p] : p \in 1 .. k[t]}
    <3>1. listed \subseteq {devices[p] : p \in 1 .. k[t] - 1}
      BY <2>0 DEF FilledBy
    <3>2. 1 .. k[t] - 1 \subseteq 1 .. k[t] /\ k[t] \in 1 .. k[t]
      BY <1>2
    <3> QED BY <3>1, <3>2
  <2>6. k'[t] <= Len(devices) + 1
    BY <1>2
  <2>7. FilledBy(t)'
    BY <1>2, <2>3, <2>4, <2>5, <2>6 DEF FilledBy
  <2>8. ~(\A s \in Callers : ~MakesDevice(s)' /\ pc'[s] # "fill")
    BY <1>1
  <2> QED BY <2>1, <2>7, <2>8 DEF Filling, FilledBy
<1>9. Begun'
  <2>1. \A s \in Callers : pc'[s] \notin {"sweep", "start"}
    BY <1>1 DEF Scanning
  <2>2. ~NoScan'
    BY <1>1 DEF NoScan, Busy, Scanning
  <2> QED BY <2>1, <2>2 DEF Begun
<1> QED BY <1>1, <1>4, <1>5, <1>6, <1>7, <1>8, <1>9

\* What was in the list once is no duplicate.
LEMMA NoSecond ==
  ASSUME NEW t \in Callers, FilledBy(t), pc[Main] = Idle, Len(devices) \in Nat,
         k[t] \in 1 .. Len(devices)
  PROVE  ~Duplicate(devices[k[t]])
<1>1. PICK L \in SUBSET Range(devices) :
        /\ Held(obj, devices, L, Len(devices))
        /\ Range(devList) = L \cap {devices[p] : p \in 1 .. k[t] - 1}
  BY DEF FilledBy
<1>2. SUFFICES ASSUME NEW e \in Range(devList), obj[e].rom = obj[devices[k[t]]].rom
               PROVE  FALSE
  BY DEF Duplicate, Find, FindIn, RomOf
<1>3. PICK p \in 1 .. k[t] - 1 : e = devices[p] /\ devices[p] \in L
  BY <1>1
<1>4. p \in 1 .. Len(devices) /\ p # k[t]
  OBVIOUS
<1> QED BY <1>1, <1>2, <1>3, <1>4 DEF Held

LEMMA Dead ==
  ASSUME NEW o \in ObjType
  PROVE  [o EXCEPT !.alive = FALSE] \in ObjType
BY DEF ObjType

\* A second device of a rom is erased: that is one of the configuration, and
\* nobody uses it.
LEMMA EraseInv ==
  ASSUME Inv, NEW t \in Callers, pc[t] = "fill", k[t] <= Len(devices),
         NEW d, d = devices[k[t]], Duplicate(d),
         devices' = RemoveAt(devices, k[t]), obj' = [obj EXCEPT ![d].alive = FALSE],
         UNCHANGED <<devList, listed, k, mtx, lock, pc, todo, at, up, dead>>
  PROVE  Inv'
<1> USE DEF Inv
<1>0. Busy(t) /\ pc' = [pc EXCEPT ![t] = "fill"] /\ "fill" \in Scanning \cup {Idle}
  BY DEF Busy, Scanning, Types, Threads
<1>1. /\ t \in Threads /\ Callers \subseteq Threads /\ Main \in Callers
      /\ (t # Main => pc[Main] = Idle)
      /\ \A s \in Callers : s # t => pc[s] \notin Scanning /\ pc'[s] = pc[s] /\ pc'[s] \notin Scanning
      /\ pc' \in [Threads -> Scanning \cup {Idle, "found", "locked"}]
      /\ pc'[t] = "fill" /\ \A s \in Threads : s # t => pc'[s] = pc[s]
      /\ OneScan'
      /\ \A u \in Threads : UsesDevice(u)' => u # t /\ UsesDevice(u) /\ pc'[u] = pc[u]
  BY <1>0, Moves
<1>2. /\ k[t] \in 1 .. Len(devices) /\ Len(devices) \in Nat /\ k[t] \in Nat /\ k[t] > 0
      /\ d \in 1 .. Len(obj) /\ devices \in Seq(1 .. Len(obj))
      /\ \A p \in 1 .. Len(devices) : devices[p] \in 1 .. Len(obj)
  <2>1. k[t] \in Nat \ {0}
    BY <1>1 DEF Types
  <2>2. k[t] \in 1 .. Len(devices) /\ k[t] \in Nat /\ k[t] > 0
    BY <2>1, DevicesAre
  <2> QED BY <2>2, DevicesAre
<1>3. \A p, q \in 1 .. Len(devices) : devices[p] = devices[q] => p = q
  BY DevicesAre
<1>4. FilledBy(t)
  BY DEF Filling, FilledBy
<1>6. pc[Main] # Idle
  BY <1>2, <1>4, NoSecond
<1>7. \A u \in Threads : ~UsesDevice(u) /\ ~UsesDevice(u)'
  BY <1>1, <1>6 DEF OneScan
<1>8. /\ devices' \in Seq(1 .. Len(obj)) /\ Len(devices') = Len(devices) - 1
      /\ \A n \in 1 .. Len(devices) - 1 :
           devices'[n] = IF n < k[t] THEN devices[n] ELSE devices[n + 1]
  <2> DEFINE S == 1 .. Len(obj)
  <2>1. devices \in Seq(S)
    BY <1>2
  <2> HIDE DEF S
  <2>2. /\ devices' \in Seq(S) /\ Len(devices') = Len(devices) - 1
        /\ \A n \in 1 .. Len(devices) - 1 :
             devices'[n] = IF n < k[t] THEN devices[n] ELSE devices[n + 1]
    BY <1>2, <2>1, RemoveAtDoes
  <2> QED BY <2>2 DEF S
<1>9. /\ obj' \in Seq(ObjType) /\ Len(obj') = Len(obj)
      /\ \A n \in 1 .. Len(obj) :
           /\ obj'[n].rom = obj[n].rom /\ obj'[n].state = obj[n].state
           /\ obj'[n].begun = obj[n].begun /\ obj'[n].ds = obj[n].ds
           /\ n # d => obj'[n].alive = obj[n].alive
  <2>1. \A n \in 1 .. Len(obj) : obj[n] \in ObjType
    BY DEF Types
  <2>2. [obj[d] EXCEPT !.alive = FALSE] \in ObjType
    <3>1. obj[d] \in ObjType
      BY <1>2, <2>1
    <3> QED BY <3>1, Dead
  <2>3. obj' = [obj EXCEPT ![d] = [obj[d] EXCEPT !.alive = FALSE]]
    BY <1>2
  <2>4. obj' \in Seq(ObjType) /\ Len(obj') = Len(obj)
    BY <1>2, <2>2, <2>3 DEF Types
  <2>5. ASSUME NEW n \in 1 .. Len(obj)
        PROVE  /\ obj'[n].rom = obj[n].rom /\ obj'[n].state = obj[n].state
               /\ obj'[n].begun = obj[n].begun /\ obj'[n].ds = obj[n].ds
               /\ n # d => obj'[n].alive = obj[n].alive
    <3>1. CASE n = d
      BY <1>2, <2>1, <2>3, <3>1 DEF ObjType, Types
    <3>2. CASE n # d
      BY <2>3, <3>2 DEF Types
    <3> QED BY <3>1, <3>2
  <2> QED BY <2>4, <2>5
<1>10. \A n \in 1 .. Len(devices') : \E p \in 1 .. Len(devices) :
         /\ devices'[n] = devices[p] /\ p # k[t] /\ (n < k[t] => p = n) /\ (n >= k[t] => p = n + 1)
  <2>1. ASSUME NEW n \in 1 .. Len(devices')
        PROVE \E p \in 1 .. Len(devices) :
          /\ devices'[n] = devices[p] /\ p # k[t] /\ (n < k[t] => p = n) /\ (n >= k[t] => p = n + 1)
    <3>1. CASE n < k[t]
      <4>0. n \in 1 .. Len(devices) - 1 /\ n \in Nat
        BY <1>8
      <4>1. n \in 1 .. Len(devices) /\ n # k[t] /\ devices'[n] = devices[n]
        <5>1. n \in 1 .. Len(devices) /\ n # k[t]
          BY <1>2, <3>1, <4>0
        <5>2. devices'[n] = devices[n]
          BY <1>8, <3>1, <4>0
        <5> QED BY <5>1, <5>2
      <4>2. ~(n >= k[t])
        BY <1>2, <3>1, <4>0
      <4> QED BY <4>1, <4>2
    <3>2. CASE ~(n < k[t])
      <4>1. n \in Nat /\ n \in 1 .. Len(devices) - 1
        BY <1>8
      <4>2. n + 1 \in 1 .. Len(devices) /\ n + 1 # k[t]
        BY <1>2, <3>2, <4>1, SMTT(30)
      <4>3. devices'[n] = devices[n + 1]
        BY <1>8, <3>2, <4>1
      <4> QED BY <3>2, <4>2, <4>3
    <3> QED BY <3>1, <3>2
  <2> QED BY <2>1
<1>11. Types'
  <2>1. \A m, n \in 1 .. Len(devices') : devices'[m] = devices'[n] => m = n
    <3>1. ASSUME NEW m \in 1 .. Len(devices'), NEW n \in 1 .. Len(devices'), devices'[m] = devices'[n]
          PROVE  m = n
      <4>1. PICK p \in 1 .. Len(devices) :
              /\ devices'[m] = devices[p] /\ p # k[t] /\ (m < k[t] => p = m) /\ (m >= k[t] => p = m + 1)
        BY <1>10
      <4>2. PICK q \in 1 .. Len(devices) :
              /\ devices'[n] = devices[q] /\ q # k[t] /\ (n < k[t] => q = n) /\ (n >= k[t] => q = n + 1)
        BY <1>10
      <4>3. p = q
        BY <1>3, <3>1, <4>1, <4>2
      <4>4. m \in Nat /\ n \in Nat /\ k[t] \in Nat
        BY <1>2
      <4>5. m = p \/ m + 1 = p
        BY <4>1, <4>4
      <4>6. n = p \/ n + 1 = p
        BY <4>2, <4>3, <4>4
      <4>7. (p = m => m < k[t]) /\ (p = m + 1 => m >= k[t])
        BY <4>1, <4>4
      <4>8. (p = n => n < k[t]) /\ (p = n + 1 => n >= k[t])
        BY <4>2, <4>3, <4>4
      <4> QED BY <4>4, <4>5, <4>6, <4>7, <4>8
    <3> QED BY <3>1
  <2>2. IsInjective(devices')
    <3>1. DOMAIN devices' = 1 .. Len(devices')
      BY <1>8
    <3> QED BY <2>1, <3>1 DEF IsInjective
  <2> QED BY <1>1, <1>8, <1>9, <2>2 DEF Types
<1>12. List'
  <2>1. \A n \in 1 .. Len(devList) : devList[n] \in 1 .. Len(obj)
    BY SMTT(30) DEF Types
  <2> QED BY <1>9, <2>1 DEF List, InOrder
<1>13. Locks'
  <2>1. \A n \in 1 .. Len(lock) : lock[n] # Nobody => lock[n] # t
    BY DEF Locks
  <2>2. mtx # t
    BY <1>1, Numbers DEF Locks, InBusses
  <2> QED BY <1>1, <2>1, <2>2, LocksKept
<1>14. \A p \in 1 .. k[t] - 1 :
         devices'[p] = devices[p] /\ p \in 1 .. Len(devices') /\ p \in 1 .. Len(devices)
  <2>1. ASSUME NEW p \in 1 .. k[t] - 1
        PROVE  devices'[p] = devices[p] /\ p \in 1 .. Len(devices') /\ p \in 1 .. Len(devices)
    <3>1. p \in 1 .. Len(devices) - 1 /\ p < k[t]
      BY <1>2
    <3>2. p \in 1 .. Len(devices)
      BY <1>2, <3>1
    <3> QED BY <1>8, <3>1, <3>2
  <2> QED BY <2>1
<1>15. Alive'
  <2>1. ASSUME NEW n \in 1 .. Len(devices') PROVE obj'[devices'[n]].alive
    <3>1. PICK p \in 1 .. Len(devices) : devices'[n] = devices[p] /\ p # k[t]
      BY <1>10
    <3>2. devices[p] # d /\ devices[p] \in 1 .. Len(obj) /\ obj[devices[p]].alive
      BY <1>2, <1>3, <3>1 DEF Alive
    <3> QED BY <1>9, <3>1, <3>2
  <2>2. Range(devices') = {devices'[p] : p \in 1 .. Len(devices')}
    BY <1>8, RangeEquality
  <2>3. Range(devList) \cup listed \subseteq {devices[p] : p \in 1 .. k[t] - 1}
    BY <1>4 DEF FilledBy, Held
  <2>4. Range(devList) \cup listed \subseteq Range(devices')
    BY <1>14, <2>2, <2>3
  <2> QED BY <1>7, <2>1, <2>4 DEF Alive
<1>16. NewDevices'
  BY <1>1 DEF NewDevices, MakesDevice, Scanning
<1>17. Filling'
  <2>1. \A s \in Callers : ~MakesDevice(s)' /\ (pc'[s] = "fill" => s = t)
    BY <1>1 DEF MakesDevice, Scanning
  <2>2. {devices'[p] : p \in 1 .. k[t] - 1} = {devices[p] : p \in 1 .. k[t] - 1}
    BY <1>14
  <2>3. Held(obj', devices', Range(devList), k[t] - 1)
    <3>1. Held(obj, devices, Range(devList), k[t] - 1) /\ k[t] - 1 \in Nat
      BY <1>2, <1>4 DEF FilledBy
    <3>2. \A p \in 1 .. k[t] - 1 : devices'[p] = devices[p] /\ obj'[devices[p]].rom = obj[devices[p]].rom
      BY <1>2, <1>9, <1>14
    <3> DEFINE n == k[t] - 1
               w == obj'
               u == devices'
    <3>3. /\ Held(obj, devices, Range(devList), n) /\ n \in Nat
          /\ \A p \in 1 .. n : u[p] = devices[p] /\ w[devices[p]].rom = obj[devices[p]].rom
      BY <3>1, <3>2
    <3> HIDE DEF n, w, u
    <3>4. Held(w, u, Range(devList), n)
      BY <3>3, HeldSame
    <3> QED BY <3>4 DEF n, w, u
  <2>4. k[t] <= Len(devices') + 1
    BY <1>2, <1>8
  <2>5. FilledBy(t)'
    BY <1>4, <1>6, <2>2, <2>3, <2>4 DEF FilledBy
  <2>6. ~(\A s \in Callers : ~MakesDevice(s)' /\ pc'[s] # "fill")
    BY <1>1
  <2> QED BY <2>1, <2>5, <2>6 DEF Filling, FilledBy
<1>18. Begun'
  <2>1. \A s \in Callers : pc'[s] \notin {"sweep", "start"}
    BY <1>1 DEF Scanning
  <2>2. ~NoScan'
    BY <1>1 DEF NoScan, Busy, Scanning
  <2>3. \A n \in 1 .. Len(obj') :
          /\ obj'[n].begun = (IF obj'[n].state = "running" THEN 1 ELSE 0)
          /\ obj'[n].state = "running" => obj'[n].ds
    BY <1>9 DEF Begun
  <2> QED BY <2>1, <2>2, <2>3 DEF Begun
<1> QED BY <1>1, <1>11, <1>12, <1>13, <1>15, <1>16, <1>17, <1>18

LEMMA FillInv == ASSUME Inv, NEW t \in Callers, Fill(t) PROVE Inv'
<1> DEFINE d == devices[k[t]]
<1>1. pc[t] = "fill" /\ k[t] <= Len(devices) /\ UNCHANGED <<mtx, lock, pc, todo, at, up, dead>>
  BY DEF Fill
<1>2. CASE Duplicate(d)
  <2>1. /\ devices' = RemoveAt(devices, k[t])
        /\ obj' = [obj EXCEPT ![d].alive = FALSE]
        /\ UNCHANGED <<devList, listed, k>>
    BY <1>2 DEF Fill
  <2> HIDE DEF d
  <2> QED BY <1>1, <1>2, <2>1, EraseInv DEF d
<1>3. CASE ~Duplicate(d)
  <2>1. /\ devList' = AddDevice(devList, d)
        /\ listed' = listed \cup {d}
        /\ k' = [k EXCEPT ![t] = @ + 1]
        /\ UNCHANGED <<obj, devices>>
    BY <1>3 DEF Fill
  <2> QED BY <1>1, <1>3, <2>1, KeepInv
<1> QED BY <1>2, <1>3

\* A step of a scan that changes nothing of a device, the list or the locks,
\* from the end of one round of begin() to another.
LEMMA Goes ==
  ASSUME Inv, NEW t \in Callers, Busy(t), pc[t] \notin {"init", "add", "rebuild", "search", "start"},
         NEW x \in {"begin", "sweep", Idle}, pc' = [pc EXCEPT ![t] = x],
         pc[t] = "fill" => k[t] = Len(devices) + 1,
         UNCHANGED <<registry, mtx, lock, todo, at, dead>>,
         k' \in [Threads -> Nat \ {0}], up' \in BOOLEAN,
         x = "sweep" => up' /\ \A p \in 1 .. Len(devices) : p < k'[t] => Running(devices[p]),
         x = Idle /\ up' => \A p \in 1 .. Len(devices) : Running(devices[p])
  PROVE  Inv'
<1> USE DEF Inv
<1>0. /\ x \in Scanning \cup {Idle} /\ x \notin {"init", "add", "rebuild", "fill", "start", "locked"}
      /\ UNCHANGED <<obj, devices, devList, listed, mtx, lock, todo, at, dead>>
  BY DEF Scanning, registry, Idle
<1>1. /\ t \in Threads /\ Callers \subseteq Threads /\ Main \in Callers
      /\ pc[t] \in Scanning
      /\ (t # Main => pc[Main] = Idle)
      /\ \A s \in Callers : s # t => pc[s] \notin Scanning /\ pc'[s] = pc[s] /\ pc'[s] \notin Scanning
      /\ pc' \in [Threads -> Scanning \cup {Idle, "found", "locked"}]
      /\ pc'[t] = x /\ \A s \in Threads : s # t => pc'[s] = pc[s]
      /\ OneScan'
      /\ \A u \in Threads : UsesDevice(u)' => u # t /\ UsesDevice(u) /\ pc'[u] = pc[u]
  BY <1>0, Moves
<1>2. Types' /\ List'
  BY <1>0, <1>1 DEF Types, List, InOrder
<1>3. Locks'
  <2>1. \A d \in 1 .. Len(lock) : lock[d] # Nobody => lock[d] # t
    BY <1>1 DEF Locks, Scanning
  <2>2. mtx # t
    BY <1>1, Numbers DEF Locks, InBusses
  <2> QED BY <1>0, <1>1, <2>1, <2>2, LocksKept
<1>4. Alive'
  BY <1>0, <1>1 DEF Alive
<1>5. NewDevices'
  BY <1>0, <1>1 DEF NewDevices, MakesDevice, Scanning
<1>6. Filling'
  <2>1. Held(obj, devices, Range(devList), Len(devices))
    <3>1. CASE pc[t] = "fill"
      <4>1. Held(obj, devices, Range(devList), k[t] - 1)
        BY <3>1 DEF Filling
      <4>2. k[t] - 1 = Len(devices)
        BY <3>1 DEF Types
      <4> QED BY <4>1, <4>2
    <3>2. CASE pc[t] # "fill"
      <4>1. pc[Main] # "rebuild"
        BY <1>1 DEF Idle
      <4>2. \A s \in Callers : ~MakesDevice(s) /\ pc[s] # "fill"
        BY <1>1, <3>2 DEF MakesDevice, Scanning
      <4> QED BY <4>1, <4>2 DEF Filling
    <3> QED BY <3>1, <3>2
  <2>2. \A s \in Callers : ~MakesDevice(s)' /\ pc'[s] # "fill"
    BY <1>0, <1>1 DEF MakesDevice, Scanning
  <2> QED BY <1>0, <2>1, <2>2 DEF Filling
<1>7. Begun'
  <2>1. \A s \in Callers : pc'[s] \in {"sweep", "start"} => s = t /\ x = "sweep"
    BY <1>0, <1>1 DEF Scanning
  <2>2. NoScan' => x = Idle
    BY <1>1 DEF NoScan, Busy, Scanning
  <2>3. \A p \in 1 .. Len(devices) : Running(devices[p])' <=> Running(devices[p])
    BY <1>0 DEF Running
  <2>4. \A s \in Callers : pc'[s] # "start"
    BY <1>0, <1>1 DEF Scanning
  <2> QED BY <1>0, <2>1, <2>2, <2>3, <2>4 DEF Begun
<1> QED BY <1>1, <1>2, <1>3, <1>4, <1>5, <1>6, <1>7

LEMMA FilledInv == ASSUME Inv, NEW t \in Callers, Filled(t) PROVE Inv'
<1>1. /\ Busy(t) /\ pc[t] = "fill" /\ pc' = [pc EXCEPT ![t] = "begin"]
      /\ UNCHANGED <<registry, mtx, lock, todo, at, dead>> /\ k' = k /\ up' = up
  BY DEF Filled, Goto, Busy, Scanning
<1>2. k[t] = Len(devices) + 1
  <2>1. k[t] <= Len(devices) + 1 /\ k[t] > Len(devices)
    BY <1>1 DEF Inv, Filling, Filled
  <2>2. k[t] \in Nat /\ Len(devices) \in Nat
    BY DEF Inv, Types, Threads
  <2> QED BY <2>1, <2>2
<1>3. k' \in [Threads -> Nat \ {0}] /\ up' \in BOOLEAN
  BY <1>1 DEF Inv, Types
<1> QED BY <1>1, <1>2, <1>3, Goes DEF Idle

LEMMA BeginInv == ASSUME Inv, NEW t \in Callers, Begin(t) PROVE Inv'
<1>1. /\ Busy(t) /\ pc[t] = "begin" /\ k' = [k EXCEPT ![t] = 1]
      /\ UNCHANGED <<registry, mtx, lock, todo, at, dead>>
      /\ \/ up' = TRUE /\ pc' = [pc EXCEPT ![t] = "sweep"]
         \/ up' = FALSE /\ pc' = [pc EXCEPT ![t] = Idle]
  BY DEF Begin, Goto, Busy, Scanning, AfterInit
<1>2. k' \in [Threads -> Nat \ {0}] /\ up' \in BOOLEAN
  <2>1. k \in [Threads -> Nat \ {0}]
    BY DEF Inv, Types
  <2>2. 1 \in Nat \ {0}
    OBVIOUS
  <2> QED BY <1>1, <2>1, <2>2
<1>3. k'[t] = 1 /\ \A p \in 1 .. Len(devices) : ~(p < 1)
  BY <1>1 DEF Inv, Types, Threads
<1>4. CASE up' = TRUE /\ pc' = [pc EXCEPT ![t] = "sweep"]
  BY <1>1, <1>2, <1>3, <1>4, Goes DEF Idle
<1>5. CASE up' = FALSE /\ pc' = [pc EXCEPT ![t] = Idle]
  BY <1>1, <1>2, <1>5, Goes DEF Idle
<1> QED BY <1>1, <1>4, <1>5

LEMMA SweptInv == ASSUME Inv, NEW t \in Callers, Swept(t) PROVE Inv'
<1>1. /\ Busy(t) /\ pc[t] = "sweep" /\ pc' = [pc EXCEPT ![t] = Idle] /\ k[t] > Len(devices)
      /\ UNCHANGED <<registry, mtx, lock, todo, at, dead>> /\ k' = k /\ up' = up
  BY DEF Swept, Goto, Busy, Scanning
<1>2. \A p \in 1 .. Len(devices) : Running(devices[p])
  <2>1. \A p \in 1 .. Len(devices) : p < k[t] => Running(devices[p])
    BY <1>1 DEF Inv, Begun
  <2>2. k[t] \in Nat /\ Len(devices) \in Nat
    BY DEF Inv, Types, Threads
  <2> QED BY <1>1, <2>1, <2>2
<1>3. k' \in [Threads -> Nat \ {0}] /\ up' \in BOOLEAN
  BY <1>1 DEF Inv, Types
<1> QED BY <1>1, <1>2, <1>3, Goes DEF Idle

\* A step of the sweep at device d gives it a controller, and may start it.
LEMMA Sweeps ==
  ASSUME Inv, NEW t \in Callers, pc[t] \in {"sweep", "start"}, k[t] <= Len(devices),
         NEW d, d = devices[k[t]],
         NEW x \in {"sweep", "start"}, pc' = [pc EXCEPT ![t] = x],
         obj' \in Seq(ObjType), Len(obj') = Len(obj),
         \A n \in 1 .. Len(obj) : n # d => obj'[n] = obj[n],
         obj'[d].rom = obj[d].rom, obj'[d].alive = obj[d].alive, obj'[d].ds,
         obj'[d].begun = (IF obj'[d].state = "running" THEN 1 ELSE 0),
         x = "sweep" => obj'[d].state = "running" /\ k' = [k EXCEPT ![t] = @ + 1],
         x = "start" => obj'[d].state # "running" /\ k' = k /\ at'[t] = d,
         lock' \in Seq(Threads \cup {Nobody}), Len(lock') = Len(lock),
         at' \in [Threads -> Nat], \A s \in Threads : s # t => at'[s] = at[s],
         \A n \in 1 .. Len(lock) : \/ lock'[n] = Nobody
                                   \/ lock'[n] = lock[n] /\ lock[n] # t
                                   \/ lock'[n] = t /\ x = "start" /\ n = d,
         UNCHANGED <<devices, devList, listed, mtx, todo, up, dead>>
  PROVE  Inv'
<1> USE DEF Inv
<1>0. Busy(t) /\ x \in Scanning \cup {Idle}
  BY DEF Scanning, Busy
<1>1. /\ t \in Threads /\ Callers \subseteq Threads /\ Main \in Callers
      /\ (t # Main => pc[Main] = Idle)
      /\ \A s \in Callers : s # t => pc[s] \notin Scanning /\ pc'[s] = pc[s] /\ pc'[s] \notin Scanning
      /\ pc' \in [Threads -> Scanning \cup {Idle, "found", "locked"}]
      /\ pc'[t] = x /\ \A s \in Threads : s # t => pc'[s] = pc[s]
      /\ OneScan'
      /\ \A u \in Threads : UsesDevice(u)' => u # t /\ UsesDevice(u) /\ pc'[u] = pc[u]
  BY <1>0, Moves
<1>2. /\ k[t] \in 1 .. Len(devices) /\ Len(devices) \in Nat /\ k[t] \in Nat
      /\ d \in 1 .. Len(obj) /\ \A p \in 1 .. Len(devices) : devices[p] \in 1 .. Len(obj)
      /\ k' \in [Threads -> Nat \ {0}]
  <2>1. k \in [Threads -> Nat \ {0}] /\ k[t] \in Nat \ {0} /\ Len(devices) \in Nat
    BY <1>1 DEF Types
  <2>2. k[t] \in 1 .. Len(devices) /\ k[t] \in Nat /\ k[t] + 1 \in Nat \ {0}
    BY <2>1
  <2>3. \A p \in 1 .. Len(devices) : devices[p] \in 1 .. Len(obj)
    BY DevicesAre
  <2>4. k' \in [Threads -> Nat \ {0}]
    <3>1. k' = k \/ k' = [k EXCEPT ![t] = k[t] + 1]
      OBVIOUS
    <3> QED BY <2>1, <2>2, <3>1
  <2> QED BY <2>1, <2>2, <2>3, <2>4
<1>3. \A n \in 1 .. Len(obj) : obj'[n].rom = obj[n].rom /\ obj'[n].alive = obj[n].alive
  OBVIOUS
<1>4. Types'
  <2>1. /\ devices' \in Seq(1 .. Len(obj')) /\ IsInjective(devices')
        /\ devList' \in Seq(1 .. Len(obj')) /\ listed' \subseteq 1 .. Len(obj')
    BY DEF Types
  <2>2. /\ mtx' \in Threads \cup {Nobody} /\ todo' \in [Threads -> SUBSET Codes]
        /\ up' \in BOOLEAN /\ dead' \in BOOLEAN /\ Len(lock') = Len(obj')
    BY DEF Types
  <2> QED BY <1>1, <1>2, <2>1, <2>2 DEF Types
<1>5. List'
  <2>1. \A n \in 1 .. Len(devList) : devList[n] \in 1 .. Len(obj)
    <3>1. devList \in Seq(1 .. Len(obj))
      BY DEF Types
    <3> QED BY ONLY <3>1
  <2> QED BY <1>3, <2>1 DEF List, InOrder
<1>6. Locks'
  <2>1. mtx # t
    BY <1>1, Numbers DEF Locks, InBusses
  <2>2. \A n \in 1 .. Len(lock') : lock'[n] # Nobody =>
          \/ n \in 1 .. Len(lock) /\ lock'[n] = lock[n] /\ lock[n] # t
          \/ lock'[n] = t /\ pc'[t] \in {"locked", "start"} /\ at'[t] = n
    BY <1>1
  <2> QED BY <1>1, <2>1, <2>2, LocksKept, SMTT(30)
<1>7. Alive'
  BY <1>1, <1>2, <1>3 DEF Alive
<1>8. NewDevices'
  BY <1>1 DEF NewDevices, MakesDevice, Scanning
<1>9. Filling'
  <2>1. Held(obj, devices, Range(devList), Len(devices))
    <3>1. pc[Main] # "rebuild"
      BY <1>1 DEF Idle
    <3>2. \A s \in Callers : ~MakesDevice(s) /\ pc[s] # "fill"
      BY <1>1 DEF MakesDevice, Scanning
    <3> QED BY <3>1, <3>2 DEF Filling
  <2>2. \A p \in 1 .. Len(devices) : devices'[p] = devices[p] /\ obj'[devices[p]].rom = obj[devices[p]].rom
    BY <1>2, <1>3
  <2>3. Held(obj', devices', Range(devList), Len(devices))
    BY <1>2, <2>1, <2>2, HeldSame
  <2>4. \A s \in Callers : ~MakesDevice(s)' /\ pc'[s] # "fill"
    BY <1>1 DEF MakesDevice, Scanning
  <2> QED BY <2>3, <2>4 DEF Filling
<1>10. Begun'
  <2>1. \A n \in 1 .. Len(obj') :
          /\ obj'[n].begun = (IF obj'[n].state = "running" THEN 1 ELSE 0)
          /\ obj'[n].state = "running" => obj'[n].ds
    <3>1. ASSUME NEW n \in 1 .. Len(obj)
          PROVE  /\ obj'[n].begun = (IF obj'[n].state = "running" THEN 1 ELSE 0)
                 /\ obj'[n].state = "running" => obj'[n].ds
      <4>1. CASE n = d
        BY <4>1
      <4>2. CASE n # d
        BY <4>2 DEF Begun
      <4> QED BY <4>1, <4>2
    <3> QED BY <3>1
  <2>2. \A s \in Callers : pc'[s] \in {"sweep", "start"} => s = t
    BY <1>1 DEF Scanning
  <2>3. ~NoScan'
    BY <1>0, <1>1 DEF NoScan, Busy, Scanning
  <2>4. up /\ \A p \in 1 .. Len(devices) : p < k[t] => Running(devices[p])
    BY DEF Begun
  <2>5. \A p \in 1 .. Len(devices) : p < k[t] => devices[p] # d
    BY <1>2, DevicesAre
  <2>6. \A p \in 1 .. Len(devices) : p < k[t] => Running(devices[p])'
    BY <1>2, <2>4, <2>5 DEF Running
  <2>7. ASSUME NEW p \in 1 .. Len(devices), p < k'[t] PROVE Running(devices[p])'
    <3>1. CASE x = "start"
      BY <2>6, <2>7, <3>1
    <3>2. CASE x = "sweep"
      <4>1. k'[t] = k[t] + 1
        BY <1>1, <3>2 DEF Types
      <4>2. p < k[t] \/ p = k[t]
        BY <1>2, <2>7, <4>1
      <4> QED BY <2>6, <3>2, <4>2 DEF Running
    <3> QED BY <3>1, <3>2
  <2>8. x = "start" => /\ k'[t] <= Len(devices') /\ at'[t] = devices'[k'[t]]
                       /\ obj'[at'[t]].ds /\ obj'[at'[t]].state # "running"
    OBVIOUS
  <2>9. \A s \in Callers : pc'[s] = "start" => s = t /\ x = "start"
    BY <1>1 DEF Scanning
  <2> QED BY <2>1, <2>2, <2>3, <2>4, <2>7, <2>8, <2>9 DEF Begun
<1> QED BY <1>1, <1>4, <1>5, <1>6, <1>7, <1>8, <1>9, <1>10

LEMMA ObjSet ==
  ASSUME obj \in Seq(ObjType), NEW d \in 1 .. Len(obj), NEW o \in ObjType,
         obj' = [obj EXCEPT ![d] = o]
  PROVE  /\ obj' \in Seq(ObjType) /\ Len(obj') = Len(obj) /\ obj'[d] = o
         /\ \A n \in 1 .. Len(obj) : n # d => obj'[n] = obj[n]
<1> DEFINE S == ObjType
<1>1. obj \in Seq(S) /\ o \in S
  OBVIOUS
<1> HIDE DEF S
<1>2. obj' \in Seq(S) /\ Len(obj') = Len(obj) /\ obj'[d] = o
      /\ \A n \in 1 .. Len(obj) : n # d => obj'[n] = obj[n]
  BY <1>1
<1> QED BY <1>2 DEF S

LEMMA BeginDeviceInv == ASSUME Inv, NEW t \in Callers, BeginDevice(t) PROVE Inv'
<1> DEFINE d == devices[k[t]]
<1>0. /\ pc[t] = "sweep" /\ k[t] <= Len(devices) /\ t \in Threads
      /\ lock[d] = Nobody /\ obj' = [obj EXCEPT ![d].ds = TRUE]
      /\ UNCHANGED <<devices, devList, listed, mtx, todo, up, dead>>
  BY DEF BeginDevice, Threads
<1>1. /\ obj \in Seq(ObjType) /\ \A n \in 1 .. Len(obj) : obj[n] \in ObjType
      /\ lock \in Seq(Threads \cup {Nobody}) /\ Len(lock) = Len(obj)
      /\ pc \in [Threads -> Scanning \cup {Idle, "found", "locked"}]
      /\ k \in [Threads -> Nat \ {0}] /\ at \in [Threads -> Nat]
  BY DEF Inv, Types
<1>2. d \in 1 .. Len(obj) /\ d \in Nat
  <2>1. k[t] \in 1 .. Len(devices)
    BY <1>0, <1>1 DEF Inv, Types
  <2> QED BY <2>1 DEF Inv, Types
<1> HIDE DEF d
<1>3. [obj[d] EXCEPT !.ds = TRUE] \in ObjType /\ obj' = [obj EXCEPT ![d] = [obj[d] EXCEPT !.ds = TRUE]]
  BY <1>0, <1>1, <1>2 DEF ObjType
<1>4. /\ obj' \in Seq(ObjType) /\ Len(obj') = Len(obj)
      /\ \A n \in 1 .. Len(obj) : n # d => obj'[n] = obj[n]
      /\ obj'[d] = [obj[d] EXCEPT !.ds = TRUE]
  BY <1>1, <1>2, <1>3, ObjSet
<1>5. /\ obj'[d].rom = obj[d].rom /\ obj'[d].alive = obj[d].alive /\ obj'[d].ds
      /\ obj'[d].begun = obj[d].begun /\ obj'[d].state = obj[d].state
  BY <1>1, <1>2, <1>4 DEF ObjType
<1>6. obj'[d].begun = (IF obj'[d].state = "running" THEN 1 ELSE 0)
  BY <1>2, <1>5 DEF Inv, Begun
<1>7. \A n \in 1 .. Len(lock) : lock[n] # Nobody => lock[n] # t
  BY <1>0 DEF Inv, Locks
<1>8. CASE obj[d].state # "running"
  <2>1. lock' = [lock EXCEPT ![d] = t] /\ at' = [at EXCEPT ![t] = d]
        /\ pc' = [pc EXCEPT ![t] = "start"] /\ k' = k
    BY <1>8 DEF BeginDevice, ToBegin, Goto, d
  <2>2. /\ lock' \in Seq(Threads \cup {Nobody}) /\ Len(lock') = Len(lock)
        /\ at' \in [Threads -> Nat] /\ at'[t] = d /\ \A s \in Threads : s # t => at'[s] = at[s]
        /\ \A n \in 1 .. Len(lock) : \/ lock'[n] = Nobody
                                     \/ lock'[n] = lock[n] /\ lock[n] # t
                                     \/ lock'[n] = t /\ n = d
    BY <1>0, <1>1, <1>2, <1>7, <2>1
  <2> DEFINE x == "start"
  <2>3. /\ x \in {"sweep", "start"} /\ pc' = [pc EXCEPT ![t] = x] /\ d = devices[k[t]]
        /\ x = "sweep" => obj'[d].state = "running" /\ k' = [k EXCEPT ![t] = @ + 1]
        /\ x = "start" => obj'[d].state # "running" /\ k' = k /\ at'[t] = d
        /\ \A n \in 1 .. Len(lock) : \/ lock'[n] = Nobody
                                     \/ lock'[n] = lock[n] /\ lock[n] # t
                                     \/ lock'[n] = t /\ x = "start" /\ n = d
    BY <1>5, <1>8, <2>1, <2>2 DEF d
  <2>4. pc[t] \in {"sweep", "start"}
    BY <1>0
  <2> HIDE DEF x
  <2> QED BY <1>0, <1>4, <1>5, <1>6, <2>2, <2>3, <2>4, Sweeps, ZenonT(60)
<1>9. CASE obj[d].state = "running"
  <2>1. lock' = lock /\ at' = at /\ pc' = pc /\ k' = [k EXCEPT ![t] = @ + 1]
    BY <1>9 DEF BeginDevice, ToBegin, d
  <2>2. pc' = [pc EXCEPT ![t] = "sweep"]
    BY <1>0, <1>1, <2>1
  <2>3. \A n \in 1 .. Len(lock) : lock'[n] = Nobody \/ (lock'[n] = lock[n] /\ lock[n] # t)
    BY <1>7, <2>1
  <2>4. /\ k' = [k EXCEPT ![t] = @ + 1] /\ d = devices[k[t]]
        /\ lock' \in Seq(Threads \cup {Nobody}) /\ Len(lock') = Len(lock)
        /\ at' \in [Threads -> Nat] /\ at' = at
    BY <1>1, <2>1 DEF d
  <2>5. obj'[d].state = "running" /\ obj'[d].ds /\ obj'[d].rom = obj[d].rom /\ obj'[d].alive = obj[d].alive
    BY <1>5, <1>9
  <2> QED BY <1>0, <1>4, <1>6, <2>2, <2>3, <2>4, <2>5, Sweeps, ZenonT(60)
<1> QED BY <1>8, <1>9

LEMMA StartDeviceInv == ASSUME Inv, NEW t \in Callers, StartDevice(t) PROVE Inv'
<1> DEFINE d == at[t]
<1>0. /\ pc[t] = "start" /\ t \in Threads
      /\ obj' = [obj EXCEPT ![d].state = "running", ![d].begun = @ + 1]
      /\ lock' = [lock EXCEPT ![d] = Nobody] /\ k' = [k EXCEPT ![t] = @ + 1]
      /\ pc' = [pc EXCEPT ![t] = "sweep"] /\ at' = at
      /\ UNCHANGED <<devices, devList, listed, mtx, todo, up, dead>>
  BY DEF StartDevice, Threads, Goto
<1>1. /\ obj \in Seq(ObjType) /\ \A n \in 1 .. Len(obj) : obj[n] \in ObjType
      /\ lock \in Seq(Threads \cup {Nobody}) /\ Len(lock) = Len(obj)
      /\ k \in [Threads -> Nat \ {0}] /\ at \in [Threads -> Nat]
  BY DEF Inv, Types
<1>2. k[t] <= Len(devices) /\ d = devices[k[t]] /\ obj[d].ds /\ obj[d].state # "running"
  BY <1>0 DEF Inv, Begun
<1>3. d \in 1 .. Len(obj) /\ d \in Nat
  <2>1. k[t] \in 1 .. Len(devices)
    BY <1>0, <1>1, <1>2 DEF Inv, Types
  <2> QED BY <1>2, <2>1 DEF Inv, Types
<1>4. obj[d].begun = 0 /\ obj[d] \in ObjType
  BY <1>1, <1>2, <1>3 DEF Inv, Begun
<1> HIDE DEF d
<1> DEFINE o == [obj[d] EXCEPT !.state = "running", !.begun = @ + 1]
<1>5. /\ o \in ObjType /\ o.rom = obj[d].rom /\ o.alive = obj[d].alive /\ o.ds = obj[d].ds
      /\ o.state = "running" /\ o.begun = 1
  <2>1. o.rom = obj[d].rom /\ o.alive = obj[d].alive /\ o.ds = obj[d].ds /\ o.state = "running"
    BY <1>4 DEF ObjType
  <2>2. o.begun = 1
    <3>1. o.begun = obj[d].begun + 1
      BY <1>4 DEF ObjType
    <3> QED BY <1>4, <3>1
  <2>3. o \in ObjType
    <3>1. obj[d].begun + 1 \in Nat
      BY <1>4
    <3> QED BY <1>4, <3>1 DEF ObjType
  <2> QED BY <2>1, <2>2, <2>3
<1>6. obj' = [obj EXCEPT ![d] = o]
  BY <1>0, <1>1, <1>3, <1>4 DEF ObjType
<1> HIDE DEF o
<1>7. /\ obj' \in Seq(ObjType) /\ Len(obj') = Len(obj)
      /\ \A n \in 1 .. Len(obj) : n # d => obj'[n] = obj[n]
      /\ obj'[d] = o
  BY <1>1, <1>3, <1>5, <1>6, ObjSet
<1>8. \A n \in 1 .. Len(lock) : lock[n] # Nobody /\ n # d => lock[n] # t
  BY <1>0 DEF Inv, Locks, d
<1>9. /\ lock' \in Seq(Threads \cup {Nobody}) /\ Len(lock') = Len(lock)
      /\ \A n \in 1 .. Len(lock) : \/ lock'[n] = Nobody
                                   \/ lock'[n] = lock[n] /\ lock[n] # t
  BY <1>0, <1>1, <1>3, <1>8
<1>10. /\ obj'[d].rom = obj[d].rom /\ obj'[d].alive = obj[d].alive /\ obj'[d].ds
       /\ obj'[d].state = "running" /\ obj'[d].begun = (IF obj'[d].state = "running" THEN 1 ELSE 0)
  BY <1>2, <1>5, <1>7
<1> QED BY <1>0, <1>1, <1>2, <1>7, <1>9, <1>10, Sweeps, ZenonT(60)

-----------------------------------------------------------------------------
(***************************************************************************)
(* The steps of a user                                                     *)
(***************************************************************************)

\* A user's step moves it, and the lock of its device: what it found is a
\* device of the list, so no new one.
LEMMA UserMoves ==
  ASSUME Inv, NEW t \in Users, pc[t] \in {Idle, "found", "locked"},
         NEW x \in {Idle, "found", "locked"}, pc' = [pc EXCEPT ![t] = x],
         x # Idle => /\ pc[Main] = Idle /\ at'[t] \in Range(devices)
                     /\ \A s \in Callers : MakesDevice(s) => at'[t] # at[s],
         at' \in [Threads -> Nat], \A s \in Threads : s # t => at'[s] = at[s],
         lock' \in Seq(Threads \cup {Nobody}), Len(lock') = Len(lock),
         \A n \in 1 .. Len(lock) : \/ lock'[n] = Nobody
                                   \/ lock'[n] = lock[n] /\ lock[n] # t
                                   \/ lock'[n] = t /\ x = "locked" /\ n = at'[t],
         UNCHANGED <<registry, mtx, k, todo, up>>, dead' \in BOOLEAN
  PROVE  Inv'
<1> USE DEF Inv
<1>0. /\ t \in Threads /\ Callers \subseteq Threads /\ Main \in Callers /\ t # Main
      /\ UNCHANGED <<obj, devices, devList, listed, mtx, k, todo, up>>
      /\ pc[t] \notin Scanning /\ x \notin Scanning
  BY RegistryAssumption DEF Threads, Callers, registry, Scanning, Idle
<1>1. /\ pc' \in [Threads -> Scanning \cup {Idle, "found", "locked"}]
      /\ pc'[t] = x /\ \A s \in Threads : s # t => pc'[s] = pc[s]
      /\ pc'[Main] = pc[Main]
  BY <1>0 DEF Types
<1>2. \A s \in Callers : \/ s # t /\ pc'[s] = pc[s] /\ at'[s] = at[s]
                         \/ pc[s] \notin Scanning /\ pc'[s] \notin Scanning
  BY <1>0, <1>1
<1>3. /\ \A s \in Callers : Busy(s)' <=> Busy(s)
      /\ \A s \in Callers : MakesDevice(s)' <=> MakesDevice(s)
      /\ \A s \in Callers : Busy(s) \/ MakesDevice(s) => pc'[s] = pc[s] /\ at'[s] = at[s]
      /\ \A s \in Callers : pc'[s] \in Scanning \/ pc[s] \in Scanning => pc'[s] = pc[s] /\ at'[s] = at[s]
      /\ NoScan' <=> NoScan
  BY <1>2 DEF Busy, MakesDevice, NoScan, Scanning
<1>4. Types' /\ List'
  BY <1>0, <1>1 DEF Types, List, InOrder
<1>5. Locks'
  <2>1. mtx # t
    BY <1>0, Numbers DEF Locks, InBusses, Scanning
  <2>2. \A n \in 1 .. Len(lock') : lock'[n] # Nobody =>
          \/ n \in 1 .. Len(lock) /\ lock'[n] = lock[n] /\ lock[n] # t
          \/ lock'[n] = t /\ pc'[t] \in {"locked", "start"} /\ at'[t] = n
    BY <1>1
  <2> QED BY <1>0, <1>1, <2>1, <2>2, LocksKept
<1>6. \A u \in Threads : UsesDevice(u)' =>
        \/ u # t /\ UsesDevice(u) /\ at'[u] = at[u]
        \/ u = t /\ x # Idle
  BY <1>1 DEF UsesDevice, Idle
<1>7. OneScan'
  <2>1. \A s \in Threads : Busy(s)' => s \in Callers
    BY <1>0, <1>1 DEF OneScan, Busy
  <2> QED BY <1>1, <1>3, <1>6, <2>1 DEF OneScan
<1>8. Alive'
  BY <1>0, <1>6 DEF Alive
<1>9. NewDevices'
  <2>1. ASSUME NEW s \in Callers, MakesDevice(s)' PROVE New(s)'
    <3>1. MakesDevice(s) /\ at'[s] = at[s] /\ New(s)
      BY <1>3, <2>1 DEF NewDevices
    <3>2. at[s] \in 1 .. Len(lock)
      BY <3>1 DEF New, Types
    <3>3. lock'[at[s]] = Nobody
      BY <3>1, <3>2 DEF New, Idle
    <3>4. \A u \in Threads : UsesDevice(u)' => at'[u] # at[s]
      BY <1>6, <3>1 DEF New
    <3> QED BY <1>0, <3>1, <3>3, <3>4 DEF New, RomOf
  <2> QED BY <2>1 DEF NewDevices
<1>10. Filling'
  <2>1. \A s \in Callers : pc'[s] = "fill" <=> pc[s] = "fill"
    BY <1>2 DEF Scanning
  <2>2. \A s \in Callers : MakesDevice(s)' => MakesDevice(s)
    BY <1>3
  <2>3. (pc[Main] # "rebuild" /\ \A s \in Callers : ~MakesDevice(s) /\ pc[s] # "fill")'
          => pc[Main] # "rebuild" /\ \A s \in Callers : ~MakesDevice(s) /\ pc[s] # "fill"
    BY <1>1, <1>3, <2>1
  <2>4. ASSUME NEW s \in Callers, pc'[s] = "fill" PROVE FilledBy(s)
    BY <2>1, <2>4 DEF Filling, FilledBy
  <2>5. ASSUME NEW s \in Callers, pc'[s] = "fill" PROVE FilledBy(s)'
    BY <1>0, <1>1, <2>4, <2>5 DEF FilledBy
  <2>6. ASSUME NEW s \in Callers, MakesDevice(s)'
        PROVE  Held(obj, devices, Range(devList), Len(devices) - 1)
    BY <2>2, <2>6 DEF Filling
  <2> QED BY <1>0, <2>3, <2>5, <2>6 DEF Filling, FilledBy
<1>11. Begun'
  <2>1. \A s \in Callers : pc'[s] \in {"sweep", "start"} => pc'[s] = pc[s] /\ at'[s] = at[s]
    BY <1>2 DEF Scanning
  <2> QED BY <1>0, <1>3, <2>1 DEF Begun, Running
<1> QED BY <1>4, <1>5, <1>7, <1>8, <1>9, <1>10, <1>11

LEMMA RangeOfDevices ==
  ASSUME Types
  PROVE  Range(devices) \subseteq 1 .. Len(obj)
<1>1. Range(devices) = {devices[p] : p \in 1 .. Len(devices)}
  BY RangeEquality DEF Types
<1>2. \A p \in 1 .. Len(devices) : devices[p] \in 1 .. Len(obj)
  BY DEF Types
<1> QED BY <1>1, <1>2

LEMMA LookupInv == ASSUME Inv, NEW t \in Users, Lookup(t) PROVE Inv'
<1>1. PICK d \in Range(devList) \cup listed : at' = [at EXCEPT ![t] = d]
  BY DEF Lookup
<1>2. /\ pc[Main] = Idle /\ pc[t] = Idle /\ pc' = [pc EXCEPT ![t] = "found"] /\ t \in Threads
      /\ UNCHANGED <<registry, mtx, lock, k, todo, up, dead>>
  BY DEF Lookup, Started, Goto, Threads
<1>3. d \in Range(devices) /\ d \in Nat
  <2>1. d \in Range(devices)
    BY DEF Inv, Alive
  <2> QED BY <2>1, RangeOfDevices DEF Inv
<1>4. at' \in [Threads -> Nat] /\ at'[t] = d /\ \A s \in Threads : s # t => at'[s] = at[s]
  BY <1>1, <1>2, <1>3 DEF Inv, Types
<1>5. \A s \in Callers : MakesDevice(s) => at'[t] # at[s]
  BY <1>4 DEF Inv, NewDevices, New
<1>6. /\ lock' \in Seq(Threads \cup {Nobody}) /\ Len(lock') = Len(lock) /\ dead' \in BOOLEAN
      /\ \A n \in 1 .. Len(lock) : lock'[n] = Nobody \/ (lock'[n] = lock[n] /\ lock[n] # t)
  BY <1>2 DEF Inv, Types, Locks, Idle
<1> QED BY <1>2, <1>3, <1>4, <1>5, <1>6, UserMoves

\* What a user found is a device that is not new.
LEMMA Found ==
  ASSUME Inv, NEW t \in Users, UsesDevice(t)
  PROVE  /\ pc[Main] = Idle /\ at[t] \in Range(devices) /\ at[t] \in 1 .. Len(lock) /\ t \in Threads
         /\ \A s \in Callers : MakesDevice(s) => at[t] # at[s]
<1>1. at[t] \in Range(devices) /\ t \in Threads /\ pc[Main] = Idle
  BY DEF Inv, Alive, OneScan, Threads
<1>2. Range(devices) \subseteq 1 .. Len(obj)
  BY RangeOfDevices DEF Inv
<1>3. Len(lock) = Len(obj)
  BY DEF Inv, Types
<1>4. \A s \in Callers : MakesDevice(s) => at[t] # at[s]
  BY <1>1 DEF Inv, NewDevices, New
<1> QED BY <1>1, <1>2, <1>3, <1>4

LEMMA CachedInv == ASSUME Inv, NEW t \in Users, Cached(t) PROVE Inv'
<1>1. /\ pc[t] = "found" /\ pc' = [pc EXCEPT ![t] = Idle] /\ t \in Threads
      /\ UNCHANGED <<registry, mtx, lock, k, todo, at, up, dead>>
  BY DEF Cached, Goto, Threads
<1>2. /\ lock' \in Seq(Threads \cup {Nobody}) /\ Len(lock') = Len(lock) /\ dead' \in BOOLEAN
      /\ at' \in [Threads -> Nat]
      /\ \A n \in 1 .. Len(lock) : lock'[n] = Nobody \/ (lock'[n] = lock[n] /\ lock[n] # t)
  BY <1>1 DEF Inv, Types, Locks
<1> QED BY <1>1, <1>2, UserMoves

LEMMA LockDeviceInv == ASSUME Inv, NEW t \in Users, LockDevice(t) PROVE Inv'
<1>1. /\ pc[t] = "found" /\ pc' = [pc EXCEPT ![t] = "locked"] /\ UsesDevice(t)
      /\ lock' = [lock EXCEPT ![at[t]] = t] /\ at' = at
      /\ UNCHANGED <<registry, mtx, k, todo, up, dead>>
  BY DEF LockDevice, Goto, UsesDevice
<1>2. /\ pc[Main] = Idle /\ at[t] \in Range(devices) /\ at[t] \in 1 .. Len(lock) /\ t \in Threads
      /\ \A s \in Callers : MakesDevice(s) => at[t] # at[s]
  BY <1>1, Found
<1>3. \A n \in 1 .. Len(lock) : lock[n] = Nobody \/ lock[n] # t
  BY <1>1 DEF Inv, Locks
<1>4. /\ lock' \in Seq(Threads \cup {Nobody}) /\ Len(lock') = Len(lock) /\ dead' \in BOOLEAN
      /\ at' \in [Threads -> Nat]
      /\ \A n \in 1 .. Len(lock) : \/ lock'[n] = Nobody
                                   \/ lock'[n] = lock[n] /\ lock[n] # t
                                   \/ lock'[n] = t /\ n = at'[t]
  BY <1>1, <1>2, <1>3 DEF Inv, Types
<1> QED BY <1>1, <1>2, <1>4, UserMoves

LEMMA AccessInv == ASSUME Inv, NEW t \in Users, Access(t) PROVE Inv'
<1>1. /\ pc[t] = "locked" /\ pc' = [pc EXCEPT ![t] = Idle] /\ UsesDevice(t)
      /\ lock' = [lock EXCEPT ![at[t]] = Nobody] /\ at' = at
      /\ UNCHANGED <<registry, mtx, k, todo, up>>
      /\ dead' = dead \/ dead' = TRUE
  BY DEF Access, Goto, UsesDevice
<1>2. at[t] \in 1 .. Len(lock) /\ t \in Threads
  BY <1>1, Found
<1>3. \A n \in 1 .. Len(lock) : n # at[t] => lock[n] = Nobody \/ lock[n] # t
  BY <1>1 DEF Inv, Locks
<1>4. /\ lock' \in Seq(Threads \cup {Nobody}) /\ Len(lock') = Len(lock) /\ dead' \in BOOLEAN
      /\ at' \in [Threads -> Nat]
      /\ \A n \in 1 .. Len(lock) : lock'[n] = Nobody \/ (lock'[n] = lock[n] /\ lock[n] # t)
  <2>1. lock \in Seq(Threads \cup {Nobody}) /\ at \in [Threads -> Nat] /\ dead \in BOOLEAN
    BY DEF Inv, Types
  <2>2. lock' \in Seq(Threads \cup {Nobody}) /\ Len(lock') = Len(lock)
    BY <1>1, <1>2, <2>1
  <2>3. \A n \in 1 .. Len(lock) : lock'[n] = Nobody \/ (lock'[n] = lock[n] /\ lock[n] # t)
    BY <1>1, <1>2, <1>3, <2>1
  <2>4. dead' \in BOOLEAN
    BY <1>1, <2>1, Zenon
  <2> QED BY <1>1, <2>1, <2>2, <2>3, <2>4
<1> QED BY <1>1, <1>4, UserMoves

-----------------------------------------------------------------------------
(***************************************************************************)
(* The theorems                                                            *)
(***************************************************************************)

LEMMA InitInv == Init => Inv
<1> SUFFICES ASSUME Init PROVE Inv
  OBVIOUS
<1>1. PICK c \in Configs :
        /\ obj = [n \in DOMAIN c |-> NewDevice(c[n], "init")]
        /\ devices = [n \in DOMAIN c |-> n]
        /\ lock = [n \in DOMAIN c |-> Nobody]
  BY DEF Init
<1>2. /\ devList = <<>> /\ listed = {} /\ mtx = Nobody
      /\ pc = [t \in Threads |-> IF t = Main THEN "rebuild" ELSE Idle]
      /\ k = [t \in Threads |-> 1] /\ todo = [t \in Threads |-> {}]
      /\ at = [t \in Threads |-> 0] /\ up = FALSE /\ dead = FALSE
  BY DEF Init
<1>3. c \in Seq(Roms \ Strange) /\ Len(c) \in Nat /\ DOMAIN c = 1 .. Len(c)
  BY RegistryAssumption
<1>4. /\ obj \in Seq(ObjType) /\ Len(obj) = Len(c)
      /\ \A n \in 1 .. Len(obj) : obj[n].alive /\ obj[n].begun = 0 /\ obj[n].state = "init"
  <2>1. \A n \in 1 .. Len(c) : /\ NewDevice(c[n], "init") \in ObjType
                               /\ NewDevice(c[n], "init").alive
                               /\ NewDevice(c[n], "init").begun = 0
                               /\ NewDevice(c[n], "init").state = "init"
    BY <1>3 DEF NewDevice, ObjType
  <2> QED BY <1>1, <1>3, <2>1
<1>5. /\ devices \in Seq(1 .. Len(obj)) /\ IsInjective(devices) /\ Len(devices) = Len(obj)
      /\ \A n \in 1 .. Len(devices) : devices[n] \in 1 .. Len(obj)
  BY <1>1, <1>3, <1>4 DEF IsInjective
<1>6. lock \in Seq(Threads \cup {Nobody}) /\ Len(lock) = Len(obj) /\ \A n \in 1 .. Len(lock) : lock[n] = Nobody
  BY <1>1, <1>3, <1>4
<1>7. /\ Main \in Callers /\ Main \in Threads /\ Callers \subseteq Threads /\ pc[Main] = "rebuild"
      /\ \A t \in Threads : pc[t] \in {"rebuild", Idle} /\ (pc[t] = "rebuild" => t = Main)
      /\ Range(devList) = {}
  BY <1>2 DEF Threads, Callers, Range, Idle
<1>8. Types
  <2>1. devList \in Seq(1 .. Len(obj)) /\ listed \subseteq 1 .. Len(obj)
    BY <1>2
  <2>2. pc \in [Threads -> Scanning \cup {Idle, "found", "locked"}]
    BY <1>2 DEF Scanning
  <2>3. k \in [Threads -> Nat \ {0}] /\ todo \in [Threads -> SUBSET Codes] /\ at \in [Threads -> Nat]
    BY <1>2
  <2> QED BY <1>2, <1>4, <1>5, <1>6, <2>1, <2>2, <2>3 DEF Types
<1>9. List
  <2>1. Len(devList) = 0
    BY <1>2
  <2> QED BY <2>1, Numbers DEF List, InOrder
<1>10. Locks
  BY <1>2, <1>6 DEF Locks
<1>11. OneScan
  BY <1>7 DEF OneScan, Busy, UsesDevice, Scanning, Idle
<1>12. Alive
  BY <1>2, <1>4, <1>5, <1>7 DEF Alive, UsesDevice, Idle
<1>13. NewDevices
  BY <1>7 DEF NewDevices, MakesDevice, Idle
<1>14. Filling
  BY <1>7 DEF Filling, MakesDevice, Idle
<1>15. Begun
  BY <1>2, <1>4, <1>7 DEF Begun, Idle
<1> QED BY <1>8, <1>9, <1>10, <1>11, <1>12, <1>13, <1>14, <1>15 DEF Inv

LEMMA StepInv == ASSUME OneScanner, Inv, [Next]_vars PROVE Inv'
<1>1. CASE UNCHANGED vars
  <2> USE <1>1 DEF vars, registry, thread, Inv
  <2>1. Types' /\ List'
    BY DEF Types, List, InOrder
  <2>2. Locks' /\ OneScan' /\ Alive'
    BY DEF Locks, InBusses, OneScan, Busy, UsesDevice, Alive
  <2>3. NewDevices'
    BY DEF NewDevices, MakesDevice, New, UsesDevice, RomOf
  <2>4. Filling'
    BY DEF Filling, MakesDevice
  <2>5. Begun'
    BY DEF Begun, Running, NoScan, Busy
  <2> QED BY <2>1, <2>2, <2>3, <2>4, <2>5
<1>2. ASSUME NEW t \in Callers, Scan(t) PROVE Inv'
  BY <1>2, StartScanInv, LockBusInv, ArduinoInv, UpdateDeviceInv, InitDeviceInv, AddNewInv,
    NextBusInv, RebuildInv, FillInv, FilledInv, BeginInv, BeginDeviceInv, StartDeviceInv, SweptInv
    DEF Scan
<1>3. ASSUME NEW t \in Users, Use(t) PROVE Inv'
  BY <1>3, LookupInv, CachedInv, LockDeviceInv, AccessInv DEF Use
<1> QED BY <1>1, <1>2, <1>3 DEF Next, Rest

LEMMA Invariant == ASSUME OneScanner PROVE Spec => []Inv
<1>1. Inv /\ [Next]_vars => Inv'
  BY StepInv
<1> QED BY <1>1, InitInv, PTL DEF Spec

LEMMA InvTypeOK == Inv => TypeOK
<1> SUFFICES ASSUME Inv PROVE TypeOK
  OBVIOUS
<1>1. Types /\ List
  BY DEF Inv
<1>2. /\ DOMAIN obj = 1 .. Len(obj) /\ DOMAIN devList = 1 .. Len(devList)
      /\ DOMAIN lock = 1 .. Len(lock) /\ Len(lock) = Len(obj)
  BY <1>1 DEF Types
<1>3. ASSUME NEW n \in DOMAIN obj
      PROVE  /\ obj[n].rom \in Roms \ Strange
             /\ obj[n].state \in {"created", "init", "running"}
             /\ obj[n].ds \in BOOLEAN /\ obj[n].alive \in BOOLEAN /\ obj[n].begun \in Nat
  <2>1. obj[n] \in ObjType
    BY <1>1, <1>2 DEF Types
  <2> QED BY <2>1 DEF ObjType
<1>4. \A m, n \in DOMAIN devList : m < n => RomOf(devList[m]) < RomOf(devList[n])
  BY <1>1, <1>2 DEF List, InOrder, RomOf
<1>5. Range(lock) \subseteq Threads \cup {Nobody}
  <2>1. Range(lock) = {lock[n] : n \in 1 .. Len(lock)}
    BY <1>1, RangeEquality DEF Types
  <2> QED BY <1>1, <2>1 DEF Types
<1>6. Len(devList) <= Capacity
  BY <1>1 DEF List
<1> QED BY <1>1, <1>2, <1>3, <1>4, <1>5, <1>6 DEF Types, TypeOK

\* A thread that waits for a device waits for one that waits for the bus
\* mutex at most, and who holds that waits for nobody.
LEMMA Waits ==
  ASSUME Inv, NEW t \in Threads, Blocker(t) # Nobody
  PROVE  \/ pc[Blocker(t)] \in {"locked", "start"} /\ Blocker(t) \in Threads
         \/ Blocker(t) = mtx /\ mtx # Nobody
<1>1. ASSUME NEW d \in 1 .. Len(lock), lock[d] # Nobody
      PROVE  pc[lock[d]] \in {"locked", "start"} /\ lock[d] \in Threads
  BY <1>1 DEF Inv, Locks, Types
<1>2. CASE pc[t] = "found"
  <2>1. at[t] \in Range(devices)
    BY <1>2 DEF Inv, Alive, UsesDevice
  <2>2. at[t] \in 1 .. Len(lock)
    BY <2>1, RangeOfDevices DEF Inv, Types
  <2>3. Blocker(t) = lock[at[t]]
    BY <1>2 DEF Blocker
  <2> QED BY <1>1, <2>2, <2>3
<1>3. CASE pc[t] = "init"
  <2>1. pc[t] \in Scanning /\ Blocker(t) = lock[at[t]]
    BY <1>3 DEF Scanning, Blocker
  <2>2. lock[at[t]] = Nobody
    BY <1>3, <2>1 DEF Inv, NewDevices, MakesDevice, New, OneScan, Busy
  <2> QED BY <2>1, <2>2
<1>4. CASE pc[t] = "sweep" /\ k[t] <= Len(devices)
  <2>1. k[t] \in 1 .. Len(devices)
    BY <1>4 DEF Inv, Types
  <2>2. devices[k[t]] \in 1 .. Len(lock)
    BY <2>1 DEF Inv, Types
  <2>3. Blocker(t) = lock[devices[k[t]]]
    BY <1>4 DEF Blocker
  <2> QED BY <1>1, <2>2, <2>3
<1>5. CASE pc[t] \in {"start", "locked"} \/ (pc[t] = "bus" /\ k[t] <= Busses)
  <2>1. Blocker(t) = mtx
    BY <1>5 DEF Blocker
  <2> QED BY <2>1
<1> QED BY <1>2, <1>3, <1>4, <1>5 DEF Blocker

\* Where the one that holds the bus mutex is, it waits for nobody.
LEMMA HolderGoesOn ==
  ASSUME Inv, mtx # Nobody
  PROVE  Blocker(mtx) = Nobody
<1>1. mtx \in Callers /\ pc[mtx] \in {"search", "init", "add"}
  BY DEF Inv, Locks, InBusses
<1>2. CASE pc[mtx] \in {"search", "add"}
  BY <1>2 DEF Blocker
<1>3. CASE pc[mtx] = "init"
  <2>1. lock[at[mtx]] = Nobody
    BY <1>1, <1>3 DEF Inv, NewDevices, MakesDevice, New
  <2> QED BY <1>3, <2>1 DEF Blocker
<1> QED BY <1>1, <1>2, <1>3

LEMMA InvNoWaitCycle == Inv => NoWaitCycle
<1> SUFFICES ASSUME Inv, NEW S \in (SUBSET Threads) \ {{}}, \A t \in S : Blocker(t) \in S
             PROVE  FALSE
  BY DEF NoWaitCycle
<1>1. Nobody \notin S
  BY Numbers
<1>2. PICK t \in S : TRUE
  OBVIOUS
<1>3. \/ pc[Blocker(t)] \in {"locked", "start"} /\ Blocker(t) \in S
      \/ Blocker(t) = mtx /\ mtx # Nobody /\ mtx \in S
  BY <1>1, Waits
<1>4. mtx \in S /\ mtx # Nobody
  <2>1. CASE pc[Blocker(t)] \in {"locked", "start"} /\ Blocker(t) \in S
    <3> DEFINE b == Blocker(t)
    <3>1. Blocker(b) = mtx
      <4>1. pc[b] \in {"locked", "start"}
        BY <2>1
      <4> HIDE DEF b
      <4> QED BY <4>1 DEF Blocker
    <3> QED BY <1>1, <2>1, <3>1
  <2> QED BY <1>3, <2>1
<1>5. Blocker(mtx) = Nobody
  BY <1>4, HolderGoesOn
<1> QED BY <1>1, <1>4, <1>5

LEMMA InvUsedIsAlive == Inv => UsedIsAlive
<1> SUFFICES ASSUME Inv, NEW t \in Users, pc[t] \in {"found", "locked"} PROVE obj[at[t]].alive
  BY DEF UsedIsAlive
<1>1. at[t] \in Range(devices)
  BY DEF Inv, Alive, UsesDevice, Threads
<1>2. Range(devices) = {devices[p] : p \in 1 .. Len(devices)}
  BY RangeEquality DEF Inv, Types
<1> QED BY <1>1, <1>2 DEF Inv, Alive

LEMMA InvEachDeviceOnce == Inv => EachDeviceOnce
<1> SUFFICES ASSUME Inv, NoScan PROVE EachDeviceOnce
  BY DEF EachDeviceOnce
<1>1. Held(obj, devices, Range(devList), Len(devices))
  BY DEF Inv, Filling, NoScan, Busy, MakesDevice, Scanning, Callers
<1>2. Range(devices) = {devices[p] : p \in 1 .. Len(devices)}
  BY RangeEquality DEF Inv, Types
<1>3. Range(devList) \subseteq Range(devices)
  BY DEF Inv, Alive
<1>4. Cardinality(Range(devList)) = Len(devList)
  BY ListIsSet DEF Inv, Types, List
<1>5. ASSUME NEW d \in Range(devices)
      PROVE  \/ Find(RomOf(d)) = {d}
             \/ Find(RomOf(d)) = {} /\ Len(devList) = Capacity
  <2>1. PICK p \in 1 .. Len(devices) : d = devices[p]
    BY <1>2
  <2>2. ASSUME NEW e \in Range(devList), RomOf(e) = RomOf(d) PROVE e = d
    <3>1. PICK q \in 1 .. Len(devices) : e = devices[q]
      BY <1>2, <1>3
    <3>2. p = q
      BY <1>1, <2>1, <2>2, <3>1 DEF Held, RomOf
    <3> QED BY <2>1, <3>1, <3>2
  <2>3. CASE d \in Range(devList)
    BY <2>2, <2>3 DEF Find, FindIn
  <2>4. CASE d \notin Range(devList)
    <3>1. Cardinality(Range(devList)) = Capacity
      BY <1>1, <2>1, <2>4 DEF Held
    <3> QED BY <1>4, <2>2, <2>4, <3>1 DEF Find, FindIn
  <2> QED BY <2>3, <2>4
<1> QED BY <1>3, <1>5 DEF EachDeviceOnce

LEMMA InvFoundIsBegun == Inv => FoundIsBegun
<1> SUFFICES ASSUME Inv, NoScan, up, NEW d \in Range(devList) \cup listed
             PROVE  obj[d].ds /\ obj[d].state = "running" /\ obj[d].begun = 1
  BY DEF FoundIsBegun
<1>1. d \in Range(devices)
  BY DEF Inv, Alive
<1>2. Range(devices) = {devices[p] : p \in 1 .. Len(devices)}
  BY RangeEquality DEF Inv, Types
<1>3. Running(d)
  BY <1>1, <1>2 DEF Inv, Begun
<1>4. d \in 1 .. Len(obj)
  BY <1>1, RangeOfDevices DEF Inv
<1> QED BY <1>3, <1>4 DEF Inv, Begun, Running

(***************************************************************************)
(* As long as one thread at most lists /uncached: every reachable state is *)
(* a state of the right types, the list sorted and within its array - what *)
(* lower_bound() and dev_list[30] need.                                    *)
(***************************************************************************)
THEOREM TypeCorrect == ASSUME OneScanner PROVE Spec => []TypeOK
  BY Invariant, InvTypeOK, PTL

(***************************************************************************)
(* However many devices come and go, with whatever codes, and whatever the *)
(* configuration lists twice: between scans each device there is is found  *)
(* by its rom, and is the only one of it, or the list is full (add_device, *)
(* update_device and update_data()).                                       *)
(***************************************************************************)
THEOREM EveryDeviceOnce == ASSUME OneScanner PROVE Spec => []EachDeviceOnce
  BY Invariant, InvEachDeviceOnce, PTL

(***************************************************************************)
(* No device is destroyed while a thread has it from find() or             *)
(* list_devices(): what a scan fills the list with is what it held before, *)
(* so update_data() erases duplicates of the configuration only.           *)
(***************************************************************************)
THEOREM FoundStaysAlive == ASSUME OneScanner PROVE Spec => []UsedIsAlive
  BY Invariant, InvUsedIsAlive, PTL

(***************************************************************************)
(* After the sweep of begin(), every device that is listed was begun, and  *)
(* begun once.                                                             *)
(***************************************************************************)
THEOREM FoundWasBegun == ASSUME OneScanner PROVE Spec => []FoundIsBegun
  BY Invariant, InvFoundIsBegun, PTL

(***************************************************************************)
(* The device locks and the bus mutex never make threads wait in a circle: *)
(* the one lock that is taken under the bus mutex is that of a device      *)
(* nobody else has found yet.                                              *)
(***************************************************************************)
THEOREM NobodyWaitsInACircle == ASSUME OneScanner PROVE Spec => []NoWaitCycle
  BY Invariant, InvNoWaitCycle, PTL
=============================================================================
