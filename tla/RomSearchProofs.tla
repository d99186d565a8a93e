-------------------------- MODULE RomSearchProofs --------------------------
(***************************************************************************)
(* The alarm search, for addresses of any length, any devices and any      *)
(* number of alarms in a pass: type correctness and HandsRealDevices of    *)
(* RomSearch, and - as long as nobody else resets latches during a pass -  *)
(* NoneTwice and NoneMissed.                                               *)
(***************************************************************************)
EXTENDS RomSearch, TLAPS

\* d goes another way than addr at bit j: up, where addr goes down, or down.
Up(d, j) == SameTo(d, addr, j - 1) /\ d[j] = 1 /\ addr[j] = 0
Down(d, j) == SameTo(d, addr, j - 1) /\ d[j] = 0 /\ addr[j] = 1

\* The devices that listen have the address found so far.
Answering ==
  pc = "bits" =>
    /\ \A d \in listening : SameTo(d, addr, bit - 1)
    /\ bit > 1 => listening # {} \/ talker

\* A talker leaves the pass without its histories.
Histories ==
  /\ talker => ~sound /\ listening = {}
  /\ ~sound => handed = {} /\ wanted = {}
  /\ pc \in {"idle", "search"} => ~talker

Real == TypeOK /\ Answering /\ Histories /\ HandsRealDevices /\ (pc = "found" => cnt > 0)

LEMMA RealType == Real => addr \in Address /\ listening \subseteq Address
  BY SearchAssumption DEF Real, TypeOK

LEMMA ZeroAddress == [k \in 1..Bits |-> 0] \in Address
  BY DEF Address, Bit

LEMMA InitReal == Init => Real
<1> SUFFICES ASSUME Init PROVE Real
  OBVIOUS
<1>1. addr \in Address
  BY ZeroAddress DEF Init
<1>2. exhausted \in BOOLEAN /\ talker = FALSE /\ talker \in BOOLEAN /\ sound = TRUE
      /\ sound \in BOOLEAN
  BY DEF Init
<1>3. TypeOK
  BY <1>1, <1>2, SearchAssumption DEF Init, TypeOK, PassState
<1> QED BY <1>2, <1>3 DEF Init, Real, Answering, Histories, HandsRealDevices

LEMMA TripletReal == Real /\ Triplet => Real'
<1> SUFFICES ASSUME Real, Triplet PROVE Real'
  OBVIOUS
<1> USE SearchAssumption DEF pass
<1>1. /\ pc = "bits" /\ pc' = "bits" /\ bit \in 1..Bits /\ bit' = bit + 1
      /\ listening # {} /\ listening \subseteq Devices
      /\ addr \in Address
  BY DEF Triplet, Real, TypeOK
<1>2. Taken \in Bit
  BY DEF Taken, Direction, Real, TypeOK, Address, Bit
<1>3. PICK d \in listening : d[bit] = Taken
  <2>1. PICK e \in listening : TRUE
    BY <1>1
  <2>2. e[bit] \in {0, 1}
    BY <1>1, <2>1 DEF Address, Bit
  <2> QED BY <1>2, <2>1, <2>2 DEF Taken, Has, Bit
<1>4. addr' \in Address /\ \A k \in 1..Bits : addr'[k] = IF k = bit THEN Taken ELSE addr[k]
  BY <1>1, <1>2 DEF Triplet, Address
<1>5. listening' = {e \in listening : e[bit] = Taken}
  BY DEF Triplet
<1>6. zero' \in 0..Bits
  BY <1>1 DEF Triplet, LastZero, Real, TypeOK
<1>7. TypeOK'
  BY <1>1, <1>4, <1>5, <1>6 DEF Triplet, Real, TypeOK, PassState
<1>8. Answering'
  <2>1. ASSUME NEW e \in listening', NEW k \in 1..bit PROVE e[k] = addr'[k]
    BY <1>1, <1>4, <1>5, <2>1 DEF Real, Answering, SameTo
  <2> QED BY <1>1, <1>3, <1>5, <2>1 DEF Answering, SameTo
<1>9. Histories'
  BY <1>1 DEF Triplet, Real, Histories
<1> QED BY <1>1, <1>7, <1>8, <1>9 DEF Real, HandsRealDevices

LEMMA StrayReal ==
  ASSUME Real, NEW b \in Bit, NEW both \in BOOLEAN, Stray(b, both)
  PROVE  Real'
<1>1. /\ pc = "bits" /\ pc' = "bits" /\ bit \in 1..Bits /\ bit' = bit + 1 /\ talker = TRUE
      /\ listening = {} /\ zero \in 0..Bits /\ addr \in Address
      /\ UNCHANGED <<alarming, last, exhausted, listening, talker, pass, wanted>>
  BY SearchAssumption DEF Stray, Real, TypeOK, Histories
<1>2. addr' \in Address
  BY <1>1 DEF Stray, Address
<1>3. zero' \in 0..Bits /\ bit' \in 1..(Bits + 1)
  BY <1>1, SearchAssumption DEF Stray
<1>4. TypeOK'
  BY <1>1, <1>2, <1>3 DEF pass, Real, TypeOK, PassState
<1> QED BY <1>1, <1>4 DEF pass, Real, Answering, Histories, HandsRealDevices

LEMMA StepReal == Real /\ [Next]_vars => Real'
<1> SUFFICES ASSUME Real, [Next]_vars PROVE Real'
  OBVIOUS
<1> USE SearchAssumption DEF search, pass
<1>1. CASE UNCHANGED vars
  BY <1>1 DEF vars, Real, TypeOK, Answering, Histories, HandsRealDevices
<1>2. ASSUME NEW t \in Targets \cup {NoTarget}, Begin(t) PROVE Real'
  <2>1. addr' \in Address
    <3>1. \A k \in 1..Bits : t \in Targets /\ k <= FamBits => t[k] \in Bit
      OBVIOUS
    <3> QED BY <1>2, <3>1 DEF Begin, Address, Bit
  <2>2. exhausted' \in BOOLEAN
    BY <1>2 DEF Begin
  <2>3. last' \in 0..Bits /\ cnt' = MaxAlarms /\ target' = t
    BY <1>2 DEF Begin
  <2>4. handed' = {} /\ wanted' \subseteq Devices
    BY <1>2 DEF Begin, Real, TypeOK
  <2>5. pc' = "search" /\ UNCHANGED <<alarming, bit, zero, listening, talker>>
    BY <1>2 DEF Begin
  <2>6. sound' = TRUE /\ sound' \in BOOLEAN /\ pc = "idle"
    BY <1>2 DEF Begin
  <2>7. TypeOK'
    BY <2>1, <2>2, <2>3, <2>4, <2>5, <2>6 DEF Real, TypeOK, PassState
  <2>8. talker = FALSE
    BY <2>6 DEF Real, Histories, TypeOK
  <2> QED BY <2>4, <2>5, <2>6, <2>7, <2>8 DEF Real, Answering, Histories, HandsRealDevices
<1>3. CASE Search \/ NotReset
  <2>1. /\ pc' = "bits" /\ bit' = 1 /\ zero' = 0 /\ listening' \subseteq Devices
        /\ handed' \subseteq Devices /\ wanted' \subseteq Devices
        /\ UNCHANGED <<alarming, addr, last, exhausted, target, cnt>>
        /\ \/ talker' = FALSE /\ UNCHANGED <<sound, handed, wanted>>
           \/ talker' = TRUE /\ sound' = FALSE /\ listening' = {} /\ handed' = {} /\ wanted' = {}
    BY <1>3 DEF Search, NotReset, Real, TypeOK
  <2>2. talker' \in BOOLEAN /\ sound' \in BOOLEAN
    BY <2>1 DEF Real, TypeOK
  <2>3. TypeOK'
    BY <2>1, <2>2 DEF Real, TypeOK, PassState
  <2>4. Histories'
    <3>1. pc = "search" /\ ~talker
      BY <1>3 DEF Search, NotReset, Real, Histories
    <3> QED BY <2>1, <3>1 DEF Real, Histories
  <2>5. Answering'
    BY <2>1 DEF Answering, SameTo
  <2> QED BY <2>1, <2>3, <2>4, <2>5 DEF Real, HandsRealDevices
<1>4. CASE Exhausted \/ Nobody \/ BusError
  <2>1. Histories'
    BY <1>4 DEF Exhausted, Nobody, BusError, Real, Histories
  <2>2. /\ pc' \in {"done", "broken"} /\ (talker' = talker \/ talker' = FALSE)
        /\ listening' \subseteq Devices
        /\ bit' \in 1..(Bits + 1) /\ zero' \in 0..Bits
        /\ UNCHANGED <<alarming, addr, last, exhausted, pass, wanted>>
    BY <1>4 DEF Exhausted, Nobody, BusError, Returned, Real, TypeOK
  <2>3. TypeOK'
    <3>1. sound' \in BOOLEAN /\ exhausted' \in BOOLEAN /\ talker' \in BOOLEAN
      BY <2>2 DEF Real, TypeOK
    <3> QED BY <2>2, <3>1 DEF Real, TypeOK, PassState
  <2> QED BY <2>1, <2>2, <2>3 DEF Real, Answering, HandsRealDevices
<1>10. ASSUME NEW b \in Bit, NEW both \in BOOLEAN, Stray(b, both) PROVE Real'
  BY <1>10, StrayReal
<1>5. CASE Triplet
  BY <1>5, TripletReal
<1>6. CASE SearchEnd
  <2>1. pc = "bits" /\ bit = Bits + 1 /\ (listening # {} \/ talker)
    BY <1>6 DEF SearchEnd, Real, TypeOK, Answering
  <2>2. \A d \in listening : d = addr
    BY <2>1 DEF Real, TypeOK, Answering, SameTo, Address
  <2>3. ~talker => listening = {addr}
    BY <2>1, <2>2
  <2>4. Histories'
    BY <1>6, <2>1 DEF SearchEnd, Real, Histories
  <2> QED BY <1>6, <2>3, <2>4 DEF SearchEnd, Returned, IsExhausted, MayHandle, Real, TypeOK,
                                  Answering, HandsRealDevices, PassState
<1>7. CASE HandOver
  <2>1. /\ pc = "found" /\ pc' = "search" /\ cnt \in 1..MaxAlarms /\ cnt' = cnt - 1
        /\ ~talker => addr \in Devices
        /\ listening' = {} /\ talker' = FALSE /\ wanted' = wanted \ {addr}
        /\ handed' = IF sound THEN handed \cup {addr} ELSE {}
        /\ UNCHANGED <<addr, last, exhausted, bit, zero, target, sound>>
    BY <1>7 DEF HandOver, Real, TypeOK, HandsRealDevices
  <2>2. alarming' \subseteq Devices
    BY <1>7 DEF HandOver, Real, TypeOK
  <2>3. handed' \subseteq Devices /\ wanted' \subseteq Devices /\ cnt' \in 0..MaxAlarms
    BY <2>1 DEF Real, TypeOK, Histories
  <2>4. TypeOK'
    <3>1. talker' \in BOOLEAN /\ sound' \in BOOLEAN /\ exhausted' \in BOOLEAN
      BY <2>1 DEF Real, TypeOK
    <3> QED BY <2>1, <2>2, <2>3, <3>1 DEF Real, TypeOK, PassState
  <2>5. Histories'
    BY <2>1 DEF Real, Histories
  <2> QED BY <2>1, <2>4, <2>5 DEF Real, Answering, HandsRealDevices
<1>8. CASE End
  <2>1. addr' \in Address
    BY <1>8, ZeroAddress DEF End
  <2>2. /\ exhausted' \in BOOLEAN /\ talker' = FALSE /\ sound' = TRUE
        /\ talker' \in BOOLEAN /\ sound' \in BOOLEAN
    BY <1>8 DEF End
  <2>3. TypeOK'
    BY <1>8, <2>1, <2>2 DEF End, Real, TypeOK, PassState
  <2> QED BY <1>8, <2>2, <2>3 DEF End, Real, Answering, Histories, HandsRealDevices
<1>9. ASSUME NEW d \in Devices, Raise(d) \/ Steal(d) PROVE Real'
  BY <1>9 DEF Raise, Steal, Real, TypeOK, Answering, Histories, HandsRealDevices
<1> QED BY <1>1, <1>2, <1>3, <1>4, <1>5, <1>6, <1>7, <1>8, <1>9, <1>10
        DEF Next, AlarmHandler

LEMMA AlwaysReal == Spec => []Real
  BY InitReal, StepReal, PTL DEF Spec

\* The variables keep their types.
THEOREM TypeCorrect == Spec => []TypeOK
<1>1. Real => TypeOK
  BY DEF Real
<1> QED BY <1>1, AlwaysReal, PTL

\* Every address handed over by a search that had the devices reset is that of
\* one which answered every bit of it: for addresses of any length and any
\* devices, also if others reset latches, and also after a search that followed
\* whoever was left talking.
THEOREM AddressesAreReal == Spec => []HandsRealDevices
<1>1. Real => HandsRealDevices
  BY DEF Real
<1> QED BY <1>1, AlwaysReal, PTL

-----------------------------------------------------------------------------
(***************************************************************************)
(* The order of a pass.  Between two searches a device in alarm agrees     *)
(* with the last address up to where the next search turns, so this one    *)
(* follows its way that far.  What was handed over lies below the address, *)
(* what is still wanted above.                                             *)
(***************************************************************************)
HasWitness(S) == \E w \in S : Up(w, last)
Above(w, n) == \E j \in 1..n : Up(w, j)
Below(h, n) == \E j \in 1..n : Down(h, j)
Turned(h) == Below(h, last - 1) \/ (SameTo(h, addr, last - 1) /\ h[last] = 0)

\* The address a pass starts with, from bit n on, and where it turns
Started(n) ==
  /\ \A k \in n..Bits : addr[k] = IF target \in Targets /\ k <= FamBits
                                    THEN target[k] ELSE 0
  /\ last = IF target \in Targets THEN Bits ELSE 0
  /\ \A w \in wanted : OfFamily(w, target)

\* A search is over, or another one follows it.
Settled ==
  pc = "found" \/ (pc = "search" /\ handed # {}) =>
    /\ exhausted => last = 0
    /\ last = 0 => exhausted
    /\ last # 0 => HasWitness(alarming)

FoundOrder ==
  pc = "found" =>
    /\ \A w \in wanted : w = addr \/ Above(w, last)
    /\ \A h \in handed : Below(h, Bits)

SearchOrder ==
  pc = "search" =>
    IF handed = {} THEN ~exhausted /\ Started(1)
    ELSE /\ \A w \in wanted : Above(w, last)
         /\ last # 0 => \A h \in handed : Turned(h)

\* In the middle of a search: what is left out is above, at a zero that is
\* kept; those handed over are below from the turn on.
BitsOrder ==
  pc = "bits" =>
    /\ zero < bit
    /\ listening \subseteq alarming
    /\ zero # 0 => \E w \in alarming : Up(w, zero)
    /\ \A w \in wanted : w \in listening \/ Above(w, zero)
    /\ handed = {} => Started(bit)
    /\ handed # {} /\ bit <= last =>
         /\ HasWitness(listening)
         /\ \A h \in handed : Turned(h)
         /\ \A w \in wanted \cap listening : \E j \in bit..last : Up(w, j)
    /\ handed # {} /\ bit > last => last # 0 /\ \A h \in handed : Below(h, last)

Order ==
  /\ wanted \subseteq alarming
  /\ Settled /\ FoundOrder /\ SearchOrder /\ BitsOrder /\ NoneMissed

LEMMA InitOrder == Init => (sound => Order)
  BY DEF Init, Order, Settled, FoundOrder, SearchOrder, BitsOrder, NoneMissed

LEMMA BeginOrder ==
  ASSUME Real, NEW t \in Targets \cup {NoTarget}, Begin(t)
  PROVE  Order'
<1>1. /\ pc' = "search" /\ handed' = {} /\ alarming' = alarming /\ target' = t
      /\ wanted' = {d \in alarming : OfFamily(d, t)}
      /\ exhausted' = FALSE
  BY DEF Begin
<1>2. Started(1)'
  BY <1>1, SearchAssumption DEF Begin, Started, OfFamily
<1> QED BY <1>1, <1>2 DEF Order, Settled, FoundOrder, SearchOrder, BitsOrder, NoneMissed

LEMMA SearchBegins ==
  ASSUME Real, Order, Search
  PROVE  Order'
<1>1. /\ pc = "search" /\ pc' = "bits" /\ ~exhausted /\ bit' = 1 /\ zero' = 0
      /\ listening' = alarming
      /\ UNCHANGED <<alarming, addr, last, exhausted, target, cnt, handed, wanted>>
  BY DEF Search, pass
<1>2. wanted \subseteq alarming /\ last \in 0..Bits
  BY DEF Order, Real, TypeOK
<1>3. CASE handed = {}
  <2>1. Started(1)'
    BY <1>1, <1>3 DEF Order, SearchOrder, Started
  <2> QED BY <1>1, <1>2, <1>3, <2>1
          DEF Order, Settled, FoundOrder, SearchOrder, BitsOrder, NoneMissed
<1>4. CASE handed # {}
  <2>1. last # 0 /\ HasWitness(alarming)
    BY <1>1, <1>4 DEF Order, Settled
  <2>2. /\ \A h \in handed : Turned(h)
        /\ \A w \in wanted : Above(w, last)
    BY <1>1, <1>4, <2>1 DEF Order, SearchOrder
  <2>3. (\A h \in handed : Turned(h))' /\ HasWitness(listening)'
    BY <1>1, <2>1, <2>2 DEF Turned, Below, Down, HasWitness, Up
  <2>4. (\A w \in wanted : \E j \in 1..last : Up(w, j))'
    BY <1>1, <2>2 DEF Above, Up
  <2> QED BY <1>1, <1>2, <1>4, <2>1, <2>3, <2>4
          DEF Order, Settled, FoundOrder, SearchOrder, BitsOrder, NoneMissed
<1> QED BY <1>3, <1>4

LEMMA EndOrder == End => Order'
  BY DEF End, Order, Settled, FoundOrder, SearchOrder, BitsOrder, NoneMissed

LEMMA PassEnds ==
  ASSUME Real, sound, Order, Exhausted \/ Nobody \/ BusError
  PROVE  Order'
<1>1. CASE Exhausted
  <2>1. handed # {} /\ last = 0
    BY <1>1 DEF Exhausted, Order, SearchOrder, Settled
  <2>2. wanted = {}
    BY <1>1, <2>1 DEF Exhausted, Order, SearchOrder, Above
  <2> QED BY <1>1, <2>2 DEF Exhausted, search, pass, Order, Settled, FoundOrder,
                            SearchOrder, BitsOrder, NoneMissed
<1>2. CASE Nobody
  <2>1. bit = 1 /\ zero = 0
    BY <1>2, SearchAssumption
       DEF Nobody, Real, TypeOK, Answering, Histories, Order, BitsOrder
  <2>2. wanted = {}
    BY <1>2, <2>1 DEF Nobody, Order, BitsOrder, Above
  <2> QED BY <1>2, <2>2 DEF Nobody, pass, Order, Settled, FoundOrder,
                            SearchOrder, BitsOrder, NoneMissed
<1>3. CASE BusError
  BY <1>3 DEF BusError, pass, Order, Settled, FoundOrder, SearchOrder, BitsOrder, NoneMissed
<1> QED BY <1>1, <1>2, <1>3

LEMMA AlarmOrder ==
  ASSUME ~Stolen, Order, NEW d \in Devices, Raise(d) \/ Steal(d)
  PROVE  Order'
<1>1. CASE Raise(d)
  <2>1. alarming \subseteq alarming' /\ UNCHANGED <<search, pc, pass, wanted>>
    BY <1>1 DEF Raise
  <2>2. Settled' /\ FoundOrder' /\ SearchOrder' /\ NoneMissed'
    BY <2>1 DEF search, pass, Order, Settled, FoundOrder, SearchOrder, NoneMissed,
                HasWitness, Up, Above, Turned, Below, Down, Started
  <2>3. BitsOrder'
    BY <2>1 DEF search, pass, Order, BitsOrder, HasWitness, Up, Above, Turned, Below,
                Down, Started
  <2> QED BY <2>1, <2>2, <2>3 DEF Order
<1>2. CASE Steal(d)
  BY <1>2 DEF Steal, search, pass, Order, Settled, FoundOrder, SearchOrder, BitsOrder,
              NoneMissed
<1> QED BY <1>1, <1>2

LEMMA SearchEnds ==
  ASSUME Real, sound, Order, SearchEnd
  PROVE  Order'
<1>1. /\ pc = "bits" /\ bit = Bits + 1 /\ listening # {} /\ zero \in 0..Bits
      /\ last \in 0..Bits
      /\ last' = zero /\ pc' \in {"found", "broken"}
      /\ UNCHANGED <<alarming, addr, listening, handed, wanted>>
  BY SearchAssumption DEF SearchEnd, Real, TypeOK, Answering, Histories, pass
<1>2. exhausted' <=> zero = 0
  BY DEF SearchEnd, IsExhausted
<1>3. \A d \in listening : d = addr
  BY <1>1, SearchAssumption DEF Real, TypeOK, Answering, SameTo, Address
<1>4. zero # 0 => HasWitness(alarming)'
  BY <1>1 DEF Order, BitsOrder, HasWitness, Up
<1>5. \A w \in wanted : w = addr \/ Above(w, last)'
  BY <1>1, <1>3 DEF Order, BitsOrder, Above, Up
<1>6. (\A h \in handed : Below(h, Bits))'
  BY <1>1, SearchAssumption DEF Order, BitsOrder, Below, Down
<1> QED BY <1>2, <1>1, <1>4, <1>5, <1>6
        DEF Order, Settled, FoundOrder, SearchOrder, BitsOrder, NoneMissed

LEMMA HandOverOrder ==
  ASSUME Real, sound, Order, HandOver
  PROVE  Order'
<1>1. /\ pc = "found" /\ pc' = "search" /\ last \in 0..Bits
      /\ handed' = handed \cup {addr} /\ wanted' = wanted \ {addr}
      /\ alarming \ {addr} \subseteq alarming'
      /\ UNCHANGED <<addr, last, exhausted>>
  BY DEF HandOver, Addressed, Real, TypeOK, Histories
<1>2. wanted' \subseteq alarming'
  BY <1>1 DEF Order
<1>3. ASSUME last # 0
      PROVE  addr[last] = 0 /\ HasWitness(alarming)'
  <2>1. PICK w \in alarming : Up(w, last)
    BY <1>1, <1>3 DEF Order, Settled, HasWitness
  <2>2. addr[last] = 0 /\ w # addr
    BY <2>1 DEF Up
  <2> QED BY <1>1, <2>1, <2>2 DEF HasWitness, Up
<1>4. \A w \in wanted' : Above(w, last)'
  BY <1>1 DEF Order, FoundOrder, Above, Up
<1>5. ASSUME last # 0, NEW h \in handed'
      PROVE  Turned(h)'
  <2>1. CASE h = addr
    BY <1>1, <1>3, <1>5, <2>1 DEF Turned, SameTo
  <2>2. CASE h \in handed
    <3>1. PICK j \in 1..Bits : Down(h, j)
      BY <1>1, <2>2 DEF Order, FoundOrder, Below
    <3>2. CASE j < last
      BY <1>1, <3>1, <3>2, SearchAssumption DEF Turned, Below, Down
    <3>3. CASE j > last
      <4>1. SameTo(h, addr, last - 1) /\ h[last] = 0
        BY <1>1, <1>3, <1>5, <3>1, <3>3, SearchAssumption DEF Down, SameTo
      <4> QED BY <1>1, <4>1 DEF Turned
    <3>4. j # last
      BY <1>3, <1>5, <3>1 DEF Down
    <3> QED BY <1>1, <3>2, <3>3, <3>4, SearchAssumption
  <2> QED BY <1>1, <2>1, <2>2
<1> QED BY <1>1, <1>2, <1>3, <1>4, <1>5
        DEF Order, Settled, FoundOrder, SearchOrder, BitsOrder, NoneMissed

\* One triplet writes one bit of the address: what differs from it before that
\* bit differs as it did, and who goes the other way differs there.
LEMMA OneBit ==
  ASSUME Real, Triplet
  PROVE  /\ bit \in 1..Bits /\ pc = "bits" /\ pc' = "bits" /\ bit' = bit + 1
         /\ Taken \in Bit /\ addr'[bit] = Taken
         /\ \A k \in 1..Bits : k # bit => addr'[k] = addr[k]
         /\ listening' = {d \in listening : d[bit] = Taken}
         /\ \A d \in listening : d[bit] \in Bit /\ SameTo(d, addr, bit - 1)
         /\ zero' = LastZero(Taken)
         /\ UNCHANGED <<alarming, last, exhausted, target, cnt, handed, wanted>>
<1> USE SearchAssumption
<1>1. /\ pc = "bits" /\ bit \in 1..Bits /\ addr \in Address
      /\ listening \subseteq Address
  BY RealType DEF Triplet, Real, TypeOK
<1>2. Taken \in Bit
  BY <1>1 DEF Taken, Direction, Address, Bit
<1> QED BY <1>1, <1>2 DEF Triplet, pass, Real, Answering, Address

LEMMA Before ==
  ASSUME Real, Triplet, NEW d, NEW j \in 1..Bits, j < bit
  PROVE  (Up(d, j)' <=> Up(d, j)) /\ (Down(d, j)' <=> Down(d, j))
  BY OneBit, SearchAssumption DEF Up, Down, SameTo

LEMMA GoesUp ==
  ASSUME Real, Triplet, NEW d \in listening, d[bit] = 1, Taken = 0,
         NEW j, j = bit
  PROVE  Up(d, j)'
  BY OneBit, SearchAssumption DEF Up, SameTo

\* What is left out goes up, at a zero that is kept: the search goes the other
\* way only where it knows nobody it wants.
LEMMA WantedStays ==
  ASSUME Real, Order, Triplet, NEW w \in wanted, w \in listening
  PROVE  w[bit] = Taken \/ (w[bit] = 1 /\ Taken = 0)
<1> USE SearchAssumption
<1> SUFFICES ASSUME w[bit] = 0, Taken = 1 PROVE FALSE
  BY OneBit DEF Bit
<1>1. /\ bit \in 1..Bits /\ last \in 0..Bits /\ pc = "bits"
      /\ listening \subseteq Devices
  BY OneBit DEF Real, TypeOK
<1>2. Direction(bit) = 1
  BY DEF Taken, Has
<1>3. bit <= last
  BY <1>1, <1>2 DEF Direction
<1>4. bit < last => addr[bit] = 1
  BY <1>2 DEF Direction
<1>5. CASE handed # {}
  <2>1. PICK j \in bit..last : Up(w, j)
    BY <1>1, <1>3, <1>5 DEF Order, BitsOrder
  <2>2. CASE j = bit
    BY <2>1, <2>2 DEF Up
  <2>3. CASE j > bit
    BY <1>1, <1>4, <2>1, <2>3 DEF Up, SameTo
  <2> QED BY <1>1, <2>1, <2>2, <2>3
<1>6. CASE handed = {}
  <2>1. Started(bit) /\ last = Bits /\ target \in Targets /\ OfFamily(w, target)
    BY <1>1, <1>3, <1>6 DEF Order, BitsOrder, Started
  <2>2. CASE bit < last
    BY <1>1, <1>4, <2>1, <2>2 DEF Started, OfFamily, SameTo
  <2>3. CASE bit = Bits
    <3>1. PICK d \in listening : d[bit] = 1
      BY <1>1 DEF Taken, Has
    <3>2. SameTo(d, w, Bits - 1)
      BY <1>1, <2>3, <3>1, OneBit DEF SameTo
    <3> QED BY <1>1, <3>1, <3>2
  <2> QED BY <1>1, <1>3, <2>1, <2>2, <2>3
<1> QED BY <1>5, <1>6

\* On the way to where the search turns, all it does is follow the address:
\* the witness keeps it there.
LEMMA Follows ==
  ASSUME Real, Order, Triplet, handed # {}, bit <= last
  PROVE  /\ bit < last => Taken = addr[bit] /\ addr' = addr
         /\ bit = last => Taken = 1
         /\ HasWitness(listening)
<1> USE SearchAssumption
<1>1. bit \in 1..Bits /\ last \in 0..Bits /\ pc = "bits" /\ addr \in Address
  BY OneBit DEF Real, TypeOK
<1>2. PICK w \in listening : Up(w, last)
  BY <1>1 DEF Order, BitsOrder, HasWitness
<1>3. bit < last => w[bit] = addr[bit]
  BY <1>1, <1>2 DEF Up, SameTo
<1>4. bit = last => w[bit] = 1
  BY <1>2 DEF Up
<1>5. ~(Has(0) /\ Has(1)) => Taken = w[bit]
  BY <1>2, OneBit DEF Taken, Has, Bit
<1>6. Has(0) /\ Has(1) => Taken = Direction(bit)
  BY DEF Taken
<1>7. bit < last => Taken = addr[bit]
  BY <1>3, <1>5, <1>6 DEF Direction
<1>8. bit < last => addr' = addr
  BY <1>1, <1>7 DEF Triplet, Address
<1>9. bit = last => Taken = 1
  BY <1>1, <1>4, <1>5, <1>6 DEF Direction
<1> QED BY <1>2, <1>7, <1>8, <1>9 DEF HasWitness

LEMMA TripletOrder ==
  ASSUME Real, Order, Triplet
  PROVE  Order'
<1> USE SearchAssumption
<1>1. /\ bit \in 1..Bits /\ last \in 0..Bits /\ zero \in 0..(bit - 1)
      /\ pc = "bits" /\ listening \subseteq Devices /\ wanted \subseteq alarming
      /\ listening \subseteq alarming
  BY OneBit DEF Real, TypeOK, Order, BitsOrder
<1>2. \/ zero' = bit /\ Taken = 0 /\ Has(1)
      \/ zero' = zero
  BY OneBit DEF LastZero
<1>3. zero' \in 0..bit /\ zero' >= zero
  BY <1>1, <1>2
<1>4. zero' # 0 => (\E w \in alarming : Up(w, zero))'
  <2>1. CASE zero' = zero
    BY <1>1, <2>1, Before, OneBit DEF Order, BitsOrder
  <2>2. CASE zero' = bit /\ Taken = 0 /\ Has(1)
    BY <1>1, <2>2, GoesUp, OneBit DEF Has
  <2> QED BY <1>2, <2>1, <2>2
<1>5. ASSUME NEW w \in wanted
      PROVE  w \in listening' \/ Above(w, zero)'
  <2>1. CASE Above(w, zero)
    <3>1. PICK j \in 1..zero : Up(w, j)
      BY <2>1 DEF Above
    <3>2. j \in 1..zero' /\ Up(w, j)'
      BY <1>1, <1>3, <3>1, Before
    <3> QED BY <3>2 DEF Above
  <2>2. CASE w \in listening /\ w[bit] # Taken
    <3>1. w[bit] = 1 /\ Taken = 0
      BY <2>2, WantedStays
    <3>2. Has(0) /\ Has(1)
      BY <2>2, <3>1, OneBit DEF Taken, Has, Bit
    <3>3. zero' = bit
      BY <3>1, <3>2, OneBit DEF LastZero
    <3>4. \A j : j = bit => Up(w, j)'
      BY <2>2, <3>1, GoesUp
    <3>5. PICK j \in 1..Bits : j = bit
      BY <1>1
    <3>6. j \in 1..zero' /\ Up(w, j)'
      BY <1>1, <3>3, <3>4, <3>5
    <3> QED BY <3>6 DEF Above
  <2>3. w \in listening \/ Above(w, zero)
    BY <1>1 DEF Order, BitsOrder
  <2> QED BY <2>1, <2>2, <2>3, OneBit
<1>6. handed = {} => Started(bit)'
  BY <1>1, OneBit DEF Order, BitsOrder, Started
<1>7. ASSUME handed # {}, bit < last
      PROVE  /\ HasWitness(listening)'
             /\ \A h \in handed : Turned(h)'
             /\ \A w \in wanted \cap listening' : \E j \in (bit + 1)..last : Up(w, j)'
  <2>1. addr' = addr /\ last' = last /\ Taken = addr[bit] /\ HasWitness(listening)
    BY <1>1, <1>7, Follows, OneBit
  <2>2. HasWitness(listening)'
    <3>1. PICK w \in listening : Up(w, last)
      BY <2>1 DEF HasWitness
    <3>2. w[bit] = addr[bit]
      BY <1>1, <1>7, <3>1 DEF Up, SameTo
    <3> QED BY <2>1, <3>1, <3>2, OneBit DEF HasWitness, Up
  <2>3. \A h \in handed : Turned(h)'
    BY <1>1, <1>7, <2>1 DEF Order, BitsOrder, Turned, Below, Down
  <2>4. ASSUME NEW w \in wanted \cap listening'
        PROVE  \E j \in (bit + 1)..last : Up(w, j)'
    <3>1. w \in listening /\ w[bit] = addr[bit]
      BY <2>1, <2>4, OneBit
    <3>2. PICK j \in bit..last : Up(w, j)
      BY <1>1, <1>7, <3>1 DEF Order, BitsOrder
    <3>3. j # bit
      BY <3>1, <3>2 DEF Up
    <3>4. j \in (bit + 1)..last /\ Up(w, j)'
      BY <1>1, <2>1, <3>2, <3>3 DEF Up
    <3> QED BY <3>4
  <2> QED BY <2>2, <2>3, <2>4
<1>8. ASSUME handed # {}, bit >= last, NEW h \in handed
      PROVE  last # 0 /\ Below(h, last)'
  <2>1. CASE bit > last
    <3>1. last # 0 /\ Below(h, last)
      BY <1>1, <1>8, <2>1 DEF Order, BitsOrder
    <3>2. PICK j \in 1..last : Down(h, j)
      BY <3>1 DEF Below
    <3> QED BY <1>1, <2>1, <3>1, <3>2, Before, OneBit DEF Below
  <2>2. CASE bit = last
    <3>1. Turned(h) /\ Taken = 1
      BY <1>1, <1>8, <2>2, Follows DEF Order, BitsOrder
    <3>2. CASE Below(h, last - 1)
      <4>1. PICK j \in 1..(last - 1) : Down(h, j)
        BY <3>2 DEF Below
      <4> QED BY <1>1, <2>2, <4>1, Before, OneBit DEF Below
    <3>3. CASE SameTo(h, addr, last - 1) /\ h[last] = 0
      <4>1. Down(h, last)'
        BY <1>1, <2>2, <3>1, <3>3, OneBit DEF Down, SameTo
      <4> QED BY <1>1, <2>2, <4>1, OneBit DEF Below
    <3> QED BY <1>1, <2>2, <3>1, <3>2, <3>3 DEF Turned
  <2> QED BY <1>1, <1>8, <2>1, <2>2
<1>9. /\ pc' = "bits" /\ bit' = bit + 1 /\ alarming' = alarming /\ handed' = handed
      /\ wanted' = wanted /\ last' = last /\ listening' \subseteq listening
      /\ zero' < bit'
  BY <1>1, <1>3, OneBit
<1>10. BitsOrder'
  <2>1. (\A w \in wanted : w \in listening \/ Above(w, zero))'
    BY <1>5, <1>9
  <2>2. (handed = {} => Started(bit))'
    BY <1>6, <1>9
  <2>3. (handed # {} /\ bit <= last =>
          /\ HasWitness(listening)
          /\ \A h \in handed : Turned(h)
          /\ \A w \in wanted \cap listening : \E j \in bit..last : Up(w, j))'
    BY <1>1, <1>7, <1>9
  <2>4. (handed # {} /\ bit > last => last # 0 /\ \A h \in handed : Below(h, last))'
    BY <1>1, <1>8, <1>9
  <2> QED BY <1>1, <1>4, <1>9, <2>1, <2>2, <2>3, <2>4 DEF BitsOrder
<1> QED BY <1>1, <1>9, <1>10 DEF Order, Settled, FoundOrder, SearchOrder, NoneMissed

LEMMA StepOrder ==
  ASSUME ~Stolen
  PROVE  Real /\ (sound => Order) /\ [Next]_vars => (sound => Order)'
<1> SUFFICES ASSUME Real, sound => Order, [Next]_vars, sound' PROVE Order'
  OBVIOUS
<1> USE DEF search, pass
<1>1. CASE UNCHANGED vars
  BY <1>1 DEF vars, search, pass, Order, Settled, FoundOrder, SearchOrder, BitsOrder,
              NoneMissed, HasWitness, Up, Above, Turned, Below, Down, Started
<1>2. ASSUME NEW t \in Targets \cup {NoTarget}, Begin(t) PROVE Order'
  BY <1>2, BeginOrder
<1>3. CASE Search
  BY <1>3, SearchBegins DEF Search
<1>4. CASE Exhausted \/ Nobody \/ BusError
  BY <1>4, PassEnds DEF Exhausted, Nobody, BusError
<1>5. CASE Triplet
  BY <1>5, TripletOrder DEF Triplet
<1>6. CASE SearchEnd
  BY <1>6, SearchEnds DEF SearchEnd
<1>7. CASE HandOver
  BY <1>7, HandOverOrder DEF HandOver
<1>8. ASSUME NEW d \in Devices, Raise(d) \/ Steal(d) PROVE Order'
  BY <1>8, AlarmOrder DEF Raise, Steal
<1>9. CASE End
  BY <1>9, EndOrder
<1>10. ~NotReset
  BY DEF NotReset
<1>11. ASSUME NEW b \in Bit, NEW both \in BOOLEAN, Stray(b, both) PROVE FALSE
  BY <1>11 DEF Stray, Real, Histories
<1> QED BY <1>1, <1>2, <1>3, <1>4, <1>5, <1>6, <1>7, <1>8, <1>9, <1>10, <1>11
        DEF Next, AlarmHandler

LEMMA AlwaysOrder ==
  ASSUME ~Stolen
  PROVE  Spec => [](sound => Order)
<1>1. Real /\ (sound => Order) /\ [Next]_vars => (sound => Order)'
  BY StepOrder
<1> QED BY <1>1, AlwaysReal, InitOrder, PTL DEF Spec

\* With no one else resetting latches during a pass, no pass whose searches had
\* the devices reset hands one over twice, whatever is raised meanwhile and
\* whatever accesses fail.
THEOREM NoneIsTwice ==
  ASSUME ~Stolen
  PROVE  Spec => []NoneTwice
<1>1. (sound => Order) => NoneTwice
  BY DEF Order, FoundOrder, NoneTwice, Below, Down
<1> QED BY <1>1, AlwaysOrder, PTL

\* With no one else resetting latches during a pass, a pass whose searches had
\* the devices reset and that comes to its end has handed over every device
\* that was in alarm from its start on.
THEOREM NoneIsMissed ==
  ASSUME ~Stolen
  PROVE  Spec => []NoneMissed
<1>1. (sound => Order) => NoneMissed
  BY DEF Order, NoneMissed
<1> QED BY <1>1, AlwaysOrder, PTL

=============================================================================
