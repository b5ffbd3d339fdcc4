-------------------------- MODULE DeviceScanProofs --------------------------
(***************************************************************************)
(* Proofs about the acquisition of data, for any number of devices,        *)
(* channels, dates and faults: no value behind the last date of a device   *)
(* is missing unless the database refused it, and the acquisition          *)
(* implements DataLog.                                                     *)
(***************************************************************************)
EXTENDS DeviceScan, FiniteSetTheorems, WellFoundedInduction, TLAPS

Dates == Past..Future
Value == Channel \X Dates

\* TypeOK in three parts: the container and the cursors, the values, the devices.
ContainerOK == /\ ldc \in Seq(Dev) /\ container \in BOOLEAN
               /\ dcPtr \in Dev \union {NULL, Gone} /\ lastDevice \in Dev \union {NULL, Gone}
               /\ due \in BOOLEAN /\ pc \in Steps \union {"loop", "down"}
               /\ cur \in Dev \union {NULL} /\ (pc \in Steps => cur \in Dev)

DataOK == /\ paket \in Seq(Value)
          /\ cells \subseteq Dev \X Channel \X Dates
          /\ log \in [Dev -> Seq(Unreadable..Future)]

DevicesOK == /\ dev \in [Dev -> [cycle : BOOLEAN, clock : BOOLEAN, mint : BOOLEAN]]
             /\ refused \subseteq Dev \X Channel \X Dates /\ skewed \subseteq Dev
             /\ nevent \in 0..MaxEvents

\* d has logged values at date t.
Logged(d, t) == \E n \in DOMAIN log[d] : log[d][n] = t

\* Devices that never lost their clock.
Sound(d) == d \notin skewed

\* Values that are in the table or were refused by it.
Settled == cells \union refused

\* A right clock gives the dates one after the other, and a device that never
\* lost its clock has no other dates.
LogsInOrder ==
  \A d \in Dev : /\ Len(log[d]) <= MaxDate
                 /\ \A n \in DOMAIN log[d] : log[d][n] \in Date => log[d][n] = n
                 /\ d \notin skewed => /\ dev[d].clock
                                      /\ \A n \in DOMAIN log[d] : log[d][n] = n

\* Only what was logged is stored or waits to be.
FromLogs ==
  /\ \A d \in Dev, c \in Channel, t \in Dates : <<d, c, t>> \in cells => Logged(d, t)
  /\ \A n \in DOMAIN paket : Logged(cur, paket[n][2])
  /\ pc # "save" => paket = <<>>

\* A date in the first channel means that all earlier dates are settled.
Complete ==
  \A d \in Dev : Sound(d) =>
     \A t, u \in Date : t < u /\ <<d, 1, u>> \in cells =>
        \A c \in Channel : <<d, c, t>> \in Settled

\* What comes before a waiting value, in an earlier row or in an earlier channel
\* of its row, is settled or waits before it.
Before(c, t, v) == t < v[2] \/ (t = v[2] /\ c < v[1])
Preceded(d, values) ==
  \A n \in DOMAIN values, c \in Channel, t \in Date :
     Logged(d, t) /\ Before(c, t, values[n]) =>
        <<d, c, t>> \in Settled \/ \E k \in 1..(n - 1) : values[k] = <<c, t>>
Ahead == Sound(cur) => Preceded(cur, paket)

\* An answer that leaves out only what is settled.
InOrder(answer) == \A j, k \in DOMAIN answer : j < k => answer[j] < answer[k]
Covers(d, answer) ==
  \A t \in Date : Logged(d, t) => \/ \A c \in Channel : <<d, c, t>> \in Settled
                                  \/ \E k \in DOMAIN answer : answer[k] = t

-----------------------------------------------------------------------------
(* Numbers *)

\* A set of numbers that is not empty has a least one.
LEMMA LeastNatural ==
  ASSUME NEW S \in SUBSET Nat, S # {}
  PROVE  \E n \in S : \A m \in S : n <= m
<1>1. \E n \in S : \A m \in S : ~(m < n)
  <2>1. PICK n \in S : \A m \in S : <<m, n>> \notin OpToRel(<, Nat)
    BY WFMin, NatLessThanWellFounded, Zenon
  <2>2. QED
    BY <2>1, Zenon DEF OpToRel
<1>2. QED
  BY <1>1

\* A set of integers that are not above b has a greatest one.
LEMMA GreatestBelow ==
  ASSUME NEW b \in Int, NEW S \in SUBSET Int, S # {}, \A n \in S : n <= b
  PROVE  \E n \in S : \A m \in S : m <= n
<1> DEFINE T == {k \in Nat : b - k \in S}
<1>1. \A n \in S : b - n \in Nat /\ b - (b - n) = n
  OBVIOUS
<1>2. T \in SUBSET Nat /\ T # {}
  BY <1>1
<1>3. PICK k \in T : \A m \in T : k <= m
  BY <1>2, LeastNatural
<1>4. ASSUME NEW m \in S
      PROVE  m <= b - k
  <2>1. b - m \in T
    BY <1>1
  <2>2. k <= b - m /\ k \in Nat
    BY <1>3, <2>1
  <2>3. QED
    BY <2>2
<1>5. QED
  BY <1>3, <1>4

\* Rows of C values: the place of value c of row r + 1.
LEMMA PlaceOf ==
  ASSUME NEW C \in Nat \ {0}, NEW r \in Nat, NEW c \in 1..C
  PROVE  /\ (C * r + c - 1) \div C = r
         /\ (C * r + c - 1) % C = c - 1
<1> DEFINE e == c - 1
<1>1. e \in 0..(C - 1)
  OBVIOUS
<1>2. (C * r + e) \div C = r /\ (C * r + e) % C = e
  BY <1>1
<1>3. C * r + c - 1 = C * r + e /\ e = c - 1
  OBVIOUS
<1> HIDE DEF e
<1>4. QED
  BY <1>2, <1>3

\* The value at place k.
LEMMA ValueAt ==
  ASSUME NEW C \in Nat \ {0}, NEW k \in Nat \ {0}
  PROVE  LET r == (k - 1) \div C
             c == ((k - 1) % C) + 1
         IN r \in Nat /\ c \in 1..C /\ k = C * r + c
<1>1. k - 1 \in Nat
  OBVIOUS
<1>2. ASSUME NEW m \in Nat
      PROVE  m \div C \in Nat /\ m % C \in 0..(C - 1) /\ m = C * (m \div C) + (m % C)
  OBVIOUS
<1> DEFINE q == (k - 1) \div C
           e == (k - 1) % C
<1>3. q \in Nat /\ e \in 0..(C - 1) /\ k - 1 = C * q + e
  BY <1>1, <1>2
<1>4. C * q \in Nat
  BY <1>3
<1> HIDE DEF q, e
<1>5. e + 1 \in 1..C /\ k = C * q + (e + 1)
  BY <1>3, <1>4
<1>6. QED
  BY <1>3, <1>5 DEF q, e

\* Earlier rows end before later ones begin.
LEMMA RowsInOrder ==
  ASSUME NEW C \in Nat \ {0}, NEW a \in Nat, NEW b \in Nat, a < b
  PROVE  C * a + C <= C * b
<1> DEFINE e == b - a - 1
<1>1. e \in Nat /\ b = a + 1 + e
  OBVIOUS
<1> HIDE DEF e
<1>2. C * b = C * a + C + C * e
  BY <1>1
<1>3. C * e \in Nat /\ C * a \in Nat
  BY <1>1
<1>4. QED
  BY <1>2, <1>3

-----------------------------------------------------------------------------
(* The values of an answer *)

\* Row by row, and in a row channel by channel.
LEMMA ValuesEffect ==
  ASSUME NEW D, NEW dates \in Seq(D)
  PROVE  /\ Values(dates) \in Seq(Channel \X D)
         /\ \A k \in DOMAIN Values(dates) :
              \E r \in DOMAIN dates, c \in Channel :
                 k = Channels * (r - 1) + c /\ Values(dates)[k] = <<c, dates[r]>>
         /\ \A r \in DOMAIN dates, c \in Channel :
              /\ Channels * (r - 1) + c \in DOMAIN Values(dates)
              /\ Values(dates)[Channels * (r - 1) + c] = <<c, dates[r]>>
<1> DEFINE N == Len(dates)
           V == Values(dates)
<1>1. Channels \in Nat \ {0}
  BY ScanAssumption
<1>2. N \in Nat /\ DOMAIN dates = 1..N /\ Channels * N \in Nat
  BY <1>1
<1>3. /\ DOMAIN V = 1..(Channels * N)
      /\ \A k \in 1..(Channels * N) :
           V[k] = <<((k - 1) % Channels) + 1, dates[((k - 1) \div Channels) + 1]>>
  BY DEF Values
<1> HIDE DEF V, N
<1>4. ASSUME NEW k \in DOMAIN V
      PROVE  \E r \in DOMAIN dates, c \in Channel :
                k = Channels * (r - 1) + c /\ V[k] = <<c, dates[r]>>
  <2> DEFINE q == (k - 1) \div Channels
             c == ((k - 1) % Channels) + 1
  <2>1. k \in Nat \ {0} /\ k <= Channels * N
    BY <1>2, <1>3
  <2>2. q \in Nat /\ c \in 1..Channels /\ k = Channels * q + c
    BY <1>1, <2>1, ValueAt
  <2>3. V[k] = <<c, dates[q + 1]>>
    BY <1>3
  <2> HIDE DEF q, c
  <2>4. q < N
    <3>1. SUFFICES ASSUME ~(q < N)
                   PROVE  FALSE
      OBVIOUS
    <3>2. CASE q = N
      BY <1>1, <1>2, <2>1, <2>2, <3>2
    <3>3. CASE N < q
      <4>1. Channels * N + Channels <= Channels * q
        BY <1>1, <1>2, <2>2, <3>3, RowsInOrder
      <4>2. Channels * q \in Nat
        BY <1>1, <2>2
      <4>3. QED
        BY <1>1, <1>2, <2>1, <2>2, <4>1, <4>2
    <3>4. QED
      BY <1>2, <2>2, <3>1, <3>2, <3>3
  <2>5. q + 1 \in DOMAIN dates /\ (q + 1) - 1 = q
    BY <1>2, <2>2, <2>4
  <2>6. QED
    BY <2>2, <2>3, <2>5 DEF Channel
<1>5. ASSUME NEW r \in DOMAIN dates, NEW c \in Channel
      PROVE  /\ Channels * (r - 1) + c \in DOMAIN V
             /\ V[Channels * (r - 1) + c] = <<c, dates[r]>>
  <2> DEFINE q == r - 1
  <2>1. q \in Nat /\ q < N /\ q + 1 = r
    BY <1>2
  <2> HIDE DEF q
  <2>2. Channels * q + Channels <= Channels * N /\ Channels * q \in Nat
    BY <1>1, <1>2, <2>1, RowsInOrder
  <2> DEFINE k == Channels * q + c
  <2>3. k \in 1..(Channels * N)
    BY <1>1, <1>2, <2>2 DEF Channel
  <2>4. (k - 1) \div Channels = q /\ (k - 1) % Channels = c - 1
    BY <1>1, <2>1, PlaceOf DEF Channel
  <2> HIDE DEF k
  <2>5. V[k] = <<((k - 1) % Channels) + 1, dates[((k - 1) \div Channels) + 1]>>
    BY <1>3, <2>3
  <2>6. (c - 1) + 1 = c
    BY <1>1 DEF Channel
  <2>7. V[k] = <<c, dates[q + 1]>>
    BY <2>4, <2>5, <2>6
  <2>8. QED
    BY <1>3, <2>1, <2>3, <2>7 DEF q, k
<1>6. V \in Seq(Channel \X D)
  <2>1. \A r \in DOMAIN dates : dates[r] \in D
    OBVIOUS
  <2>2. \A k \in DOMAIN V : V[k] \in Channel \X D
    BY <1>4, <2>1
  <2>3. V = [k \in 1..(Channels * N) |-> V[k]]
    BY <1>3 DEF V, Values, N
  <2>4. QED
    BY <1>2, <1>3, <2>2, <2>3
<1>7. QED
  BY <1>4, <1>5, <1>6 DEF V

-----------------------------------------------------------------------------
(* Answers of a device and what is read of them *)

LEMMA DatesAreNumbers == /\ \A t \in Dates : t \in Nat
                         /\ \A t \in Date : t \in Dates /\ t # Past
                         /\ Past \in Dates /\ Past = 0 /\ MaxDate \in Nat
<1>1. MaxDate \in Nat
  BY ScanAssumption
<1>2. QED
  BY <1>1 DEF Dates, Date, Past, Future

LEMMA ElementOf ==
  ASSUME NEW D, NEW s \in Seq(D), NEW k \in 1..Len(s)
  PROVE  s[k] \in D
  OBVIOUS

\* The beginning of the answer, with dates that can be read.
LEMMA ReadableEffect ==
  ASSUME NEW answer \in Seq(Unreadable..Future)
  PROVE  /\ Readable(answer) \in Seq(Dates)
         /\ Len(Readable(answer)) <= Len(answer)
         /\ \A k \in DOMAIN Readable(answer) : Readable(answer)[k] = answer[k]
<1> DEFINE N == Len(answer)
           ends == {n \in 0..N : /\ n <= BufRows
                                 /\ \A k \in 1..n : answer[k] # Unreadable}
<1>1. N \in Nat /\ 0 \in ends /\ ends \in SUBSET Int /\ \A n \in ends : n <= N
  <2>1. N \in Nat /\ BufRows \in Nat
    BY ScanAssumption
  <2>2. QED
    BY <2>1
<1> DEFINE last == CHOOSE n \in ends : \A m \in ends : m <= n
<1>2. Readable(answer) = SubSeq(answer, 1, last)
  BY DEF Readable
<1> HIDE DEF ends
<1>3. ends # {} /\ N \in Int
  BY <1>1
<1> HIDE DEF N
<1>4. \E n \in ends : \A m \in ends : m <= n
  BY <1>1, <1>3, GreatestBelow
<1>5. last \in 0..N /\ \A k \in 1..last : answer[k] # Unreadable
  <2>1. last \in ends
    BY <1>4
  <2>2. QED
    BY <2>1 DEF ends
<1> HIDE DEF last
<1> USE DEF N
<1>6. \A k \in 1..last : answer[k] \in Dates
  <2>1. \A k \in 1..last : answer[k] \in Unreadable..Future
    <3>1. \A k \in 1..last : k \in 1..Len(answer)
      BY <1>1, <1>5
    <3>2. QED
      BY <3>1, ElementOf
  <2>2. MaxDate \in Nat
    BY ScanAssumption
  <2>3. QED
    BY <1>5, <2>1, <2>2 DEF Unreadable, Past, Future, Dates
<1>7. /\ DOMAIN SubSeq(answer, 1, last) = 1..last
      /\ Len(SubSeq(answer, 1, last)) = last
      /\ \A k \in 1..last : SubSeq(answer, 1, last)[k] = answer[k]
      /\ SubSeq(answer, 1, last) = [k \in 1..last |-> answer[k]]
  BY <1>1, <1>5
<1>8. SubSeq(answer, 1, last) \in Seq(Dates)
  BY <1>1, <1>5, <1>6, <1>7
<1>9. QED
  BY <1>1, <1>2, <1>5, <1>7, <1>8

\* The rows at some positions of a log, without repetition and in their order.
LEMMA RowsAtEffect ==
  ASSUME NEW d \in Dev, log[d] \in Seq(Unreadable..Future),
         NEW positions \in SUBSET DOMAIN log[d], NEW answer \in RowsAt(d, positions)
  PROVE  /\ answer \in Seq(Unreadable..Future)
         /\ \E p \in [DOMAIN answer -> positions] :
              /\ \A n \in positions : \E k \in DOMAIN answer : p[k] = n
              /\ \A j, k \in DOMAIN answer : j < k => p[j] < p[k]
              /\ \A k \in DOMAIN answer : answer[k] = log[d][p[k]]
<1>1. PICK p \in UNION {[1..n -> positions] : n \in 0..Len(log[d])} :
             /\ Range(p) = positions
             /\ \A j, k \in DOMAIN p : j < k => p[j] < p[k]
             /\ answer = [k \in DOMAIN p |-> log[d][p[k]]]
  BY DEF RowsAt
<1>2. PICK n \in 0..Len(log[d]) : p \in [1..n -> positions]
  BY <1>1
<1>3. n \in Nat /\ DOMAIN answer = 1..n /\ DOMAIN p = 1..n
  BY <1>1, <1>2
<1>4. \A k \in 1..n : answer[k] = log[d][p[k]] /\ log[d][p[k]] \in Unreadable..Future
  <2>1. \A k \in 1..n : p[k] \in positions /\ answer[k] = log[d][p[k]]
    BY <1>1, <1>2, <1>3
  <2>2. \A m \in positions : m \in 1..Len(log[d])
    OBVIOUS
  <2>3. \A m \in positions : log[d][m] \in Unreadable..Future
    BY <2>2, ElementOf
  <2>4. QED
    BY <2>1, <2>3
<1>5. answer \in Seq(Unreadable..Future)
  BY <1>1, <1>3, <1>4
<1>6. \A m \in positions : \E k \in 1..n : p[k] = m
  BY <1>1, <1>3 DEF Range
<1>7. /\ p \in [DOMAIN answer -> positions]
      /\ \A m \in positions : \E k \in DOMAIN answer : p[k] = m
      /\ \A j, k \in DOMAIN answer : j < k => p[j] < p[k]
      /\ \A k \in DOMAIN answer : answer[k] = log[d][p[k]]
  BY <1>1, <1>2, <1>3, <1>4, <1>6
<1>8. QED
  BY <1>5, <1>7

\* The date that is asked from is the last one of the first channel.
LEMMA LastDateEffect ==
  ASSUME NEW d
  PROVE  /\ LastDate(d) \in Dates /\ LastDate(d) \in Int
         /\ \A t \in Dates : <<d, 1, t>> \in cells => t <= LastDate(d)
         /\ LastDate(d) = Past \/ <<d, 1, LastDate(d)>> \in cells
<1> DEFINE dates == {t \in Dates : <<d, 1, t>> \in cells}
<1>1. Future \in Int /\ Past \in Dates /\ dates \in SUBSET Int /\ \A t \in dates : t <= Future
  <2>1. MaxDate \in Nat
    BY ScanAssumption
  <2>2. QED
    BY <2>1 DEF Past, Future, Dates
<1>2. LastDate(d) = IF dates = {} THEN Past
                    ELSE CHOOSE t \in dates : \A u \in dates : u <= t
  BY DEF LastDate, Dates
<1>3. CASE dates = {}
  BY <1>1, <1>2, <1>3 DEF Past
<1>4. CASE dates # {}
  <2>1. \E t \in dates : \A u \in dates : u <= t
    BY <1>1, <1>4, GreatestBelow
  <2>2. LastDate(d) \in dates /\ \A u \in dates : u <= LastDate(d)
    BY <1>2, <1>4, <2>1
  <2>3. LastDate(d) \in Dates /\ <<d, 1, LastDate(d)>> \in cells
    BY <2>2
  <2>4. LastDate(d) \in Int
    BY <1>1, <2>2
  <2>5. QED
    BY <2>2, <2>3, <2>4
<1>5. QED
  BY <1>3, <1>4

-----------------------------------------------------------------------------
(* The container and its cursors *)

\* The cursor leads to a device or to none.
LEMMA CursorEffect ==
  ASSUME ldc \in Seq(Dev)
  PROVE  /\ \A d : Following(d) \in Dev \union {NULL}
         /\ Picked \in Dev \union {NULL}
<1>1. \A n \in 1..Len(ldc) : ldc[n] \in Dev
  BY ElementOf
<1>2. DOMAIN ldc = 1..Len(ldc) /\ Len(ldc) \in Nat /\ (ldc # <<>> => Len(ldc) # 0)
  OBVIOUS
<1>3. ASSUME NEW d
      PROVE  Following(d) \in Dev \union {NULL}
  <2> DEFINE places == {n \in 1..(Len(ldc) - 1) : ldc[n] = d}
             n == CHOOSE n \in 1..(Len(ldc) - 1) : ldc[n] = d
  <2>1. CASE \E k \in 1..(Len(ldc) - 1) : ldc[k] = d
    <3>1. n \in 1..(Len(ldc) - 1) /\ Following(d) = ldc[n + 1]
      BY <2>1 DEF Following
    <3> HIDE DEF n
    <3>2. n + 1 \in 1..Len(ldc)
      BY <1>2, <3>1
    <3>3. QED
      BY <1>1, <3>1, <3>2
  <2>2. CASE ~\E k \in 1..(Len(ldc) - 1) : ldc[k] = d
    BY <2>2 DEF Following
  <2>3. QED
    BY <2>1, <2>2
<1>4. FirstDevice \in Dev \union {NULL}
  BY <1>1, <1>2 DEF FirstDevice
<1>5. QED
  BY <1>3, <1>4 DEF Picked

\* A device leaves the container.
LEMMA WithoutEffect ==
  ASSUME ldc \in Seq(Dev), NEW d \in Range(ldc)
  PROVE  Without(d) \in Seq(Dev)
<1> DEFINE n == CHOOSE k \in DOMAIN ldc : ldc[k] = d
<1>1. n \in DOMAIN ldc
  BY DEF Range
<1>2. Without(d) = SubSeq(ldc, 1, n - 1) \o SubSeq(ldc, n + 1, Len(ldc))
  BY DEF Without
<1> HIDE DEF n
<1>3. SubSeq(ldc, 1, n - 1) \in Seq(Dev)
  BY <1>1
<1>4. SubSeq(ldc, n + 1, Len(ldc)) \in Seq(Dev)
  BY <1>1
<1> DEFINE a == SubSeq(ldc, 1, n - 1)
           b == SubSeq(ldc, n + 1, Len(ldc))
<1>5. a \in Seq(Dev) /\ b \in Seq(Dev)
  BY <1>3, <1>4
<1> HIDE DEF a, b
<1>6. a \o b \in Seq(Dev)
  BY <1>5
<1>7. QED
  BY <1>2, <1>6 DEF a, b

\* The first start finds some of the devices in some order.
LEMMA FirstOrder ==
  ASSUME NEW n \in 1..Cardinality(Dev)
  PROVE  (CHOOSE s \in [1..n -> Dev] : IsInjective(s)) \in Seq(Dev)
<1>1. Cardinality(Dev) \in Nat /\ ExistsBijection(1..Cardinality(Dev), Dev)
  BY ScanAssumption, FS_CardinalityType
<1>2. PICK f \in [1..Cardinality(Dev) -> Dev] : IsInjective(f)
  BY <1>1 DEF ExistsBijection, Bijection, Injection
<1> DEFINE g == [k \in 1..n |-> f[k]]
<1>3. g \in [1..n -> Dev] /\ IsInjective(g)
  <2>1. 1..n \subseteq 1..Cardinality(Dev) /\ DOMAIN f = 1..Cardinality(Dev)
    BY <1>1, <1>2
  <2>2. QED
    BY <1>2, <2>1 DEF IsInjective
<1> HIDE DEF g
<1>4. (CHOOSE s \in [1..n -> Dev] : IsInjective(s)) \in [1..n -> Dev]
  BY <1>3
<1>5. n \in Nat
  BY <1>1
<1>6. \A s \in [1..n -> Dev] : s \in Seq(Dev)
  BY <1>5
<1>7. QED
  BY <1>4, <1>6

\* The steps of a scan leave the container alone, except for the cursors.
LEMMA ScanKeepsContainer ==
  ASSUME ContainerOK, Scan
  PROVE  ContainerOK'
<1>1. CASE Pick
  <2>1. /\ UNCHANGED <<ldc, container>>
        /\ lastDevice' = Picked /\ dcPtr' = Following(Picked) /\ due' = FALSE
        /\ \/ Picked = NULL /\ UNCHANGED <<pc, cur>>
           \/ Picked # NULL /\ pc' = "off" /\ cur' = Picked
    BY <1>1 DEF Pick
  <2>2. Picked \in Dev \union {NULL} /\ Following(Picked) \in Dev \union {NULL}
    BY CursorEffect DEF ContainerOK
  <2>3. QED
    BY <2>1, <2>2 DEF ContainerOK, Steps
<1>2. CASE ~Pick
  <2>1. UNCHANGED <<ldc, container, dcPtr, lastDevice, due, cur>>
    BY <1>2
    DEF Scan, SetCycleModeOff, SetCycleModeOn, DeviceSetDatetime, SetLoggerMint,
        GetDeviceData, GetDeviceDataAgain, GetDeviceDataFails, SaveValue,
        SaveValueFails, Saved, quiet, container_vars
  <2>2. pc \in Steps /\ pc' \in Steps \union {"loop"}
    BY <1>2
    DEF Scan, SetCycleModeOff, SetCycleModeOn, DeviceSetDatetime, SetLoggerMint, Request,
        GetDeviceData, GetDeviceDataAgain, GetDeviceDataFails, SaveValue,
        SaveValueFails, Saved, Steps
  <2>3. QED
    BY <2>1, <2>2 DEF ContainerOK
<1>3. QED
  BY <1>1, <1>2

LEMMA ContainerStep ==
  ASSUME ContainerOK, [Next]_vars
  PROVE  ContainerOK'
<1>1. CASE Scan
  BY <1>1, ScanKeepsContainer
<1>2. CASE PickFaults \/ Crash
  <2>1. Down
    BY <1>2 DEF PickFaults, Crash
  <2>2. QED
    BY <2>1 DEF Down, ContainerOK, Steps
<1>3. CASE LookUp \/ Tick
  <2>1. UNCHANGED <<ldc, lastDevice, pc, cur>>
    BY <1>3 DEF LookUp, Tick, container_vars
  <2>2. container' \in BOOLEAN /\ due' \in BOOLEAN /\ dcPtr' \in {dcPtr, NULL}
    BY <1>3 DEF LookUp, Tick, container_vars, ContainerOK
  <2>3. QED
    BY <2>1, <2>2 DEF ContainerOK
<1>4. ASSUME NEW d \in Dev, Remove(d)
      PROVE  ContainerOK'
  <2>1. /\ ldc' = Without(d) /\ UNCHANGED <<due, pc, cur>> /\ d \in Range(ldc)
        /\ container' = (Without(d) # <<>>)
        /\ dcPtr' \in {dcPtr, Gone} /\ lastDevice' \in {lastDevice, Gone}
    BY <1>4 DEF Remove
  <2>2. ldc' \in Seq(Dev)
    BY <2>1, WithoutEffect DEF ContainerOK
  <2>3. container' \in BOOLEAN
    BY <2>1
  <2>4. QED
    BY <2>1, <2>2, <2>3 DEF ContainerOK
<1>5. ASSUME NEW d \in Dev, Register(d)
      PROVE  ContainerOK'
  <2>1. ldc' = Append(ldc, d) /\ UNCHANGED <<container, dcPtr, lastDevice, due, pc, cur>>
    BY <1>5 DEF Register
  <2>2. ldc' \in Seq(Dev)
    BY <2>1 DEF ContainerOK
  <2>3. QED
    BY <2>1, <2>2 DEF ContainerOK
<1>6. CASE Restart
  <2>1. /\ UNCHANGED <<container, dcPtr, lastDevice, cur>>
        /\ due' = TRUE /\ pc' = "loop"
        /\ ldc' \in [DOMAIN ldc -> Range(ldc)]
    BY <1>6 DEF Restart
  <2>2. ldc' \in Seq(Dev)
    <3>1. DOMAIN ldc = 1..Len(ldc) /\ Len(ldc) \in Nat /\ Range(ldc) \subseteq Dev
      BY DEF ContainerOK, Range
    <3>2. ldc' \in [1..Len(ldc) -> Dev]
      BY <2>1, <3>1
    <3>3. QED
      BY <3>1, <3>2
  <2>3. QED
    BY <2>1, <2>2 DEF ContainerOK, Steps
<1>7. CASE \/ \E d \in Dev : ChangeMint(d) \/ Record(d) \/ DeviceRestarts(d)
           \/ UNCHANGED vars
  <2>1. UNCHANGED <<ldc, container, dcPtr, lastDevice, due, pc, cur>>
    BY <1>7 DEF ChangeMint, Record, DeviceRestarts, container_vars, vars
  <2>2. QED
    BY <2>1 DEF ContainerOK
<1>8. QED
  BY <1>1, <1>2, <1>3, <1>4, <1>5, <1>6, <1>7 DEF Next

-----------------------------------------------------------------------------
(* What the devices hold *)

\* A request changes one field of the device that is scanned.
LEMMA RequestEffect ==
  ASSUME DevicesOK, cur \in Dev, NEW field \in {"cycle", "clock", "mint"},
         NEW value \in BOOLEAN, NEW next, NEW else, Request(field, value, next, else)
  PROVE  /\ dev' \in [Dev -> [cycle : BOOLEAN, clock : BOOLEAN, mint : BOOLEAN]]
         /\ nevent' \in 0..MaxEvents
         /\ \A d \in Dev : dev[d].clock /\ (field # "clock" \/ value) => dev'[d].clock
<1> DEFINE Settings == [cycle : BOOLEAN, clock : BOOLEAN, mint : BOOLEAN]
<1>1. dev \in [Dev -> Settings]
  BY DEF DevicesOK
<1>2. dev' = dev \/ dev' = [dev EXCEPT ![cur] = [dev[cur] EXCEPT ![field] = value]]
  BY DEF Request
<1> DEFINE new == [dev[cur] EXCEPT ![field] = value]
<1>3. new \in Settings /\ (dev[cur].clock /\ (field # "clock" \/ value) => new.clock)
  <2>1. dev[cur] \in Settings
    BY <1>1
  <2>2. CASE field = "cycle"
    BY <2>1, <2>2
  <2>3. CASE field = "clock"
    BY <2>1, <2>3
  <2>4. CASE field = "mint"
    BY <2>1, <2>4
  <2>5. QED
    BY <2>2, <2>3, <2>4
<1>4. dev' = dev \/ dev' = [dev EXCEPT ![cur] = new]
  BY <1>2
<1> HIDE DEF Settings, new
<1>5. dev' \in [Dev -> Settings]
  BY <1>1, <1>3, <1>4
<1>6. \A d \in Dev : dev[d].clock /\ (field # "clock" \/ value) => dev'[d].clock
  BY <1>1, <1>3, <1>4
<1>7. nevent' \in 0..MaxEvents
  BY ScanAssumption DEF Request, Event, NoEvent, DevicesOK
<1>8. QED
  BY <1>5, <1>6, <1>7 DEF Settings

\* The first value is stored or refused.
LEMMA StoreEffect ==
  ASSUME ContainerOK, DataOK, SaveValue \/ SaveValueFails
  PROVE  /\ cur \in Dev /\ paket[1] \in Value /\ 1 \in DOMAIN paket
         /\ SaveValue => /\ cells' = cells \union {<<cur, paket[1][1], paket[1][2]>>}
                         /\ refused' = refused
         /\ SaveValueFails => /\ refused' = refused \union {<<cur, paket[1][1], paket[1][2]>>}
                              /\ cells' = cells
         /\ Settled' = Settled \union {<<cur, paket[1][1], paket[1][2]>>}
<1>1. paket \in Seq(Value) /\ paket # <<>> /\ cur \in Dev
  BY DEF SaveValue, SaveValueFails, ContainerOK, DataOK, Steps
<1>2. Head(paket) = paket[1] /\ paket[1] \in Value /\ 1 \in DOMAIN paket
  BY <1>1
<1>3. NextValue = <<cur, paket[1][1], paket[1][2]>>
  BY <1>2 DEF NextValue
<1>4. /\ SaveValue => cells' = cells \union {NextValue} /\ refused' = refused
      /\ SaveValueFails => refused' = refused \union {NextValue} /\ cells' = cells
  BY DEF SaveValue, SaveValueFails, history
<1>5. Settled' = Settled \union {NextValue}
  BY <1>4 DEF Settled
<1>6. QED
  BY <1>1, <1>2, <1>3, <1>4, <1>5

\* Damage is not forgotten, and only the devices that lost their clock have a
\* wrong one.
LEMMA DevicesStep ==
  ASSUME ContainerOK, DataOK, DevicesOK, [Next]_vars
  PROVE  /\ DevicesOK'
         /\ refused \subseteq refused' /\ skewed \subseteq skewed'
         /\ \A d \in Dev \ skewed' : dev[d].clock => dev'[d].clock
<1> DEFINE Settings == [cycle : BOOLEAN, clock : BOOLEAN, mint : BOOLEAN]
<1>1. CASE SetCycleModeOff \/ SetCycleModeOn \/ DeviceSetDatetime \/ SetLoggerMint
  <2>1. UNCHANGED <<refused, skewed>>
    BY <1>1 DEF SetCycleModeOff, SetCycleModeOn, DeviceSetDatetime, SetLoggerMint, quiet, history
  <2>2. cur \in Dev
    BY <1>1 DEF SetCycleModeOff, SetCycleModeOn, DeviceSetDatetime, SetLoggerMint,
                ContainerOK, Steps
  <2>3. \/ Request("cycle", FALSE, "fetch", "loop")
        \/ Request("cycle", TRUE, "loop", "loop")
        \/ Request("clock", TRUE, "mint", "mint")
        \/ Request("mint", TRUE, "on", "on")
    BY <1>1 DEF SetCycleModeOff, SetCycleModeOn, DeviceSetDatetime, SetLoggerMint
  <2>4. /\ dev' \in [Dev -> Settings]
        /\ nevent' \in 0..MaxEvents
        /\ \A d \in Dev : dev[d].clock => dev'[d].clock
    BY <2>2, <2>3, RequestEffect
  <2>5. QED
    BY <2>1, <2>4 DEF DevicesOK
<1>2. CASE \/ Pick \/ GetDeviceData \/ GetDeviceDataAgain \/ GetDeviceDataFails
           \/ SaveValue \/ SaveValueFails \/ Saved
           \/ PickFaults \/ LookUp \/ Tick \/ Crash \/ Restart \/ UNCHANGED vars
           \/ \E d \in Dev : Remove(d) \/ Register(d) \/ Record(d)
  <2>1. UNCHANGED <<dev, skewed>>
    BY <1>2
    DEF Pick, GetDeviceData, GetDeviceDataAgain, GetDeviceDataFails, SaveValue,
        SaveValueFails, Saved, PickFaults, LookUp, Tick, Crash, Down,
        Restart, Remove, Register, Record, device_vars, history, vars
  <2>2. nevent' = nevent \/ (nevent < MaxEvents /\ nevent' = nevent + 1)
    BY <1>2
    DEF Pick, GetDeviceData, GetDeviceDataAgain, GetDeviceDataFails, SaveValue,
        SaveValueFails, Saved, PickFaults, LookUp, Tick, Crash, Down,
        Restart, Remove, Register, Record, vars, Event, NoEvent
  <2>3. nevent' \in 0..MaxEvents
    BY <2>2, ScanAssumption DEF DevicesOK
  <2>4. CASE SaveValueFails
    <3>1. /\ refused' = refused \union {<<cur, paket[1][1], paket[1][2]>>}
          /\ cur \in Dev /\ paket[1] \in Value
      BY <2>4, StoreEffect
    <3>2. refused' \subseteq Dev \X Channel \X Dates
      BY <3>1 DEF DevicesOK, Value
    <3>3. QED
      BY <2>1, <2>3, <3>1, <3>2 DEF DevicesOK
  <2>5. CASE ~SaveValueFails
    <3>1. refused' = refused
      BY <1>2, <2>5
      DEF Pick, GetDeviceData, GetDeviceDataAgain, GetDeviceDataFails, SaveValue,
          Saved, PickFaults, LookUp, Tick, Crash, Down,
          Restart, Remove, Register, Record, history, vars
    <3>2. QED
      BY <2>1, <2>3, <3>1 DEF DevicesOK
  <2>6. QED
    BY <2>4, <2>5
<1>3. ASSUME NEW d \in Dev, ChangeMint(d) \/ DeviceRestarts(d)
      PROVE  /\ DevicesOK'
             /\ refused \subseteq refused' /\ skewed \subseteq skewed'
             /\ \A e \in Dev \ skewed' : dev[e].clock => dev'[e].clock
  <2>1. nevent' \in 0..MaxEvents /\ refused' = refused
    BY <1>3, ScanAssumption DEF ChangeMint, DeviceRestarts, Event, history, DevicesOK
  <2>2. dev \in [Dev -> Settings] /\ dev[d] \in Settings
    BY DEF DevicesOK
  <2>3. CASE ChangeMint(d)
    <3>1. /\ dev' = [dev EXCEPT ![d] = [dev[d] EXCEPT !.mint = FALSE]]
          /\ skewed' = skewed
      BY <2>3 DEF ChangeMint, history
    <3>2. [dev[d] EXCEPT !.mint = FALSE] \in Settings
      BY <2>2
    <3>3. [dev[d] EXCEPT !.mint = FALSE].clock = dev[d].clock
      BY <2>2
    <3>4. dev' \in [Dev -> Settings] /\ \A e \in Dev : dev'[e].clock = dev[e].clock
      BY <2>2, <3>1, <3>2, <3>3
    <3>5. QED
      BY <2>1, <3>1, <3>4 DEF DevicesOK
  <2>4. CASE DeviceRestarts(d)
    <3>1. /\ dev' = [dev EXCEPT ![d] = [dev[d] EXCEPT !.clock = FALSE]]
          /\ skewed' = skewed \union {d}
      BY <2>4 DEF DeviceRestarts
    <3>2. [dev[d] EXCEPT !.clock = FALSE] \in Settings
      BY <2>2
    <3>3. dev' \in [Dev -> Settings] /\ \A e \in Dev : e # d => dev'[e] = dev[e]
      BY <2>2, <3>1, <3>2
    <3>4. QED
      BY <2>1, <3>1, <3>3 DEF DevicesOK
  <2>5. QED
    BY <1>3, <2>3, <2>4
<1>4. QED
  BY <1>1, <1>2, <1>3 DEF Next, Scan

-----------------------------------------------------------------------------
(* What is read and stored *)

\* Values that wait to be stored, and the rows they are put into.
LEMMA AnswerEffect ==
  ASSUME ContainerOK, DataOK, pc = "fetch", GetDeviceData \/ GetDeviceDataAgain
  PROVE  \E answer \in Seq(Unreadable..Future) :
           /\ paket' = Values(Readable(answer))
           /\ \/ answer = log[cur]
              \/ \E positions \in SUBSET DOMAIN log[cur] :
                   /\ answer \in RowsAt(cur, positions)
                   /\ \A n \in DOMAIN log[cur] :
                        n \in positions \/ log[cur][n] < LastDate(cur)
<1>1. cur \in Dev /\ log[cur] \in Seq(Unreadable..Future)
  BY DEF ContainerOK, DataOK, Steps
<1>2. CASE GetDeviceDataAgain
  BY <1>1, <1>2 DEF GetDeviceDataAgain
<1>3. CASE GetDeviceData
  <2> DEFINE from == LastDate(cur)
             since == {n \in DOMAIN log[cur] : log[cur][n] >= from}
             behind == {n \in DOMAIN log[cur] : \E k \in since : k <= n}
             first == IF from = Past THEN DOMAIN log[cur] ELSE since
  <2>1. PICK answer \in RowsAt(cur, first) \union RowsAt(cur, behind) :
                paket' = Values(Readable(answer))
    BY <1>3 DEF GetDeviceData, Answers
  <2>2. first \in SUBSET DOMAIN log[cur] /\ behind \in SUBSET DOMAIN log[cur]
    OBVIOUS
  <2>3. answer \in Seq(Unreadable..Future)
    BY <1>1, <2>1, <2>2, RowsAtEffect
  <2>4. \A n \in DOMAIN log[cur] : n \in Nat /\ log[cur][n] \in Int
    <3> TAKE n \in DOMAIN log[cur]
    <3>1. n \in 1..Len(log[cur])
      BY <1>1
    <3>2. log[cur][n] \in Unreadable..Future
      BY <1>1, <3>1, ElementOf
    <3>3. QED
      BY <3>1, <3>2
  <2>5. LastDate(cur) \in Int
    BY LastDateEffect
  <2>6. \A n \in DOMAIN log[cur] : n \in first \/ log[cur][n] < LastDate(cur)
    BY <2>4, <2>5
  <2>7. \A n \in DOMAIN log[cur] : n \in behind \/ log[cur][n] < LastDate(cur)
    BY <2>4, <2>5
  <2> HIDE DEF first, behind
  <2>8. QED
    BY <2>1, <2>2, <2>3, <2>6, <2>7
<1>4. QED
  BY <1>2, <1>3

\* A device logs one row more.
LEMMA RecordEffect ==
  ASSUME DataOK, NEW d \in Dev, Record(d)
  PROVE  \E t \in Unreadable..Future :
           /\ log' \in [Dev -> Seq(Unreadable..Future)]
           /\ \A e \in Dev : e # d => log'[e] = log[e]
           /\ Len(log[d]) \in Nat /\ Len(log[d]) < MaxDate
           /\ DOMAIN log[d] = 1..Len(log[d])
           /\ DOMAIN log'[d] = 1..(Len(log[d]) + 1) /\ Len(log'[d]) = Len(log[d]) + 1
           /\ \A k \in DOMAIN log[d] : log'[d][k] = log[d][k]
           /\ log'[d][Len(log[d]) + 1] = t
           /\ IF dev[d].clock THEN t = Len(log[d]) + 1 ELSE t \notin Date
<1>1. PICK t \in Unreadable..Future :
             /\ IF dev[d].clock THEN t = Len(log[d]) + 1 ELSE t \notin Date
             /\ log' = [log EXCEPT ![d] = Append(log[d], t)]
  BY DEF Record
<1>2. log \in [Dev -> Seq(Unreadable..Future)] /\ log[d] \in Seq(Unreadable..Future)
  BY DEF DataOK
<1> DEFINE D == Unreadable..Future
           l == log[d]
           m == Append(l, t)
<1>3. t \in D /\ l \in Seq(D) /\ log \in [Dev -> Seq(D)]
  BY <1>1, <1>2
<1> HIDE DEF D
<1>4. /\ m \in Seq(D) /\ Len(l) \in Nat /\ DOMAIN l = 1..Len(l)
      /\ DOMAIN m = 1..(Len(l) + 1) /\ Len(m) = Len(l) + 1
      /\ \A k \in DOMAIN l : m[k] = l[k]
      /\ m[Len(l) + 1] = t
  BY <1>3
<1>5. log' = [log EXCEPT ![d] = m]
  BY <1>1
<1> HIDE DEF m
<1>6. log' \in [Dev -> Seq(D)] /\ log'[d] = m /\ \A e \in Dev : e # d => log'[e] = log[e]
  BY <1>3, <1>4, <1>5
<1>7. Len(log[d]) < MaxDate
  BY DEF Record
<1>8. QED
  BY <1>1, <1>4, <1>6, <1>7 DEF D

LEMMA EmptyList ==
  ASSUME NEW S
  PROVE  <<>> \in Seq(S)
  OBVIOUS

\* The steps that neither read, store nor log.
Elsewhere ==
  \/ Pick \/ SetCycleModeOff \/ SetCycleModeOn \/ DeviceSetDatetime \/ SetLoggerMint
  \/ GetDeviceDataFails \/ Saved \/ LookUp \/ Tick \/ Restart \/ UNCHANGED vars
  \/ \E d \in Dev : Remove(d) \/ Register(d) \/ ChangeMint(d) \/ DeviceRestarts(d)

LEMMA ElsewhereEffect ==
  ASSUME Elsewhere
  PROVE  UNCHANGED <<paket, cells, refused, log>> /\ (pc = "save" => pc' = "save" \/ paket = <<>>)
<1>1. UNCHANGED <<paket, cells, refused, log>>
  BY DEF Elsewhere, Pick, SetCycleModeOff, SetCycleModeOn, DeviceSetDatetime, SetLoggerMint,
         GetDeviceDataFails, Saved, LookUp, Tick, Restart, Remove, Register, ChangeMint,
         DeviceRestarts, quiet, device_vars, history, vars
<1>2. pc = "save" => pc' = "save" \/ paket = <<>>
  BY DEF Elsewhere, Pick, SetCycleModeOff, SetCycleModeOn, DeviceSetDatetime, SetLoggerMint,
         GetDeviceDataFails, Saved, LookUp, Tick, Restart, Remove, Register, ChangeMint,
         DeviceRestarts, container_vars, vars
<1>3. QED
  BY <1>1, <1>2

\* Every step is one of these.
LEMMA StepKinds ==
  ASSUME [Next]_vars
  PROVE  \/ Elsewhere
         \/ GetDeviceData \/ GetDeviceDataAgain
         \/ SaveValue \/ SaveValueFails
         \/ PickFaults \/ Crash
         \/ \E d \in Dev : Record(d)
  BY DEF Next, Scan, Elsewhere

LEMMA DataStep ==
  ASSUME ContainerOK, DataOK, [Next]_vars
  PROVE  DataOK'
<1>1. CASE Elsewhere
  BY <1>1, ElsewhereEffect DEF DataOK
<1>2. CASE GetDeviceData \/ GetDeviceDataAgain
  <2>1. UNCHANGED <<cells, log>> /\ pc = "fetch"
    BY <1>2 DEF GetDeviceData, GetDeviceDataAgain, device_vars
  <2>2. PICK answer \in Seq(Unreadable..Future) : paket' = Values(Readable(answer))
    BY <1>2, <2>1, AnswerEffect
  <2>3. Readable(answer) \in Seq(Dates)
    BY ReadableEffect
  <2>4. paket' \in Seq(Value)
    BY <2>2, <2>3, ValuesEffect DEF Value
  <2>5. QED
    BY <2>1, <2>4 DEF DataOK
<1>3. CASE SaveValue \/ SaveValueFails
  <2>1. log' = log /\ paket # <<>> /\ paket' = Tail(paket)
    BY <1>3 DEF SaveValue, SaveValueFails, device_vars
  <2>2. paket' \in Seq(Value)
    BY <2>1 DEF DataOK
  <2>3. CASE SaveValueFails
    BY <2>1, <2>2, <2>3 DEF SaveValueFails, DataOK
  <2>4. CASE SaveValue
    <3>1. /\ cur \in Dev /\ paket[1] \in Value
          /\ cells' = cells \union {<<cur, paket[1][1], paket[1][2]>>}
      BY <2>4, StoreEffect
    <3>2. cells' \subseteq Dev \X Channel \X Dates
      BY <3>1 DEF DataOK, Value
    <3>3. QED
      BY <2>1, <2>2, <3>1, <3>2 DEF DataOK
  <2>5. QED
    BY <1>3, <2>3, <2>4
<1>4. CASE PickFaults \/ Crash
  <2>1. paket' = <<>> /\ UNCHANGED <<cells, log>>
    BY <1>4 DEF PickFaults, Crash, Down, device_vars
  <2>2. QED
    BY <2>1, EmptyList DEF DataOK
<1>5. ASSUME NEW d \in Dev, Record(d)
      PROVE  DataOK'
  <2>1. UNCHANGED <<paket, cells>>
    BY <1>5 DEF Record
  <2>2. log' \in [Dev -> Seq(Unreadable..Future)]
    BY <1>5, RecordEffect
  <2>3. QED
    BY <2>1, <2>2 DEF DataOK
<1>6. QED
  BY <1>1, <1>2, <1>3, <1>4, <1>5, StepKinds

-----------------------------------------------------------------------------
(* The logs *)

\* Logs grow only by the rows that are recorded.
LEMMA LogsStay ==
  ASSUME [Next]_vars
  PROVE  log' = log \/ \E d \in Dev : Record(d)
<1>1. Elsewhere => log' = log
  BY ElsewhereEffect
<1>2. \/ GetDeviceData \/ GetDeviceDataAgain \/ SaveValue \/ SaveValueFails
      \/ PickFaults \/ Crash
      => log' = log
  BY DEF GetDeviceData, GetDeviceDataAgain, SaveValue, SaveValueFails,
         PickFaults, Crash, Down, device_vars
<1>3. QED
  BY <1>1, <1>2, StepKinds

LEMMA LoggedStays ==
  ASSUME DataOK, [Next]_vars, NEW d \in Dev, NEW t, Logged(d, t)
  PROVE  Logged(d, t)'
<1>1. CASE log' = log
  BY <1>1 DEF Logged
<1>2. ASSUME NEW e \in Dev, Record(e)
      PROVE  Logged(d, t)'
  <2>1. CASE d = e
    <3>1. /\ DOMAIN log[d] = 1..Len(log[d]) /\ Len(log[d]) \in Nat
          /\ DOMAIN log'[d] = 1..(Len(log[d]) + 1)
          /\ \A k \in DOMAIN log[d] : log'[d][k] = log[d][k]
      BY <1>2, <2>1, RecordEffect
    <3>2. QED
      BY <3>1 DEF Logged
  <2>2. CASE d # e
    <3>1. log'[d] = log[d]
      BY <1>2, <2>2, RecordEffect
    <3>2. QED
      BY <3>1 DEF Logged
  <2>3. QED
    BY <2>1, <2>2
<1>3. QED
  BY <1>1, <1>2, LogsStay

LEMMA LogsStep ==
  ASSUME ContainerOK, DataOK, DevicesOK, LogsInOrder, [Next]_vars
  PROVE  LogsInOrder'
<1>1. skewed \subseteq skewed' /\ \A d \in Dev \ skewed' : dev[d].clock => dev'[d].clock
  BY DevicesStep
<1>2. CASE log' = log
  BY <1>1, <1>2 DEF LogsInOrder
<1>3. ASSUME NEW e \in Dev, Record(e)
      PROVE  LogsInOrder'
  <2> SUFFICES ASSUME NEW d \in Dev
               PROVE  /\ Len(log'[d]) <= MaxDate
                      /\ \A n \in DOMAIN log'[d] : log'[d][n] \in Date => log'[d][n] = n
                      /\ d \notin skewed' => /\ dev'[d].clock
                                            /\ \A n \in DOMAIN log'[d] : log'[d][n] = n
    BY DEF LogsInOrder, Date
  <2>1. CASE d # e
    <3>1. log'[d] = log[d]
      BY <1>3, <2>1, RecordEffect
    <3>2. QED
      BY <1>1, <3>1 DEF LogsInOrder
  <2>2. CASE d = e
    <3>1. PICK t \in Unreadable..Future :
             /\ Len(log[d]) \in Nat /\ Len(log[d]) < MaxDate
             /\ DOMAIN log[d] = 1..Len(log[d])
             /\ DOMAIN log'[d] = 1..(Len(log[d]) + 1) /\ Len(log'[d]) = Len(log[d]) + 1
             /\ \A k \in DOMAIN log[d] : log'[d][k] = log[d][k]
             /\ log'[d][Len(log[d]) + 1] = t
             /\ IF dev[d].clock THEN t = Len(log[d]) + 1 ELSE t \notin Date
      BY <1>3, <2>2, RecordEffect
    <3>2. Len(log'[d]) <= MaxDate
      BY <3>1, DatesAreNumbers
    <3>3. d \notin skewed' => dev[d].clock /\ dev'[d].clock
      BY <1>1 DEF LogsInOrder
    <3>4. ASSUME NEW n \in DOMAIN log'[d], n \notin DOMAIN log[d]
          PROVE  n = Len(log[d]) + 1 /\ log'[d][n] = t
      BY <3>1, <3>4
    <3>5. \A n \in DOMAIN log'[d] : log'[d][n] \in Date => log'[d][n] = n
      BY <3>1, <3>4 DEF LogsInOrder
    <3>6. ASSUME d \notin skewed', NEW n \in DOMAIN log'[d]
          PROVE  log'[d][n] = n
      BY <1>1, <3>1, <3>3, <3>4, <3>6 DEF LogsInOrder
    <3>7. QED
      BY <3>2, <3>3, <3>5, <3>6
  <2>3. QED
    BY <2>1, <2>2
<1>4. QED
  BY <1>2, <1>3, LogsStay

\* While values wait, the device that is scanned stays the same.
LEMMA ScannedStays ==
  ASSUME ContainerOK, FromLogs, Elsewhere, paket # <<>>
  PROVE  cur' = cur /\ cur \in Dev
<1>1. pc = "save" /\ cur \in Dev
  BY DEF FromLogs, ContainerOK, Steps
<1>2. cur' = cur
  BY <1>1
  DEF Elsewhere, Pick, SetCycleModeOff, SetCycleModeOn, DeviceSetDatetime,
      SetLoggerMint, GetDeviceDataFails, Saved, LookUp, Tick, Restart, Remove,
      Register, ChangeMint, DeviceRestarts, vars
<1>3. QED
  BY <1>1, <1>2

\* What waits to be stored came from the log of the device that is scanned.
LEMMA FromLogsStep ==
  ASSUME ContainerOK, DataOK, FromLogs, [Next]_vars
  PROVE  FromLogs'
<1>1. \A d \in Dev, t \in Dates : Logged(d, t) => Logged(d, t)'
  BY LoggedStays
<1>2. CASE Elsewhere
  <2>1. UNCHANGED <<paket, cells>> /\ (pc = "save" => pc' = "save" \/ paket = <<>>)
    BY <1>2, ElsewhereEffect
  <2>2. pc' # "save" => paket' = <<>>
    BY <2>1 DEF FromLogs
  <2>3. CASE paket = <<>>
    BY <1>1, <2>1, <2>2, <2>3 DEF FromLogs
  <2>4. CASE paket # <<>>
    <3>1. cur' = cur /\ cur \in Dev
      BY <1>2, <2>4, ScannedStays
    <3>2. \A n \in DOMAIN paket : paket[n][2] \in Dates
      BY DEF DataOK, Value
    <3>3. QED
      BY <1>1, <2>1, <2>2, <3>1, <3>2 DEF FromLogs, Logged
  <2>5. QED
    BY <2>3, <2>4
<1>3. CASE GetDeviceData \/ GetDeviceDataAgain
  <2>1. UNCHANGED <<cur, cells, log>> /\ pc = "fetch" /\ pc' = "save" /\ cur \in Dev
    BY <1>3 DEF GetDeviceData, GetDeviceDataAgain, device_vars, ContainerOK, Steps
  <2>2. PICK answer \in Seq(Unreadable..Future) :
           /\ paket' = Values(Readable(answer))
           /\ \/ answer = log[cur]
              \/ \E positions \in SUBSET DOMAIN log[cur] : answer \in RowsAt(cur, positions)
    BY <1>3, <2>1, AnswerEffect
  <2>3. \A k \in DOMAIN answer : Logged(cur, answer[k])
    <3>1. log[cur] \in Seq(Unreadable..Future)
      BY <2>1 DEF DataOK
    <3>2. CASE answer = log[cur]
      BY <3>2 DEF Logged
    <3>3. ASSUME NEW positions \in SUBSET DOMAIN log[cur], answer \in RowsAt(cur, positions)
          PROVE  \A k \in DOMAIN answer : Logged(cur, answer[k])
      <4>1. PICK p \in [DOMAIN answer -> positions] :
               \A k \in DOMAIN answer : answer[k] = log[cur][p[k]]
        BY <2>1, <3>1, <3>3, RowsAtEffect
      <4>2. QED
        BY <4>1 DEF Logged
    <3>4. QED
      BY <2>2, <3>2, <3>3
  <2>4. \A n \in DOMAIN paket' : \E k \in DOMAIN answer : paket'[n][2] = answer[k]
    <3> DEFINE r == Readable(answer)
    <3>1. /\ r \in Seq(Dates) /\ Len(r) <= Len(answer) /\ Len(answer) \in Nat
          /\ DOMAIN r = 1..Len(r) /\ DOMAIN answer = 1..Len(answer)
          /\ \A k \in DOMAIN r : r[k] = answer[k]
      BY ReadableEffect
    <3>2. \A n \in DOMAIN Values(r) : \E k \in DOMAIN r, c \in Channel : Values(r)[n] = <<c, r[k]>>
      BY <3>1, ValuesEffect
    <3> HIDE DEF r
    <3>3. \A k \in DOMAIN r : k \in DOMAIN answer
      BY <3>1
    <3>4. QED
      BY <2>2, <3>1, <3>2, <3>3 DEF r
  <2>5. QED
    BY <2>1, <2>3, <2>4 DEF FromLogs, Logged
<1>4. CASE SaveValue \/ SaveValueFails
  <2>1. /\ UNCHANGED <<cur, log, pc>> /\ pc = "save" /\ paket # <<>> /\ paket' = Tail(paket)
        /\ cur \in Dev
    BY <1>4 DEF SaveValue, SaveValueFails, device_vars, ContainerOK, Steps
  <2>2. \A n \in DOMAIN paket' : n + 1 \in DOMAIN paket /\ paket'[n] = paket[n + 1]
    BY <2>1 DEF DataOK
  <2>3. \A n \in DOMAIN paket' : Logged(cur, paket'[n][2])
    BY <2>2 DEF FromLogs
  <2>4. CASE cells' = cells
    BY <2>1, <2>3, <2>4 DEF FromLogs, Logged
  <2>5. CASE SaveValue
    <3>1. /\ cells' = cells \union {<<cur, paket[1][1], paket[1][2]>>}
          /\ 1 \in DOMAIN paket
      BY <2>5, StoreEffect
    <3>2. Logged(cur, paket[1][2])
      BY <3>1 DEF FromLogs
    <3>3. QED
      BY <2>1, <2>3, <3>1, <3>2 DEF FromLogs, Logged
  <2>6. QED
    BY <1>4, <2>4, <2>5 DEF SaveValueFails
<1>5. CASE PickFaults \/ Crash
  <2>1. paket' = <<>> /\ UNCHANGED cells
    BY <1>5 DEF PickFaults, Crash, Down
  <2>2. QED
    BY <1>1, <2>1 DEF FromLogs
<1>6. ASSUME NEW d \in Dev, Record(d)
      PROVE  FromLogs'
  <2>1. paket = <<>> /\ UNCHANGED <<paket, cells, pc>>
    BY <1>6 DEF Record, FromLogs
  <2>2. QED
    BY <1>1, <2>1 DEF FromLogs
<1>7. QED
  BY <1>2, <1>3, <1>4, <1>5, <1>6, StepKinds

-----------------------------------------------------------------------------
(* Earlier values come first *)

\* The values of an answer come after all that were logged before them, if the
\* answer leaves out only what is settled.
LEMMA AnswerAhead ==
  ASSUME NEW d, NEW answer \in Seq(Unreadable..Future), InOrder(answer), Covers(d, answer)
  PROVE  Preceded(d, Values(Readable(answer)))
<1> DEFINE r == Readable(answer)
           V == Values(r)
<1> SUFFICES ASSUME NEW n \in DOMAIN V, NEW c \in Channel, NEW t \in Date,
                    Logged(d, t), Before(c, t, V[n])
             PROVE  <<d, c, t>> \in Settled \/ \E k \in 1..(n - 1) : V[k] = <<c, t>>
  BY DEF Preceded
<1>1. /\ r \in Seq(Dates) /\ Len(r) <= Len(answer) /\ \A k \in DOMAIN r : r[k] = answer[k]
      /\ Len(answer) \in Nat /\ DOMAIN answer = 1..Len(answer)
      /\ Len(r) \in Nat /\ DOMAIN r = 1..Len(r)
  BY ReadableEffect
<1>2. PICK m \in DOMAIN r, e \in Channel : n = Channels * (m - 1) + e /\ V[n] = <<e, r[m]>>
  BY <1>1, ValuesEffect
<1>3. \A j \in DOMAIN r, b \in Channel :
         /\ Channels * (j - 1) + b \in DOMAIN V
         /\ V[Channels * (j - 1) + b] = <<b, r[j]>>
  BY <1>1, ValuesEffect
<1>4. DOMAIN V \subseteq Nat \ {0} /\ DOMAIN V \subseteq Int
  BY <1>1, ScanAssumption DEF Values
<1>5. t < r[m] \/ (t = r[m] /\ c < e)
  BY <1>2 DEF Before
<1> HIDE DEF V, r
<1>6. r[m] = answer[m] /\ m \in DOMAIN answer
  BY <1>1
<1>7. SUFFICES ASSUME <<d, c, t>> \notin Settled
               PROVE  \E k \in 1..(n - 1) : V[k] = <<c, t>>
  OBVIOUS
<1>8. PICK j \in DOMAIN answer : answer[j] = t
  BY <1>7 DEF Covers
<1>9. Channels \in Nat \ {0} /\ c \in 1..Channels /\ e \in 1..Channels
  BY ScanAssumption DEF Channel
<1>10. CASE t < r[m]
  <2>1. j < m
    <3>1. answer[j] < answer[m]
      BY <1>6, <1>8, <1>10
    <3>2. answer[j] \in Int /\ answer[m] \in Int
      <4>1. answer[j] \in Unreadable..Future /\ answer[m] \in Unreadable..Future
        BY <1>1, <1>6, ElementOf
      <4>2. QED
        BY <4>1
    <3>3. ~(m < j) /\ m # j
      BY <1>6, <3>1, <3>2 DEF InOrder
    <3>4. QED
      BY <1>1, <1>6, <3>3
  <2>2. j \in DOMAIN r /\ r[j] = t
    BY <1>1, <1>8, <2>1
  <2> DEFINE k == Channels * (j - 1) + c
             a == j - 1
             b == m - 1
  <2>3. a \in Nat /\ b \in Nat /\ a < b
    BY <1>1, <2>1, <2>2
  <2>4. k \in DOMAIN V /\ V[k] = <<c, t>>
    BY <1>3, <2>2
  <2>5. k = Channels * a + c /\ n = Channels * b + e
    BY <1>2
  <2> HIDE DEF a, b, k
  <2>6. Channels * a + Channels <= Channels * b /\ Channels * a \in Nat /\ Channels * b \in Nat
    BY <1>9, <2>3, RowsInOrder
  <2>7. k < n /\ n \in Int
    BY <1>9, <2>5, <2>6
  <2>8. k \in 1..(n - 1)
    BY <1>4, <2>4, <2>7
  <2>9. QED
    BY <2>4, <2>8
<1>11. CASE t = r[m] /\ c < e
  <2> DEFINE k == Channels * (m - 1) + c
             b == m - 1
  <2>1. k \in DOMAIN V /\ V[k] = <<c, t>>
    BY <1>3, <1>11
  <2>2. b \in Nat /\ k = Channels * b + c /\ n = Channels * b + e
    BY <1>1, <1>2
  <2> HIDE DEF b, k
  <2>3. Channels * b \in Nat
    BY <1>9, <2>2
  <2>4. k < n /\ n \in Int
    BY <1>9, <1>11, <2>2, <2>3
  <2>5. k \in 1..(n - 1)
    BY <1>4, <2>1, <2>4
  <2>6. QED
    BY <2>1, <2>5
<1>12. QED
  BY <1>5, <1>10, <1>11

\* The log of a device that never lost its clock.
LEMMA LogOfSound ==
  ASSUME DataOK, LogsInOrder, NEW d \in Dev, Sound(d)
  PROVE  /\ \A n \in DOMAIN log[d] : n \in Nat /\ n \in Date /\ log[d][n] = n
         /\ \A t : Logged(d, t) => t \in Date /\ t \in DOMAIN log[d]
<1>1. DOMAIN log[d] = 1..Len(log[d]) /\ Len(log[d]) \in Nat
  BY DEF DataOK
<1>2. Len(log[d]) <= MaxDate /\ \A n \in DOMAIN log[d] : log[d][n] = n
  BY DEF LogsInOrder, Sound
<1>3. \A n \in DOMAIN log[d] : n \in Nat /\ n \in Date
  BY <1>1, <1>2, ScanAssumption DEF Date
<1>4. QED
  BY <1>2, <1>3 DEF Logged

\* An answer has the rows in their order and leaves out only what is settled.
LEMMA AnswerOfSound ==
  ASSUME ContainerOK, DataOK, LogsInOrder, FromLogs, Complete, Sound(cur),
         pc = "fetch", GetDeviceData \/ GetDeviceDataAgain
  PROVE  \E answer \in Seq(Unreadable..Future) :
           /\ paket' = Values(Readable(answer))
           /\ InOrder(answer) /\ Covers(cur, answer)
<1>1. cur \in Dev /\ log[cur] \in Seq(Unreadable..Future)
  BY DEF ContainerOK, DataOK, Steps
<1>2. /\ \A n \in DOMAIN log[cur] : n \in Nat /\ n \in Date /\ log[cur][n] = n
      /\ \A t : Logged(cur, t) => t \in Date /\ t \in DOMAIN log[cur]
  BY <1>1, LogOfSound
<1>3. PICK answer \in Seq(Unreadable..Future) :
         /\ paket' = Values(Readable(answer))
         /\ \/ answer = log[cur]
            \/ \E positions \in SUBSET DOMAIN log[cur] :
                 /\ answer \in RowsAt(cur, positions)
                 /\ \A n \in DOMAIN log[cur] : n \in positions \/ log[cur][n] < LastDate(cur)
  BY AnswerEffect
<1>4. CASE answer = log[cur]
  BY <1>2, <1>3, <1>4 DEF InOrder, Covers
<1>5. ASSUME NEW positions \in SUBSET DOMAIN log[cur], answer \in RowsAt(cur, positions),
             \A n \in DOMAIN log[cur] : n \in positions \/ log[cur][n] < LastDate(cur)
      PROVE  InOrder(answer) /\ Covers(cur, answer)
  <2>1. PICK p \in [DOMAIN answer -> positions] :
           /\ \A n \in positions : \E k \in DOMAIN answer : p[k] = n
           /\ \A j, k \in DOMAIN answer : j < k => p[j] < p[k]
           /\ \A k \in DOMAIN answer : answer[k] = log[cur][p[k]]
    <3>1. answer \in RowsAt(cur, positions)
      BY <1>5
    <3>2. QED
      BY <1>1, <3>1, RowsAtEffect
  <2>2. \A k \in DOMAIN answer : answer[k] = p[k]
    BY <1>2, <2>1
  <2>3. \A j, k \in DOMAIN answer : j < k => answer[j] < answer[k]
    BY <2>1, <2>2
  <2>4. ASSUME NEW t \in Date, Logged(cur, t), t \notin positions
        PROVE  \A c \in Channel : <<cur, c, t>> \in Settled
    <3>1. t \in DOMAIN log[cur] /\ log[cur][t] = t
      BY <1>2, <2>4
    <3>2. t < LastDate(cur)
      BY <1>5, <2>4, <3>1
    <3>3. LastDate(cur) # Past
      BY <3>2 DEF Past, Date
    <3>4. <<cur, 1, LastDate(cur)>> \in cells /\ LastDate(cur) \in Dates
      BY <3>3, LastDateEffect
    <3>5. 1 \in Channel
      BY ScanAssumption DEF Channel
    <3>6. LastDate(cur) \in Date
      BY <1>1, <1>2, <3>4, <3>5 DEF FromLogs
    <3>7. QED
      BY <1>1, <3>2, <3>4, <3>6 DEF Complete
  <2>5. QED
    BY <2>1, <2>2, <2>3, <2>4 DEF InOrder, Covers
<1>6. QED
  BY <1>3, <1>4, <1>5

\* What has to be shown for a step that neither logs nor goes to another device.
LEMMA AheadAgain ==
  ASSUME UNCHANGED <<cur, log>>,
         Sound(cur)' => \A n \in DOMAIN paket', c \in Channel, t \in Date :
                          Logged(cur, t) /\ Before(c, t, paket'[n]) =>
                            \/ <<cur, c, t>> \in Settled'
                            \/ \E k \in 1..(n - 1) : paket'[k] = <<c, t>>
  PROVE  Ahead'
<1>1. \A t : Logged(cur, t)' <=> Logged(cur, t)
  BY DEF Logged
<1>2. QED
  BY <1>1 DEF Ahead, Preceded, Before, Channel, Date

LEMMA AheadStep ==
  ASSUME ContainerOK, DataOK, DevicesOK, LogsInOrder, FromLogs, Complete, Ahead, [Next]_vars
  PROVE  Ahead'
<1>1. \A d \in Dev : Sound(d)' => Sound(d)
  BY DevicesStep DEF Sound
<1>2. CASE paket' = <<>>
  BY <1>2 DEF Ahead, Preceded
<1>3. CASE Elsewhere
  <2>1. UNCHANGED <<paket, log>> /\ Settled' = Settled
    BY <1>3, ElsewhereEffect DEF Settled
  <2>2. CASE paket # <<>>
    <3>1. cur' = cur /\ cur \in Dev
      BY <1>3, <2>2, ScannedStays
    <3>2. Sound(cur)' => Preceded(cur, paket)
      BY <1>1, <3>1 DEF Ahead
    <3>3. QED
      BY <2>1, <3>1, <3>2, AheadAgain DEF Preceded
  <2>3. QED
    BY <1>2, <2>1, <2>2
<1>4. CASE GetDeviceData \/ GetDeviceDataAgain
  <2>1. UNCHANGED <<cur, log>> /\ Settled' = Settled /\ pc = "fetch" /\ cur \in Dev
    BY <1>4 DEF GetDeviceData, GetDeviceDataAgain, device_vars, history, Settled,
                ContainerOK, Steps
  <2>2. SUFFICES ASSUME Sound(cur)
                 PROVE  Ahead'
    BY <1>1, <2>1 DEF Ahead, Sound
  <2>3. PICK answer \in Seq(Unreadable..Future) :
           /\ paket' = Values(Readable(answer))
           /\ InOrder(answer) /\ Covers(cur, answer)
    BY <1>4, <2>1, <2>2, AnswerOfSound
  <2>4. Preceded(cur, paket')
    BY <2>3, AnswerAhead
  <2>5. QED
    BY <2>1, <2>4, AheadAgain DEF Preceded
<1>5. CASE SaveValue \/ SaveValueFails
  <2>1. /\ UNCHANGED <<cur, log>> /\ cur \in Dev /\ paket # <<>> /\ paket' = Tail(paket)
    BY <1>5 DEF SaveValue, SaveValueFails, device_vars, ContainerOK, Steps
  <2>2. Settled' = Settled \union {<<cur, paket[1][1], paket[1][2]>>} /\ paket[1] \in Value
    BY <1>5, StoreEffect
  <2>3. \A n \in DOMAIN paket' : n \in Nat /\ n + 1 \in DOMAIN paket /\ paket'[n] = paket[n + 1]
    BY <2>1 DEF DataOK
  <2>4. ASSUME Sound(cur), NEW n \in DOMAIN paket', NEW c \in Channel, NEW t \in Date,
               Logged(cur, t), Before(c, t, paket'[n])
        PROVE  <<cur, c, t>> \in Settled' \/ \E k \in 1..(n - 1) : paket'[k] = <<c, t>>
    <3>1. n \in Nat /\ n + 1 \in DOMAIN paket /\ Before(c, t, paket[n + 1])
      BY <2>3, <2>4
    <3>2. CASE <<cur, c, t>> \in Settled
      BY <2>2, <3>2
    <3>3. ASSUME NEW k \in 1..(n + 1 - 1), paket[k] = <<c, t>>
          PROVE  <<cur, c, t>> \in Settled' \/ \E j \in 1..(n - 1) : paket'[j] = <<c, t>>
      <4>1. CASE k = 1
        BY <2>2, <3>3, <4>1
      <4>2. CASE k # 1
        <5>1. k - 1 \in 1..(n - 1) /\ k - 1 + 1 = k
          BY <3>1, <4>2
        <5>2. k - 1 \in DOMAIN paket'
          BY <2>1, <5>1 DEF DataOK
        <5>3. paket'[k - 1] = <<c, t>>
          BY <2>3, <3>3, <5>1, <5>2
        <5>4. QED
          BY <5>1, <5>3
      <4>3. QED
        BY <4>1, <4>2
    <3>4. QED
      BY <2>4, <3>1, <3>2, <3>3 DEF Ahead, Preceded
  <2>5. QED
    BY <1>1, <2>1, <2>4, AheadAgain
<1>6. CASE PickFaults \/ Crash
  BY <1>2, <1>6 DEF PickFaults, Crash, Down
<1>7. ASSUME NEW d \in Dev, Record(d)
      PROVE  paket' = <<>>
  BY <1>7 DEF Record, FromLogs
<1>8. QED
  BY <1>2, <1>3, <1>4, <1>5, <1>6, <1>7, StepKinds

\* All earlier values are settled when the first waiting value is.
LEMMA FirstIsNext ==
  ASSUME ContainerOK, DataOK, LogsInOrder, FromLogs, Ahead, SaveValue \/ SaveValueFails,
         Sound(cur), NEW t \in Date, t < paket[1][2], Logged(cur, t), NEW c \in Channel
  PROVE  <<cur, c, t>> \in Settled
<1>1. 1 \in DOMAIN paket
  BY StoreEffect
<1>2. <<cur, c, t>> \in Settled \/ \E k \in 1..(1 - 1) : paket[k] = <<c, t>>
  BY <1>1 DEF Ahead, Preceded, Before
<1>3. QED
  BY <1>2

LEMMA CompleteStep ==
  ASSUME ContainerOK, DataOK, DevicesOK, LogsInOrder, FromLogs, Complete, Ahead, [Next]_vars
  PROVE  Complete'
<1>1. \A d \in Dev : Sound(d)' => Sound(d)
  BY DevicesStep DEF Sound
<1>2. CASE cells' = cells /\ Settled' = Settled
  BY <1>1, <1>2 DEF Complete
<1>3. CASE SaveValue \/ SaveValueFails
  <2>1. /\ cur \in Dev /\ paket[1] \in Value /\ 1 \in DOMAIN paket
        /\ \/ cells' = cells \union {<<cur, paket[1][1], paket[1][2]>>}
           \/ cells' = cells
        /\ Settled \subseteq Settled'
    BY <1>3, StoreEffect
  <2>2. SUFFICES ASSUME NEW d \in Dev, Sound(d), NEW t \in Date, NEW u \in Date,
                        t < u, <<d, 1, u>> \in cells', NEW c \in Channel
                 PROVE  <<d, c, t>> \in Settled'
    BY <1>1 DEF Complete, Date, Channel
  <2>3. CASE <<d, 1, u>> \in cells
    BY <2>1, <2>2, <2>3 DEF Complete
  <2>4. CASE d = cur /\ u = paket[1][2]
    <3>1. Logged(cur, u)
      BY <2>1, <2>4 DEF FromLogs
    <3>2. /\ \A n \in DOMAIN log[cur] : n \in Nat /\ n \in Date /\ log[cur][n] = n
          /\ u \in DOMAIN log[cur]
      BY <2>1, <2>2, <2>4, <3>1, LogOfSound
    <3>3. DOMAIN log[cur] = 1..Len(log[cur]) /\ Len(log[cur]) \in Nat
      BY <2>1 DEF DataOK
    <3>4. t \in DOMAIN log[cur]
      BY <2>2, <3>2, <3>3 DEF Date
    <3>5. Logged(cur, t)
      BY <3>2, <3>4 DEF Logged
    <3>6. QED
      BY <1>3, <2>1, <2>2, <2>4, <3>5, FirstIsNext
  <2>5. QED
    BY <2>1, <2>2, <2>3, <2>4
<1>4. Elsewhere => cells' = cells /\ Settled' = Settled
  BY ElsewhereEffect DEF Settled
<1>5. GetDeviceData \/ GetDeviceDataAgain \/ PickFaults \/ Crash
      \/ (\E d \in Dev : Record(d)) => cells' = cells /\ Settled' = Settled
  BY DEF GetDeviceData, GetDeviceDataAgain, PickFaults, Crash, Down, Record, history, Settled
<1>6. QED
  BY <1>2, <1>3, <1>4, <1>5, StepKinds

-----------------------------------------------------------------------------
(* The invariant *)

IInv == /\ ContainerOK /\ DataOK /\ DevicesOK
        /\ LogsInOrder /\ FromLogs /\ Complete /\ Ahead

LEMMA InitHolds ==
  ASSUME Init
  PROVE  IInv
<1>1. ContainerOK
  <2>1. ldc \in Seq(Dev)
    BY FirstOrder DEF Init
  <2>2. QED
    BY <2>1 DEF Init, ContainerOK, Steps
<1>2. DataOK
  <2>1. paket \in Seq(Value)
    BY EmptyList DEF Init
  <2>2. log \in [Dev -> Seq(Unreadable..Future)]
    BY EmptyList DEF Init
  <2>3. cells \subseteq Dev \X Channel \X Dates
    BY DEF Init, Dates
  <2>4. QED
    BY <2>1, <2>2, <2>3 DEF DataOK
<1>3. DevicesOK
  <2>1. dev \in [Dev -> [cycle : BOOLEAN, clock : BOOLEAN, mint : BOOLEAN]]
    BY DEF Init
  <2>2. 0 \in 0..MaxEvents
    BY ScanAssumption
  <2>3. QED
    BY <2>1, <2>2 DEF Init, DevicesOK
<1>4. LogsInOrder
  <2>1. /\ \A d \in Dev : log[d] = <<>> /\ dev[d].clock
        /\ MaxDate \in Nat
    BY ScanAssumption DEF Init
  <2>2. QED
    BY <2>1 DEF LogsInOrder
<1>5. FromLogs
  BY DEF Init, FromLogs
<1>6. Complete
  BY DEF Init, Complete
<1>7. Ahead
  BY DEF Init, Ahead, Preceded
<1>8. QED
  BY <1>1, <1>2, <1>3, <1>4, <1>5, <1>6, <1>7 DEF IInv

LEMMA StepHolds ==
  ASSUME IInv, [Next]_vars
  PROVE  IInv'
<1>1. ContainerOK'
  BY ContainerStep DEF IInv
<1>2. DataOK'
  BY DataStep DEF IInv
<1>3. DevicesOK'
  BY DevicesStep DEF IInv
<1>4. LogsInOrder'
  BY LogsStep DEF IInv
<1>5. FromLogs'
  BY FromLogsStep DEF IInv
<1>6. Complete'
  BY CompleteStep DEF IInv
<1>7. Ahead'
  BY AheadStep DEF IInv
<1>8. QED
  BY <1>1, <1>2, <1>3, <1>4, <1>5, <1>6, <1>7 DEF IInv

\* What the scan holds and what it has stored fit together, whatever is lost, refused,
\* added or deleted, and wherever the gateway crashes.
THEOREM Invariance == Spec => []IInv
<1>1. Init => IInv
  BY InitHolds
<1>2. IInv /\ [Next]_vars => IInv'
  BY StepHolds
<1>3. QED
  BY <1>1, <1>2, PTL DEF Spec

\* All variables keep their types: a request always has a device to go to, and every
\* value that waits has a channel and a date of the table.
THEOREM TypeCorrect == Spec => []TypeOK
<1>1. IInv => TypeOK
  BY DEF IInv, ContainerOK, DataOK, DevicesOK, TypeOK, Value, Dates
<1>2. QED
  BY <1>1, Invariance, PTL

\* The next fetch starts at the last date of the first channel, and no value that was
\* logged before it is missing in any channel, except those the database refused.
THEOREM NothingIsSkipped == Spec => []NoGap
<1>1. ASSUME IInv
      PROVE  NoGap
  <2>1. SUFFICES ASSUME NEW d \in Dev, Sound(d), NEW n \in DOMAIN log[d],
                        log[d][n] < LastDate(d), NEW c \in Channel
                 PROVE  <<d, c, log[d][n]>> \in Settled
    BY DEF NoGap, Sound, Settled
  <2>2. log[d][n] \in Date
    BY <1>1, <2>1, LogOfSound DEF IInv
  <2>3. LastDate(d) # Past
    BY <2>1, <2>2 DEF Past, Date
  <2>4. <<d, 1, LastDate(d)>> \in cells /\ LastDate(d) \in Dates
    BY <2>3, LastDateEffect
  <2>5. 1 \in Channel
    BY ScanAssumption DEF Channel
  <2>6. Logged(d, LastDate(d))
    BY <1>1, <2>4, <2>5 DEF IInv, FromLogs
  <2>7. LastDate(d) \in Date
    BY <1>1, <2>1, <2>6, LogOfSound DEF IInv
  <2>8. QED
    BY <1>1, <2>1, <2>2, <2>4, <2>7 DEF IInv, Complete
<1>2. QED
  BY <1>1, Invariance, PTL

-----------------------------------------------------------------------------
(* The acquisition implements DataLog *)

\* What recorded and archived of DataLog stand for.
Recorded == {r \in Dev \X Date : r[2] \in Range(log[r[1]])}
Archived == {r \in Dev \X Date : /\ r[2] \in Range(log[r[1]])
                                 /\ \A c \in Channel : <<r[1], c, r[2]>> \in cells}

LEMMA RecordedAre ==
  /\ \A d \in Dev, t \in Date : <<d, t>> \in Recorded <=> Logged(d, t)
  /\ \A d \in Dev, t \in Date : <<d, t>> \in Archived <=>
        Logged(d, t) /\ \A c \in Channel : <<d, c, t>> \in cells
  /\ Archived \subseteq Recorded /\ Recorded \subseteq Dev \X Date
  BY DEF Recorded, Archived, Logged, Range

\* The steps of DataLog.
LEMMA LogMapped ==
  ASSUME NEW r \in Recorded' \ Recorded, Recorded' = Recorded \union {r},
         \A q \in Recorded : q[1] = r[1] => q[2] < r[2],
         Archived' = Archived, Damaged' = Damaged
  PROVE  Archive!Next
  BY DEF Archive!Next, Archive!Log, Recorded, Archived, Damaged

LEMMA ArchiveMapped ==
  ASSUME NEW r \in Archived' \ Archived, Archived' = Archived \union {r}, r \in Recorded,
         r[1] \notin Damaged => \A q \in Recorded \ Archived : q[1] = r[1] => q[2] >= r[2],
         Recorded' = Recorded, Damaged' = Damaged
  PROVE  Archive!Next
  BY DEF Archive!Next, Archive!Archive, Recorded, Archived, Damaged

LEMMA DamageMapped ==
  ASSUME Recorded' = Recorded, Archived' = Archived, Damaged \subseteq Damaged'
  PROVE  Archive!Next
  BY DEF Archive!Next, Archive!Damage, Recorded, Archived, Damaged

LEMMA RecordMapped ==
  ASSUME IInv, NEW d \in Dev, Record(d)
  PROVE  Archive!Next
<1>1. UNCHANGED <<cells, refused, skewed>>
  BY DEF Record, history
<1>2. PICK t \in Unreadable..Future :
         /\ \A e \in Dev : e # d => log'[e] = log[e]
         /\ Len(log[d]) \in Nat /\ Len(log[d]) < MaxDate
         /\ DOMAIN log[d] = 1..Len(log[d])
         /\ DOMAIN log'[d] = 1..(Len(log[d]) + 1)
         /\ \A k \in DOMAIN log[d] : log'[d][k] = log[d][k]
         /\ log'[d][Len(log[d]) + 1] = t
         /\ IF dev[d].clock THEN t = Len(log[d]) + 1 ELSE t \notin Date
  BY RecordEffect DEF IInv
<1>3. \A e \in Dev : \A u : Logged(e, u)' <=> Logged(e, u) \/ (e = d /\ u = t)
  <2>1. \A e \in Dev : \A u : e # d => (Logged(e, u)' <=> Logged(e, u))
    BY <1>2 DEF Logged
  <2>2. \A u : Logged(d, u)' <=> Logged(d, u) \/ u = t
    BY <1>2 DEF Logged
  <2>3. QED
    BY <2>1, <2>2
<1>4. \A e \in Dev, u \in Date : Logged(e, u) <=> <<e, u>> \in Recorded
  BY RecordedAre
<1>5. /\ \A e \in Dev, u \in Date : Logged(e, u)' <=> <<e, u>> \in Recorded'
      /\ Recorded \subseteq Dev \X Date /\ Recorded' \subseteq Dev \X Date
  BY DEF Recorded, Logged, Range, Date
<1>6. Archived' = Archived
  <2>1. 1 \in Channel /\ Date \subseteq Dates
    BY ScanAssumption DEF Channel, Date, Dates, Past, Future
  <2>2. ASSUME NEW e \in Dev, NEW u \in Date, \A c \in Channel : <<e, c, u>> \in cells
        PROVE  Logged(e, u) /\ Logged(e, u)'
    BY <1>3, <2>1, <2>2 DEF IInv, FromLogs
  <2>3. \A e \in Dev, u \in Date : <<e, u>> \in Archived <=>
           Logged(e, u) /\ \A c \in Channel : <<e, c, u>> \in cells
    BY RecordedAre
  <2>4. \A e \in Dev, u \in Date : <<e, u>> \in Archived' <=>
           Logged(e, u)' /\ \A c \in Channel : <<e, c, u>> \in cells
    BY <1>1 DEF Archived, Logged, Range, Date, Channel
  <2>5. Archived \subseteq Dev \X Date /\ Archived' \subseteq Dev \X Date
    BY DEF Archived, Date
  <2>6. \A e \in Dev, u \in Date : <<e, u>> \in Archived' <=> <<e, u>> \in Archived
    BY <2>2, <2>3, <2>4
  <2>7. QED
    BY <2>5, <2>6
<1>7. Damaged' = Damaged
  BY <1>1 DEF Damaged
<1>8. CASE t \in Date
  <2>1. t = Len(log[d]) + 1
    BY <1>2, <1>8
  <2>2. \A u \in Date : Logged(d, u) => u < t
    BY <1>2, <2>1 DEF IInv, LogsInOrder, Logged
  <2> DEFINE r == <<d, t>>
  <2>3. t \in Int
    BY <1>2, <2>1
  <2>4. r \in Recorded' \ Recorded
    BY <1>3, <1>4, <1>5, <1>8, <2>2, <2>3
  <2>5. Recorded' = Recorded \union {r}
    <3>1. \A e \in Dev, u \in Date :
             <<e, u>> \in Recorded' <=> <<e, u>> \in Recorded \/ <<e, u>> = r
      BY <1>3, <1>4, <1>5
    <3>2. r \in Dev \X Date
      BY <1>8
    <3> HIDE DEF r
    <3>3. QED
      BY <1>5, <3>1, <3>2
  <2>6. \A q \in Recorded : q[1] = r[1] => q[2] < r[2]
    BY <1>4, <1>5, <2>2
  <2>7. QED
    BY <1>6, <1>7, <2>4, <2>5, <2>6, LogMapped
<1>9. CASE t \notin Date
  <2>1. Recorded' = Recorded
    BY <1>3, <1>4, <1>5, <1>9
  <2>2. QED
    BY <1>6, <1>7, <2>1, DamageMapped
<1>10. QED
  BY <1>8, <1>9

LEMMA SaveMapped ==
  ASSUME IInv, SaveValue
  PROVE  Archive!Next
<1>1. UNCHANGED <<log, refused, skewed>>
  BY DEF SaveValue, device_vars, history
<1>2. /\ cur \in Dev /\ paket[1] \in Value /\ 1 \in DOMAIN paket
      /\ cells' = cells \union {<<cur, paket[1][1], paket[1][2]>>}
  BY StoreEffect DEF IInv
<1>3. Recorded' = Recorded /\ Damaged' = Damaged
  BY <1>1 DEF Recorded, Damaged, Date
<1>4. \A d \in Dev, t \in Date : <<d, t>> \in Archived <=>
        <<d, t>> \in Recorded /\ \A c \in Channel : <<d, c, t>> \in cells
  BY RecordedAre
<1>5. \A d \in Dev, t \in Date : <<d, t>> \in Archived' <=>
        <<d, t>> \in Recorded /\ \A c \in Channel : <<d, c, t>> \in cells'
  BY <1>1 DEF Recorded, Archived, Date, Channel
<1>6. Archived \subseteq Dev \X Date /\ Archived' \subseteq Dev \X Date
  BY DEF Archived, Date
<1> DEFINE r == <<cur, paket[1][2]>>
<1>7. ASSUME NEW d \in Dev, NEW t \in Date, <<d, t>> \in Archived', <<d, t>> \notin Archived
      PROVE  <<d, t>> = r
  BY <1>2, <1>4, <1>5, <1>7
<1>8. \A d \in Dev, t \in Date : <<d, t>> \in Archived => <<d, t>> \in Archived'
  BY <1>2, <1>4, <1>5
<1>9. Archived \subseteq Archived' /\ Archived' \subseteq Archived \union {r}
  BY <1>6, <1>7, <1>8
<1>10. CASE Archived' = Archived
  BY <1>3, <1>10, DamageMapped
<1>11. CASE Archived' # Archived
  <2>1. r \in Archived' \ Archived /\ Archived' = Archived \union {r}
    BY <1>9, <1>11
  <2>2. r \in Recorded
    BY <1>5, <1>6, <2>1
  <2>3. ASSUME cur \notin Damaged, NEW t \in Date, <<cur, t>> \in Recorded, t < paket[1][2]
        PROVE  <<cur, t>> \in Archived
    <3>1. Sound(cur) /\ Logged(cur, t)
      BY <1>2, <2>3, RecordedAre DEF Sound, Damaged
    <3>2. \A c \in Channel : <<cur, c, t>> \in Settled
      BY <2>3, <3>1, FirstIsNext DEF IInv
    <3>3. \A c \in Channel : <<cur, c, t>> \notin refused
      BY <2>3 DEF Damaged
    <3>4. QED
      BY <1>2, <1>4, <2>3, <3>2, <3>3 DEF Settled
  <2>4. r[1] \notin Damaged => \A q \in Recorded \ Archived : q[1] = r[1] => q[2] >= r[2]
    <3>1. paket[1][2] \in Int /\ \A t \in Date : t \in Int
      BY <1>2 DEF Value, Dates, Date, Past, Future
    <3>2. \A q \in Recorded : \E d \in Dev, t \in Date : q = <<d, t>>
      BY RecordedAre
    <3>3. QED
      BY <2>3, <3>1, <3>2
  <2>5. QED
    BY <1>3, <2>1, <2>2, <2>4, ArchiveMapped
<1>12. QED
  BY <1>10, <1>11

\* Every step of the acquisition is one of DataLog.
LEMMA StepMapped ==
  ASSUME IInv, [Next]_vars
  PROVE  Archive!Next
<1>1. CASE UNCHANGED <<log, cells>>
  <2>1. Recorded' = Recorded /\ Archived' = Archived
    BY <1>1 DEF Recorded, Archived, Date, Channel
  <2>2. Damaged \subseteq Damaged'
    BY DevicesStep DEF IInv, Damaged
  <2>3. QED
    BY <2>1, <2>2, DamageMapped
<1>2. CASE SaveValue
  BY <1>2, SaveMapped
<1>3. ASSUME NEW d \in Dev, Record(d)
      PROVE  Archive!Next
  BY <1>3, RecordMapped
<1>4. Elsewhere => UNCHANGED <<log, cells>>
  BY ElsewhereEffect
<1>5. GetDeviceData \/ GetDeviceDataAgain \/ SaveValueFails \/ PickFaults \/ Crash
      => UNCHANGED <<log, cells>>
  BY DEF GetDeviceData, GetDeviceDataAgain, SaveValueFails, PickFaults, Crash, Down, device_vars
<1>6. QED
  BY <1>1, <1>2, <1>3, <1>4, <1>5, StepKinds

LEMMA InitMapped ==
  ASSUME Init
  PROVE  Archive!Init
<1>1. \A d \in Dev : Range(log[d]) = {}
  BY DEF Init, Range
<1>2. Recorded = {} /\ Archived = {} /\ Damaged = {}
  BY <1>1 DEF Init, Recorded, Archived, Damaged
<1>3. QED
  BY <1>2 DEF Archive!Init, Recorded, Archived, Damaged

\* The acquisition implements DataLog: what a device has logged becomes complete in the
\* table in the order of the dates and stays there, except for devices that lost their
\* clock or values of which the database refused.
THEOREM Refinement == Spec => ImplementsArchive
<1>1. Init => Archive!Init
  BY InitMapped
<1>2. IInv /\ [Next]_vars => [Archive!Next]_(Archive!vars)
  BY StepMapped
<1>3. QED
  BY <1>1, <1>2, Invariance, PTL DEF Spec, ImplementsArchive, Archive!Spec
=============================================================================
