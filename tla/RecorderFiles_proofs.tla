------------------------ MODULE RecorderFiles_proofs ------------------------
(***************************************************************************)
(* Proofs about the data files of Recorder.tla: how long one becomes, and  *)
(* what they hold while only the port thread starts the device.            *)
(***************************************************************************)
EXTENDS Recorder_proofs, FiniteSetTheorems

(* The quotient and the remainder, and that there are no others.           *)
LEMMA DivMod ==
  ASSUME NEW q \in Nat, NEW m \in Nat \ {0}
  PROVE  /\ (q % m) \in 0 .. m - 1 /\ q \div m \in Nat
         /\ q = m * (q \div m) + (q % m)
  OBVIOUS

LEMMA DivUnique ==
  ASSUME NEW a \in Int, NEW b \in Int, NEW r \in Int, NEW s \in Int,
         NEW m \in Nat \ {0},
         m * a + r = m * b + s, 0 <= r, r < m, 0 <= s, s < m
  PROVE  a = b /\ r = s
<1>1. CASE a < b
  <2>1. m * a + m <= m * b
    <3>1. m * (b - a) >= m
      BY <1>1
    <3>2. QED
      BY <3>1
  <2>2. QED
    BY <2>1
<1>2. CASE b < a
  <2>1. m * b + m <= m * a
    <3>1. m * (a - b) >= m
      BY <1>2
    <3>2. QED
      BY <3>1
  <2>2. QED
    BY <2>1
<1>3. QED
  BY <1>1, <1>2

LEMMA ModIs ==
  ASSUME NEW q \in Nat, NEW m \in Nat \ {0}, NEW a \in Int, NEW r \in Int,
         q = m * a + r, 0 <= r, r < m
  PROVE  q \div m = a /\ q % m = r
<1>1. /\ q % m \in Int /\ q \div m \in Int /\ q = m * (q \div m) + (q % m)
      /\ 0 <= q % m /\ q % m < m
  BY DivMod
<1> DEFINE b == q \div m
           s == q % m
<1> HIDE DEF b, s
<1>2. b \in Int /\ s \in Int /\ m * a + r = m * b + s /\ 0 <= s /\ s < m
  BY <1>1 DEF b, s
<1>3. a = b /\ r = s
  BY <1>2, DivUnique
<1>4. QED
  BY <1>3 DEF b, s

LEMMA ModNext ==
  ASSUME NEW q \in Nat, NEW m \in Nat \ {0}
  PROVE  (q + 1) % m = IF q % m = m - 1 THEN 0 ELSE (q % m) + 1
<1> DEFINE b == q \div m
           r == q % m
           p == q + 1
<1>1. p \in Nat /\ b \in Int /\ r \in Int /\ p = (m * b + r) + 1 /\ 0 <= r /\ r < m
  BY DivMod
<1> HIDE DEF b, r, p
<1>2. CASE r = m - 1
  <2>1. p = m * (b + 1) + 0 /\ b + 1 \in Int
    BY <1>1, <1>2
  <2>2. p % m = 0
    <3> DEFINE c == b + 1
               z == 0
    <3>1. p = m * c + z /\ c \in Int /\ z \in Int /\ 0 <= z /\ z < m
      BY <2>1
    <3> HIDE DEF c, z
    <3>2. p % m = z
      BY <1>1, <3>1, ModIs
    <3>3. QED
      BY <3>2 DEF z
  <2>3. QED
    BY <1>2, <2>2 DEF r, p
<1>3. CASE r # m - 1
  <2>1. p % m = r + 1
    <3> DEFINE s == r + 1
    <3>1. p = m * b + s /\ s \in Int /\ 0 <= s /\ s < m
      BY <1>1, <1>3
    <3> HIDE DEF s
    <3>2. p % m = s
      BY <1>1, <3>1, ModIs
    <3>3. QED
      BY <3>2 DEF s
  <2>2. QED
    BY <1>3, <2>1 DEF r, p
<1>4. QED
  BY <1>2, <1>3

-----------------------------------------------------------------------------
(* How long a data file becomes.                                           *)

(* A start or stop has been called, but has not changed the counters yet.  *)
Calling == {"dir", "params"}
Called(t) == IF pc[t] \in Calling THEN 1 ELSE 0
Begun == Calls - Called("port") - Called("net")
Budget == 1 + Begun * (MinutesPerFile - 1)

(* The minutes a file still takes when num_pack is q.                      *)
Left(q) == IF q % MinutesPerFile = 0 THEN 0 ELSE MinutesPerFile - (q % MinutesPerFile)
LeftIfAny(q) == IF dc.pack_in_min <= 0 THEN 0 ELSE Left(q)

(* The headers that may still be written to the data file now open, if no  *)
(* start interferes from here on.                                          *)
HeadersDue ==
  CASE pc["port"] = "header" -> 1 + LeftIfAny(dc.num_pack + 1)
    [] pc["port"] = "write" \/ (pc["port"] = "read" /\ local.i # 0) ->
         LeftIfAny(dc.num_pack + 1)
    [] pc["port"] = "minutes" -> LeftIfAny(local.count + 1)
    [] pc["port"] = "rotate" ->
         IF dc.pack_in_min <= 0 /\ dc.num_pack % MinutesPerFile # 0
           THEN 1 ELSE LeftIfAny(dc.num_pack)
    [] pc["port"] = "open" -> 0
    [] OTHER -> LeftIfAny(dc.num_pack)

HeaderCount(s) == Cardinality({k \in 1 .. Len(s) : s[k] = Header})

BoundInv ==
  /\ dc.pack_in_min > 0 => Begun >= 1
  /\ pc["port"] = "open" => dc.num_pack % MinutesPerFile = 0
  /\ \A f \in 1 .. Len(files) : HeaderCount(files[f]) <= Budget
  /\ adc_fd \in open => HeaderCount(files[adc_fd]) + HeadersDue <= Budget

LEMMA LeftRange ==
  ASSUME NEW q \in Nat
  PROVE  Left(q) \in Nat /\ Left(q) <= MinutesPerFile - 1
  BY MinutesAssumption, DivMod DEF Left

LEMMA LeftZero == Left(0) = 0
<1>1. 0 % MinutesPerFile = 0
  BY MinutesAssumption
<1>2. QED
  BY <1>1 DEF Left

LEMMA LeftNext ==
  ASSUME NEW q \in Nat, q % MinutesPerFile # 0
  PROVE  Left(q) = 1 + Left(q + 1)
<1> DEFINE r == q % MinutesPerFile
           s == (q + 1) % MinutesPerFile
<1>1. r \in Nat \ {0} /\ r <= MinutesPerFile - 1 /\ MinutesPerFile \in Nat
  BY MinutesAssumption, DivMod
<1>2. s = IF r = MinutesPerFile - 1 THEN 0 ELSE r + 1
  BY MinutesAssumption, ModNext
<1>3. /\ Left(q) = IF r = 0 THEN 0 ELSE MinutesPerFile - r
      /\ Left(q + 1) = IF s = 0 THEN 0 ELSE MinutesPerFile - s
  BY DEF Left
<1> HIDE DEF r, s
<1>4. QED
  BY <1>1, <1>2, <1>3

LEMMA BoundNat ==
  ASSUME TypeOK
  PROVE  /\ dc.num_pack \in Nat /\ dc.pack_in_min \in Int
         /\ local.count \in Nat /\ local.i \in Nat
  BY DEF TypeOK, Counters

LEMMA DueNat ==
  ASSUME TypeOK
  PROVE  /\ HeadersDue \in Nat
         /\ \A q \in Nat : LeftIfAny(q) \in Nat /\ LeftIfAny(q) <= MinutesPerFile - 1
<1>1. \A q \in Nat : LeftIfAny(q) \in Nat /\ LeftIfAny(q) <= MinutesPerFile - 1
  BY MinutesAssumption, LeftRange DEF LeftIfAny
<1>2. dc.num_pack + 1 \in Nat /\ local.count + 1 \in Nat
  BY BoundNat
<1>3. QED
  BY <1>1, <1>2, BoundNat DEF HeadersDue

(* What the starts that have begun allow for.                              *)
LEMMA BudgetNat ==
  ASSUME TypeOK, OneStarter
  PROVE  /\ Begun \in Nat /\ Budget \in Nat /\ Budget >= 1
         /\ Begun >= 1 => Budget >= MinutesPerFile
         /\ Budget <= 1 + Calls * (MinutesPerFile - 1)
<1>1. commands \in Nat /\ check \in BOOLEAN
  BY BoundsAssumption DEF TypeOK
<1>2. Begun \in Nat /\ Calls \in Nat /\ Begun <= Calls
  BY <1>1 DEF OneStarter, Starting, Calling, Called, Begun, Calls
<1> DEFINE m == MinutesPerFile - 1
<1>3. m \in Nat
  BY MinutesAssumption
<1> HIDE DEF m
<1>4. ASSUME NEW b \in Nat, NEW c \in Nat, b <= c
      PROVE  b * m \in Nat /\ b * m <= c * m
  <2>1. (c - b) * m \in Nat /\ b * m \in Nat
    BY <1>3, <1>4
  <2>2. c * m = b * m + (c - b) * m
    BY <1>3
  <2>3. QED
    BY <2>1, <2>2, <1>3
<1>5. Begun * m \in Nat /\ Begun * m <= Calls * m /\ (Begun >= 1 => 1 * m <= Begun * m)
  BY <1>2, <1>4
<1>6. 1 * m = m
  BY <1>3
<1>7. Budget = 1 + Begun * m
  BY DEF Budget, m
<1>8. 1 + Calls * (MinutesPerFile - 1) = 1 + Calls * m /\ MinutesPerFile = m + 1
  BY MinutesAssumption DEF m
<1>9. Calls * m \in Nat
  BY <1>2, <1>4
<1>10. QED
  BY <1>2, <1>3, <1>5, <1>6, <1>7, <1>8, <1>9

LEMMA BudgetStep ==
  ASSUME TypeOK, OneStarter, OneStarter', TypeOK', Begun' \in {Begun, Begun + 1}
  PROVE  /\ Begun' = Begun => Budget' = Budget
         /\ Begun' = Begun + 1 => Budget' = Budget + (MinutesPerFile - 1)
         /\ Budget <= Budget'
<1>1. Begun \in Nat /\ MinutesPerFile - 1 \in Nat
  BY BudgetNat, MinutesAssumption
<1> DEFINE m == MinutesPerFile - 1
           b == Begun
<1>2. Budget = 1 + b * m /\ Budget' = 1 + Begun' * m
  BY DEF Budget
<1>3. (b + 1) * m = b * m + m /\ m \in Nat /\ b * m \in Nat
  BY <1>1
<1>4. Begun' = b \/ Begun' = b + 1
  OBVIOUS
<1> HIDE DEF m, b
<1>5. CASE Begun' = b
  <2>1. Budget' = Budget
    BY <1>2, <1>5
  <2>2. QED
    BY <1>1, <1>2, <1>3, <1>5, <2>1 DEF b
<1>6. CASE Begun' = b + 1
  <2>1. Budget' = Budget + m
    BY <1>2, <1>3, <1>6
  <2>2. QED
    BY <1>1, <1>2, <1>3, <1>6, <2>1 DEF b, m
<1>7. QED
  BY <1>4, <1>5, <1>6

(* The headers of a file.                                                  *)
LEMMA HeadersFinite ==
  ASSUME NEW r, Len(r) \in Nat
  PROVE  /\ IsFiniteSet({k \in 1 .. Len(r) : r[k] = Header})
         /\ HeaderCount(r) \in Nat
<1> DEFINE H == {k \in 1 .. Len(r) : r[k] = Header}
<1>1. IsFiniteSet(1 .. Len(r)) /\ H \in SUBSET (1 .. Len(r))
  BY FS_Interval
<1>2. IsFiniteSet(H)
  BY <1>1, FS_Subset
<1>3. Cardinality(H) \in Nat
  BY <1>2, FS_CardinalityType
<1>4. QED
  BY <1>2, <1>3 DEF HeaderCount

LEMMA HeadersWritten ==
  ASSUME NEW r, NEW q, NEW x, Len(r) \in Nat, Len(q) = Len(r) + 1,
         \A k \in 1 .. Len(r) : q[k] = r[k], q[Len(r) + 1] = x
  PROVE  HeaderCount(q) = HeaderCount(r) + (IF x = Header THEN 1 ELSE 0)
<1> DEFINE n == Len(r)
           H == {k \in 1 .. n : r[k] = Header}
           I == {k \in 1 .. n + 1 : q[k] = Header}
<1>1. n \in Nat /\ IsFiniteSet(H) /\ Cardinality(H) \in Nat
  BY HeadersFinite DEF HeaderCount
<1>2. HeaderCount(r) = Cardinality(H) /\ HeaderCount(q) = Cardinality(I)
  BY DEF HeaderCount
<1>3. /\ \A k : k \in 1 .. n + 1 <=> k \in 1 .. n \/ k = n + 1
      /\ n + 1 \notin 1 .. n
  BY <1>1
<1>4. CASE x = Header
  <2>1. I = H \cup {n + 1} /\ n + 1 \notin H
    BY <1>3, <1>4
  <2> HIDE DEF H, I, n
  <2>2. Cardinality(I) = Cardinality(H) + 1
    BY <1>1, <2>1, FS_AddElement
  <2>3. QED
    BY <1>2, <1>4, <2>2
<1>5. CASE x # Header
  <2>1. I = H
    BY <1>3, <1>5
  <2> HIDE DEF H, I, n
  <2>2. QED
    BY <1>1, <1>2, <1>5, <2>1
<1>6. QED
  BY <1>4, <1>5

LEMMA HeaderCountNat ==
  ASSUME TypeOK
  PROVE  \A f \in 1 .. Len(files) : Len(files[f]) \in Nat /\ HeaderCount(files[f]) \in Nat
<1>1. \A f \in 1 .. Len(files) : files[f] \in Seq(Entries)
  BY ElementOfSeq DEF TypeOK, Entries
<1>2. \A f \in 1 .. Len(files) : Len(files[f]) \in Nat
  BY <1>1, LenProperties
<1>3. QED
  BY <1>2, HeadersFinite

LEMMA WithinBudget ==
  ASSUME NEW h \in Nat, NEW d \in Nat, NEW e \in Nat, NEW b \in Nat, NEW c \in Nat,
         h + d <= b, e <= d + (c - b)
  PROVE  h + e <= c
  OBVIOUS

LEMMA NoMoreDue ==
  ASSUME NEW d \in Nat, NEW e \in Nat, NEW b \in Nat, NEW c \in Nat, e <= d, b <= c
  PROVE  e <= d + (c - b)
  OBVIOUS

LEMMA LessDue ==
  ASSUME NEW d \in Nat, NEW e \in Nat, NEW k \in Nat, e + k <= d
  PROVE  e <= d
  OBVIOUS

LEMMA NoneDue ==
  ASSUME NEW d \in Nat, NEW e \in Nat, NEW k, k = 0, e <= d
  PROVE  e + k <= d
  OBVIOUS

LEMMA OneMoreHeader ==
  ASSUME NEW h \in Nat, NEW d \in Nat, NEW e \in Nat, NEW k \in Nat, NEW b \in Nat,
         h + d <= b, e + k <= d
  PROVE  (h + k) + e <= b /\ h + k <= b
  OBVIOUS

(* Steps that write no header.                                             *)
LEMMA BoundQuiet ==
  ASSUME TypeOK, BoundInv, UNCHANGED files, open' \subseteq open,
         adc_fd' \in {adc_fd, NoFile},
         Budget \in Nat, Budget' \in Nat, Budget <= Budget',
         HeadersDue \in Nat, HeadersDue' \in Nat,
         dc'.pack_in_min > 0 => Begun' >= 1,
         pc'["port"] = "open" => dc'.num_pack % MinutesPerFile = 0,
         adc_fd' \in open' => HeadersDue' <= HeadersDue + (Budget' - Budget)
  PROVE  BoundInv'
<1>1. \A f \in 1 .. Len(files) : HeaderCount(files[f]) \in Nat
  BY HeaderCountNat
<1>2. \A f \in 1 .. Len(files') : HeaderCount(files'[f]) <= Budget'
  BY <1>1 DEF BoundInv
<1>3. ASSUME adc_fd' \in open'
      PROVE  HeaderCount(files'[adc_fd']) + HeadersDue' <= Budget'
  <2>1. adc_fd' = adc_fd /\ adc_fd \in open /\ adc_fd \in 1 .. Len(files)
    BY <1>3, NoFileNotOpen DEF TypeOK
  <2>2. HeaderCount(files[adc_fd]) + HeadersDue <= Budget
    BY <2>1 DEF BoundInv
  <2>3. files'[adc_fd'] = files[adc_fd]
    BY <2>1
  <2>4. /\ HeaderCount(files[adc_fd]) \in Nat
        /\ HeadersDue' <= HeadersDue + (Budget' - Budget)
    BY <1>1, <1>3, <2>1
  <2>5. HeaderCount(files[adc_fd]) + HeadersDue' <= Budget'
    BY <2>2, <2>4, WithinBudget
  <2>6. QED
    BY <2>3, <2>5
<1>4. QED
  BY <1>2, <1>3 DEF BoundInv

(* A record at the end of the file that is open.                           *)
LEMMA BoundWritten ==
  ASSUME TypeOK, LastFile, BoundInv, NEW x, Written(files, files', x), adc_fd \in open,
         UNCHANGED <<open, adc_fd>>, Budget \in Nat, Budget' = Budget,
         HeadersDue \in Nat, HeadersDue' \in Nat,
         dc'.pack_in_min > 0 => Begun' >= 1,
         pc'["port"] = "open" => dc'.num_pack % MinutesPerFile = 0,
         HeadersDue' + (IF x = Header THEN 1 ELSE 0) <= HeadersDue
  PROVE  BoundInv'
<1> DEFINE one == IF x = Header THEN 1 ELSE 0
           h == HeaderCount(files[adc_fd])
<1>1. adc_fd = Len(files) /\ adc_fd \in 1 .. Len(files) /\ Len(files') = Len(files)
  BY NoFileNotOpen DEF TypeOK, LastFile, Written
<1>2. one \in Nat /\ h \in Nat
  BY <1>1, HeaderCountNat
<1>3. HeaderCount(files'[adc_fd]) = h + one
  BY <1>1, HeaderCountNat, HeadersWritten DEF Written
<1>4. h + HeadersDue <= Budget
  BY DEF BoundInv
<1>5. HeadersDue' + one <= HeadersDue
  OBVIOUS
<1> HIDE DEF one, h
<1>6. (h + one) + HeadersDue' <= Budget /\ h + one <= Budget
  BY <1>2, <1>4, <1>5, OneMoreHeader
<1>7. \A f \in 1 .. Len(files') : HeaderCount(files'[f]) <= Budget'
  <2>1. \A f \in 1 .. Len(files) : f # adc_fd => files'[f] = files[f]
    BY <1>1 DEF Written
  <2>2. QED
    BY <1>1, <1>3, <1>6, <2>1 DEF BoundInv
<1>8. HeaderCount(files'[adc_fd']) + HeadersDue' <= Budget'
  BY <1>3, <1>6
<1>9. QED
  BY <1>7, <1>8 DEF BoundInv

-----------------------------------------------------------------------------
(* How the steps change what is still to be written.                       *)

Heading == {"header", "write", "read", "minutes", "rotate", "open"}

LEMMA DueSame ==
  ASSUME UNCHANGED <<local, dc.num_pack, dc.pack_in_min>>,
         \/ pc'["port"] = pc["port"]
         \/ pc["port"] \notin Heading /\ pc'["port"] \notin Heading
  PROVE  HeadersDue' = HeadersDue
  BY DEF HeadersDue, LeftIfAny, Heading

(* Setting num_pack to 0 prolongs the file by less than a file.            *)
LEMMA DueCleared ==
  ASSUME TypeOK, TypeOK', local' = local, dc'.num_pack = 0,
         \/ pc'["port"] = pc["port"]
         \/ pc["port"] \notin Heading /\ pc'["port"] \notin Heading
  PROVE  /\ HeadersDue' <= HeadersDue + (MinutesPerFile - 1)
         /\ dc'.pack_in_min <= 0 => HeadersDue' <= HeadersDue
<1>1. /\ \A q \in Nat : LeftIfAny(q) \in Nat /\ LeftIfAny(q)' \in Nat
                        /\ LeftIfAny(q)' <= MinutesPerFile - 1
      /\ \A q \in Nat : dc'.pack_in_min <= 0 => LeftIfAny(q)' = 0
      /\ LeftIfAny(0)' = 0
  BY MinutesAssumption, LeftRange, LeftZero DEF LeftIfAny
<1>2. MinutesPerFile \in Nat \ {0} /\ 0 % MinutesPerFile = 0
  BY MinutesAssumption
<1>3. HeadersDue \in Nat /\ dc.num_pack + 1 \in Nat /\ local.count + 1 \in Nat
  BY DueNat, BoundNat
<1>4. CASE pc["port"] \notin Heading
  <2>1. HeadersDue' = LeftIfAny(0)'
    BY <1>4 DEF HeadersDue, Heading
  <2>2. QED
    BY <1>1, <1>2, <1>3, <2>1
<1>5. CASE pc'["port"] = pc["port"] /\ pc["port"] = "header"
  <2>1. HeadersDue = 1 + LeftIfAny(dc.num_pack + 1) /\ HeadersDue' = 1 + LeftIfAny(0 + 1)'
    BY <1>5 DEF HeadersDue
  <2>2. 0 + 1 \in Nat
    OBVIOUS
  <2>3. QED
    BY <1>1, <1>2, <1>3, <2>1, <2>2
<1>6. CASE pc'["port"] = pc["port"] /\ pc["port"] \in {"write", "read", "minutes"}
  <2>1. \E q \in Nat : HeadersDue' = LeftIfAny(q)'
    <3>1. \/ HeadersDue' = LeftIfAny(0 + 1)' \/ HeadersDue' = LeftIfAny(0)'
          \/ HeadersDue' = LeftIfAny(local.count + 1)'
      BY <1>6 DEF HeadersDue
    <3>2. 0 + 1 \in Nat /\ 0 \in Nat
      OBVIOUS
    <3>3. QED
      BY <1>3, <3>1, <3>2, Zenon
  <2>2. QED
    BY <1>1, <1>2, <1>3, <2>1
<1>7. CASE pc'["port"] = pc["port"] /\ pc["port"] \in {"rotate", "open"}
  <2>1. HeadersDue' = 0
    BY <1>1, <1>2, <1>7 DEF HeadersDue
  <2>2. QED
    BY <1>2, <1>3, <2>1
<1>8. QED
  BY <1>4, <1>5, <1>6, <1>7 DEF Heading

(* The same in the next state.                                             *)
LEMMA BoundsNat ==
  TypeOK /\ OneStarter => Begun \in Nat /\ Budget \in Nat /\ HeadersDue \in Nat
  BY BudgetNat, DueNat

LEMMA BoundsNatNext ==
  TypeOK' /\ OneStarter' => Begun' \in Nat /\ Budget' \in Nat /\ HeadersDue' \in Nat
<1>1. (TypeOK /\ OneStarter => Begun \in Nat /\ Budget \in Nat /\ HeadersDue \in Nat)'
  BY BoundsNat, PTL
<1>2. QED
  BY <1>1

LEMMA BoundStart ==
  ASSUME TypeOK, TypeOK', OneStarter, OneStarter', BoundInv,
         NEW t \in Threads, PrepareStart(t)
  PROVE  BoundInv'
<1> USE DEF Calling
<1>1. UNCHANGED <<files, local>> /\ open' \subseteq open /\ adc_fd' \in {adc_fd, NoFile}
  BY DEF PrepareStart, CallStart, NetStart, PortStart, StartWith, WorkDir, Params,
         Mempool, Alloc, Close, Reset, StartDevice, Signal, Zero, TryClose, file
<1>2. \/ pc'["port"] = pc["port"]
      \/ pc["port"] \notin Heading /\ pc'["port"] \notin Heading
  <2>1. pc \in [Threads -> Labels] /\ "port" \in Threads
    BY DEF TypeOK, Threads
  <2>2. QED
    BY <2>1 DEF PrepareStart, CallStart, NetStart, PortStart, StartWith, WorkDir, Params,
           Mempool, Alloc, Close, Reset, StartDevice, Signal, Zero, TryClose, Goto,
           Return, At, Heading
<1>3. /\ Begun \in Nat /\ Begun' \in Nat /\ Budget \in Nat /\ Budget' \in Nat
      /\ HeadersDue \in Nat /\ HeadersDue' \in Nat /\ MinutesPerFile \in Nat
  BY BoundsNat, BoundsNatNext, MinutesAssumption
<1>4. \A u \in Threads : Called(u) \in {0, 1}
  BY DEF Called
<1>5. CASE Params(t)
  <2>1. pc[t] \in Calling /\ pc'[t] \notin Calling
        /\ \A u \in Threads : u # t => pc'[u] = pc[u]
    BY <1>5 DEF Params, At, Goto, TypeOK
  <2>2. Calls' = Calls
    BY <1>5, StartUncounted DEF Params, CallStart, NetStart, PortStart, At
  <2>3. Begun' = Begun + 1
    BY <2>1, <2>2, CallsNat DEF Begun, Called, Threads
  <2>4. Budget' = Budget + (MinutesPerFile - 1)
    BY <2>3, BudgetStep
  <2>5. dc'.num_pack = 0
    BY <1>5 DEF Params, TypeOK, Counters
  <2>6. 0 % MinutesPerFile = 0
    BY MinutesAssumption
  <2>7. HeadersDue' <= HeadersDue + (MinutesPerFile - 1)
    BY <1>1, <1>2, <2>5, DueCleared
  <2>8. Budget' - Budget = MinutesPerFile - 1 /\ Budget <= Budget'
    BY <1>3, <2>4, MinutesAssumption
  <2>9. Begun' >= 1
    BY <1>3, <2>3
  <2>10. QED
    BY <1>1, <1>3, <2>5, <2>6, <2>7, <2>8, <2>9, BoundQuiet
<1>6. CASE ~ Params(t)
  <2>1. UNCHANGED <<dc.num_pack, dc.pack_in_min>>
    BY <1>6 DEF PrepareStart, CallStart, NetStart, PortStart, StartWith, WorkDir,
                Mempool, Alloc, Close, Reset, StartDevice, Signal, Zero, TypeOK, Counters
  <2>2. HeadersDue' = HeadersDue
    BY <1>1, <1>2, <2>1, DueSame
  <2>3. Begun' \in {Begun, Begun + 1}
    <3>1. CASE CallStart(t)
      <4>1. Calls' = Calls + 1
        BY <3>1, CallCounted
      <4>2. /\ pc[t] \notin Calling /\ pc'[t] \in Calling
            /\ \A u \in Threads : u # t => pc'[u] = pc[u]
        BY <3>1 DEF CallStart, NetStart, PortStart, StartWith, At, Goto, TypeOK
      <4>3. QED
        BY <4>1, <4>2, CallsNat DEF Begun, Called, Threads
    <3>2. CASE ~ CallStart(t)
      <4>1. Calls' = Calls
        BY <3>2, StartUncounted
      <4>2. /\ pc'[t] \in Calling => pc[t] \in Calling
            /\ \A u \in Threads : u # t => pc'[u] = pc[u]
        BY <1>6, <3>2
           DEF PrepareStart, WorkDir, Mempool, Alloc, Close, Reset, StartDevice,
               Signal, Zero, TryClose, At, Goto, Return, TypeOK
      <4>3. QED
        BY <4>1, <4>2, CallsNat DEF Begun, Called, Threads
    <3>3. QED
      BY <3>1, <3>2
  <2>4. Begun <= Begun' /\ Budget <= Budget'
    BY <1>3, <2>3, BudgetStep
  <2>5. dc'.pack_in_min > 0 => Begun' >= 1
    BY <1>3, <2>1, <2>4 DEF BoundInv
  <2>6. pc'["port"] = "open" => dc'.num_pack % MinutesPerFile = 0
    BY <1>2, <2>1 DEF BoundInv, Heading
  <2>7. HeadersDue' <= HeadersDue + (Budget' - Budget)
    <3>1. HeadersDue' <= HeadersDue
      BY <1>3, <2>2
    <3>2. QED
      BY <1>3, <2>4, <3>1, NoMoreDue
  <2>8. QED
    BY <1>1, <1>3, <2>4, <2>5, <2>6, <2>7, BoundQuiet
<1>7. QED
  BY <1>5, <1>6

LEMMA BoundStop ==
  ASSUME TypeOK, TypeOK', OneStarter, OneStarter', BoundInv, PrepareStop
  PROVE  BoundInv'
<1>1. /\ UNCHANGED <<files, local>> /\ open' \subseteq open
      /\ adc_fd' \in {adc_fd, NoFile} /\ pc'["port"] = pc["port"]
  BY DEF PrepareStop, CallStop, StopClose, StopReset, Free, Memset, Ignore, TryClose,
         Goto, file, TypeOK, Threads
<1>2. /\ Begun \in Nat /\ Begun' \in Nat /\ Budget \in Nat /\ Budget' \in Nat
      /\ HeadersDue \in Nat /\ HeadersDue' \in Nat /\ MinutesPerFile \in Nat
  BY BoundsNat, BoundsNatNext, MinutesAssumption
<1>3. Called("net")' = 0 /\ Called("net") = 0 /\ Called("port")' = Called("port")
  BY DEF PrepareStop, CallStop, StopClose, StopReset, Free, Memset, Ignore, TryClose,
         Goto, At, TypeOK, Called, Calling, Threads
<1>4. Calls' = Calls \/ Calls' = Calls + 1
  BY CallCounted, StopUncounted
<1>5. Begun' \in {Begun, Begun + 1}
  <2>1. Called("port") \in {0, 1}
    BY DEF Called
  <2>2. QED
    BY <1>3, <1>4, <2>1, CallsNat DEF Begun
<1>6. Begun <= Begun' /\ Budget <= Budget'
  BY <1>2, <1>5, BudgetStep
<1>7. /\ dc'.pack_in_min > 0 => dc'.pack_in_min = dc.pack_in_min
      /\ \/ UNCHANGED <<dc.num_pack, dc.pack_in_min>>
         \/ dc'.num_pack = 0 /\ dc'.pack_in_min <= 0
  <2>1. CASE Memset
    BY <2>1 DEF Memset
  <2>2. CASE ~ Memset
    <3>1. dc' = dc
      BY <2>2 DEF PrepareStop, CallStop, StopClose, StopReset, Free, Ignore, TryClose, Goto
    <3>2. QED
      BY <3>1
  <2>3. QED
    BY <2>1, <2>2
<1>8. HeadersDue' <= HeadersDue
  <2>1. CASE UNCHANGED <<dc.num_pack, dc.pack_in_min>>
    BY <1>1, <1>2, <2>1, DueSame
  <2>2. CASE dc'.num_pack = 0 /\ dc'.pack_in_min <= 0
    BY <1>1, <2>2, DueCleared
  <2>3. QED
    BY <1>7, <2>1, <2>2
<1>9. dc'.pack_in_min > 0 => Begun' >= 1
  BY <1>2, <1>6, <1>7 DEF BoundInv
<1>10. pc'["port"] = "open" => dc'.num_pack % MinutesPerFile = 0
  <2>1. 0 % MinutesPerFile = 0
    BY MinutesAssumption
  <2>2. QED
    BY <1>1, <1>7, <2>1 DEF BoundInv
<1>11. HeadersDue' <= HeadersDue + (Budget' - Budget)
  BY <1>2, <1>6, <1>8, NoMoreDue
<1>12. QED
  BY <1>1, <1>2, <1>6, <1>9, <1>10, <1>11, BoundQuiet

(* The port thread's own steps count no start.                             *)
LEMMA PortBudget ==
  ASSUME TypeOK, TypeOK', OneStarter, OneStarter', Receive \/ Handler
  PROVE  /\ Begun' = Begun /\ Budget' = Budget
         /\ Begun \in Nat /\ Budget \in Nat
         /\ HeadersDue \in Nat /\ HeadersDue' \in Nat
<1>1. Calls' = Calls
  BY PortUncounted
<1>2. pc["port"] \notin Calling /\ pc'["port"] \notin Calling /\ pc'["net"] = pc["net"]
  <2>1. pc \in [Threads -> Labels] /\ "port" \in Threads
    BY DEF TypeOK, Threads
  <2>2. \A l : Goto("port", l) => pc'["net"] = pc["net"]
    BY <2>1 DEF Goto, Threads, TypeOK
  <2>3. CASE Receive
    <3>1. pc["port"] \notin Calling
      BY <2>3
         DEF Receive, Poll, Get, CheckBuffers, LoadFlag, Select, Store, LoadCount,
             StoreCount, Minute, Raise, ClearCount, At, Calling
    <3>2. pc'["port"] \notin Calling
      BY <2>1, <2>3
         DEF Receive, Poll, Get, CheckBuffers, LoadFlag, Select, Store, LoadCount,
             StoreCount, Minute, Raise, ClearCount, Goto, Calling
    <3>3. pc'["net"] = pc["net"]
      BY <2>2, <2>3
         DEF Receive, Poll, Get, CheckBuffers, LoadFlag, Select, Store, LoadCount,
             StoreCount, Minute, Raise, ClearCount
    <3>4. QED
      BY <3>1, <3>2, <3>3
  <2>4. CASE Handler
    <3>1. pc["port"] \notin Calling
      BY <2>4
         DEF Handler, HandlerFlag, Begin, Read, Rotate, Open, WriteHeader, WriteData,
             LoadMinutes, StoreMinutes, Restore, At, Calling
    <3>2. pc'["port"] \notin Calling
      BY <2>1, <2>4
         DEF Handler, HandlerFlag, Begin, Read, Rotate, Open, WriteHeader, WriteData,
             LoadMinutes, StoreMinutes, Restore, TryClose, Goto, At, Calling
    <3>3. pc'["net"] = pc["net"]
      BY <2>2, <2>4
         DEF Handler, HandlerFlag, Begin, Read, Rotate, Open, WriteHeader, WriteData,
             LoadMinutes, StoreMinutes, Restore, TryClose, At
    <3>4. QED
      BY <3>1, <3>2, <3>3
  <2>5. QED
    BY <2>3, <2>4
<1>3. Begun' = Begun
  BY <1>1, <1>2 DEF Begun, Called
<1>4. Budget' = Budget
  BY <1>3 DEF Budget
<1>5. QED
  BY <1>3, <1>4, BoundsNat, BoundsNatNext

(* A step of the port thread that writes no header.                        *)
LEMMA BoundPort ==
  ASSUME TypeOK, TypeOK', OneStarter, OneStarter', BoundInv, Receive \/ Handler,
         UNCHANGED <<files, dc.pack_in_min>>, open' \subseteq open,
         adc_fd' \in {adc_fd, NoFile},
         pc'["port"] = "open" => dc'.num_pack % MinutesPerFile = 0,
         adc_fd' \in open' => HeadersDue' <= HeadersDue
  PROVE  BoundInv'
<1>1. /\ Begun' = Begun /\ Budget' = Budget /\ Begun \in Nat /\ Budget \in Nat
      /\ HeadersDue \in Nat /\ HeadersDue' \in Nat
  BY PortBudget
<1>2. Budget <= Budget' /\ Budget' \in Nat
  BY <1>1
<1>3. dc'.pack_in_min > 0 => Begun' >= 1
  BY <1>1 DEF BoundInv
<1>4. adc_fd' \in open' => HeadersDue' <= HeadersDue + (Budget' - Budget)
  BY <1>1, <1>2, NoMoreDue
<1>5. QED
  BY <1>1, <1>2, <1>3, <1>4, BoundQuiet

LEMMA BoundReceive ==
  ASSUME TypeOK, TypeOK', OneStarter, OneStarter', BoundInv, Receive
  PROVE  BoundInv'
<1>1. UNCHANGED <<files, open, adc_fd, dc.num_pack, dc.pack_in_min>>
  BY DEF Receive, Poll, Get, CheckBuffers, LoadFlag, Select, Store, LoadCount,
         StoreCount, Minute, Raise, ClearCount, file, TypeOK, Counters
<1>2. pc["port"] \notin Heading /\ pc'["port"] \notin Heading
  <2>1. pc \in [Threads -> Labels] /\ "port" \in Threads
    BY DEF TypeOK, Threads
  <2>2. QED
    BY <2>1 DEF Receive, Poll, Get, CheckBuffers, LoadFlag, Select, Store, LoadCount,
           StoreCount, Minute, Raise, ClearCount, Goto, At, Heading
<1>3. HeadersDue' = HeadersDue
  BY <1>1, <1>2 DEF HeadersDue, LeftIfAny, Heading
<1>4. HeadersDue' <= HeadersDue
  BY <1>3, DueNat
<1>5. QED
  BY <1>1, <1>2, <1>4, BoundPort DEF Heading

(* The look at num_pack: the old file is closed, or the minute goes to it. *)
LEMMA BoundRotate ==
  ASSUME TypeOK, TypeOK', OneStarter, OneStarter', BoundInv, Rotate
  PROVE  BoundInv'
<1>1. /\ UNCHANGED <<files, adc_fd, dc>> /\ open' \subseteq open /\ Handler
      /\ pc["port"] = "rotate"
  BY DEF Rotate, TryClose, Handler, At
<1>2. /\ pc'["port"] = "open" => dc'.num_pack % MinutesPerFile = 0
      /\ adc_fd \in open' =>
           \/ pc'["port"] = "open"
           \/ pc'["port"] = "header" /\ dc.num_pack % MinutesPerFile # 0
  BY NoFileNotOpen DEF Rotate, TryClose, Goto, TypeOK, Threads
<1>3. ASSUME adc_fd \in open' PROVE HeadersDue' <= HeadersDue
  <2>1. CASE pc'["port"] = "open"
    <3>1. HeadersDue' = 0
      BY <2>1 DEF HeadersDue
    <3>2. QED
      BY <3>1, DueNat
  <2>2. CASE pc'["port"] = "header" /\ dc.num_pack % MinutesPerFile # 0
    <3>1. HeadersDue' = 1 + LeftIfAny(dc.num_pack + 1)
      BY <1>1, <2>2 DEF HeadersDue, LeftIfAny
    <3>2. HeadersDue = IF dc.pack_in_min <= 0 THEN 1 ELSE Left(dc.num_pack)
      BY <1>1, <2>2 DEF HeadersDue, LeftIfAny
    <3>3. Left(dc.num_pack) = 1 + Left(dc.num_pack + 1)
      BY <2>2, LeftNext, BoundNat
    <3>4. HeadersDue' = HeadersDue
      BY <3>1, <3>2, <3>3 DEF LeftIfAny
    <3>5. QED
      BY <3>4, DueNat
  <2>3. QED
    BY <1>2, <1>3, <2>1, <2>2
<1>4. QED
  BY <1>1, <1>2, <1>3, BoundPort

(* A new file has no header yet.                                           *)
LEMMA BoundOpen ==
  ASSUME TypeOK, TypeOK', OneStarter, OneStarter', FileInv, BoundInv, Open
  PROVE  BoundInv'
<1>1. /\ dc' = dc /\ pc["port"] = "open" /\ pc'["port"] = "header" /\ Handler
      /\ open = {}
  BY DEF Open, At, Goto, TypeOK, Threads, Handler, FileInv, OneOwner
<1>2. CASE files' = files /\ open' = open /\ adc_fd' = NoFile
  <2>1. adc_fd' \notin open'
    BY <1>1, <1>2
  <2>2. QED
    BY <1>1, <1>2, <2>1, BoundPort
<1>3. CASE /\ files' = Append(files, << >>) /\ adc_fd' = Len(files) + 1
           /\ open' = open \cup {Len(files) + 1}
  <2>1. /\ Len(files) \in Nat /\ Len(files') = Len(files) + 1
        /\ files'[Len(files) + 1] = << >>
        /\ \A f \in 1 .. Len(files) : files'[f] = files[f]
    BY <1>3, AppendProperties, LenProperties, EmptySeq DEF TypeOK
  <2>2. HeaderCount(<< >>) = 0
    <3>1. {k \in 1 .. Len(<< >>) : << >>[k] = Header} = {}
      <4>1. Len(<< >>) = 0
        OBVIOUS
      <4>2. 1 .. 0 = {}
        OBVIOUS
      <4>3. QED
        BY <4>1, <4>2
    <3>2. QED
      BY <3>1, FS_EmptySet DEF HeaderCount
  <2>3. /\ Begun' = Begun /\ Budget' = Budget /\ Begun \in Nat /\ Budget \in Nat
        /\ HeadersDue' \in Nat
    BY <1>1, PortBudget
  <2>4. Budget >= 1 /\ (Begun >= 1 => Budget >= MinutesPerFile)
    BY BudgetNat
  <2>5. HeadersDue' <= Budget
    <3>1. HeadersDue' = 1 + LeftIfAny(dc.num_pack + 1)
      BY <1>1 DEF HeadersDue, LeftIfAny
    <3>2. dc.num_pack + 1 \in Nat
      BY BoundNat
    <3>3. CASE dc.pack_in_min <= 0
      BY <2>3, <2>4, <3>1, <3>3 DEF LeftIfAny
    <3>4. CASE dc.pack_in_min > 0
      <4>1. Budget >= MinutesPerFile
        BY <2>4, <3>4 DEF BoundInv
      <4>2. /\ LeftIfAny(dc.num_pack + 1) \in Nat
            /\ LeftIfAny(dc.num_pack + 1) <= MinutesPerFile - 1
        BY <3>2, DueNat
      <4>3. QED
        BY <2>3, <3>1, <4>1, <4>2, MinutesAssumption
    <3>5. dc.pack_in_min \in Int
      BY BoundNat
    <3>6. QED
      BY <3>3, <3>4, <3>5
  <2>6. \A f \in 1 .. Len(files') : HeaderCount(files'[f]) <= Budget'
    <3>1. \A f \in 1 .. Len(files') : f \in 1 .. Len(files) \/ f = Len(files) + 1
      BY <2>1
    <3>2. 0 <= Budget
      BY <2>3
    <3>3. QED
      BY <2>1, <2>2, <2>3, <3>1, <3>2 DEF BoundInv
  <2>7. HeaderCount(files'[adc_fd']) + HeadersDue' <= Budget'
    BY <1>3, <2>1, <2>2, <2>3, <2>5
  <2>8. QED
    BY <1>1, <2>3, <2>6, <2>7 DEF BoundInv
<1>4. QED
  BY <1>2, <1>3 DEF Open

(* A write, to a file or to nothing.                                       *)
LEMMA BoundWrite ==
  ASSUME TypeOK, TypeOK', OneStarter, OneStarter', LastFile, BoundInv,
         WriteHeader \/ WriteData
  PROVE  BoundInv'
<1>1. /\ UNCHANGED <<adc_fd, open, dc>> /\ pc'["port"] # "open" /\ Handler
  BY DEF WriteHeader, WriteData, Handler, Goto, TypeOK, Threads
<1>2. /\ Begun' = Begun /\ Budget' = Budget /\ Begun \in Nat /\ Budget \in Nat
      /\ HeadersDue \in Nat /\ HeadersDue' \in Nat
  BY <1>1, PortBudget
<1>3. PICK x \in Entries : /\ WriteFile(x)
                        /\ HeadersDue' + (IF x = Header THEN 1 ELSE 0) <= HeadersDue
  <2>1. CASE WriteHeader
    <3>1. /\ pc["port"] = "header" /\ pc'["port"] = "write" /\ WriteFile(Header)
          /\ Header \in Entries
      BY <2>1 DEF WriteHeader, At, Goto, TypeOK, Threads, Entries
    <3>2. /\ HeadersDue = 1 + LeftIfAny(dc.num_pack + 1)
          /\ HeadersDue' = LeftIfAny(dc.num_pack + 1)
      BY <1>1, <3>1 DEF HeadersDue, LeftIfAny
    <3>3. HeadersDue' + 1 <= HeadersDue
      BY <1>2, <3>2
    <3>4. QED
      BY <3>1, <3>3
  <2>2. CASE WriteData
    <3>5. local.pack \in Entries /\ local.pack # Header
      <4>1. local.pack \in Contents
        BY DEF TypeOK
      <4>2. QED
        BY <4>1, BoundsAssumption DEF Entries, Contents, Packets, Header, Blank, Junk
    <3>1. /\ pc["port"] = "write" /\ pc'["port"] = "read" /\ WriteFile(local.pack)
          /\ local'.i # 0
      <4>1. /\ pc \in [Threads -> Labels] /\ "port" \in Threads
            /\ \E P : local \in [flag : {Pong, Ping}, ptr : P, count : Nat, i : Nat,
                               pack : Contents]
        BY DEF TypeOK, Threads
      <4>2. local'.i = local.i + 1 /\ local.i \in Nat
        BY <2>2, <4>1 DEF WriteData
      <4>3. local'.i # 0
        BY <4>2
      <4>4. QED
        BY <2>2, <4>1, <4>3 DEF WriteData, At, Goto
    <3>2. HeadersDue' = HeadersDue
      BY <1>1, <3>1 DEF HeadersDue, LeftIfAny
    <3>3. HeadersDue' + 0 <= HeadersDue
      BY <1>2, <3>2
    <3>4. QED
      BY <3>5, <3>1, <3>3
  <2>3. QED
    BY <2>1, <2>2
<1>4. dc'.pack_in_min > 0 => Begun' >= 1
  BY <1>1, <1>2 DEF BoundInv
<1>5. CASE adc_fd \in open /\ Written(files, files', x)
  BY <1>1, <1>2, <1>3, <1>4, <1>5, BoundWritten
<1>6. HeadersDue' <= HeadersDue
  <2> DEFINE one == IF x = Header THEN 1 ELSE 0
  <2>1. one \in Nat /\ HeadersDue' + one <= HeadersDue
    BY <1>3
  <2> HIDE DEF one
  <2>2. QED
    BY <1>2, <2>1, LessDue
<1>7. CASE files' = files
  BY <1>1, <1>6, <1>7, BoundPort
<1>8. CASE adc_fd \in open /\ Written(files, files', Part)
  <2> DEFINE one == IF Part = Header THEN 1 ELSE 0
  <2>1. one = 0
    BY DEF Part, Header
  <2> HIDE DEF one
  <2>2. HeadersDue' + one <= HeadersDue
    BY <1>2, <1>6, <2>1, NoneDue
  <2>3. QED
    BY <1>1, <1>2, <1>4, <1>8, <2>2, BoundWritten DEF one
<1>9. QED
  BY <1>3, <1>5, <1>7, <1>8, FileWritten

LEMMA BoundHandler ==
  ASSUME TypeOK, TypeOK', OneStarter, OneStarter', LastFile, FileInv, BoundInv, Handler
  PROVE  BoundInv'
<1>1. /\ HeadersDue \in Nat /\ local.i \in Nat /\ dc.pack_in_min \in Int
      /\ dc.num_pack \in Nat
  BY DueNat, BoundNat
<1>2. /\ pc \in [Threads -> Labels] /\ "port" \in Threads
      /\ \E P : local \in [flag : {Pong, Ping}, ptr : P, count : Nat, i : Nat,
                         pack : Contents]
  BY DEF TypeOK, Threads
<1>3. dc \in Counters
  BY DEF TypeOK
<1> USE DEF At, Goto
<1>4. CASE Rotate \/ Open \/ WriteHeader \/ WriteData
  BY <1>4, BoundRotate, BoundOpen, BoundWrite
<1>5. CASE ~ (Rotate \/ Open \/ WriteHeader \/ WriteData)
  <2>1. /\ UNCHANGED <<files, open, adc_fd, dc.pack_in_min>>
        /\ pc'["port"] # "open"
    BY <1>2, <1>3, <1>5
       DEF Handler, HandlerFlag, Begin, Read, LoadMinutes, StoreMinutes, Restore, file,
           Counters
  <2>2. HeadersDue' = HeadersDue
    <3>1. CASE HandlerFlag \/ Restore
      <4>1. /\ UNCHANGED <<dc, local.i, local.count>>
            /\ pc["port"] \in {"handler", "restore"} /\ pc'["port"] \in {"begin", "clear"}
        BY <1>2, <3>1 DEF HandlerFlag, Restore
      <4>2. QED
        BY <4>1 DEF HeadersDue, LeftIfAny
    <3>2. CASE Begin
      <4>1. /\ dc' = dc /\ local'.i = 0
            /\ pc["port"] = "begin" /\ pc'["port"] = "read"
        BY <1>2, <3>2 DEF Begin
      <4>2. QED
        BY <4>1 DEF HeadersDue, LeftIfAny
    <3>3. CASE Read
      <4>1. /\ dc' = dc /\ dc.pack_in_min > 0
            /\ pc["port"] = "read" /\ pc'["port"] = IF local.i = 0 THEN "rotate" ELSE "write"
        <5>1. dc.pack_in_min > 0
          <6>1. local.i < dc.pack_in_min
            BY <3>3, Zenon DEF Read
          <6>2. QED
            BY <1>1, <6>1
        <5>2. QED
          BY <1>2, <3>3, <5>1 DEF Read
      <4>2. QED
        BY <1>1, <4>1 DEF HeadersDue, LeftIfAny
    <3>4. CASE LoadMinutes
      <4>1. /\ dc' = dc /\ local'.count = dc.num_pack
            /\ local.i = 0 => dc.pack_in_min <= 0
            /\ pc["port"] = "read" /\ pc'["port"] = "minutes"
        <5>1. local.i = 0 => dc.pack_in_min <= 0
          <6>1. local.i >= dc.pack_in_min
            BY <3>4, Zenon DEF LoadMinutes
          <6>2. QED
            BY <1>1, <6>1
        <5>2. QED
          BY <1>2, <3>4, <5>1 DEF LoadMinutes
      <4>2. QED
        BY <4>1 DEF HeadersDue, LeftIfAny
    <3>5. CASE StoreMinutes
      <4>1. /\ dc'.num_pack = local.count + 1 /\ dc'.pack_in_min = dc.pack_in_min
            /\ pc["port"] = "minutes" /\ pc'["port"] = "restore"
        BY <1>2, <1>3, <3>5 DEF StoreMinutes, Counters
      <4>2. QED
        BY <4>1 DEF HeadersDue, LeftIfAny
    <3>6. QED
      BY <1>5, <3>1, <3>2, <3>3, <3>4, <3>5 DEF Handler
  <2>3. HeadersDue' <= HeadersDue
    BY <1>1, <2>2
  <2>4. QED
    BY <2>1, <2>3, BoundPort
<1>6. QED
  BY <1>4, <1>5

LEMMA BoundStep ==
  ASSUME TypeOK, TypeOK', OneStarter, OneStarter', LastFile, FileInv, BoundInv,
         [Next]_vars
  PROVE  BoundInv'
<1>1. CASE UNCHANGED vars
  BY <1>1 DEF vars, file, hist, BoundInv, Budget, Begun, Called, Calls, HeadersDue,
              LeftIfAny
<1>2. QED
  BY <1>1, BoundStart, BoundStop, BoundReceive, BoundHandler DEF Next

(* However starts and stops interleave with the handler, each of them,     *)
(* refused or not, prolongs a data file by less than another file: by the  *)
(* minutes num_pack had counted when it was cleared (mythreads.c:117,      *)
(* :315-338).                                                              *)
THEOREM FilesStayBounded == Spec => []FileBounded
<1> DEFINE Inv == TypeInv /\ FileInv /\ OneStarter /\ LastFile /\ BoundInv
<1>1. Init => Inv
  <2>1. Init => TypeInv
    BY InitType DEF TypeInv, PackLeft, Init, Threads
  <2>2. Init => FileInv
    BY InitType DEF FileInv, NoStrayFile, OneOwner, Resetting, Init, Threads
  <2>3. Init => OneStarter
    BY DEF Init, OneStarter, Starting, Threads
  <2>4. Init => Len(files) = 0 /\ LastFile
    BY EmptySeq DEF Init, LastFile
  <2>5. Init => BoundInv
    BY <2>4 DEF Init, BoundInv, Threads
  <2>6. QED
    BY <2>1, <2>2, <2>3, <2>4, <2>5
<1>2. Inv /\ [Next]_vars => Inv'
  <2>1. TypeInv /\ [Next]_vars => TypeInv'
    BY TypeStep
  <2>2. Inv /\ TypeInv' /\ [Next]_vars => FileInv'
    BY FileStep DEF TypeInv, FileInv
  <2>3. TypeInv /\ OneStarter /\ LastFile /\ [Next]_vars => OneStarter' /\ LastFile'
    BY OneStarterStep, LastFileStep DEF TypeInv
  <2>4. Inv /\ TypeInv' /\ OneStarter' /\ [Next]_vars => BoundInv'
    BY BoundStep DEF TypeInv
  <2>5. QED
    BY <2>1, <2>2, <2>3, <2>4
<1>3. Inv => FileBounded
  <2>1. ASSUME Inv, NEW f \in 1 .. Len(files)
        PROVE  Cardinality(Headers(f)) <= 1 + Calls * (MinutesPerFile - 1)
    <3>1. HeaderCount(files[f]) <= Budget /\ HeaderCount(files[f]) \in Nat
      BY <2>1, HeaderCountNat DEF BoundInv, TypeInv
    <3>2. Budget \in Nat /\ Budget <= 1 + Calls * (MinutesPerFile - 1)
      BY <2>1, BudgetNat DEF TypeInv
    <3>3. Calls * (MinutesPerFile - 1) \in Int
      BY <2>1, CallsNat, MinutesAssumption DEF TypeInv
    <3>4. Cardinality(Headers(f)) = HeaderCount(files[f])
      BY DEF Headers, HeaderCount
    <3>5. QED
      BY <3>1, <3>2, <3>3, <3>4
  <2>2. QED
    BY <2>1 DEF FileBounded
<1>4. QED
  BY <1>1, <1>2, <1>3, PTL DEF Spec

-----------------------------------------------------------------------------
(* What the files hold while nobody but the port thread starts the device. *)

(* The k-th record of a data file whose first packet is number first + 1.  *)
Cell(first, n, k) ==
  IF (k - 1) % (n + 1) = 0
    THEN Header
    ELSE first + ((k - 1) \div (n + 1)) * n + ((k - 1) % (n + 1))

Stream(s, first, n) == \A k \in 1 .. Len(s) : s[k] = Cell(first, n, k)

(* The file that minute q (from 0) goes to, with x records of that minute. *)
Holding(s, q, x, n) ==
  /\ Len(s) = (q % MinutesPerFile) * (n + 1) + x
  /\ Stream(s, (MinutesPerFile * (q \div MinutesPerFile)) * n, n)

FullFile(f, n) ==
  /\ Len(files[f]) = MinutesPerFile * (n + 1)
  /\ \E first \in Nat :
       /\ Stream(files[f], first, n)
       /\ ~ lostFile => first = (MinutesPerFile * (f - 1)) * n

Recording == Ready /\ pc["port"] \notin Starting

(* The minutes recorded, the packets counted since, and all that came.     *)
Base == dc.num_pack * dc.pack_in_min

Counting ==
  lastPack = Base +
    (CASE pc["port"] \in {"flag", "select", "store", "load"} -> dc.sig_num_count + 1
       [] pc["port"] = "inc" -> local.count + 1
       [] pc["port"] \in {"raise", "minutes"} \cup (Handling \ {"restore"}) ->
            dc.pack_in_min
       [] pc["port"] \in {"restore", "clear"} -> 0
       [] OTHER -> dc.sig_num_count)

Holds(d, z) == \A j \in 1 .. z : d[j] = Base + j

Buffered ==
  /\ pc["port"] \notin {"load", "inc", "raise", "clear"} \cup Handling =>
       Holds(FillingData, dc.sig_num_count)
  /\ pc["port"] = "load" => Holds(FillingData, dc.sig_num_count + 1)
  /\ pc["port"] = "inc" => Holds(FillingData, local.count + 1)
  /\ pc["port"] \in {"raise"} \cup (Handling \ {"minutes", "restore"}) =>
       Holds(FullData, dc.pack_in_min)
  /\ pc["port"] = "read" => local.i <= dc.pack_in_min
  /\ pc["port"] \in {"rotate", "open", "header"} => local.i = 0
  /\ pc["port"] = "minutes" => local.count = dc.num_pack

(* The handler is at work on the file for the minute it records.           *)
Late ==
  \/ pc["port"] \in {"header", "write", "minutes"}
  \/ pc["port"] = "read" /\ local.i # 0

Minutes == IF Late THEN dc.num_pack ELSE dc.num_pack - 1
Cells ==
  CASE pc["port"] = "header" -> 0
    [] pc["port"] = "write" \/ (pc["port"] = "read" /\ local.i # 0) -> local.i + 1
    [] OTHER -> dc.pack_in_min + 1

Filed ==
  /\ \A f \in 1 .. Len(files) :
       f \notin open \cup damaged => FullFile(f, dc.pack_in_min)
  /\ adc_fd \in open =>
       /\ Minutes \in Nat
       /\ adc_fd \notin damaged =>
            Holding(files[adc_fd], Minutes, Cells, dc.pack_in_min)
       /\ ~ lostFile => Len(files) = (Minutes \div MinutesPerFile) + 1
  /\ pc["port"] = "open" =>
       /\ dc.num_pack % MinutesPerFile = 0
       /\ ~ lostFile => Len(files) = dc.num_pack \div MinutesPerFile
  /\ adc_fd \notin open /\ pc["port"] # "open" /\ ~ lostFile =>
       dc.num_pack = 0 /\ files = << >> /\ adc_fd = NoFile /\ ~ Late

NothingYet ==
  /\ files = << >> /\ open = {} /\ adc_fd = NoFile
  /\ lastPack = 0 /\ dc.num_pack = 0 /\ dc.sig_num_count = 0

SoloBody ==
  /\ sigusr1 # "ignore"
  /\ ~ Recording => NothingYet
  /\ Recording => Counting /\ Buffered /\ Filed

(* The port thread starts the device with a frequency it accepts.          *)
OwnRate ==
  /\ NoneEmpty
  /\ dc.pack_in_min \in Nat
  /\ pc["port"] \in Preparing => rate["port"] \in Rates
  /\ pc["port"] \in {"mempool", "alloc"} => dc.pack_in_min = rate["port"]

SoloInv == commands = 0 /\ alive => OwnRate /\ SoloBody

(* The place of record x of minute m, and what is there.                   *)
Place(m, x, n) == m * (n + 1) + x + 1
Record(x, k) == IF x = 0 THEN Header ELSE k

LEMMA CellAt ==
  ASSUME NEW first \in Nat, NEW n \in Nat, NEW m \in Nat, NEW x \in 0 .. n
  PROVE  Cell(first, n, Place(m, x, n)) = Record(x, first + m * n + x)
<1> DEFINE c == n + 1
           k == Place(m, x, n)
           q == k - 1
<1>1. c \in Nat \ {0} /\ x \in Int /\ 0 <= x /\ x < c /\ m * c \in Nat
  OBVIOUS
<1>2. q = m * c + x /\ q \in Nat /\ k \in Nat
  BY <1>1 DEF Place
<1>3. m * c = c * m
  OBVIOUS
<1> HIDE DEF c, q
<1>4. q \div c = m /\ q % c = x
  BY <1>1, <1>2, <1>3, ModIs
<1> HIDE DEF k
<1>5. QED
  BY <1>2, <1>4 DEF Cell, Record, c, q, k

(* The packets of minute q follow all those of the earlier minutes.        *)
LEMMA FirstOfFile ==
  ASSUME NEW q \in Nat, NEW n \in Nat
  PROVE  /\ q % MinutesPerFile \in Nat /\ q \div MinutesPerFile \in Nat
         /\ (MinutesPerFile * (q \div MinutesPerFile)) * n \in Nat
         /\ (MinutesPerFile * (q \div MinutesPerFile)) * n + (q % MinutesPerFile) * n
              = q * n
<1> DEFINE M == MinutesPerFile
           d == q \div M
           r == q % M
<1>1. M \in Nat \ {0}
  BY MinutesAssumption
<1>2. d \in Nat /\ r \in Nat /\ q = M * d + r
  BY <1>1, DivMod
<1> HIDE DEF M, d, r
<1>3. M * d \in Nat
  BY <1>1, <1>2
<1>4. (M * d) * n \in Nat /\ (M * d) * n + r * n = (M * d + r) * n
  BY <1>2, <1>3
<1>5. QED
  BY <1>2, <1>4 DEF M, d, r

(* A minute begins with its header; its packets follow.                    *)
LEMMA StreamAppended ==
  ASSUME NEW s \in Seq(Entries), NEW first \in Nat, NEW n \in Nat, NEW m \in Nat,
         NEW x \in 0 .. n, NEW y \in Entries,
         y = Record(x, first + m * n + x),
         Len(s) = m * (n + 1) + x, Stream(s, first, n)
  PROVE  /\ Len(Append(s, y)) = m * (n + 1) + (x + 1)
         /\ Stream(Append(s, y), first, n)
<1> DEFINE z == Append(s, y)
<1>1. /\ Len(s) \in Nat /\ Len(z) = Len(s) + 1 /\ z[Len(s) + 1] = y
      /\ \A k \in 1 .. Len(s) : z[k] = s[k]
  BY LenProperties, AppendProperties
<1> HIDE DEF z
<1>2. y = Cell(first, n, Len(s) + 1)
  <2>1. Cell(first, n, Place(m, x, n)) = Record(x, first + m * n + x)
    BY CellAt
  <2>2. Len(s) + 1 = Place(m, x, n)
    BY DEF Place
  <2>3. QED
    BY <2>1, <2>2
<1>3. Stream(z, first, n)
  <2>1. ASSUME NEW k \in 1 .. Len(z) PROVE z[k] = Cell(first, n, k)
    <3>1. k \in 1 .. Len(s) \/ k = Len(s) + 1
      BY <1>1
    <3>2. QED
      BY <1>1, <1>2, <3>1 DEF Stream
  <2>2. QED
    BY <2>1 DEF Stream
<1>4. Len(z) = m * (n + 1) + (x + 1)
  <2>1. m * (n + 1) \in Nat
    OBVIOUS
  <2>2. QED
    BY <1>1, <2>1
<1>5. QED
  BY <1>3, <1>4 DEF z

LEMMA HoldingAppended ==
  ASSUME NEW s \in Seq(Entries), NEW q \in Nat, NEW n \in Nat, NEW x \in 0 .. n,
         NEW y \in Entries, y = Record(x, q * n + x),
         Holding(s, q, x, n)
  PROVE  Holding(Append(s, y), q, x + 1, n)
<1>1. PICK m \in Nat, first \in Nat :
        /\ m = q % MinutesPerFile
        /\ first = (MinutesPerFile * (q \div MinutesPerFile)) * n
        /\ first + m * n = q * n
  BY FirstOfFile
<1>2. Len(s) = m * (n + 1) + x /\ Stream(s, first, n)
  BY <1>1 DEF Holding
<1>3. y = Record(x, first + m * n + x)
  BY <1>1
<1>4. /\ Len(Append(s, y)) = m * (n + 1) + (x + 1)
      /\ Stream(Append(s, y), first, n)
  BY <1>2, <1>3, StreamAppended
<1>5. QED
  BY <1>1, <1>4 DEF Holding

LEMMA HoldingNone ==
  ASSUME NEW q \in Nat, NEW n \in Nat, q % MinutesPerFile = 0
  PROVE  Holding(<< >>, q, 0, n)
<1>1. Len(<< >>) = 0 /\ 0 * (n + 1) + 0 = 0
  OBVIOUS
<1>2. QED
  BY <1>1 DEF Holding, Stream

(* The minute after q goes to the same file, or to the next.               *)
LEMMA NextMinute ==
  ASSUME NEW q \in Nat
  PROVE  /\ (q + 1) % MinutesPerFile # 0 =>
              /\ (q + 1) \div MinutesPerFile = q \div MinutesPerFile
              /\ (q + 1) % MinutesPerFile = (q % MinutesPerFile) + 1
         /\ (q + 1) % MinutesPerFile = 0 =>
              /\ (q + 1) \div MinutesPerFile = (q \div MinutesPerFile) + 1
              /\ (q % MinutesPerFile) + 1 = MinutesPerFile
<1> DEFINE M == MinutesPerFile
           d == q \div M
           r == q % M
           p == q + 1
<1>1. M \in Nat \ {0}
  BY MinutesAssumption
<1>2. /\ d \in Nat /\ r \in Nat /\ r < M /\ q = M * d + r /\ p = (M * d + r) + 1
      /\ p \in Nat
  BY <1>1, DivMod
<1> HIDE DEF M, d, r, p
<1>3. CASE r = M - 1
  <2> DEFINE c == d + 1
             z == 0
  <2>1. p = M * c + z /\ c \in Int /\ z \in Int /\ 0 <= z /\ z < M
    BY <1>1, <1>2, <1>3
  <2> HIDE DEF c, z
  <2>2. p \div M = c /\ p % M = z
    BY <1>1, <1>2, <2>1, ModIs
  <2>3. QED
    BY <1>1, <1>2, <1>3, <2>2 DEF M, d, r, p, c, z
<1>4. CASE r # M - 1
  <2> DEFINE z == r + 1
  <2>1. p = M * d + z /\ z \in Int /\ 0 <= z /\ z < M /\ z # 0
    BY <1>1, <1>2, <1>4
  <2> HIDE DEF z
  <2>2. p \div M = d /\ p % M = z
    BY <1>1, <1>2, <2>1, ModIs
  <2>3. QED
    BY <2>1, <2>2 DEF M, d, r, p, z
<1>5. QED
  BY <1>3, <1>4

LEMMA HoldingNext ==
  ASSUME NEW s, NEW q \in Nat, NEW n \in Nat, Holding(s, q, n + 1, n)
  PROVE  /\ (q + 1) % MinutesPerFile # 0 => Holding(s, q + 1, 0, n)
         /\ (q + 1) % MinutesPerFile = 0 =>
              /\ Len(s) = MinutesPerFile * (n + 1)
              /\ Stream(s, (MinutesPerFile * (q \div MinutesPerFile)) * n, n)
<1> DEFINE r == q % MinutesPerFile
           t == (q + 1) % MinutesPerFile
<1>1. r \in Nat /\ Len(s) = r * (n + 1) + (n + 1)
      /\ Stream(s, (MinutesPerFile * (q \div MinutesPerFile)) * n, n)
  BY FirstOfFile DEF Holding
<1>2. /\ t # 0 => t = r + 1 /\ (q + 1) \div MinutesPerFile = q \div MinutesPerFile
      /\ t = 0 => r + 1 = MinutesPerFile
  BY NextMinute
<1> HIDE DEF r
<1>3. Len(s) = (r + 1) * (n + 1)
  BY <1>1
<1>4. CASE t # 0
  <2>1. (r + 1) * (n + 1) = (r + 1) * (n + 1) + 0
    BY <1>1
  <2>2. QED
    BY <1>1, <1>2, <1>3, <1>4, <2>1 DEF Holding
<1>5. CASE t = 0
  BY <1>1, <1>2, <1>3, <1>5
<1>6. QED
  BY <1>4, <1>5
-----------------------------------------------------------------------------
(* Its steps: those of the port thread.                                    *)

LEMMA SoloActor ==
  ASSUME TypeOK, OneStarter, [Next]_vars, commands' = 0, alive'
  PROVE  /\ commands = 0 /\ alive
         /\ PrepareStart("port") \/ Receive \/ Handler \/ UNCHANGED vars
<1>1. commands \in Nat
  BY BoundsAssumption DEF TypeOK
<1>2. CASE PrepareStop
  BY <1>2, NetAsked
<1>3. CASE PrepareStart("net")
  <2>1. CASE NetStart
    BY <1>1, <2>1 DEF NetStart
  <2>2. CASE ~ NetStart
    <3>1. commands' = commands /\ pc["net"] # "idle"
      BY <1>3, <2>2
         DEF PrepareStart, CallStart, PortStart, WorkDir, Params, Mempool, Alloc, Close,
             Reset, StartDevice, Signal, Zero, At, hist
    <3>2. QED
      BY <3>1 DEF OneStarter
  <2>3. QED
    BY <2>1, <2>2
<1>4. CASE PrepareStart("port")
  BY <1>4
     DEF PrepareStart, CallStart, NetStart, PortStart, WorkDir, Params, Mempool, Alloc,
         Close, Reset, StartDevice, Signal, Zero, At, hist
<1>5. CASE Receive
  BY <1>5, PortUncounted
     DEF Receive, Poll, Get, CheckBuffers, LoadFlag, Select, Store, LoadCount,
         StoreCount, Minute, Raise, ClearCount, At, hist
<1>6. CASE Handler
  BY <1>6
     DEF Handler, HandlerFlag, Begin, Read, Rotate, Open, WriteHeader, WriteData,
         LoadMinutes, StoreMinutes, Restore, At, hist
<1>7. CASE UNCHANGED vars
  BY <1>7 DEF vars, process, hist
<1>8. QED
  BY <1>2, <1>3, <1>4, <1>5, <1>6, <1>7 DEF Next, Threads

LEMMA OwnRateStart ==
  ASSUME TypeOK, OwnRate, PrepareStart("port")
  PROVE  OwnRate'
<1> USE DEF OwnRate, Preparing
<1>1. /\ pc \in [Threads -> Labels] /\ "port" \in Threads
      /\ rate \in [Threads -> Rates \cup Refused \cup {0}]
      /\ dc \in Counters /\ Rates \subseteq Nat \ {0}
  BY RatesAssumption DEF TypeOK, Threads
<1>2. CASE PortStart
  <2>1. PICK r \in Rates : StartWith("port", r)
    BY <1>2 DEF PortStart
  <2>2. rate'["port"] \in Rates /\ pc'["port"] = "dir" /\ dc' = dc /\ heap' = heap
    BY <1>1, <2>1 DEF StartWith, Goto, buffers
  <2>3. QED
    BY <2>2 DEF NoneEmpty
<1>3. CASE Params("port")
  <2>1. /\ rate' = rate /\ pc["port"] = "params" /\ heap' = heap
        /\ dc'.pack_in_min = rate["port"]
    BY <1>1, <1>3 DEF Params, At, buffers, Counters
  <2>2. QED
    BY <1>1, <2>1 DEF NoneEmpty
<1>4. CASE Alloc("port")
  <2>1. dc' = dc /\ pc["port"] = "alloc" /\ pc'["port"] \in {"close", "get"}
    BY <1>1, <1>4 DEF Alloc, At, Goto, Return
  <2>2. dc.pack_in_min \in Nat \ {0}
    BY <1>1, <2>1
  <2>3. Len([k \in 1 .. dc.pack_in_min |-> Blank]) = dc.pack_in_min
    BY <2>2
  <2>4. /\ Len(heap) \in Nat
        /\ \A b \in 1 .. Len(heap) : heap'[b] = heap[b]
        /\ \A b \in 1 .. Len(heap') :
             b \in 1 .. Len(heap) \/ Len(heap'[b].data) = dc.pack_in_min
    <3> DEFINE l == Len(heap)
               full(b) == Len(heap'[b].data) = dc.pack_in_min
    <3>1. /\ l \in Nat
          /\ \A b \in 1 .. l : heap'[b] = heap[b]
          /\ \/ Len(heap') = l + 2 /\ full(l + 1) /\ full(l + 2)
             \/ Len(heap') = l + 1 /\ full(l + 1)
             \/ Len(heap') = l
      BY <1>1, <1>4, <2>3, AllocHeap
    <3> HIDE DEF l, full
    <3>2. \A b \in 1 .. Len(heap') : b \in 1 .. l \/ full(b)
      BY <3>1
    <3>3. QED
      BY <3>1, <3>2 DEF l, full
  <2>5. NoneEmpty'
    BY <2>2, <2>4 DEF NoneEmpty
  <2>6. QED
    BY <2>1, <2>5
<1>5. CASE WorkDir("port") \/ Mempool("port")
  <2>1. /\ rate' = rate /\ dc' = dc /\ heap' = heap
        /\ \/ pc["port"] = "dir" /\ pc'["port"] \in {"params", "get"}
           \/ pc["port"] = "mempool" /\ pc'["port"] \in {"alloc", "get"}
    BY <1>1, <1>5 DEF WorkDir, Mempool, At, Goto, Return, buffers
  <2>2. QED
    BY <2>1 DEF NoneEmpty
<1>6. CASE \/ Close("port") \/ Reset("port") \/ StartDevice("port") \/ Signal("port")
           \/ Zero("port")
  <2>1. /\ dc'.pack_in_min = dc.pack_in_min /\ heap' = heap
        /\ pc'["port"] \in {"reset", "device", "signal", "zero", "get"}
    BY <1>1, <1>6
       DEF Close, Reset, StartDevice, Signal, Zero, TryClose, Goto, Return, buffers,
           Counters
  <2>2. QED
    BY <2>1 DEF NoneEmpty
<1>7. QED
  BY <1>2, <1>3, <1>4, <1>5, <1>6 DEF PrepareStart, CallStart

LEMMA OwnRatePort ==
  ASSUME TypeOK, OwnRate, Receive \/ Handler
  PROVE  OwnRate'
<1>1. SameBlocks
  BY PortBlocks
<1>2. dc'.pack_in_min = dc.pack_in_min
  BY DEF Receive, Poll, Get, CheckBuffers, LoadFlag, Select, Store, LoadCount, StoreCount,
         Minute, Raise, ClearCount, Handler, HandlerFlag, Begin, Read, Rotate, Open,
         WriteHeader, WriteData, LoadMinutes, StoreMinutes, Restore, TypeOK, Counters
<1>3. pc'["port"] \notin Preparing
  <2>1. pc \in [Threads -> Labels] /\ "port" \in Threads
    BY DEF TypeOK, Threads
  <2>2. QED
    BY <2>1
       DEF Receive, Poll, Get, CheckBuffers, LoadFlag, Select, Store, LoadCount,
           StoreCount, Minute, Raise, ClearCount, Handler, HandlerFlag, Begin, Read,
           Rotate, Open, WriteHeader, WriteData, LoadMinutes, StoreMinutes, Restore,
           TryClose, Goto, Preparing
<1>4. NoneEmpty'
  BY <1>1 DEF OwnRate, NoneEmpty, SameBlocks
<1>5. QED
  BY <1>2, <1>3, <1>4 DEF OwnRate, Preparing

(* The recording begins with nothing.                                      *)
LEMMA NothingRecorded ==
  TypeOK /\ NothingYet /\ pc["port"] = "get" => Counting /\ Buffered /\ Filed
<1> SUFFICES ASSUME TypeOK, NothingYet, pc["port"] = "get"
             PROVE  Counting /\ Buffered /\ Filed
  OBVIOUS
<1> USE DEF NothingYet, Handling
<1>1. dc.pack_in_min \in Int
  BY DEF TypeOK, Counters
<1>2. Base = 0
  BY <1>1 DEF Base
<1>3. Counting
  BY <1>2 DEF Counting
<1>4. Buffered
  BY DEF Buffered, Holds
<1>5. Filed
  BY EmptySeq DEF Filed, Late
<1>6. QED
  BY <1>3, <1>4, <1>5

LEMMA SoloStart ==
  ASSUME TypeOK, TypeOK', OneStarter, SafeBody, SoloBody, commands = 0,
         PrepareStart("port")
  PROVE  SoloBody'
<1>1. ~ Recording
  <2>1. CASE CallStart("port")
    <3>1. Calls = 0
      BY <2>1, CallsNat DEF CallStart, PortStart, Calls
    <3>2. QED
      BY <3>1 DEF Recording, Ready, SafeBody, Before, NoBuffers
  <2>2. CASE ~ CallStart("port")
    <3>1. pc["port"] \in Starting
      BY <2>2
         DEF PrepareStart, WorkDir, Params, Mempool, Alloc, Close, Reset, StartDevice,
             Signal, Zero, At, Starting
    <3>2. QED
      BY <3>1 DEF Recording
  <2>3. QED
    BY <2>1, <2>2
<1>2. NothingYet /\ sigusr1 # "ignore"
  BY <1>1 DEF SoloBody
<1>3. files' = files /\ lastPack' = lastPack /\ sigusr1' \in {sigusr1, "handler"}
  BY DEF PrepareStart, CallStart, NetStart, PortStart, StartWith, WorkDir, Params, Mempool,
         Alloc, Close, Reset, StartDevice, Signal, Zero, file, device, hist
<1>4. open' = open /\ adc_fd' = adc_fd
  BY <1>2
     DEF PrepareStart, CallStart, NetStart, PortStart, StartWith, WorkDir, Params, Mempool,
         Alloc, Close, Reset, StartDevice, Signal, Zero, file, TryClose, NothingYet
<1>5. dc'.num_pack = 0 /\ dc'.sig_num_count = 0
  BY <1>2
     DEF PrepareStart, CallStart, NetStart, PortStart, StartWith, WorkDir, Params, Mempool,
         Alloc, Close, Reset, StartDevice, Signal, Zero, NothingYet, TypeOK, Counters
<1>6. NothingYet'
  BY <1>2, <1>3, <1>4, <1>5 DEF NothingYet
<1>7. pc'["port"] \in Starting \cup {"get"}
  BY DEF PrepareStart, CallStart, NetStart, PortStart, StartWith, WorkDir, Params, Mempool,
         Alloc, Close, Reset, StartDevice, Signal, Zero, TryClose, Goto, Return, At,
         Starting, TypeOK, Threads
<1>8. (TypeOK /\ NothingYet /\ pc["port"] = "get" => Counting /\ Buffered /\ Filed)'
  BY NothingRecorded, PTL
<1>9. QED
  BY <1>2, <1>3, <1>6, <1>7, <1>8 DEF SoloBody, Recording

(* Without the buffers, packets are dropped.                               *)
LEMMA SoloUnready ==
  ASSUME SafeBody, SoloBody, ~ Ready, Receive \/ Handler
  PROVE  SoloBody'
<1>1. pc["port"] \notin Taking /\ NothingYet /\ sigusr1 # "ignore"
  BY DEF SafeBody, Before, SoloBody, Recording
<1>2. Poll \/ Get \/ CheckBuffers
  BY <1>1
     DEF Receive, Handler, LoadFlag, Select, Store, LoadCount, StoreCount, Minute, Raise,
         ClearCount, HandlerFlag, Begin, Read, Rotate, Open, WriteHeader, WriteData,
         LoadMinutes, StoreMinutes, Restore, At, Taking, Handling
<1>3. /\ UNCHANGED <<dc, ping, pong, files, open, adc_fd, sigusr1>>
      /\ lastPack' = lastPack
  BY <1>2 DEF Poll, Get, CheckBuffers, buffers, file, device, hist, Ready
<1>4. NothingYet'
  BY <1>1, <1>3 DEF NothingYet
<1>5. QED
  BY <1>1, <1>3, <1>4 DEF SoloBody, Recording, Ready

(* What the port thread does on its way to the handler and back.           *)
LEMMA FiledKept ==
  ASSUME UNCHANGED <<files, open, adc_fd, lostFile, damaged, dc.num_pack,
                     dc.pack_in_min>>,
         Filed, pc["port"] # "open", pc'["port"] # "open",
         Late' <=> Late, adc_fd \in open => Cells' = Cells
  PROVE  Filed'
<1>1. Minutes' = Minutes
  BY DEF Minutes
<1>2. \A f \in 1 .. Len(files) : FullFile(f, dc.pack_in_min) => FullFile(f, dc.pack_in_min)'
  BY DEF FullFile
<1>3. QED
  BY <1>1, <1>2 DEF Filed

(* The numbers the proofs below do arithmetic with.                        *)
LEMMA SoloNat ==
  ASSUME TypeOK, SafeBody, Ready
  PROVE  /\ dc.pack_in_min \in Nat \ {0} /\ dc.num_pack \in Nat /\ Base \in Nat
         /\ dc.sig_num_count \in Nat /\ dc.sig_num_count <= dc.pack_in_min
         /\ lastPack \in Nat /\ local.count \in Nat /\ local.i \in Nat
<1>1. dc.pack_in_min \in Nat \ {0} /\ dc.num_pack \in Nat
  BY RoomPositive DEF SafeBody, TypeOK, Counters
<1>2. dc.sig_num_count <= dc.pack_in_min
  BY DEF SafeBody, Room
<1>3. Base \in Nat
  BY <1>1 DEF Base
<1>4. QED
  BY <1>1, <1>2, <1>3, OrderNat

(* A packet is stored behind those of its minute.                          *)
LEMMA SoloStored ==
  ASSUME TypeOK, SafeBody, OrderBody, Ready, Counting, Buffered, Store
  PROVE  /\ heap'[Filling].data = [FillingData EXCEPT ![dc.sig_num_count + 1] = lastPack]
         /\ lastPack = Base + (dc.sig_num_count + 1)
         /\ Holds(heap'[Filling].data, dc.sig_num_count + 1)
<1>1. pc["port"] = "store"
  BY DEF Store, At
<1>2. local.ptr = Filling /\ dc.sig_num_count < dc.pack_in_min
  BY <1>1 DEF OrderBody, Arriving, SafeBody, Room, Handling
<1>3. Mapped(dc.sig_num_count)
  BY <1>1, <1>2, SlotMapped DEF Using
<1>4. heap' = [heap EXCEPT ![Filling].data[dc.sig_num_count + 1] = lastPack]
  BY <1>2, <1>3 DEF Store
<1>5. Filling \in 1 .. Len(heap) /\ Filling \in {ping, pong}
  BY DEF Filling, Ready, TypeOK, Null
<1>6. heap'[Filling].data = [FillingData EXCEPT ![dc.sig_num_count + 1] = lastPack]
  BY <1>4, <1>5 DEF TypeOK, FillingData
<1>7. lastPack = Base + (dc.sig_num_count + 1)
  BY <1>1 DEF Counting, Handling
<1>8. Holds(FillingData, dc.sig_num_count)
  BY <1>1 DEF Buffered, Handling
<1>9. /\ FillingData \in Seq(Contents) /\ Len(FillingData) = dc.pack_in_min
      /\ dc.sig_num_count \in Nat /\ dc.pack_in_min \in Nat
  <2>0. heap \in Seq([live : BOOLEAN, data : Seq(Contents)])
    BY DEF TypeOK
  <2>1. FillingData \in Seq(Contents)
    <3>1. heap[Filling] \in [live : BOOLEAN, data : Seq(Contents)]
      BY <1>5, <2>0, ElementOfSeq, Zenon
    <3>2. QED
      BY <3>1 DEF FillingData
  <2>2. Len(FillingData) = dc.pack_in_min
    BY <1>5, Zenon DEF FillingData, SafeBody, Room
  <2>3. QED
    BY <2>1, <2>2, SoloNat
<1>10. Holds(heap'[Filling].data, dc.sig_num_count + 1)
  <2> SUFFICES ASSUME NEW j \in 1 .. dc.sig_num_count + 1
               PROVE  heap'[Filling].data[j] = Base + j
    BY DEF Holds
  <2>1. j \in 1 .. Len(FillingData) /\ (j # dc.sig_num_count + 1 => j \in 1 .. dc.sig_num_count)
    BY <1>2, <1>9
  <2>2. heap'[Filling].data[j] = IF j = dc.sig_num_count + 1 THEN lastPack ELSE FillingData[j]
    BY <1>6, <1>9, <2>1
  <2>3. QED
    BY <1>7, <1>8, <2>1, <2>2 DEF Holds
<1>11. QED
  BY <1>6, <1>7, <1>10

LEMMA SoloReceive ==
  ASSUME TypeOK, TypeOK', SafeBody, SafeBody', OrderBody, SoloBody, Ready, Receive, alive'
  PROVE  SoloBody'
<1> USE DEF Handling, At
<1>0. /\ lastPack \in Int /\ Base \in Int /\ dc.sig_num_count \in Int
      /\ dc.pack_in_min \in Int /\ dc.sig_num_count <= dc.pack_in_min
  BY SoloNat
<1>1. Counting /\ Buffered /\ Filed /\ sigusr1 # "ignore"
  <2>1. pc["port"] \notin Starting
    BY DEF Receive, Poll, Get, CheckBuffers, LoadFlag, Select, Store, LoadCount,
           StoreCount, Minute, Raise, ClearCount, Starting
  <2>2. QED
    BY <2>1 DEF SoloBody, Recording
<1>2. UNCHANGED <<files, open, adc_fd, lostFile, damaged, dc.num_pack, dc.pack_in_min,
                  ping, pong, sigusr1>>
  BY DEF Receive, Poll, Get, CheckBuffers, LoadFlag, Select, Store, LoadCount,
         StoreCount, Minute, Raise, ClearCount, file, hist, buffers, device, TypeOK,
         Counters
<1>3. Base' = Base /\ (Ready' <=> Ready)
  BY <1>2 DEF Base, Ready
<1>4. Filed'
  <2>1. /\ pc["port"] \notin {"read", "write", "header", "minutes", "open"}
        /\ pc'["port"] \notin {"read", "write", "header", "minutes", "open"}
    <3>1. pc \in [Threads -> Labels] /\ "port" \in Threads
      BY DEF TypeOK, Threads
    <3>2. QED
      BY <3>1 DEF Receive, Poll, Get, CheckBuffers, LoadFlag, Select, Store, LoadCount,
                  StoreCount, Minute, Raise, ClearCount, Goto
  <2>2. ~ Late /\ ~ Late' /\ Cells' = Cells
    BY <1>2, <2>1 DEF Late, Cells
  <2>3. QED
    BY <1>1, <1>2, <2>1, <2>2, FiledKept
<1>5. Counting' /\ Buffered'
  <2>0. /\ pc \in [Threads -> Labels] /\ "port" \in Threads /\ dc \in Counters
        /\ \E P : local \in [flag : {Pong, Ping}, ptr : P, count : Nat, i : Nat,
                              pack : Contents]
    BY DEF TypeOK, Threads
  <2> USE DEF Goto
  <2>1. CASE Poll \/ Get \/ CheckBuffers \/ LoadFlag \/ Select
    <3>1. /\ dc' = dc /\ heap' = heap /\ UNCHANGED <<ping, pong>>
          /\ pc["port"] \in {"outer", "get", "check", "flag", "select"}
          /\ pc'["port"] \in {"outer", "get", "check", "flag", "select", "store"}
      BY <2>0, <2>1 DEF Poll, Get, CheckBuffers, LoadFlag, Select, buffers
    <3>2. FillingData' = FillingData
      BY <3>1 DEF Filling, FillingData
    <3>3. Buffered'
      BY <1>1, <1>3, <3>1, <3>2 DEF Buffered, Holds
    <3>4. Counting'
      <4>1. CASE CheckBuffers
        <5>1. /\ pc["port"] = "check" /\ pc'["port"] = "flag"
              /\ lastPack' = lastPack + 1
          BY <2>0, <4>1 DEF CheckBuffers, Ready
        <5>2. lastPack = Base + dc.sig_num_count
          BY <1>1, <5>1 DEF Counting
        <5>3. lastPack' = Base' + (dc'.sig_num_count + 1)
          BY <1>0, <1>3, <3>1, <5>1, <5>2
        <5>4. QED
          BY <5>1, <5>3 DEF Counting
      <4>2. CASE ~ CheckBuffers
        <5>1. lastPack' = lastPack
          BY <2>0, <2>1, <4>2 DEF Poll, Get, LoadFlag, Select, hist
        <5>2. \/ pc["port"] \in {"outer", "get"} /\ pc'["port"] \in {"outer", "get", "check"}
              \/ pc["port"] \in {"flag", "select"} /\ pc'["port"] \in {"select", "store"}
          BY <2>0, <2>1, <4>2 DEF Poll, Get, LoadFlag, Select
        <5>3. QED
          BY <1>1, <1>3, <3>1, <5>1, <5>2 DEF Counting
      <4>3. QED
        BY <4>1, <4>2
    <3>5. QED
      BY <3>3, <3>4
  <2>2. CASE Store
    <3>1. /\ dc' = dc /\ pc'["port"] = "load" /\ lastPack' = lastPack /\ Filling' = Filling
      BY <1>2, <2>0, <2>2 DEF Store, hist, Filling
    <3>2. /\ lastPack = Base + (dc.sig_num_count + 1)
          /\ Holds(heap'[Filling].data, dc.sig_num_count + 1)
      BY <1>1, <2>2, SoloStored
    <3>3. Counting'
      BY <1>3, <3>1, <3>2 DEF Counting
    <3>4. Buffered'
      BY <1>3, <3>1, <3>2 DEF Buffered, Holds, FillingData
    <3>5. QED
      BY <3>3, <3>4
  <2>3. CASE LoadCount
    <3>1. /\ dc' = dc /\ pc["port"] = "load" /\ pc'["port"] = "inc" /\ lastPack' = lastPack
          /\ local'.count = dc.sig_num_count /\ FillingData' = FillingData
      BY <2>0, <2>3 DEF LoadCount, hist, Filling, FillingData, buffers
    <3>2. QED
      BY <1>1, <1>3, <3>1 DEF Counting, Buffered, Holds
  <2>4. CASE StoreCount
    <3>1. /\ dc'.sig_num_count = local.count + 1 /\ dc'.pack_in_min = dc.pack_in_min
          /\ pc["port"] = "inc" /\ pc'["port"] = "minute" /\ lastPack' = lastPack
          /\ FillingData' = FillingData
      BY <2>0, <2>4 DEF StoreCount, hist, Filling, FillingData, buffers, Counters
    <3>2. QED
      BY <1>1, <1>3, <3>1 DEF Counting, Buffered, Holds
  <2>5. CASE Minute /\ dc.sig_num_count >= dc.pack_in_min
    <3>1. /\ dc'.pack_in_min = dc.pack_in_min
          /\ dc.flag \in {Pong, Ping} /\ dc'.flag = 1 - dc.flag
          /\ pc["port"] = "minute" /\ pc'["port"] = "raise" /\ lastPack' = lastPack
          /\ heap' = heap /\ ping' = ping /\ pong' = pong
      BY <2>0, <2>5 DEF Minute, hist, buffers, Counters
    <3>2. Full' = Filling /\ FullData' = FillingData
      <4>1. (dc.flag = Pong /\ dc'.flag # Pong) \/ (dc.flag # Pong /\ dc'.flag = Pong)
        BY <3>1 DEF Pong, Ping
      <4>2. Full' = Filling
        BY <3>1, <4>1 DEF Full, Filling
      <4>3. QED
        BY <3>1, <4>2 DEF FullData, FillingData
    <3>3. dc.sig_num_count = dc.pack_in_min
      BY <1>0, <2>5
    <3>4. QED
      BY <1>1, <1>3, <3>1, <3>2, <3>3 DEF Counting, Buffered, Holds
  <2>6. CASE Minute /\ ~ (dc.sig_num_count >= dc.pack_in_min)
    <3>1. /\ dc' = dc /\ FillingData' = FillingData
          /\ pc["port"] = "minute" /\ pc'["port"] = "get" /\ lastPack' = lastPack
      BY <2>0, <2>6 DEF Minute, hist, buffers, Filling, FillingData
    <3>2. QED
      BY <1>1, <1>3, <3>1 DEF Counting, Buffered, Holds
  <2>7. CASE Raise
    <3>1. /\ dc' = dc /\ FullData' = FullData /\ lastPack' = lastPack
          /\ pc["port"] = "raise" /\ pc'["port"] = "handler"
      <4>1. sigusr1 = "handler"
        <5>1. sigusr1 # "default"
          BY <2>7, Zenon DEF Raise
        <5>2. QED
          BY <1>1, <5>1 DEF TypeOK
      <4>2. QED
        BY <2>0, <2>7, <4>1 DEF Raise, hist, buffers, Full, FullData
    <3>2. QED
      BY <1>1, <1>3, <3>1 DEF Counting, Buffered, Holds
  <2>8. CASE ClearCount
    <3>1. /\ dc'.sig_num_count = 0 /\ lastPack' = lastPack
          /\ pc["port"] = "clear" /\ pc'["port"] = "get"
      BY <2>0, <2>8 DEF ClearCount, hist, Counters
    <3>2. QED
      BY <1>1, <1>3, <3>1 DEF Counting, Buffered, Holds
  <2>9. QED
    BY <2>1, <2>2, <2>3, <2>4, <2>5, <2>6, <2>7, <2>8 DEF Receive
<1>6. pc'["port"] \notin Starting
  <2>1. pc \in [Threads -> Labels] /\ "port" \in Threads
    BY DEF TypeOK, Threads
  <2>2. QED
    BY <2>1
       DEF Receive, Poll, Get, CheckBuffers, LoadFlag, Select, Store, LoadCount,
           StoreCount, Minute, Raise, ClearCount, Goto, Starting
<1>7. QED
  BY <1>1, <1>2, <1>3, <1>4, <1>5, <1>6 DEF SoloBody, Recording

-----------------------------------------------------------------------------
(* Its steps in the handler.                                               *)

HandlerSteps == {"handler", "begin", "read", "rotate", "open", "header", "write",
                 "minutes"}

(* The handler leaves the counters and the buffers alone but for num_pack. *)
LEMMA SoloHandled ==
  ASSUME TypeOK, TypeOK', SafeBody, OrderBody, Ready, Counting, Buffered, Handler
  PROVE  /\ Ready' /\ sigusr1' \in {sigusr1, "handler"}
         /\ pc'["port"] \notin Starting
         /\ Counting' /\ Buffered'
<1>1. /\ lastPack' = lastPack /\ UNCHANGED buffers
      /\ sigusr1' \in {sigusr1, "handler"}
  BY DEF Handler, HandlerFlag, Begin, Read, Rotate, Open, WriteHeader, WriteData,
         LoadMinutes, StoreMinutes, Restore, hist, device
<1>2. /\ pc \in [Threads -> Labels] /\ "port" \in Threads /\ dc \in Counters
      /\ \E P : local \in [flag : {Pong, Ping}, ptr : P, count : Nat, i : Nat,
                            pack : Contents]
  BY DEF TypeOK, Threads
<1>3. /\ pc["port"] \in Handling
      /\ pc'["port"] \in HandlerSteps \cup {"restore", "clear"}
  BY <1>2
     DEF Handler, HandlerFlag, Begin, Read, Rotate, Open, WriteHeader, WriteData,
         LoadMinutes, StoreMinutes, Restore, At, Goto, TryClose, Handling, HandlerSteps
<1>4. /\ lastPack \in Int /\ dc.num_pack \in Int /\ dc.pack_in_min \in Int
      /\ dc.pack_in_min >= 1 /\ local.i \in Int
  BY SoloNat
<1>5. CASE StoreMinutes
  <2>1. /\ pc["port"] = "minutes" /\ pc'["port"] = "restore"
        /\ dc'.num_pack = local.count + 1 /\ dc'.pack_in_min = dc.pack_in_min
        /\ dc'.sig_num_count = dc.sig_num_count
    BY <1>2, <1>5 DEF StoreMinutes, At, Goto, Counters
  <2>2. local.count = dc.num_pack
    BY <2>1 DEF Buffered
  <2>3. lastPack = Base + dc.pack_in_min
    BY <2>1 DEF Counting, Handling
  <2>4. Base' = Base + dc.pack_in_min
    <3> DEFINE p == dc.num_pack
               n == dc.pack_in_min
    <3>1. Base' = (p + 1) * n /\ Base = p * n
      BY <2>1, <2>2 DEF Base
    <3>2. p \in Int /\ n \in Int
      BY <1>4
    <3> HIDE DEF p, n
    <3>3. (p + 1) * n = p * n + n
      BY <3>2
    <3>4. QED
      BY <3>1, <3>3 DEF n
  <2>5. Base' \in Int
    BY <1>4, <2>1, <2>2 DEF Base
  <2>6. Counting'
    BY <1>1, <1>4, <2>1, <2>3, <2>4, <2>5 DEF Counting, Handling
  <2>7. Buffered'
    BY <2>1 DEF Buffered, Handling
  <2>8. QED
    BY <1>1, <1>3, <2>6, <2>7 DEF Ready, buffers, Starting, HandlerSteps
<1>6. CASE ~ StoreMinutes
  <2>1. dc' = dc /\ Base' = Base /\ FullData' = FullData
    BY <1>1, <1>6
       DEF Handler, HandlerFlag, Begin, Read, Rotate, Open, WriteHeader, WriteData,
           LoadMinutes, Restore, Base, Full, FullData, buffers
  <2>2. CASE Restore
    <3>1. pc["port"] = "restore" /\ pc'["port"] = "clear"
      BY <1>2, <2>2 DEF Restore, At, Goto
    <3>2. Counting'
      BY <1>1, <2>1, <3>1 DEF Counting, Handling
    <3>3. Buffered'
      BY <3>1 DEF Buffered, Handling
    <3>4. QED
      BY <1>1, <1>3, <3>2, <3>3 DEF Ready, buffers, Starting, HandlerSteps
  <2>3. CASE ~ Restore
    <3>1. pc["port"] \in HandlerSteps \ {"minutes"} /\ pc'["port"] \in HandlerSteps
      BY <1>2, <1>6, <2>3
         DEF Handler, HandlerFlag, Begin, Read, Rotate, Open, WriteHeader, WriteData,
             LoadMinutes, At, Goto, TryClose, HandlerSteps
    <3>2. Counting'
      BY <1>1, <2>1, <3>1 DEF Counting, Handling, HandlerSteps
    <3>3. /\ pc'["port"] = "read" => local'.i <= dc.pack_in_min
          /\ pc'["port"] \in {"rotate", "open", "header"} => local'.i = 0
          /\ pc'["port"] = "minutes" => local'.count = dc.num_pack
      <4>1. CASE HandlerFlag \/ Begin
        <5>1. \/ pc'["port"] = "begin"
              \/ pc'["port"] = "read" /\ local'.i = 0
          BY <1>2, <4>1 DEF HandlerFlag, Begin, Goto
        <5>2. QED
          BY <1>4, <5>1
      <4>2. CASE Read
        <5>1. local'.i = local.i
          BY <1>2, <4>2 DEF Read
        <5>2. pc'["port"] \in {"rotate", "write"} /\ (pc'["port"] = "rotate" => local.i = 0)
          BY <1>2, <4>2 DEF Read, Goto
        <5>3. QED
          BY <5>1, <5>2
      <4>3. CASE Rotate \/ Open \/ WriteHeader
        <5>1. /\ local' = local /\ pc["port"] \in {"rotate", "open", "header"}
              /\ pc'["port"] \in {"open", "header", "write"}
          BY <1>2, <4>3 DEF Rotate, Open, WriteHeader, At, Goto, TryClose
        <5>2. QED
          BY <5>1 DEF Buffered
      <4>4. CASE WriteData
        <5>1. local'.i = local.i + 1 /\ pc["port"] = "write" /\ pc'["port"] = "read"
          BY <1>2, <4>4 DEF WriteData, At, Goto
        <5>2. local.i < dc.pack_in_min
          BY <5>1 DEF OrderBody, Writing
        <5>3. QED
          BY <1>4, <5>1, <5>2
      <4>5. CASE LoadMinutes
        BY <1>2, <4>5 DEF LoadMinutes, At, Goto
      <4>6. QED
        BY <1>6, <2>3, <4>1, <4>2, <4>3, <4>4, <4>5 DEF Handler
    <3>4. Holds(FullData, dc.pack_in_min)
      BY <3>1 DEF Buffered, Handling, HandlerSteps
    <3>5. Buffered'
      BY <2>1, <3>1, <3>3, <3>4 DEF Buffered, Holds, Handling, HandlerSteps
    <3>6. QED
      BY <1>1, <3>1, <3>2, <3>5 DEF Ready, buffers, Starting, HandlerSteps
  <2>4. QED
    BY <2>2, <2>3
<1>7. QED
  BY <1>5, <1>6

(* What the files of earlier minutes are to the minute p now recorded.     *)
LEMMA FiledNext ==
  ASSUME TypeOK, LastFile, SafeBody, Ready, Filed, pc["port"] = "rotate", adc_fd \in open
  PROVE  /\ dc.num_pack % MinutesPerFile # 0 =>
              /\ adc_fd \notin damaged =>
                   Holding(files[adc_fd], dc.num_pack, 0, dc.pack_in_min)
              /\ ~ lostFile => Len(files) = (dc.num_pack \div MinutesPerFile) + 1
         /\ dc.num_pack % MinutesPerFile = 0 =>
              /\ adc_fd \notin damaged => FullFile(adc_fd, dc.pack_in_min)
              /\ ~ lostFile => Len(files) = dc.num_pack \div MinutesPerFile
<1> DEFINE q == dc.num_pack - 1
           n == dc.pack_in_min
           s == files[adc_fd]
<1>1. n \in Nat /\ dc.num_pack = q + 1
  BY SoloNat
<1>2. /\ q \in Nat
      /\ adc_fd \notin damaged => Holding(s, q, n + 1, n)
      /\ ~ lostFile => Len(files) = (q \div MinutesPerFile) + 1
  BY DEF Filed, Minutes, Late, Cells
<1>3. adc_fd = Len(files) /\ Len(files) \in Nat
  <2>1. files \in Seq(Seq(Entries))
    BY DEF TypeOK
  <2>2. adc_fd # NoFile
    BY NoFileNotOpen
  <2>3. QED
    BY <2>1, <2>2, LenProperties DEF LastFile
<1> HIDE DEF q, n, s
<1>4. q \div MinutesPerFile \in Nat
      /\ (MinutesPerFile * (q \div MinutesPerFile)) * n \in Nat
  BY <1>1, <1>2, FirstOfFile
<1>5. CASE (q + 1) % MinutesPerFile # 0
  <2>1. adc_fd \notin damaged => Holding(s, q + 1, 0, n)
    BY <1>1, <1>2, <1>5, HoldingNext
  <2>2. (q + 1) \div MinutesPerFile = q \div MinutesPerFile
    BY <1>2, <1>5, NextMinute
  <2>3. QED
    BY <1>1, <1>2, <1>5, <2>1, <2>2 DEF n, s
<1>6. CASE (q + 1) % MinutesPerFile = 0
  <2>1. adc_fd \notin damaged =>
          /\ Len(s) = MinutesPerFile * (n + 1)
          /\ Stream(s, (MinutesPerFile * (q \div MinutesPerFile)) * n, n)
    BY <1>1, <1>2, <1>6, HoldingNext
  <2>2. (q + 1) \div MinutesPerFile = (q \div MinutesPerFile) + 1
    BY <1>2, <1>6, NextMinute
  <2>3. ~ lostFile => q \div MinutesPerFile = adc_fd - 1
    BY <1>2, <1>3, <1>4
  <2>4. adc_fd \notin damaged => FullFile(adc_fd, n)
    BY <1>4, <2>1, <2>3 DEF FullFile, s
  <2>5. QED
    BY <1>1, <1>2, <1>6, <2>2, <2>4 DEF n
<1>7. QED
  BY <1>5, <1>6

LEMMA SoloRotate ==
  ASSUME TypeOK, LastFile, SafeBody, Ready, Filed, Rotate
  PROVE  Filed'
<1>1. /\ pc["port"] = "rotate" /\ dc' = dc /\ files' = files /\ adc_fd' = adc_fd
      /\ lostFile' = lostFile /\ damaged' = damaged
  BY DEF Rotate, At, hist
<1>2. pc'["port"] \in {"header", "open"}
  BY DEF Rotate, TryClose, Goto, TypeOK, Threads
<1>3. \A f \in 1 .. Len(files) : FullFile(f, dc.pack_in_min) => FullFile(f, dc.pack_in_min)'
  BY <1>1 DEF FullFile
<1>4. /\ \A f \in 1 .. Len(files) :
           f \notin open \cup damaged => FullFile(f, dc.pack_in_min)
      /\ adc_fd \notin open /\ ~ lostFile =>
           dc.num_pack = 0 /\ files = << >> /\ adc_fd = NoFile
  BY <1>1 DEF Filed
<1>5. dc.num_pack \in Nat /\ MinutesPerFile \in Nat \ {0}
  BY SoloNat, MinutesAssumption
<1>6. 0 % MinutesPerFile = 0 /\ 0 \div MinutesPerFile = 0
  <2> DEFINE z == 0
  <2>1. z \in Int /\ z = MinutesPerFile * z + z /\ 0 <= z /\ z < MinutesPerFile
    BY <1>5
  <2> HIDE DEF z
  <2>2. z \div MinutesPerFile = z /\ z % MinutesPerFile = z
    BY <1>5, <2>1, ModIs
  <2>3. QED
    BY <2>2 DEF z
<1>7. CASE dc.num_pack % MinutesPerFile # 0
  <2>1. pc'["port"] = "header" /\ open' = open
    BY <1>7 DEF Rotate, Goto, TypeOK, Threads
  <2>2. adc_fd \notin open => lostFile
    BY <1>4, <1>6, <1>7
  <2>3. Late' /\ Minutes' = dc.num_pack /\ Cells' = 0
    BY <1>1, <2>1 DEF Late, Minutes, Cells
  <2>4. adc_fd \in open =>
          /\ adc_fd \notin damaged =>
               Holding(files[adc_fd], dc.num_pack, 0, dc.pack_in_min)
          /\ ~ lostFile => Len(files) = (dc.num_pack \div MinutesPerFile) + 1
    BY <1>1, <1>7, FiledNext
  <2>5. QED
    BY <1>1, <1>3, <1>4, <1>5, <2>1, <2>2, <2>3, <2>4 DEF Filed
<1>8. CASE dc.num_pack % MinutesPerFile = 0 /\ adc_fd \in open
  <2>1. pc'["port"] = "open" /\ open' = open \ {adc_fd}
    BY <1>8, NoFileNotOpen DEF Rotate, TryClose, Goto, TypeOK, Threads
  <2>2. /\ adc_fd \notin damaged => FullFile(adc_fd, dc.pack_in_min)
        /\ ~ lostFile => Len(files) = dc.num_pack \div MinutesPerFile
    BY <1>1, <1>8, FiledNext
  <2>3. \A f \in 1 .. Len(files) :
          f \notin open' \cup damaged => FullFile(f, dc.pack_in_min)
    BY <1>4, <2>1, <2>2
  <2>4. QED
    BY <1>1, <1>3, <1>8, <2>1, <2>2, <2>3 DEF Filed
<1>9. CASE dc.num_pack % MinutesPerFile = 0 /\ adc_fd \notin open
  <2>1. open' = open
    BY <1>9 DEF Rotate, TryClose
  <2>2. CASE adc_fd = NoFile
    <3>1. pc'["port"] = "open"
      BY <1>9, <2>2 DEF Rotate, Goto, TypeOK, Threads
    <3>2. ~ lostFile => Len(files) = dc.num_pack \div MinutesPerFile
      BY <1>4, <1>6, <1>9, EmptySeq
    <3>3. QED
      BY <1>1, <1>3, <1>4, <1>9, <2>1, <3>1, <3>2 DEF Filed
  <2>3. CASE adc_fd # NoFile
    <3>1. pc'["port"] = "header" /\ lostFile
      BY <1>4, <1>9, <2>3 DEF Rotate, TryClose, Goto, TypeOK, Threads
    <3>2. QED
      BY <1>1, <1>3, <1>4, <1>9, <2>1, <3>1 DEF Filed
  <2>4. QED
    BY <2>2, <2>3
<1>10. QED
  BY <1>7, <1>8, <1>9

LEMMA SoloOpen ==
  ASSUME TypeOK, TypeOK', SafeBody, Ready, Filed, Open
  PROVE  Filed'
<1>1. pc["port"] = "open" /\ pc'["port"] = "header" /\ dc' = dc /\ damaged' = damaged
  BY DEF Open, At, Goto, TypeOK, Threads
<1>2. Late' /\ Minutes' = dc.num_pack /\ Cells' = 0
  BY <1>1 DEF Late, Minutes, Cells
<1>3. /\ dc.num_pack \in Nat /\ dc.pack_in_min \in Nat
      /\ dc.num_pack % MinutesPerFile = 0
      /\ ~ lostFile => Len(files) = dc.num_pack \div MinutesPerFile
      /\ \A f \in 1 .. Len(files) :
           f \notin open \cup damaged => FullFile(f, dc.pack_in_min)
  BY <1>1, SoloNat DEF Filed
<1>4. CASE adc_fd' = NoFile /\ lostFile' = TRUE /\ open' = open /\ files' = files
  <2>1. NoFile \notin open
    <3>1. open \subseteq 1 .. Len(files)
      BY DEF TypeOK
    <3>2. QED
      BY <3>1 DEF NoFile
  <2>2. \A f \in 1 .. Len(files) : FullFile(f, dc.pack_in_min) => FullFile(f, dc.pack_in_min)'
    BY <1>1, <1>4 DEF FullFile
  <2>3. QED
    BY <1>1, <1>2, <1>3, <1>4, <2>1, <2>2 DEF Filed
<1>5. CASE /\ files' = Append(files, << >>) /\ adc_fd' = Len(files) + 1
           /\ open' = open \cup {Len(files) + 1} /\ lostFile' = lostFile
  <2>1. /\ Len(files) \in Nat /\ Len(files') = Len(files) + 1
        /\ files'[Len(files) + 1] = << >>
        /\ \A f \in 1 .. Len(files) : files'[f] = files[f]
    <3>1. files \in Seq(Seq(Entries))
      BY DEF TypeOK
    <3>2. << >> \in Seq(Entries)
      BY EmptySeq
    <3>3. QED
      BY <1>5, <3>1, <3>2, AppendProperties, LenProperties
  <2>2. \A f \in 1 .. Len(files) : FullFile(f, dc.pack_in_min) => FullFile(f, dc.pack_in_min)'
    BY <1>1, <1>5, <2>1 DEF FullFile
  <2>3. ASSUME NEW f \in 1 .. Len(files'), f \notin open' \cup damaged'
        PROVE  FullFile(f, dc.pack_in_min)'
    <3>1. f \in 1 .. Len(files) /\ f \notin open \cup damaged
      BY <1>1, <1>5, <2>1, <2>3
    <3>2. QED
      BY <1>3, <2>2, <3>1
  <2>4. Holding(files'[adc_fd'], dc.num_pack, 0, dc.pack_in_min)
    BY <1>3, <1>5, <2>1, HoldingNone
  <2>5. ~ lostFile' => Len(files') = (dc.num_pack \div MinutesPerFile) + 1
    BY <1>3, <1>5, <2>1
  <2>6. adc_fd' \in open'
    BY <1>5
  <2>7. QED
    BY <1>1, <1>2, <1>3, <2>3, <2>4, <2>5, <2>6 DEF Filed
<1>6. QED
  BY <1>4, <1>5 DEF Open

(* One record more in the file of minute num_pack.                         *)
LEMMA SoloWritten ==
  ASSUME TypeOK, TypeOK', SafeBody, Ready, Filed, NEW y \in Entries, WriteFile(y),
         UNCHANGED <<open, adc_fd, lostFile, dc>>,
         Late, Late', pc'["port"] # "open",
         adc_fd \in open =>
           Cells \in 0 .. dc.pack_in_min /\ Cells' = Cells + 1
             /\ y = Record(Cells, dc.num_pack * dc.pack_in_min + Cells)
  PROVE  Filed'
<1>1. Minutes = dc.num_pack /\ Minutes' = dc.num_pack
  BY DEF Minutes
<1>2. dc.num_pack \in Nat /\ dc.pack_in_min \in Nat
  BY SoloNat
<1>3. /\ \A f \in 1 .. Len(files) :
           f \notin open \cup damaged => FullFile(f, dc.pack_in_min)
      /\ adc_fd \notin open => lostFile
      /\ adc_fd \in open =>
           /\ adc_fd \notin damaged =>
                Holding(files[adc_fd], dc.num_pack, Cells, dc.pack_in_min)
           /\ ~ lostFile => Len(files) = (dc.num_pack \div MinutesPerFile) + 1
  <2>1. pc["port"] # "open"
    BY DEF Late
  <2>2. /\ \A f \in 1 .. Len(files) :
             f \notin open \cup damaged => FullFile(f, dc.pack_in_min)
        /\ adc_fd \notin open => lostFile
    BY <2>1, Zenon DEF Filed
  <2>3. QED
    BY <1>1, <2>2 DEF Filed
<1>4. CASE adc_fd \notin open
  <2>1. files' = files /\ damaged' = damaged
    BY <1>4, WriteCases
  <2>2. \A f \in 1 .. Len(files) : FullFile(f, dc.pack_in_min) => FullFile(f, dc.pack_in_min)'
    BY <2>1 DEF FullFile
  <2>3. QED
    BY <1>3, <1>4, <2>1, <2>2 DEF Filed
<1>5. CASE adc_fd \in open
  <2>1. files \in DataFiles /\ adc_fd \in 1 .. Len(files)
    BY <1>5, NoFileNotOpen DEF TypeOK, DataFiles, Entries
  <2>2. /\ Len(files') = Len(files) /\ damaged \subseteq damaged'
        /\ \A f \in 1 .. Len(files) : f # adc_fd => files'[f] = files[f]
    BY <2>1, WriteCases, WriteType DEF Adds, DataFiles
  <2>3. adc_fd \notin damaged' =>
          Holding(files'[adc_fd], dc.num_pack, Cells + 1, dc.pack_in_min)
    <3> SUFFICES ASSUME adc_fd \notin damaged'
                 PROVE  Holding(files'[adc_fd], dc.num_pack, Cells + 1, dc.pack_in_min)
      OBVIOUS
    <3>1. Adds(y) /\ adc_fd \notin damaged
      BY <1>5, WriteCases
    <3>2. files[adc_fd] \in Seq(Entries) /\ files'[adc_fd] = Append(files[adc_fd], y)
      BY <2>1, <3>1, ElementOfSeq DEF DataFiles, Adds
    <3>3. QED
      BY <1>2, <1>3, <1>5, <3>1, <3>2, HoldingAppended
  <2>4. ASSUME NEW f \in 1 .. Len(files'), f \notin open' \cup damaged'
        PROVE  FullFile(f, dc.pack_in_min)'
    <3>1. FullFile(f, dc.pack_in_min) /\ files'[f] = files[f]
      BY <1>3, <1>5, <2>2, <2>4
    <3>2. QED
      BY <3>1 DEF FullFile
  <2>5. QED
    BY <1>1, <1>2, <1>3, <1>5, <2>2, <2>3, <2>4 DEF Filed
<1>6. QED
  BY <1>4, <1>5

LEMMA SoloWrite ==
  ASSUME TypeOK, TypeOK', SafeBody, OrderBody, Ready, Buffered, Filed,
         WriteHeader \/ WriteData
  PROVE  Filed'
<1>1. /\ pc \in [Threads -> Labels] /\ "port" \in Threads
      /\ \E P : local \in [flag : {Pong, Ping}, ptr : P, count : Nat, i : Nat,
                            pack : Contents]
  BY DEF TypeOK, Threads
<1>2. UNCHANGED <<open, adc_fd, lostFile, dc>>
  BY DEF WriteHeader, WriteData, hist
<1>3. local.i \in Nat /\ dc.pack_in_min \in Nat
  BY SoloNat
<1>4. CASE WriteHeader
  <2>1. /\ pc["port"] = "header" /\ pc'["port"] = "write" /\ local'.i = local.i
    BY <1>1, <1>4 DEF WriteHeader, At, Goto
  <2>2. local.i = 0
    BY <2>1 DEF Buffered
  <2>3. Late /\ Late' /\ Cells = 0 /\ Cells' = 1
    BY <2>1, <2>2 DEF Late, Cells
  <2>4. Header \in Entries /\ Header = Record(0, dc.num_pack * dc.pack_in_min + 0)
    BY DEF Entries, Record
  <2>5. QED
    BY <1>2, <1>3, <1>4, <2>1, <2>3, <2>4, SoloWritten DEF WriteHeader
<1>5. CASE WriteData
  <2>1. /\ pc["port"] = "write" /\ pc'["port"] = "read" /\ local'.i = local.i + 1
        /\ local.pack \in Entries
    BY <1>1, <1>5 DEF WriteData, At, Goto, Entries
  <2>2. local.i < dc.pack_in_min /\ local.pack = FullData[local.i + 1]
    BY <2>1 DEF OrderBody, Writing
  <2>3. Holds(FullData, dc.pack_in_min)
    BY <2>1 DEF Buffered, Handling
  <2>4. local.pack = Base + (local.i + 1)
    BY <1>3, <2>2, <2>3 DEF Holds
  <2>5. Late /\ Late' /\ Cells = local.i + 1 /\ Cells' = (local.i + 1) + 1
    BY <1>3, <2>1 DEF Late, Cells
  <2>6. /\ Cells \in 0 .. dc.pack_in_min
        /\ local.pack = Record(Cells, dc.num_pack * dc.pack_in_min + Cells)
    BY <1>3, <2>2, <2>4, <2>5 DEF Record, Base
  <2>7. QED
    BY <1>2, <1>5, <2>1, <2>5, <2>6, SoloWritten DEF WriteData
<1>6. QED
  BY <1>4, <1>5

(* The minute is counted once the file has all of it.                      *)
LEMMA SoloCounted ==
  ASSUME TypeOK, Buffered, Filed, StoreMinutes
  PROVE  Filed'
<1>1. /\ pc["port"] = "minutes" /\ pc'["port"] = "restore"
      /\ dc'.num_pack = local.count + 1 /\ dc'.pack_in_min = dc.pack_in_min
      /\ UNCHANGED <<open, adc_fd, lostFile, files, damaged>>
  BY DEF StoreMinutes, At, Goto, TypeOK, Counters, Threads, hist, file
<1>2. local.count = dc.num_pack /\ dc.num_pack \in Nat
  BY <1>1 DEF Buffered, TypeOK, Counters
<1>3. /\ Late /\ ~ Late' /\ Minutes = dc.num_pack /\ Minutes' = dc.num_pack
      /\ Cells' = Cells
  BY <1>1, <1>2 DEF Late, Minutes, Cells
<1>4. \A f \in 1 .. Len(files) : FullFile(f, dc.pack_in_min) => FullFile(f, dc.pack_in_min)'
  BY <1>1 DEF FullFile
<1>5. QED
  BY <1>1, <1>3, <1>4 DEF Filed

LEMMA SoloHandler ==
  ASSUME TypeOK, TypeOK', LastFile, SafeBody, OrderBody, SoloBody, Ready, Handler
  PROVE  SoloBody'
<1>1. /\ pc \in [Threads -> Labels] /\ "port" \in Threads
      /\ \E P : local \in [flag : {Pong, Ping}, ptr : P, count : Nat, i : Nat,
                            pack : Contents]
  BY DEF TypeOK, Threads
<1>2. pc["port"] \notin Starting
  BY DEF Handler, HandlerFlag, Begin, Read, Rotate, Open, WriteHeader, WriteData,
         LoadMinutes, StoreMinutes, Restore, At, Starting
<1>3. Counting /\ Buffered /\ Filed /\ sigusr1 # "ignore"
  BY <1>2 DEF SoloBody, Recording
<1>4. /\ Ready' /\ sigusr1' # "ignore" /\ pc'["port"] \notin Starting
      /\ Counting' /\ Buffered'
  BY <1>3, SoloHandled
<1>5. local.i \in Nat /\ dc.pack_in_min \in Nat \ {0}
  BY SoloNat
<1>6. Filed'
  <2>1. ASSUME \/ HandlerFlag \/ Begin \/ Read \/ LoadMinutes \/ Restore
        PROVE  UNCHANGED <<files, open, adc_fd, lostFile, damaged, dc.num_pack,
                           dc.pack_in_min>>
    BY <2>1 DEF HandlerFlag, Begin, Read, LoadMinutes, Restore, file, hist
  <2>2. CASE HandlerFlag \/ Begin \/ Restore
    <3>1. /\ pc["port"] \in {"handler", "begin", "restore"}
          /\ pc'["port"] \in {"begin", "read", "clear"}
          /\ pc'["port"] = "read" => local'.i = 0
      BY <1>1, <2>2 DEF HandlerFlag, Begin, Restore, At, Goto
    <3>2. ~ Late /\ ~ Late' /\ Cells = dc.pack_in_min + 1 /\ Cells' = dc'.pack_in_min + 1
      BY <3>1 DEF Late, Cells
    <3>3. QED
      BY <1>3, <2>1, <2>2, <3>1, <3>2, FiledKept
  <2>3. CASE Read
    <3>1. /\ pc["port"] = "read" /\ local'.i = local.i
          /\ pc'["port"] = IF local.i = 0 THEN "rotate" ELSE "write"
      BY <1>1, <2>3 DEF Read, At, Goto
    <3>2. (Late' <=> Late) /\ Cells' = Cells
      BY <2>1, <2>3, <3>1 DEF Late, Cells
    <3>3. QED
      BY <1>3, <2>1, <2>3, <3>1, <3>2, FiledKept
  <2>4. CASE LoadMinutes
    <3>1. /\ pc["port"] = "read" /\ local.i >= dc.pack_in_min
          /\ pc'["port"] = "minutes"
      BY <1>1, <2>4 DEF LoadMinutes, At, Goto
    <3>2. local.i = dc.pack_in_min
      BY <1>3, <1>5, <3>1 DEF Buffered
    <3>3. Late /\ Late' /\ Cells' = Cells
      BY <1>5, <2>1, <2>4, <3>1, <3>2 DEF Late, Cells
    <3>4. QED
      BY <1>3, <2>1, <2>4, <3>1, <3>3, FiledKept
  <2>5. QED
    BY <1>3, <2>2, <2>3, <2>4, SoloRotate, SoloOpen, SoloWrite, SoloCounted DEF Handler
<1>7. QED
  BY <1>4, <1>6 DEF SoloBody, Recording

LEMMA SoloStep ==
  ASSUME TypeOK, TypeOK', OneStarter, LastFile, SafeInv, SafeInv', OrderInv, SoloInv,
         [Next]_vars
  PROVE  SoloInv'
<1> SUFFICES ASSUME commands' = 0, alive' PROVE OwnRate' /\ SoloBody'
  BY DEF SoloInv
<1>1. /\ commands = 0 /\ alive
      /\ PrepareStart("port") \/ Receive \/ Handler \/ UNCHANGED vars
  BY SoloActor
<1>2. OwnRate /\ SoloBody
  BY <1>1 DEF SoloInv
<1>3. CASE UNCHANGED vars
  BY <1>2, <1>3
     DEF vars, counters, buffers, file, device, hist, OwnRate, NoneEmpty, SoloBody,
         Recording, NothingYet, Ready, Counting, Base, Buffered, Holds, Filling, Full,
         FillingData, FullData, Filed, FullFile, Minutes, Cells, Late
<1>4. CASE ~ UNCHANGED vars
  <2>1. OwnRate'
    BY <1>1, <1>2, <1>4, OwnRateStart, OwnRatePort
  <2>2. OneStart /\ OneStart'
    <3>1. Calls <= 1 /\ Calls' <= 1
      BY <1>1 DEF Calls
    <3>2. QED
      BY <1>2, <2>1, <3>1 DEF OneStart, OwnRate
  <2>3. SafeBody /\ SafeBody' /\ OrderBody
    BY <2>2 DEF SafeInv, OrderInv
  <2>4. CASE PrepareStart("port")
    BY <1>1, <1>2, <2>1, <2>3, <2>4, SoloStart
  <2>5. CASE (Receive \/ Handler) /\ ~ Ready
    BY <1>2, <2>1, <2>3, <2>5, SoloUnready
  <2>6. CASE Receive /\ Ready
    BY <1>2, <2>1, <2>3, <2>6, SoloReceive
  <2>7. CASE Handler /\ Ready
    BY <1>2, <2>1, <2>3, <2>7, SoloHandler
  <2>8. QED
    BY <1>1, <1>4, <2>4, <2>5, <2>6, <2>7
<1>5. QED
  BY <1>3, <1>4

-----------------------------------------------------------------------------
(* What that says of the files.                                            *)

LEMMA PlaceWithin ==
  ASSUME NEW n \in Nat, NEW m \in Nat, NEW k \in 0 .. m - 1, NEW x \in 0 .. n
  PROVE  Place(k, x, n) \in 1 .. m * (n + 1)
<1> DEFINE c == n + 1
           d == m - 1 - k
<1>1. c \in Nat /\ d \in Nat /\ k \in Nat /\ m = k + 1 + d
  OBVIOUS
<1>2. Place(k, x, n) = k * c + x + 1 /\ x + 1 \in 1 .. c
  BY DEF Place
<1> HIDE DEF c, d
<1>3. m * c = k * c + c + d * c /\ k * c \in Nat /\ d * c \in Nat
  BY <1>1
<1>4. QED
  BY <1>1, <1>2, <1>3 DEF c

(* Whole minutes: how many, what each is, and what they are together.      *)
LEMMA WholeMinutes ==
  ASSUME NEW s \in Seq(Entries), NEW first \in Nat, NEW n \in Nat \ {0}, NEW m \in Nat,
         Len(s) = m * (n + 1), Stream(s, first, n)
  PROVE  /\ Len(s) \div (n + 1) = m
         /\ \A k \in 0 .. m - 1 : IsMinute(s, k * (n + 1) + 1, n)
         /\ s = FileOf(first, m, n)
<1>1. Len(s) \div (n + 1) = m
  <2> DEFINE c == n + 1
             z == 0
             l == Len(s)
  <2>1. c \in Nat \ {0} /\ l \in Int /\ l = c * m + z /\ z \in Int /\ 0 <= z /\ z < c
    BY LenProperties
  <2> HIDE DEF c, z, l
  <2>2. l \div c = m
    BY <2>1, ModIs
  <2>3. QED
    BY <2>2 DEF c, l
<1>2. ASSUME NEW k \in 0 .. m - 1, NEW x \in 0 .. n
      PROVE  s[Place(k, x, n)] = Record(x, first + k * n + x)
  <2>1. Place(k, x, n) \in 1 .. Len(s) /\ k \in Nat
    <3>1. Place(k, x, n) \in 1 .. m * (n + 1)
      BY PlaceWithin
    <3>2. QED
      BY <3>1
  <2>2. s[Place(k, x, n)] = Cell(first, n, Place(k, x, n))
    BY <2>1 DEF Stream
  <2>3. QED
    BY <2>1, <2>2, CellAt
<1>3. ASSUME NEW k \in 0 .. m - 1
      PROVE  IsMinute(s, k * (n + 1) + 1, n)
  <2> DEFINE h == k * (n + 1) + 1
             a == first + k * n
  <2>1. h \in Int /\ a \in Int /\ k \in Nat
    OBVIOUS
  <2>2. \A x \in 0 .. n : Place(k, x, n) = h + x
    BY <2>1 DEF Place
  <2>3. \A x \in 0 .. n : s[h + x] = Record(x, a + x)
    BY <1>2, <2>2
  <2> HIDE DEF h, a
  <2>4. s[h] = Header
    <3>1. 0 \in 0 .. n /\ h + 0 = h
      BY <2>1
    <3>2. s[h + 0] = Header
      BY <2>3, <3>1 DEF Record
    <3>3. QED
      BY <3>1, <3>2
  <2>5. \A j \in 1 .. n : s[h + j] = a + j
    BY <2>3 DEF Record
  <2>6. s[h + 1] = a + 1
    BY <2>5
  <2>7. IsMinute(s, h, n)
    BY <2>1, <2>4, <2>5, <2>6 DEF IsMinute
  <2>8. QED
    BY <2>7 DEF h
<1>4. s = FileOf(first, m, n)
  <2>1. s = [p \in 1 .. Len(s) |-> s[p]]
    BY LenProperties
  <2>2. \A p \in 1 .. Len(s) : s[p] = Cell(first, n, p)
    BY DEF Stream
  <2>3. s = [p \in 1 .. m * (n + 1) |-> Cell(first, n, p)]
    BY <2>1, <2>2
  <2>4. FileOf(first, m, n) = [p \in 1 .. m * (n + 1) |-> Cell(first, n, p)]
    BY DEF FileOf, Cell
  <2>5. QED
    BY <2>3, <2>4
<1>5. QED
  BY <1>1, <1>3, <1>4

(* What the port thread finds when it is back for the next packet.         *)
AtRest == At("port", "get") /\ commands = 0

LEMMA RestingNothing ==
  ASSUME SoloInv, AtRest, ~ Ready
  PROVE  NothingYet
<1>1. ~ Recording /\ alive /\ commands = 0
  BY DEF AtRest, Recording, At
<1>2. QED
  BY <1>1 DEF SoloInv, SoloBody

LEMMA RestingRecorded ==
  ASSUME TypeOK, SafeInv, SoloInv, AtRest, Ready
  PROVE  /\ SafeBody /\ Filed /\ ~ Late
         /\ Cells = dc.pack_in_min + 1 /\ Minutes = dc.num_pack - 1
         /\ dc.sig_num_count < dc.pack_in_min
         /\ lastPack = Base + dc.sig_num_count
<1>1. pc["port"] = "get" /\ alive /\ commands = 0
  BY DEF AtRest, At
<1>2. check \in BOOLEAN
  BY DEF TypeOK
<1>3. SafeBody
  BY <1>1, <1>2 DEF SafeInv, Calls, OneStart, SoloInv, OwnRate
<1>4. Recording
  BY <1>1 DEF Recording, Starting
<1>5. Filed /\ Counting
  BY <1>1, <1>4 DEF SoloInv, SoloBody
<1>6. ~ Late /\ Cells = dc.pack_in_min + 1 /\ Minutes = dc.num_pack - 1
  BY <1>1 DEF Late, Cells, Minutes
<1>7. lastPack = Base + dc.sig_num_count
  BY <1>1, <1>5 DEF Counting, Handling
<1>8. dc.sig_num_count < dc.pack_in_min
  BY <1>1, <1>3 DEF SafeBody, Room, Handling
<1>9. QED
  BY <1>3, <1>5, <1>6, <1>7, <1>8

(* The file that is open then: whole minutes, but no more than it may have.*)
LEMMA OpenFile ==
  ASSUME TypeOK, LastFile, SafeInv, SoloInv, AtRest, Ready, adc_fd \in open
  PROVE  \E q \in Nat :
           /\ q + 1 = dc.num_pack
           /\ adc_fd \notin damaged =>
                /\ Len(files[adc_fd])
                     = ((q % MinutesPerFile) + 1) * (dc.pack_in_min + 1)
                /\ Stream(files[adc_fd],
                          (MinutesPerFile * (q \div MinutesPerFile)) * dc.pack_in_min,
                          dc.pack_in_min)
           /\ ~ lostFile => Len(files) = (q \div MinutesPerFile) + 1
<1> DEFINE q == dc.num_pack - 1
           n == dc.pack_in_min
           r == q % MinutesPerFile
<1>1. SafeBody /\ Filed /\ Cells = n + 1 /\ Minutes = q
  BY RestingRecorded
<1>2. n \in Nat /\ dc.num_pack \in Nat
  BY <1>1, SoloNat
<1>3. /\ q \in Nat
      /\ adc_fd \notin damaged => Holding(files[adc_fd], q, n + 1, n)
      /\ ~ lostFile => Len(files) = (q \div MinutesPerFile) + 1
  BY <1>1 DEF Filed
<1>4. q + 1 = dc.num_pack
  BY <1>2
<1>5. r \in Nat
  BY <1>3, FirstOfFile
<1> HIDE DEF q, n
<1>6. adc_fd \notin damaged =>
        /\ Len(files[adc_fd]) = r * (n + 1) + (n + 1)
        /\ Stream(files[adc_fd], (MinutesPerFile * (q \div MinutesPerFile)) * n, n)
  BY <1>3 DEF Holding
<1> HIDE DEF r
<1>7. r * (n + 1) + (n + 1) = (r + 1) * (n + 1)
  BY <1>2, <1>5
<1>8. QED
  BY <1>3, <1>4, <1>6, <1>7 DEF n, r

LEMMA LayoutAtRest ==
  ASSUME TypeOK, NoStrayFile, LastFile, SafeInv, SoloInv
  PROVE  FileLayout
<1> SUFFICES ASSUME AtRest, NEW f \in (1 .. Len(files)) \ damaged
             PROVE  LET n == dc.pack_in_min
                        m == Len(files[f]) \div (n + 1)
                    IN  /\ Len(files[f]) = m * (n + 1)
                        /\ m \in 1 .. MinutesPerFile
                        /\ f \notin open => m = MinutesPerFile
                        /\ \A k \in 0 .. m - 1 : IsMinute(files[f], k * (n + 1) + 1, n)
  BY DEF FileLayout, AtRest
<1>1. Ready
  BY RestingNothing, EmptySeq DEF NothingYet
<1>2. dc.pack_in_min \in Nat \ {0} /\ files[f] \in Seq(Entries)
  <2>1. SafeBody
    BY <1>1, RestingRecorded
  <2>2. QED
    BY <1>1, <2>1, SoloNat, ElementOfSeq DEF TypeOK, Entries
<1>3. \E m \in 1 .. MinutesPerFile, first \in Nat :
        /\ Len(files[f]) = m * (dc.pack_in_min + 1)
        /\ f \notin open => m = MinutesPerFile
        /\ Stream(files[f], first, dc.pack_in_min)
  <2>1. CASE f \in open
    <3>1. f = adc_fd
      BY <2>1 DEF NoStrayFile
    <3>2. PICK q \in Nat :
            /\ Len(files[f]) = ((q % MinutesPerFile) + 1) * (dc.pack_in_min + 1)
            /\ Stream(files[f],
                      (MinutesPerFile * (q \div MinutesPerFile)) * dc.pack_in_min,
                      dc.pack_in_min)
      BY <1>1, <2>1, <3>1, OpenFile
    <3>3. (MinutesPerFile * (q \div MinutesPerFile)) * dc.pack_in_min \in Nat
      BY <1>2, FirstOfFile
    <3>4. (q % MinutesPerFile) + 1 \in 1 .. MinutesPerFile
      BY DivMod, MinutesAssumption
    <3>5. QED
      BY <2>1, <3>2, <3>3, <3>4
  <2>2. CASE f \notin open
    <3>1. FullFile(f, dc.pack_in_min)
      BY <1>1, <2>2, RestingRecorded DEF Filed
    <3>2. MinutesPerFile \in 1 .. MinutesPerFile
      BY MinutesAssumption
    <3>3. QED
      BY <3>1, <3>2 DEF FullFile
  <2>3. QED
    BY <2>1, <2>2
<1>4. PICK m \in 1 .. MinutesPerFile, first \in Nat :
        /\ Len(files[f]) = m * (dc.pack_in_min + 1)
        /\ f \notin open => m = MinutesPerFile
        /\ Stream(files[f], first, dc.pack_in_min)
  BY <1>3
<1>5. m \in Nat
  BY MinutesAssumption
<1>6. /\ Len(files[f]) \div (dc.pack_in_min + 1) = m
      /\ \A k \in 0 .. m - 1 : IsMinute(files[f], k * (dc.pack_in_min + 1) + 1, dc.pack_in_min)
  BY <1>2, <1>4, <1>5, WholeMinutes
<1>7. QED
  BY <1>4, <1>6

(* Dividing p minutes among the files: the last one has the rest.          *)
LEMMA LastOf ==
  ASSUME NEW q \in Nat
  PROVE  \E l \in Nat \ {0} :
           /\ l = (q \div MinutesPerFile) + 1
           /\ (l - 1) * MinutesPerFile < q + 1
           /\ q + 1 <= ((l + 1) - 1) * MinutesPerFile
           /\ (q + 1) - (l - 1) * MinutesPerFile = (q % MinutesPerFile) + 1
           /\ (l - 1) * MinutesPerFile = MinutesPerFile * (q \div MinutesPerFile)
<1> DEFINE M == MinutesPerFile
           d == q \div M
           r == q % M
<1>1. M \in Nat \ {0}
  BY MinutesAssumption
<1>2. d \in Nat /\ r \in Nat /\ r < M /\ q = M * d + r
  BY <1>1, DivMod
<1> HIDE DEF M, d, r
<1> DEFINE l == d + 1
<1>3. (l - 1) * M = M * d /\ ((l + 1) - 1) * M = M * d + M /\ M * d \in Nat
  BY <1>1, <1>2
<1>4. l \in Nat \ {0} /\ l = d + 1
  BY <1>2
<1> HIDE DEF l
<1>5. /\ (l - 1) * M < q + 1 /\ q + 1 <= ((l + 1) - 1) * M
      /\ (q + 1) - (l - 1) * M = r + 1
  BY <1>1, <1>2, <1>3
<1>6. QED
  BY <1>3, <1>4, <1>5 DEF M, d, r

LEMMA MinutesAtRest ==
  ASSUME TypeOK, NoStrayFile, LastFile, SafeInv, SoloInv
  PROVE  MinutesRecorded
<1> DEFINE n == dc.pack_in_min
           m == lastPack \div n
           before(f) == (f - 1) * MinutesPerFile
           last == Len(files)
<1> SUFFICES ASSUME AtRest, ~ lostFile, n # 0
             PROVE  /\ before(last) < m /\ m <= before(last + 1)
                    /\ \A f \in (1 .. last) \ damaged :
                         files[f] = FileOf(before(f) * n,
                                           IF f < last THEN MinutesPerFile ELSE m - before(f),
                                           n)
  BY DEF MinutesRecorded, AtRest
<1>1. n \in Nat \ {0} /\ MinutesPerFile \in Nat \ {0} /\ last \in Nat
  <2>1. n \in Nat
    BY DEF AtRest, At, SoloInv, OwnRate
  <2>2. QED
    BY <2>1, MinutesAssumption, LenProperties DEF TypeOK
<1>2. ASSUME files = << >>, m = 0
      PROVE  before(last) < m /\ m <= before(last + 1) /\ last = 0
  <2>1. last = 0
    BY <1>2
  <2>2. before(last) = - MinutesPerFile /\ before(last + 1) = 0
    BY <1>1, <2>1
  <2>3. QED
    BY <1>1, <1>2, <2>1, <2>2
<1>3. CASE ~ Ready
  <2>1. files = << >> /\ lastPack = 0
    BY <1>3, RestingNothing DEF NothingYet
  <2>2. m = 0
    <3> DEFINE z == 0
    <3>1. z \in Int /\ z = n * z + z /\ 0 <= z /\ z < n
      BY <1>1
    <3> HIDE DEF z, n
    <3>2. z \div n = z
      BY <1>1, <3>1, ModIs
    <3>3. QED
      BY <2>1, <3>2 DEF z
  <2>3. QED
    BY <1>2, <2>1, <2>2
<1>4. CASE Ready
  <2>1. /\ SafeBody /\ Filed /\ ~ Late /\ dc.sig_num_count < n
        /\ lastPack = Base + dc.sig_num_count
    BY <1>4, RestingRecorded
  <2>2. dc.num_pack \in Nat /\ dc.sig_num_count \in Nat /\ lastPack \in Nat
    BY <1>4, <2>1, SoloNat
  <2>3. m = dc.num_pack
    <3> DEFINE p == dc.num_pack
               s == dc.sig_num_count
    <3>1. Base = n * p
      BY <1>1, <2>2 DEF Base
    <3>2. p \in Int /\ s \in Int /\ 0 <= s /\ s < n /\ lastPack = n * p + s
      BY <2>1, <2>2, <3>1
    <3> HIDE DEF p, s, n
    <3>3. lastPack \div n = p
      BY <1>1, <2>2, <3>2, ModIs
    <3>4. QED
      BY <3>3 DEF p
  <2>4. CASE adc_fd \notin open
    <3>1. dc.num_pack = 0 /\ files = << >>
      <4>1. pc["port"] # "open"
        BY DEF AtRest, At
      <4>2. QED
        BY <2>1, <2>4, <4>1 DEF Filed
    <3>2. QED
      BY <1>2, <2>3, <3>1
  <2>5. CASE adc_fd \in open
    <3>1. PICK q \in Nat :
            /\ q + 1 = dc.num_pack
            /\ adc_fd \notin damaged =>
                 /\ Len(files[adc_fd]) = ((q % MinutesPerFile) + 1) * (n + 1)
                 /\ Stream(files[adc_fd],
                           (MinutesPerFile * (q \div MinutesPerFile)) * n, n)
            /\ Len(files) = (q \div MinutesPerFile) + 1
      BY <1>4, <2>5, OpenFile
    <3>2. adc_fd = last
      BY <2>5, NoFileNotOpen DEF LastFile
    <3>3. /\ before(last) < m /\ m <= before(last + 1)
          /\ m - before(last) = (q % MinutesPerFile) + 1
          /\ before(last) = MinutesPerFile * (q \div MinutesPerFile)
      BY <2>3, <3>1, LastOf
    <3>4. ASSUME NEW f \in (1 .. last) \ damaged
          PROVE  files[f] = FileOf(before(f) * n,
                                   IF f < last THEN MinutesPerFile ELSE m - before(f), n)
      <4>1. files[f] \in Seq(Entries)
        BY ElementOfSeq DEF TypeOK, Entries
      <4> HIDE DEF n
      <4>2. CASE f = last
        <5>1. (q % MinutesPerFile) + 1 \in Nat
              /\ (MinutesPerFile * (q \div MinutesPerFile)) * n \in Nat
          <6>1. q % MinutesPerFile \in Nat
            BY <1>1, FirstOfFile
          <6>2. (MinutesPerFile * (q \div MinutesPerFile)) * n \in Nat
            BY <1>1, FirstOfFile
          <6>3. QED
            BY <6>1, <6>2
        <5>2. files[f] = FileOf((MinutesPerFile * (q \div MinutesPerFile)) * n,
                                (q % MinutesPerFile) + 1, n)
          <6> DEFINE a == (MinutesPerFile * (q \div MinutesPerFile)) * n
                     b == (q % MinutesPerFile) + 1
          <6>1. a \in Nat /\ b \in Nat /\ n \in Nat \ {0}
            BY <1>1, <5>1
          <6>2. Len(files[f]) = b * (n + 1) /\ Stream(files[f], a, n)
            BY <3>1, <3>2, <4>2
          <6> HIDE DEF a, b
          <6>3. files[f] = FileOf(a, b, n)
            BY <4>1, <6>1, <6>2, WholeMinutes
          <6>4. QED
            BY <6>3 DEF a, b
        <5>3. QED
          BY <3>3, <4>2, <5>2
      <4>3. CASE f # last
        <5>1. f < last /\ f \notin open
          BY <1>1, <3>2, <4>3 DEF NoStrayFile
        <5>2. FullFile(f, n)
          BY <2>1, <5>1 DEF Filed, n
        <5>3. /\ Len(files[f]) = MinutesPerFile * (n + 1)
              /\ Stream(files[f], (MinutesPerFile * (f - 1)) * n, n)
              /\ (MinutesPerFile * (f - 1)) * n \in Nat
          BY <5>2 DEF FullFile
        <5>4. files[f] = FileOf((MinutesPerFile * (f - 1)) * n, MinutesPerFile, n)
          <6> DEFINE a == (MinutesPerFile * (f - 1)) * n
          <6>1. /\ a \in Nat /\ n \in Nat \ {0} /\ MinutesPerFile \in Nat
                /\ Len(files[f]) = MinutesPerFile * (n + 1) /\ Stream(files[f], a, n)
            BY <1>1, <5>3
          <6> HIDE DEF a
          <6>2. files[f] = FileOf(a, MinutesPerFile, n)
            BY <4>1, <6>1, WholeMinutes
          <6>3. QED
            BY <6>2 DEF a
        <5>5. MinutesPerFile * (f - 1) = before(f)
          BY <1>1
        <5>6. QED
          BY <5>1, <5>4, <5>5
      <4>4. QED
        BY <4>2, <4>3
    <3>5. QED
      BY <3>3, <3>4
  <2>6. QED
    BY <2>4, <2>5
<1>5. QED
  BY <1>3, <1>4

LEMMA SoloAlways == Spec => []SoloInv
<1>1. Init => SoloInv
  <2>1. Init => Len(heap) = 0
    BY EmptySeq DEF Init
  <2>2. Init => OwnRate
    BY <2>1 DEF Init, OwnRate, NoneEmpty, Preparing, Threads
  <2>3. QED
    BY <2>2 DEF Init, SoloInv, SoloBody, Recording, Ready, NothingYet, Null
<1>2. OrderedInv /\ OrderedInv' /\ SoloInv /\ [Next]_vars => SoloInv'
  BY SoloStep DEF OrderedInv, TypeInv
<1>3. QED
  BY <1>1, <1>2, OrderedAlways, PTL DEF Spec

(* Once the port thread has started the device and nobody else commands it: *)
(* whenever it is back for the next packet, every file holds whole minutes  *)
(* of a header and n packets numbered one by one, no more than              *)
(* MinutesPerFile of them, and exactly that many once it is closed          *)
(* (mythreads.c:231-267, :308-338, log.c:353-418).  Only a file that one of *)
(* its own writes failed in may look otherwise (log.c:452-455, :475-478):   *)
(* nothing of it gets into the files before and after it.                   *)
THEOREM LayoutOfFiles == Spec => []FileLayout
<1>1. TypeOK /\ NoStrayFile /\ OrderedInv /\ SoloInv => FileLayout
  BY LayoutAtRest DEF OrderedInv
<1>2. QED
  BY <1>1, TypeCorrect, NoStray, OrderedAlways, SoloAlways, PTL

(* And unless a file could not be opened, they hold every complete minute   *)
(* there was: in order, with nothing missing, repeated or left over         *)
(* (mythreads.c:231-267, :308-338), except in a file that a write failed in,*)
(* which is begun and ended with the same minutes all the same.             *)
THEOREM EveryMinuteRecorded == Spec => []MinutesRecorded
<1>1. TypeOK /\ NoStrayFile /\ OrderedInv /\ SoloInv => MinutesRecorded
  BY MinutesAtRest DEF OrderedInv
<1>2. QED
  BY <1>1, TypeCorrect, NoStray, OrderedAlways, SoloAlways, PTL

=============================================================================
