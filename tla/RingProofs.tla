----------------------------- MODULE RingProofs -----------------------------
(***************************************************************************)
(* What the functions of the circular buffer compute, for every ring that  *)
(* has the shape they lean on.                                             *)
(***************************************************************************)
EXTENDS CircularBuffer, SequencesExt, Sums, SequenceTheorems

(* The modular step of in_offs and out_offs: plus one, wrapping to 0.      *)
LEMMA NextSlotIs ==
  \A x \in Slots : /\ NextSlot(x) = IF x = MAX - 1 THEN 0 ELSE x + 1
                   /\ NextSlot(x) \in Slots
  BY MAXAssumption DEF NextSlot, Slots

(* The slot that the sum of two slot numbers reduces to.                   *)
LEMMA SlotSum ==
  \A i, o \in Slots :
     /\ (i + o) % MAX = IF i + o < MAX THEN i + o ELSE i + o - MAX
     /\ (i + o) % MAX \in Slots
  <1> SUFFICES ASSUME NEW i \in Slots, NEW o \in Slots
               PROVE  /\ (i + o) % MAX = IF i + o < MAX THEN i + o ELSE i + o - MAX
                      /\ (i + o) % MAX \in Slots
    OBVIOUS
  <1> DEFINE s == i + o
  <1>1. s \in Nat /\ s < 2 * MAX
    BY MAXAssumption DEF Slots
  <1>2. \A t \in Nat : t < 2 * MAX => t % MAX = IF t < MAX THEN t ELSE t - MAX
    BY MAXAssumption
  <1>3. QED
    BY <1>1, <1>2, MAXAssumption, SMTT(40) DEF Slots

(* Where the i-th command from out_offs lives.                             *)
LEMMA CommandSlotIs ==
  ASSUME NEW b, b.out_offs \in Slots, NEW i \in Slots
  PROVE  /\ CommandSlot(b, i) = IF i + b.out_offs < MAX
                                  THEN i + b.out_offs
                                  ELSE i + b.out_offs - MAX
         /\ CommandSlot(b, i) \in Slots
  BY SlotSum DEF CommandSlot

(* A function on 1 .. n is a sequence of length n.                         *)
LEMMA FunctionIsSeq ==
  ASSUME NEW S, NEW n \in Nat, NEW f \in [1 .. n -> S]
  PROVE  f \in Seq(S) /\ Len(f) = n
  <1>1. f \in Seq(S)
    BY SeqDef
  <1>2. QED
    BY <1>1, LenProperties

-----------------------------------------------------------------------------
(* The shape of a ring: once full, in_offs and out_offs coincide and every *)
(* slot is occupied; before that, exactly the slots below in_offs are.     *)
Occupied(e) == e.buffptr # NULL /\ e.size \in Nat \ {0}

Ring(b) ==
  /\ b.in_offs \in Slots /\ b.out_offs \in Slots /\ b.full \in BOOLEAN
  /\ DOMAIN b.entry = Slots
  /\ IF b.full
       THEN b.in_offs = b.out_offs /\ \A i \in Slots : Occupied(b.entry[i])
       ELSE /\ b.out_offs = 0
            /\ \A i \in Slots : IF i < b.in_offs THEN Occupied(b.entry[i])
                                                 ELSE b.entry[i] = NoEntry

(* Where the commands start in the concatenation of all of them: L[k] is   *)
(* the number of bytes before command k.                                   *)
Offsets(b, L) ==
  /\ L \in [0 .. MAX -> Nat] /\ L[0] = 0
  /\ \A k \in Slots : L[k + 1] = L[k] + b.entry[CommandSlot(b, k)].size
  /\ \A i, j \in 0 .. MAX : i <= j => L[i] <= L[j]

(* Which commands there are.                                               *)
LEMMA CommandsAre ==
  ASSUME NEW b, Ring(b)
  PROVE  /\ EntryCount(b) \in 0 .. MAX
         /\ \A k \in Slots : CommandSlot(b, k) \in Slots
         /\ \A k \in Slots : IF k < EntryCount(b)
                               THEN Occupied(b.entry[CommandSlot(b, k)])
                               ELSE b.entry[CommandSlot(b, k)] = NoEntry
         /\ \A k \in Slots : b.entry[k].size \in Nat
  <1>1. \A k \in Slots : CommandSlot(b, k) \in Slots
    BY CommandSlotIs DEF Ring
  <1>2. CASE b.full
    BY <1>1, <1>2, MAXAssumption, SMTT(40) DEF Ring, EntryCount, Slots, Occupied
  <1>3. CASE ~b.full
    <2>1. \A k \in Slots : CommandSlot(b, k) = k
      BY <1>3, CommandSlotIs, MAXAssumption DEF Ring, Slots
    <2>2. EntryCount(b) = b.in_offs
      BY <1>3 DEF Ring, EntryCount, Slots
    <2>3. \A k \in Slots : b.entry[k].size \in Nat
      BY <1>3 DEF Ring, Occupied, NoEntry
    <2>4. b.in_offs \in 0 .. MAX
      BY MAXAssumption DEF Ring, Slots
    <2>5. \A k \in Slots : IF k < b.in_offs THEN Occupied(b.entry[k]) ELSE b.entry[k] = NoEntry
      BY <1>3 DEF Ring
    <2>6. QED
      BY <1>1, <2>1, <2>2, <2>3, <2>4, <2>5
  <1>4. QED
    BY <1>2, <1>3

LEMMA OffsetsExist ==
  ASSUME NEW b, Ring(b)
  PROVE  \E L : Offsets(b, L)
  <1> DEFINE g == [k \in 0 .. MAX - 1 |-> b.entry[CommandSlot(b, k)].size]
  <1>1. MAX \in Nat /\ MAX \in 0 .. MAX /\ Slots = 0 .. MAX - 1
    BY MAXAssumption DEF Slots
  <1>2. g \in [0 .. MAX - 1 -> Nat]
    BY <1>1, CommandsAre
  <1>3. \A k \in Slots : g[k] = b.entry[CommandSlot(b, k)].size
    BY <1>1
  <1> HIDE DEF g
  <1>4. PICK L \in [0 .. MAX -> Nat] :
           L = [i \in 0 .. MAX |-> IF i = 0 THEN 0 ELSE L[i - 1] + g[i - 1]]
    BY <1>1, <1>2, RunningSum
  <1>5. /\ L \in [0 .. MAX -> Nat] /\ L[0] = 0
        /\ \A i \in 0 .. MAX - 1 : L[i + 1] = L[i] + g[i]
        /\ \A i, j \in 0 .. MAX : i <= j => L[i] <= L[j]
    BY <1>1, <1>2, <1>4, RunningSumIs
  <1>6. Offsets(b, L)
    BY <1>1, <1>3, <1>5 DEF Offsets
  <1>7. QED
    BY <1>6

(* Behind the last command nothing is added.                               *)
LEMMA OffsetsEnd ==
  ASSUME NEW b, Ring(b), NEW L, Offsets(b, L)
  PROVE  L[MAX] = L[EntryCount(b)]
  <1> DEFINE n == EntryCount(b)
             Bad == {k \in n .. MAX : L[k] # L[n]}
  <1>1. MAX \in Nat /\ n \in 0 .. MAX
    BY MAXAssumption, CommandsAre
  <1> HIDE DEF n
  <1>2. Bad = {}
    <2> SUFFICES ASSUME Bad # {} PROVE FALSE
      OBVIOUS
    <2>1. PICK k \in Bad : \A j \in Bad : k <= j
      <3>1. Bad \in SUBSET Nat
        BY <1>1
      <3>2. QED
        BY <3>1, LeastNumber
    <2>2. k \in n + 1 .. MAX /\ L[k] # L[n]
      BY <1>1, <2>1
    <2>3. k - 1 \in Slots /\ k - 1 \in n .. MAX /\ ~(k <= k - 1) /\ ~(k - 1 < n) /\ (k - 1) + 1 = k
      BY <1>1, <2>2 DEF Slots
    <2>4. k - 1 \notin Bad
      <3> HIDE DEF Bad
      <3>1. QED
        BY <2>1, <2>3
    <2>5. b.entry[CommandSlot(b, k - 1)].size = 0
      BY <2>3, CommandsAre DEF n, NoEntry
    <2>6. L[k] = L[k - 1] + 0 /\ L[k - 1] = L[n]
      BY <2>3, <2>4, <2>5 DEF Offsets
    <2>7. L[k - 1] \in Nat
      BY <1>1, <2>3 DEF Offsets
    <2>8. QED
      BY <2>2, <2>6, <2>7
  <1>3. MAX \in n .. MAX
    BY <1>1
  <1>4. QED
    BY <1>2, <1>3 DEF n
-----------------------------------------------------------------------------
(* accumulation as find_entry_offset_for_fpos builds it up, iteration by   *)
(* iteration.                                                              *)
LEMMA AccumulationIs ==
  ASSUME NEW b, \A i \in Slots : b.entry[ScanSlot(b, i)].size \in Nat
  PROVE  /\ accumulation(b) \in [0 .. MAX -> Nat] /\ accumulation(b)[0] = 0
         /\ \A i \in Slots : accumulation(b)[i + 1]
                = accumulation(b)[i] + b.entry[ScanSlot(b, i)].size
         /\ \A i, j \in 0 .. MAX : i <= j => accumulation(b)[i] <= accumulation(b)[j]
  <1> DEFINE g == [i \in 0 .. MAX - 1 |-> b.entry[ScanSlot(b, i)].size]
             a == accumulation(b)
  <1>1. MAX \in Nat /\ g \in [0 .. MAX - 1 -> Nat]
    BY MAXAssumption DEF Slots
  <1>2. PICK f \in [0 .. MAX -> Nat] :
           f = [i \in 0 .. MAX |-> IF i = 0 THEN 0 ELSE f[i - 1] + g[i - 1]]
    <2>1. MAX \in 0 .. MAX
      BY <1>1
    <2> HIDE DEF g
    <2>2. QED
      BY <1>1, <2>1, RunningSum
  <1>3. \A i \in 1 .. MAX : g[i - 1] = b.entry[ScanSlot(b, i - 1)].size
    BY <1>1
  <1>4. f = [i \in 0 .. MAX |-> IF i = 0 THEN 0
                                ELSE f[i - 1] + b.entry[ScanSlot(b, i - 1)].size]
    BY <1>1, <1>2, <1>3
  <1>5. a = CHOOSE h : h = [i \in 0 .. MAX |-> IF i = 0 THEN 0
                                ELSE h[i - 1] + b.entry[ScanSlot(b, i - 1)].size]
    BY DEF accumulation
  <1>6. a = [i \in 0 .. MAX |-> IF i = 0 THEN 0
                                ELSE a[i - 1] + b.entry[ScanSlot(b, i - 1)].size]
    <2> HIDE DEF a
    <2>1. QED
      BY <1>4, <1>5
  <1> HIDE DEF a
  <1>7. a = [i \in 0 .. MAX |-> IF i = 0 THEN 0 ELSE a[i - 1] + g[i - 1]]
    BY <1>1, <1>3, <1>6
  <1>8. \A i \in Slots : g[i] = b.entry[ScanSlot(b, i)].size
    BY DEF Slots
  <1>9. /\ a \in [0 .. MAX -> Nat] /\ a[0] = 0
        /\ \A i \in 0 .. MAX - 1 : a[i + 1] = a[i] + g[i]
        /\ \A i, j \in 0 .. MAX : i <= j => a[i] <= a[j]
    <2> HIDE DEF g
    <2>1. QED
      BY <1>1, <1>7, RunningSumIs
  <1>10. \A i \in Slots : a[i + 1] = a[i] + b.entry[ScanSlot(b, i)].size
    <2> HIDE DEF g
    <2>1. QED
      BY <1>8, <1>9 DEF Slots
  <1>11. QED
    BY <1>9, <1>10 DEF a

(* The scan starts at in_offs: it first visits the slots that are still    *)
(* empty, then the commands, oldest first; and its early "return NULL" is  *)
(* never taken.                                                            *)
LEMMA ScanOrder ==
  ASSUME NEW b, Ring(b)
  PROVE  LET d == MAX - EntryCount(b)
         IN  /\ \A i \in Slots : ScanSlot(b, i) \in Slots /\ ~ScanGivesUp(b, i)
             /\ \A i \in Slots : i < d => b.entry[ScanSlot(b, i)] = NoEntry
             /\ \A k \in Slots : k < EntryCount(b)
                                  => ScanSlot(b, d + k) = CommandSlot(b, k)
  <1> DEFINE d == MAX - EntryCount(b)
  <1>1. \A i \in Slots : /\ ScanSlot(b, i) = IF i + b.in_offs < MAX
                                                THEN i + b.in_offs ELSE i + b.in_offs - MAX
                         /\ ScanSlot(b, i) \in Slots
    BY SlotSum DEF ScanSlot, Ring
  <1>2. MAX \in Nat \ {0} /\ b.in_offs \in Slots /\ b.out_offs \in Slots
    BY MAXAssumption DEF Ring
  <1>3. CASE b.full
    <2>1. b.in_offs = b.out_offs /\ EntryCount(b) = MAX
      BY <1>3 DEF Ring, EntryCount
    <2>2. d = 0 /\ \A i \in Slots : ~(i < d)
      BY <1>2, <2>1 DEF Slots
    <2>3. \A i \in Slots : ~ScanGivesUp(b, i)
      BY <1>2, <2>1 DEF ScanGivesUp, Slots
    <2>4. \A k \in Slots : ScanSlot(b, 0 + k) = CommandSlot(b, k)
      BY <1>2, <2>1 DEF ScanSlot, CommandSlot, Slots
    <2>5. QED
      BY <1>1, <2>2, <2>3, <2>4
  <1>4. CASE ~b.full
    <2>1. b.out_offs = 0 /\ EntryCount(b) = b.in_offs
      BY <1>2, <1>4 DEF Ring, EntryCount, Slots
    <2>2. \A i \in Slots : ~ScanGivesUp(b, i)
      BY <1>2, <2>1 DEF ScanGivesUp, Slots
    <2>3. ASSUME NEW i \in Slots, i < d PROVE b.entry[ScanSlot(b, i)] = NoEntry
      <3>1. ScanSlot(b, i) \in Slots /\ ~(ScanSlot(b, i) < b.in_offs)
        BY <1>1, <1>2, <2>1, <2>3 DEF Slots
      <3>2. QED
        BY <1>4, <3>1 DEF Ring
    <2>4. ASSUME NEW k \in Slots, k < EntryCount(b)
          PROVE  ScanSlot(b, d + k) = CommandSlot(b, k)
      <3>1. d + k \in Slots /\ ~(d + k + b.in_offs < MAX) /\ d + k + b.in_offs - MAX = k
        BY <1>2, <2>1, <2>4 DEF Slots
      <3>2. ScanSlot(b, d + k) = k
        BY <1>1, <3>1
      <3>3. CommandSlot(b, k) = k
        BY <1>2, <2>1, CommandSlotIs DEF Slots
      <3>4. QED
        BY <3>2, <3>3
    <2>5. QED
      BY <1>1, <2>2, <2>3, <2>4
  <1>5. QED
    BY <1>3, <1>4

(* Nothing has been added up before the first command is visited, and from *)
(* there on the scan adds up what the commands before take.                *)
LEMMA AccumulationFollows ==
  ASSUME NEW b, Ring(b), NEW L, Offsets(b, L)
  PROVE  LET d == MAX - EntryCount(b)
         IN  /\ \A i \in 0 .. d : accumulation(b)[i] = 0
             /\ \A k \in 0 .. EntryCount(b) : accumulation(b)[d + k] = L[k]
  <1> DEFINE n == EntryCount(b)
             d == MAX - n
             a == accumulation(b)
             BadZero == {i \in 0 .. d : a[i] # 0}
             Bad == {k \in 0 .. n : a[d + k] # L[k]}
  <1>1. MAX \in Nat \ {0} /\ n \in 0 .. MAX /\ d \in 0 .. MAX /\ d = MAX - n
    BY MAXAssumption, CommandsAre
  <1>2. \A i \in Slots : b.entry[ScanSlot(b, i)].size \in Nat
    BY ScanOrder, CommandsAre
  <1>3. /\ a[0] = 0 /\ a \in [0 .. MAX -> Nat]
        /\ \A i \in Slots : a[i + 1] = a[i] + b.entry[ScanSlot(b, i)].size
    BY <1>2, AccumulationIs
  <1>4. \A i \in Slots : i < d => b.entry[ScanSlot(b, i)].size = 0
    BY ScanOrder DEF NoEntry
  <1>5. \A k \in Slots : k < n => b.entry[ScanSlot(b, d + k)].size
                                  = b.entry[CommandSlot(b, k)].size
    BY ScanOrder
  <1> HIDE DEF n, d, a
  <1>6. BadZero = {}
    <2> SUFFICES ASSUME BadZero # {} PROVE FALSE
      OBVIOUS
    <2>1. PICK i \in BadZero : \A j \in BadZero : i <= j
      <3>1. BadZero \in SUBSET Nat
        BY <1>1
      <3>2. QED
        BY <3>1, LeastNumber
    <2>2. i \in 1 .. d /\ a[i] # 0
      BY <1>1, <1>3, <2>1
    <2>3. i - 1 \in Slots /\ i - 1 < d /\ i - 1 \in 0 .. d /\ ~(i <= i - 1) /\ (i - 1) + 1 = i
      BY <1>1, <2>2 DEF Slots
    <2>4. i - 1 \notin BadZero
      <3> HIDE DEF BadZero
      <3>1. QED
        BY <2>1, <2>3
    <2>5. a[i] = a[i - 1] + 0 /\ a[i - 1] = 0
      BY <1>3, <1>4, <2>3, <2>4
    <2>6. QED
      BY <2>2, <2>5
  <1>7. Bad = {}
    <2> SUFFICES ASSUME Bad # {} PROVE FALSE
      OBVIOUS
    <2>1. PICK k \in Bad : \A j \in Bad : k <= j
      <3>1. Bad \in SUBSET Nat
        BY <1>1
      <3>2. QED
        BY <3>1, LeastNumber
    <2>2. k # 0
      <3>1. d \in 0 .. d /\ d + 0 = d
        BY <1>1
      <3>2. a[d + 0] = L[0]
        BY <1>6, <3>1 DEF Offsets
      <3>3. QED
        BY <2>1, <3>2
    <2>3. k \in 1 .. n /\ a[d + k] # L[k]
      BY <1>1, <2>1, <2>2
    <2>4. /\ k - 1 \in Slots /\ k - 1 < n /\ k - 1 \in 0 .. n /\ ~(k <= k - 1)
          /\ (k - 1) + 1 = k /\ d + (k - 1) \in Slots /\ (d + (k - 1)) + 1 = d + k
      BY <1>1, <2>3 DEF Slots
    <2>5. k - 1 \notin Bad
      <3> HIDE DEF Bad
      <3>1. QED
        BY <2>1, <2>4
    <2>6. a[d + (k - 1)] = L[k - 1]
      BY <2>4, <2>5
    <2>7. a[d + k] = a[d + (k - 1)] + b.entry[ScanSlot(b, d + (k - 1))].size
      BY <1>3, <2>4
    <2>8. L[k] = L[k - 1] + b.entry[CommandSlot(b, k - 1)].size
      BY <2>4 DEF Offsets
    <2>9. b.entry[ScanSlot(b, d + (k - 1))].size = b.entry[CommandSlot(b, k - 1)].size
      BY <1>5, <2>4
    <2>10. QED
      BY <2>3, <2>6, <2>7, <2>8, <2>9
  <1>8. QED
    BY <1>6, <1>7 DEF n, d, a

-----------------------------------------------------------------------------
(* Looking up byte o of command k finds it in that command's slot.         *)
LEMMA FindIs ==
  ASSUME NEW b, Ring(b), NEW L, Offsets(b, L),
         NEW k \in Slots, k < EntryCount(b),
         NEW o \in Nat, o < b.entry[CommandSlot(b, k)].size
  PROVE  aesd_circular_buffer_find_entry_offset_for_fpos(b, L[k] + o)
           = [slot |-> CommandSlot(b, k), offset |-> o]
  <1> DEFINE d == MAX - EntryCount(b)
             a == accumulation(b)
             size(i) == b.entry[ScanSlot(b, i)].size
             pos == L[k] + o
             stops == {i \in Slots : ScanGivesUp(b, i) \/ ScanHits(b, i, pos)}
  <1>1. MAX \in Nat \ {0} /\ EntryCount(b) \in 0 .. MAX /\ d + k \in Slots
    <2>1. EntryCount(b) \in 0 .. MAX
      BY CommandsAre
    <2>2. QED
      BY <2>1, MAXAssumption DEF Slots
  <1>2. \A i \in Slots : size(i) \in Nat /\ ~ScanGivesUp(b, i)
    BY ScanOrder, CommandsAre
  <1>3. /\ a \in [0 .. MAX -> Nat]
        /\ \A i \in Slots : a[i + 1] = a[i] + size(i)
        /\ \A i, j \in 0 .. MAX : i <= j => a[i] <= a[j]
    BY <1>2, AccumulationIs
  <1>4. a[d + k] = L[k] /\ ScanSlot(b, d + k) = CommandSlot(b, k)
    <2>1. k \in 0 .. EntryCount(b)
      BY <1>1 DEF Slots
    <2>2. QED
      BY <2>1, AccumulationFollows, ScanOrder
  <1>5. L[k] \in Nat /\ pos \in Nat
    <2>1. k \in 0 .. MAX
      BY <1>1 DEF Slots
    <2>2. QED
      BY <2>1 DEF Offsets
  <1>6. stops = {i \in Slots : a[i] + size(i) > pos}
    BY <1>2 DEF ScanHits
  <1> HIDE DEF a, stops, d
  <1>7. d + k \in stops
    <2>1. a[d + k] + size(d + k) > pos
      <3>1. size(d + k) = b.entry[CommandSlot(b, k)].size /\ size(d + k) \in Nat
        BY <1>1, <1>2, <1>4
      <3> HIDE DEF size
      <3>2. QED
        BY <1>4, <1>5, <3>1
    <2>2. QED
      BY <1>1, <1>6, <2>1
  <1>8. ASSUME NEW i \in stops PROVE d + k <= i
    <2>1. i \in Slots /\ a[i] + size(i) > pos
      BY <1>6
    <2>2. i + 1 \in 0 .. MAX /\ d + k \in 0 .. MAX /\ (~(d + k <= i) => i + 1 <= d + k)
      BY <1>1, <2>1 DEF Slots
    <2>3. ~(d + k <= i) => a[i + 1] <= a[d + k]
      BY <1>3, <2>2
    <2>4. a[i + 1] > pos /\ a[i + 1] \in Nat
      BY <1>3, <2>1, <2>2
    <2>5. QED
      BY <1>4, <1>5, <2>3, <2>4
  <1>9. Min(stops) = d + k
    <2>1. stops \in SUBSET Nat
      BY <1>6 DEF Slots
    <2>2. Min(stops) \in stops /\ Min(stops) <= d + k /\ d + k <= Min(stops)
      BY <1>7, <1>8, <2>1, MinIs
    <2>3. Min(stops) \in Nat /\ d + k \in Nat
      BY <1>7, <2>1, <2>2
    <2>4. QED
      BY <2>2, <2>3
  <1>10. aesd_circular_buffer_find_entry_offset_for_fpos(b, pos)
           = [slot |-> ScanSlot(b, d + k), offset |-> pos - a[d + k]]
    BY <1>1, <1>2, <1>7, <1>9
       DEF aesd_circular_buffer_find_entry_offset_for_fpos, stops, a
  <1>11. pos - a[d + k] = o
    BY <1>4, <1>5
  <1>12. QED
    BY <1>4, <1>10, <1>11

(* From the end of the data on, the lookup finds nothing.                  *)
LEMMA FindNone ==
  ASSUME NEW b, Ring(b), NEW L, Offsets(b, L),
         NEW pos \in Nat, L[EntryCount(b)] <= pos
  PROVE  aesd_circular_buffer_find_entry_offset_for_fpos(b, pos) = NULL
  <1> DEFINE n == EntryCount(b)
             a == accumulation(b)
             size(i) == b.entry[ScanSlot(b, i)].size
  <1>1. MAX \in Nat \ {0} /\ n \in 0 .. MAX /\ (MAX - n) + n = MAX /\ n \in 0 .. n
    BY MAXAssumption, CommandsAre
  <1>2. \A i \in Slots : size(i) \in Nat /\ ~ScanGivesUp(b, i)
    BY ScanOrder, CommandsAre
  <1>3. /\ a \in [0 .. MAX -> Nat]
        /\ \A i \in Slots : a[i + 1] = a[i] + size(i)
        /\ \A i, j \in 0 .. MAX : i <= j => a[i] <= a[j]
    BY <1>2, AccumulationIs
  <1>4. a[MAX] = L[n]
    <2>1. a[(MAX - n) + n] = L[n]
      BY <1>1, AccumulationFollows
    <2>2. QED
      BY <1>1, <2>1, Zenon
  <1> HIDE DEF a, n
  <1>5. ASSUME NEW i \in Slots PROVE ~(a[i] + size(i) > pos)
    <2>1. i + 1 \in 0 .. MAX /\ MAX \in 0 .. MAX /\ i + 1 <= MAX
      BY <1>1 DEF Slots
    <2>2. a[i + 1] <= a[MAX] /\ a[i + 1] \in Nat /\ a[MAX] \in Nat
      BY <1>3, <2>1
    <2>3. a[i] + size(i) = a[i + 1]
      BY <1>3
    <2>4. L[n] <= pos
      BY DEF n
    <2>5. QED
      BY <1>4, <2>2, <2>3, <2>4
  <1>6. {i \in Slots : ScanGivesUp(b, i) \/ ScanHits(b, i, pos)} = {}
    BY <1>2, <1>5 DEF ScanHits, a
  <1>7. QED
    BY <1>6 DEF aesd_circular_buffer_find_entry_offset_for_fpos

(* Every position before the end of the data is in one of the commands.    *)
LEMMA CommandOf ==
  ASSUME NEW b, Ring(b), NEW L, Offsets(b, L),
         NEW pos \in Nat, pos < L[EntryCount(b)]
  PROVE  \E k \in Slots : /\ k < EntryCount(b) /\ L[k] <= pos
                          /\ pos - L[k] \in Nat
                          /\ pos - L[k] < b.entry[CommandSlot(b, k)].size
  <1> DEFINE n == EntryCount(b)
             S == {i \in 0 .. n : pos < L[i]}
  <1>1. MAX \in Nat \ {0} /\ n \in 0 .. MAX /\ n \in 0 .. n
    BY MAXAssumption, CommandsAre
  <1>2. S \in SUBSET Nat /\ S # {}
    BY <1>1
  <1>3. PICK i \in S : \A j \in S : i <= j
    BY <1>2, LeastNumber
  <1>4. i \in 1 .. n
    <2>1. L[0] = 0
      BY DEF Offsets
    <2>2. i # 0
      BY <1>3, <2>1
    <2>3. QED
      BY <1>1, <1>3, <2>2
  <1>5. i - 1 \in Slots /\ i - 1 < n /\ i - 1 \in 0 .. n /\ ~(i <= i - 1) /\ (i - 1) + 1 = i
    BY <1>1, <1>4 DEF Slots
  <1>6. i - 1 \notin S
    <2> HIDE DEF S
    <2>1. QED
      BY <1>3, <1>5
  <1>7. L[i - 1] \in Nat /\ b.entry[CommandSlot(b, i - 1)].size \in Nat
    <2>1. i - 1 \in 0 .. MAX
      BY <1>1, <1>5
    <2>2. QED
      BY <1>5, <2>1, CommandsAre DEF Offsets
  <1>8. L[i] = L[i - 1] + b.entry[CommandSlot(b, i - 1)].size
    BY <1>5 DEF Offsets
  <1>9. L[i - 1] <= pos /\ pos < L[i]
    BY <1>3, <1>5, <1>6, <1>7
  <1>10. QED
    BY <1>5, <1>7, <1>8, <1>9

-----------------------------------------------------------------------------
(* Different command numbers name different slots, and the MAX of them all *)
(* the slots.                                                              *)
LEMMA CommandSlots ==
  ASSUME NEW b, Ring(b)
  PROVE  /\ \A i, j \in Slots : CommandSlot(b, i) = CommandSlot(b, j) => i = j
         /\ \A x \in Slots : \E i \in Slots : CommandSlot(b, i) = x
  <1>1. b.out_offs \in Slots /\ MAX \in Nat \ {0}
    BY MAXAssumption DEF Ring
  <1>2. \A i \in Slots : CommandSlot(b, i) = IF i + b.out_offs < MAX
                                               THEN i + b.out_offs
                                               ELSE i + b.out_offs - MAX
    BY <1>1, CommandSlotIs
  <1>3. \A i, j \in Slots : CommandSlot(b, i) = CommandSlot(b, j) => i = j
    BY <1>1, <1>2 DEF Slots
  <1>4. ASSUME NEW x \in Slots PROVE \E i \in Slots : CommandSlot(b, i) = x
    <2>1. CASE x >= b.out_offs
      <3>1. x - b.out_offs \in Slots /\ CommandSlot(b, x - b.out_offs) = x
        BY <1>1, <1>2, <2>1 DEF Slots
      <3>2. QED
        BY <3>1
    <2>2. CASE x < b.out_offs
      <3>1. /\ x - b.out_offs + MAX \in Slots
            /\ CommandSlot(b, x - b.out_offs + MAX) = x
        BY <1>1, <1>2, <2>2 DEF Slots
      <3>2. QED
        BY <3>1
    <2>3. QED
      BY <1>1, <2>1, <2>2 DEF Slots
  <1>5. QED
    BY <1>3, <1>4

(* The sizes of the slots, and the sum of those of some slots.             *)
Sizes(b) == [i \in Slots |-> b.entry[i].size]

SizeOf(b, S) == FoldFunctionOnSet(LAMBDA e, sum : e.size + sum, 0, b.entry, S)

LEMMA SizesAre ==
  ASSUME NEW b, Ring(b)
  PROVE  Sizes(b) \in [Slots -> Nat] /\ IsFiniteSet(Slots)
  <1>1. \A i \in Slots : b.entry[i].size \in Nat
    BY CommandsAre
  <1>2. 0 \in Int /\ MAX - 1 \in Int
    BY MAXAssumption
  <1>3. IsFiniteSet(0 .. MAX - 1)
    BY <1>2, FS_Interval
  <1>4. QED
    BY <1>1, <1>3 DEF Sizes, Slots

(* The fold that new_pos and get_total_size are written with is the sum,   *)
(* in whatever order it takes the slots.                                   *)
LEMMA SizeOfIs ==
  ASSUME NEW b, Ring(b), NEW S \in SUBSET Slots,
         NEW f \in [SUBSET Slots -> Nat], AddsUp(f, SUBSET Slots, Sizes(b))
  PROVE  SizeOf(b, S) = f[S]
  <1> DEFINE F(h) == [s \in SUBSET S |->
                        IF s = {} THEN 0
                        ELSE b.entry[Chosen(s)].size + h[s \ {Chosen(s)}]]
             H == CHOOSE h : h = F(h)
  <1>1. Sizes(b) \in [Slots -> Nat] /\ IsFiniteSet(Slots)
    BY SizesAre
  <1>2. SizeOf(b, S) = H[S]
    BY DEF SizeOf, FoldFunctionOnSet, MapThenFoldSet, Chosen
  <1>3. \A s \in SUBSET S : s # {} => Sizes(b)[Chosen(s)] = b.entry[Chosen(s)].size
    <2>1. \A s \in SUBSET S : s # {} => Chosen(s) \in Slots
      BY ChosenIs
    <2>2. QED
      BY <2>1 DEF Sizes
  <1>4. \A h : AddsUp(h, SUBSET S, Sizes(b)) <=> h = F(h)
    BY <1>3 DEF AddsUp
  <1>5. \E h : h = F(h)
    BY <1>1, <1>4, SetSumWithin
  <1>6. H = F(H)
    BY <1>5
  <1> HIDE DEF H, F
  <1>7. AddsUp(H, SUBSET S, Sizes(b))
    BY <1>4, <1>6
  <1>8. QED
    BY <1>1, <1>2, <1>7, SetSum

(* The bytes before command c, which adjust_aesd_file_offset adds up slot  *)
(* by slot, and all the bytes, which get_total_size adds up.               *)
LEMMA NewPosIs ==
  ASSUME NEW b, Ring(b), NEW L, Offsets(b, L)
  PROVE  /\ \A c \in 0 .. MAX : new_pos(b, c) = L[c]
         /\ get_total_size(b) = L[MAX]
  <1> DEFINE T(c) == {CommandSlot(b, i) : i \in 0 .. c - 1}
  <1>1. MAX \in Nat \ {0} /\ Slots = 0 .. MAX - 1
    BY MAXAssumption DEF Slots
  <1>2. Sizes(b) \in [Slots -> Nat] /\ IsFiniteSet(Slots)
    BY SizesAre
  <1>3. PICK f \in [SUBSET Slots -> Nat] : AddsUp(f, SUBSET Slots, Sizes(b))
    BY <1>2, SetSumExists
  <1>4. f[{}] = 0 /\ \A s \in SUBSET Slots : \A x \in s : f[s] = Sizes(b)[x] + f[s \ {x}]
    <2>1. AnyOrder(f, Slots, Sizes(b))
      BY <1>2, <1>3, SetSumAnyOrder
    <2>2. QED
      BY <2>1 DEF AnyOrder
  <1>5. \A c \in 0 .. MAX : T(c) \in SUBSET Slots
    <2>1. \A c \in 0 .. MAX : \A i \in 0 .. c - 1 : i \in Slots
      BY <1>1
    <2>2. QED
      BY <2>1, CommandsAre
  <1>6. ASSUME NEW c \in 0 .. MAX, c # 0
        PROVE  f[T(c)] = b.entry[CommandSlot(b, c - 1)].size + f[T(c - 1)]
    <2> DEFINE x == CommandSlot(b, c - 1)
    <2>1. /\ c - 1 \in Slots /\ c - 1 \in 0 .. c - 1 /\ c - 1 \in 0 .. MAX
          /\ \A i : i \in 0 .. c - 1 <=> i \in 0 .. (c - 1) - 1 \/ i = c - 1
          /\ \A i \in 0 .. (c - 1) - 1 : i \in Slots /\ i # c - 1
      BY <1>1, <1>6
    <2>2. x \in T(c) /\ x \in Slots
      BY <2>1, CommandsAre
    <2>3. x \notin T(c - 1)
      BY <2>1, CommandSlots
    <2>4. T(c) \ {x} = T(c - 1)
      BY <2>1, <2>3
    <2>5. Sizes(b)[x] = b.entry[x].size
      BY <2>2 DEF Sizes
    <2>6. f[T(c)] = Sizes(b)[x] + f[T(c) \ {x}]
      BY <1>4, <1>5, <2>2
    <2>7. QED
      BY <2>4, <2>5, <2>6
  <1> DEFINE Bad == {c \in 0 .. MAX : f[T(c)] # L[c]}
  <1>7. Bad = {}
    <2> SUFFICES ASSUME Bad # {} PROVE FALSE
      OBVIOUS
    <2>1. PICK c \in Bad : \A e \in Bad : c <= e
      <3>1. Bad \in SUBSET Nat
        BY <1>1
      <3> HIDE DEF Bad
      <3>2. QED
        BY <3>1, LeastNumber
    <2>2. c # 0
      <3>1. T(0) = {}
        OBVIOUS
      <3>2. f[T(0)] = L[0]
        BY <1>4, <3>1 DEF Offsets
      <3>3. QED
        BY <2>1, <3>2
    <2>3. c \in 0 .. MAX /\ f[T(c)] # L[c]
      BY <2>1
    <2>4. c - 1 \in 0 .. MAX /\ c - 1 \in Slots /\ ~(c <= c - 1) /\ (c - 1) + 1 = c
      BY <1>1, <2>2, <2>3
    <2>5. c - 1 \notin Bad
      <3> HIDE DEF Bad
      <3>1. QED
        BY <2>1, <2>4
    <2>6. f[T(c - 1)] = L[c - 1]
      BY <2>4, <2>5
    <2>7. L[c] = L[c - 1] + b.entry[CommandSlot(b, c - 1)].size
      BY <2>4 DEF Offsets
    <2>8. L[c - 1] \in Nat /\ b.entry[CommandSlot(b, c - 1)].size \in Nat
      BY <2>4, CommandsAre DEF Offsets
    <2>9. f[T(c)] = b.entry[CommandSlot(b, c - 1)].size + f[T(c - 1)]
      BY <1>6, <2>2, <2>3
    <2> HIDE DEF T
    <2>10. QED
      BY <2>3, <2>6, <2>7, <2>8, <2>9
  <1>8. ASSUME NEW c \in 0 .. MAX PROVE new_pos(b, c) = L[c]
    <2>1. new_pos(b, c) = SizeOf(b, T(c))
      BY DEF new_pos, SizeOf
    <2>2. SizeOf(b, T(c)) = f[T(c)]
      BY <1>3, <1>5, SizeOfIs
    <2>3. QED
      BY <1>7, <2>1, <2>2
  <1>9. get_total_size(b) = L[MAX]
    <2>1. T(MAX) = Slots /\ MAX \in 0 .. MAX
      <3>1. MAX \in 0 .. MAX
        BY <1>1
      <3>2. \A x \in Slots : \E i \in 0 .. MAX - 1 : x = CommandSlot(b, i)
        BY <1>1, CommandSlots
      <3>3. QED
        BY <1>5, <3>1, <3>2
    <2>2. get_total_size(b) = SizeOf(b, Slots)
      BY DEF get_total_size, SizeOf, FoldFunction, Ring
    <2>3. SizeOf(b, Slots) = f[Slots]
      BY <1>3, SizeOfIs
    <2> HIDE DEF T
    <2>4. f[T(MAX)] = L[MAX]
      BY <1>7, <2>1
    <2>5. QED
      BY <2>1, <2>2, <2>3, <2>4
  <1>10. QED
    BY <1>8, <1>9

-----------------------------------------------------------------------------
(* Concatenation, by name: what the proofs below need to know about it is  *)
(* how long the result is and what it holds.                               *)
Cat(s, t) == s \o t

Length(s) == Len(s)

Joins(S) ==
  \A s, t \in S :
     /\ Cat(s, t) \in S /\ Length(s) \in Nat
     /\ Length(Cat(s, t)) = Length(s) + Length(t)
     /\ \A i \in 1 .. Length(s) + Length(t) :
          Cat(s, t)[i] = IF i <= Length(s) THEN s[i] ELSE t[i - Length(s)]

LEMMA SequencesJoin == \A A : Joins(Seq(A))
  BY ConcatProperties, LenProperties DEF Joins, Cat, Length

(* The prefixes of a sequence of sequences, concatenated, and the number   *)
(* of elements in each.                                                    *)
PutTogether(F, n, q) ==
  F = [i \in 1 .. n |-> IF i = 1 THEN q[i] ELSE Cat(F[i - 1], q[i])]

CountsUp(L, n, q) ==
  /\ L[0] = 0 /\ \A k \in 0 .. n : L[k] \in Nat
  /\ \A k \in 1 .. n : L[k] = L[k - 1] + Length(q[k])
  /\ \A i, j \in 0 .. n : i <= j => L[i] <= L[j]

(* p holds the sequences one after the other.                              *)
Concatenates(p, n, q, L) ==
  /\ Length(p) = L[n]
  /\ \A k \in 1 .. n : \A o \in 1 .. Length(q[k]) : p[L[k - 1] + o] = q[k][o]

(* Every sequence of sequences has its prefixes,                           *)
LEMMA FlattenExists ==
  ASSUME NEW S, Joins(S), NEW n \in Nat \ {0}, NEW q \in [1 .. n -> S]
  PROVE  \E f \in [1 .. n -> S] : PutTogether(f, n, q)
  <1> DEFINE Bad == {k \in 1 .. n : ~ \E f \in [1 .. k -> S] : PutTogether(f, k, q)}
  <1>1. Bad = {}
    <2> SUFFICES ASSUME Bad # {} PROVE FALSE
      OBVIOUS
    <2>1. Bad \in SUBSET Nat
      OBVIOUS
    <2>2. PICK k \in Bad : \A j \in Bad : k <= j
      <3> HIDE DEF Bad
      <3>1. QED
        BY <2>1, LeastNumber
    <2>3. CASE k = 1
      <3> DEFINE f == [i \in 1 .. 1 |-> q[1]]
      <3>1. f \in [1 .. 1 -> S] /\ PutTogether(f, 1, q)
        BY DEF PutTogether
      <3>2. QED
        BY <2>2, <2>3, <3>1
    <2>4. CASE k > 1
      <3>1. k - 1 \in 1 .. n /\ k \in 1 .. n
        BY <2>2, <2>4
      <3>2. k - 1 \notin Bad
        <4> HIDE DEF Bad
        <4>1. ~(k <= k - 1)
          BY <3>1
        <4>2. QED
          BY <2>2, <4>1
      <3>3. PICK f \in [1 .. k - 1 -> S] : PutTogether(f, k - 1, q)
        BY <3>1, <3>2
      <3> DEFINE t == Cat(f[k - 1], q[k])
                 h == [i \in 1 .. k |-> IF i = k THEN t ELSE f[i]]
      <3>4. t \in S
        <4>1. f[k - 1] \in S /\ q[k] \in S
          BY <3>1
        <4>2. QED
          BY <4>1 DEF Joins
      <3>5. h \in [1 .. k -> S]
        <4> HIDE DEF t
        <4>1. QED
          BY <3>1, <3>4
      <3>6. ASSUME NEW i \in 1 .. k PROVE h[i] = IF i = 1 THEN q[i] ELSE Cat(h[i - 1], q[i])
        <4>1. CASE i = k
          BY <2>4, <3>1, <4>1
        <4>2. CASE i < k
          <5>1. f[i] = IF i = 1 THEN q[i] ELSE Cat(f[i - 1], q[i])
            BY <3>1, <3>3, <4>2 DEF PutTogether
          <5>2. QED
            BY <3>1, <4>2, <5>1
        <4>3. QED
          BY <3>1, <4>1, <4>2
      <3>7. PutTogether(h, k, q)
        BY <3>6 DEF PutTogether
      <3>8. QED
        BY <2>2, <3>5, <3>7
    <2>5. QED
      BY <2>2, <2>3, <2>4
  <1>2. QED
    BY <1>1

(* and its last value holds the k-th sequence from position L[k - 1] on,   *)
(* when L counts the elements before it.                                   *)
LEMMA JoinedIs ==
  ASSUME NEW S, Joins(S), NEW n \in Nat \ {0}, NEW q \in [1 .. n -> S],
         NEW F, PutTogether(F, n, q), NEW L, CountsUp(L, n, q)
  PROVE  Concatenates(F[n], n, q, L)
  <1>1. F[1] = q[1] /\ \A i \in 2 .. n : F[i] = Cat(F[i - 1], q[i])
    BY DEF PutTogether
  <1> DEFINE Good(k) == /\ F[k] \in S /\ Length(F[k]) = L[k]
                        /\ \A j \in 1 .. k : \A o \in 1 .. Length(q[j]) :
                              F[k][L[j - 1] + o] = q[j][o]
             Bad == {k \in 1 .. n : ~Good(k)}
  <1>2. Bad = {}
    <2> SUFFICES ASSUME Bad # {} PROVE FALSE
      OBVIOUS
    <2>1. Bad \in SUBSET Nat
      OBVIOUS
    <2>2. PICK k \in Bad : \A j \in Bad : k <= j
      <3> HIDE DEF Bad
      <3>1. QED
        BY <2>1, LeastNumber
    <2>3. k \in 1 .. n /\ ~Good(k)
      BY <2>2
    <2> HIDE DEF Bad
    <2>4. CASE k = 1
      <3>1. L[1] = L[0] + Length(q[1]) /\ L[0] = 0 /\ 1 - 1 = 0
        BY <2>3, <2>4 DEF CountsUp
      <3>2. q[1] \in S /\ Length(q[1]) \in Nat
        BY <2>3, <2>4 DEF Joins
      <3>3. Length(q[1]) = L[1]
        BY <3>1, <3>2
      <3>4. \A j \in 1 .. 1 : \A o \in 1 .. Length(q[j]) : F[1][L[j - 1] + o] = q[j][o]
        <4>1. \A o \in 1 .. Length(q[1]) : L[1 - 1] + o = o
          BY <3>1, <3>2
        <4>2. QED
          BY <1>1, <4>1
      <3>5. QED
        BY <1>1, <2>3, <2>4, <3>2, <3>3, <3>4
    <2>5. CASE k > 1
      <3>1. k - 1 \in 1 .. n /\ k \in 2 .. n /\ k - 1 \in 0 .. n /\ ~(k <= k - 1)
        BY <2>3, <2>5
      <3>2. Good(k - 1)
        <4>1. k - 1 \notin Bad
          <5> HIDE DEF Bad
          <5>1. QED
            BY <2>2, <3>1
        <4> HIDE DEF Good
        <4>2. QED
          BY <3>1, <4>1 DEF Bad
      <3>3. F[k] = Cat(F[k - 1], q[k]) /\ F[k - 1] \in S /\ q[k] \in S
        BY <1>1, <3>1, <3>2
      <3>4. Length(F[k - 1]) = L[k - 1] /\ L[k - 1] \in Nat /\ L[k] = L[k - 1] + Length(q[k])
        BY <3>1, <3>2 DEF CountsUp
      <3>5. /\ F[k] \in S /\ Length(F[k]) = Length(F[k - 1]) + Length(q[k])
            /\ \A i \in 1 .. Length(F[k - 1]) + Length(q[k]) :
                 F[k][i] = IF i <= Length(F[k - 1]) THEN F[k - 1][i]
                           ELSE q[k][i - Length(F[k - 1])]
        BY <3>3 DEF Joins
      <3>6. Length(F[k - 1]) \in Nat /\ Length(q[k]) \in Nat
        BY <3>3 DEF Joins
      <3> HIDE DEF Good
      <3>7. ASSUME NEW j \in 1 .. k, NEW o \in 1 .. Length(q[j])
            PROVE  F[k][L[j - 1] + o] = q[j][o]
        <4>1. CASE j = k
          <5>1. /\ L[k - 1] + o \in 1 .. Length(F[k - 1]) + Length(q[k])
                /\ ~(L[k - 1] + o <= Length(F[k - 1]))
                /\ (L[k - 1] + o) - Length(F[k - 1]) = o
            BY <3>4, <3>6, <4>1
          <5>2. F[k][L[k - 1] + o] = q[k][(L[k - 1] + o) - Length(F[k - 1])]
            BY <3>5, <5>1
          <5>3. QED
            BY <4>1, <5>1, <5>2, Zenon
        <4>2. CASE j < k
          <5>1. /\ j \in 1 .. k - 1 /\ j \in 1 .. n /\ j \in 0 .. n
                /\ j - 1 \in 0 .. n /\ j <= k - 1
            BY <3>1, <4>2
          <5>2. /\ L[j] = L[j - 1] + Length(q[j]) /\ L[j] <= L[k - 1]
                /\ L[j - 1] \in Nat /\ L[j] \in Nat
            BY <3>1, <5>1 DEF CountsUp
          <5>3. q[j] \in S
            BY <5>1
          <5>4. Length(q[j]) \in Nat
            BY <5>3 DEF Joins
          <5>5. /\ L[j - 1] + o \in 1 .. Length(F[k - 1]) + Length(q[k])
                /\ L[j - 1] + o <= Length(F[k - 1])
            BY <3>4, <3>6, <5>2, <5>4, SMTT(40)
          <5>6. F[k][L[j - 1] + o] = F[k - 1][L[j - 1] + o]
            BY <3>5, <5>5
          <5>7. F[k - 1][L[j - 1] + o] = q[j][o]
            BY <3>2, <5>1 DEF Good
          <5>8. QED
            BY <5>6, <5>7
        <4>3. QED
          BY <3>1, <4>1, <4>2
      <3>8. Good(k)
        BY <3>4, <3>5, <3>7 DEF Good
      <3>9. QED
        BY <2>3, <3>8
    <2>6. QED
      BY <2>3, <2>4, <2>5
  <1>3. n \in 1 .. n /\ Good(n)
    <2>1. n \in 1 .. n
      OBVIOUS
    <2> HIDE DEF Good
    <2>2. QED
      BY <1>2, <2>1
  <1>4. QED
    BY <1>3 DEF Concatenates

(* What FlattenSeq returns: the sequences one after the other.             *)
LEMMA FlattenIs ==
  ASSUME NEW A, NEW n \in Nat \ {0}, NEW q, q \in [1 .. n -> Seq(A)],
         NEW L, CountsUp(L, n, q)
  PROVE  Concatenates(FlattenSeq(q), n, q, L)
  <1> DEFINE S == Seq(A)
             F == CHOOSE f : PutTogether(f, n, q)
  <1>1. Len(q) = n /\ Len(q) # 0
    BY FunctionIsSeq
  <1>2. FlattenSeq(q) = F[n]
    BY <1>1 DEF FlattenSeq, Cat, PutTogether
  <1>3. Joins(S) /\ q \in [1 .. n -> S]
    BY SequencesJoin
  <1> HIDE DEF S
  <1>4. PutTogether(F, n, q)
    <2>1. \E f \in [1 .. n -> S] : PutTogether(f, n, q)
      BY <1>3, FlattenExists
    <2>2. QED
      BY <2>1
  <1> HIDE DEF F
  <1>5. Concatenates(F[n], n, q, L)
    BY <1>3, <1>4, JoinedIs
  <1>6. QED
    BY <1>2, <1>5

(* With nothing to count, still sequences: FlattenSeq stays within Seq(A). *)
LEMMA FlattenType ==
  ASSUME NEW A, NEW n \in Nat, NEW q, q \in [1 .. n -> Seq(A)]
  PROVE  FlattenSeq(q) \in Seq(A)
  <1>1. CASE n = 0
    <2>1. Len(q) = 0 /\ q \in Seq(Seq(A))
      BY <1>1, FunctionIsSeq
    <2>2. q = << >>
      BY <2>1, EmptySeq
    <2>3. FlattenSeq(q) = << >>
      BY <2>1, <2>2 DEF FlattenSeq
    <2>4. << >> \in Seq(A)
      BY EmptySeq
    <2>5. QED
      BY <2>3, <2>4
  <1>2. CASE n # 0
    <2> DEFINE S == Seq(A)
               F == CHOOSE f : PutTogether(f, n, q)
    <2>1. Len(q) = n /\ Len(q) # 0
      BY <1>2, FunctionIsSeq
    <2>2. FlattenSeq(q) = F[n]
      BY <2>1 DEF FlattenSeq, Cat, PutTogether
    <2>3. Joins(S) /\ q \in [1 .. n -> S] /\ n \in Nat \ {0}
      BY <1>2, SequencesJoin
    <2> HIDE DEF S
    <2>4. PutTogether(F, n, q)
      <3>1. \E f \in [1 .. n -> S] : PutTogether(f, n, q)
        BY <2>3, FlattenExists
      <3>2. QED
        BY <3>1
    <2> HIDE DEF F
    <2> DEFINE Bad == {k \in 1 .. n : F[k] \notin S}
    <2>5. Bad = {}
      <3> SUFFICES ASSUME Bad # {} PROVE FALSE
        OBVIOUS
      <3>1. Bad \in SUBSET Nat
        OBVIOUS
      <3>2. PICK k \in Bad : \A j \in Bad : k <= j
        <4> HIDE DEF Bad
        <4>1. QED
          BY <3>1, LeastNumber
      <3>3. k \in 1 .. n /\ F[k] \notin S
        BY <3>2
      <3>4. F[k] = IF k = 1 THEN q[k] ELSE Cat(F[k - 1], q[k])
        BY <2>4, <3>3 DEF PutTogether
      <3>5. k # 1
        BY <2>3, <3>3, <3>4
      <3>6. k - 1 \in 1 .. n /\ ~(k <= k - 1)
        BY <2>3, <3>3, <3>5
      <3>7. k - 1 \notin Bad
        <4> HIDE DEF Bad
        <4>1. QED
          BY <3>2, <3>6
      <3>8. F[k - 1] \in S /\ q[k] \in S
        BY <2>3, <3>3, <3>6, <3>7
      <3>9. QED
        BY <2>3, <3>3, <3>4, <3>5, <3>8 DEF Joins
    <2>6. n \in 1 .. n
      BY <2>3
    <2>7. QED
      BY <2>2, <2>5, <2>6 DEF S
  <1>3. QED
    BY <1>1, <1>2

-----------------------------------------------------------------------------
(* Adding an entry and emptying the buffer keep the shape of the ring.     *)
LEMMA RingInit == Ring(aesd_circular_buffer_init)
  BY MAXAssumption DEF Ring, aesd_circular_buffer_init, Slots

LEMMA RingAdd ==
  ASSUME NEW b, Ring(b), NEW e, Occupied(e)
  PROVE  Ring(aesd_circular_buffer_add_entry(b, e))
  <1> DEFINE c == aesd_circular_buffer_add_entry(b, e)
             in == NextSlot(b.in_offs)
             out == IF b.full THEN NextSlot(b.out_offs) ELSE b.out_offs
             entries == [b.entry EXCEPT ![b.in_offs] = e]
  <1> SUFFICES Ring(c)
    OBVIOUS
  <1>1. b.in_offs \in Slots /\ b.out_offs \in Slots /\ b.full \in BOOLEAN /\ DOMAIN b.entry = Slots
    BY DEF Ring
  <1>2. /\ c.entry = entries /\ c.in_offs = in /\ c.out_offs = out
        /\ c.full \in BOOLEAN /\ (c.full <=> b.full \/ in = out)
    BY DEF aesd_circular_buffer_add_entry
  <1>3. in \in Slots /\ out \in Slots /\ DOMAIN entries = Slots
    BY <1>1, NextSlotIs
  <1>4. \A i \in Slots : entries[i] = IF i = b.in_offs THEN e ELSE b.entry[i]
    BY <1>1
  <1> HIDE DEF c, entries
  <1>5. CASE b.full
    <2>1. in = out /\ \A i \in Slots : Occupied(entries[i])
      BY <1>4, <1>5 DEF Ring
    <2>2. QED
      BY <1>2, <1>3, <1>5, <2>1 DEF Ring
  <1>6. CASE ~b.full /\ b.in_offs = MAX - 1
    <2>1. in = 0 /\ out = 0
      BY <1>1, <1>6, NextSlotIs DEF Ring
    <2>2. \A i \in Slots : i # b.in_offs => i < b.in_offs
      BY <1>6, MAXAssumption DEF Slots
    <2>3. \A i \in Slots : Occupied(entries[i])
      BY <1>4, <1>6, <2>2 DEF Ring
    <2>4. QED
      BY <1>2, <1>3, <2>1, <2>3 DEF Ring
  <1>7. CASE ~b.full /\ b.in_offs # MAX - 1
    <2>1. in = b.in_offs + 1 /\ out = 0 /\ in # out
      BY <1>1, <1>7, NextSlotIs DEF Ring, Slots
    <2>2. \A i \in Slots : i # b.in_offs => (i < in <=> i < b.in_offs)
      BY <1>1, <2>1 DEF Slots
    <2>3. b.in_offs < in
      BY <1>1, <2>1 DEF Slots
    <2>4. \A i \in Slots : IF i < in THEN Occupied(entries[i]) ELSE entries[i] = NoEntry
      BY <1>4, <1>7, <2>2, <2>3 DEF Ring
    <2>5. QED
      BY <1>2, <1>3, <1>7, <2>1, <2>4 DEF Ring
  <1>8. QED
    BY <1>1, <1>5, <1>6, <1>7

LEMMA RingTrim ==
  ASSUME NEW b, Ring(b)
  PROVE  aesd_trim(b) = aesd_circular_buffer_init
  <1>1. \A i \in Slots : (IF b.entry[i].buffptr # NULL THEN NoEntry ELSE b.entry[i]) = NoEntry
    BY DEF Ring, Occupied
  <1>2. QED
    BY <1>1 DEF aesd_trim, aesd_circular_buffer_init

(* A position is found inside an occupied slot, or not at all; a size and  *)
(* the position of a command are numbers.                                  *)
LEMMA FindType ==
  ASSUME NEW b, Ring(b), NEW pos \in Nat
  PROVE  LET found == aesd_circular_buffer_find_entry_offset_for_fpos(b, pos)
         IN  \/ found = NULL
             \/ /\ found.slot \in Slots /\ Occupied(b.entry[found.slot])
                /\ found.offset \in Nat /\ found.offset < b.entry[found.slot].size
  <1>1. PICK L : Offsets(b, L)
    BY OffsetsExist
  <1>2. L[EntryCount(b)] \in Nat /\ \A k \in Slots : L[k] \in Nat
    <2>1. EntryCount(b) \in 0 .. MAX /\ Slots \subseteq 0 .. MAX
      BY CommandsAre, MAXAssumption DEF Slots
    <2>2. QED
      BY <1>1, <2>1 DEF Offsets
  <1>3. CASE L[EntryCount(b)] <= pos
    BY <1>1, <1>3, FindNone
  <1>4. CASE pos < L[EntryCount(b)]
    <2>1. PICK k \in Slots : /\ k < EntryCount(b) /\ L[k] <= pos /\ pos - L[k] \in Nat
                             /\ pos - L[k] < b.entry[CommandSlot(b, k)].size
      BY <1>1, <1>4, CommandOf
    <2>2. L[k] + (pos - L[k]) = pos
      BY <1>2
    <2>3. aesd_circular_buffer_find_entry_offset_for_fpos(b, pos)
            = [slot |-> CommandSlot(b, k), offset |-> pos - L[k]]
      BY <1>1, <2>1, <2>2, FindIs
    <2>4. CommandSlot(b, k) \in Slots /\ Occupied(b.entry[CommandSlot(b, k)])
      BY <2>1, CommandsAre
    <2>5. QED
      BY <2>1, <2>3, <2>4
  <1>5. QED
    BY <1>2, <1>3, <1>4

LEMMA SizeType ==
  ASSUME NEW b, Ring(b)
  PROVE  get_total_size(b) \in Nat
  <1>1. PICK L : Offsets(b, L)
    BY OffsetsExist
  <1>2. L[MAX] \in Nat
    <2>1. MAX \in 0 .. MAX
      BY MAXAssumption
    <2>2. QED
      BY <1>1, <2>1 DEF Offsets
  <1>3. QED
    BY <1>1, <1>2, NewPosIs

LEMMA AdjustType ==
  ASSUME NEW b, Ring(b), NEW c \in Nat, NEW o \in Nat
  PROVE  \/ adjust_aesd_file_offset(b, c, o) = NULL
         \/ adjust_aesd_file_offset(b, c, o) \in Nat
  <1>1. PICK L : Offsets(b, L)
    BY OffsetsExist
  <1>2. CASE c >= MAX
    BY <1>2 DEF adjust_aesd_file_offset
  <1>3. CASE c < MAX
    <2>1. c \in 0 .. MAX
      BY <1>3, MAXAssumption
    <2>2. new_pos(b, c) = L[c] /\ L[c] \in Nat
      BY <1>1, <2>1, NewPosIs DEF Offsets
    <2>3. new_pos(b, c) + o \in Nat
      BY <2>2
    <2>4. QED
      BY <2>3 DEF adjust_aesd_file_offset
  <1>4. QED
    BY <1>2, <1>3, MAXAssumption
=============================================================================
