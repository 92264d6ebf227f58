------------------------ MODULE CircularBufferProofs ------------------------
(***************************************************************************)
(* Proofs about the circular buffer, for every number of slots MAX and     *)
(* every set of commands.                                                  *)
(***************************************************************************)
EXTENDS CircularBufferSpec, RingProofs

(* An empty slot is not a command, since commands have at least one byte.  *)
LEMMA NoEntryIsNoCommand == NoEntry \notin Entries
  BY EntriesAssumption DEF NoEntry

-----------------------------------------------------------------------------
(* The inductive invariant: field types and the shape of the ring.         *)
RingInv == TypeOK /\ RingShape

LEMMA InitRing == Init => RingInv
  BY MAXAssumption
     DEF Init, RingInv, TypeOK, RingShape, aesd_circular_buffer_init, Slots

LEMMA AddRing ==
  ASSUME RingInv, NEW e \in Entries, Add(e)
  PROVE  RingInv'
  <1> DEFINE in == NextSlot(buffer.in_offs)
             out == IF buffer.full THEN NextSlot(buffer.out_offs) ELSE buffer.out_offs
             entries == [buffer.entry EXCEPT ![buffer.in_offs] = e]
  <1>1. /\ buffer.in_offs \in Slots /\ buffer.out_offs \in Slots
        /\ buffer.entry \in [Slots -> Entries \cup {NoEntry}]
        /\ buffer.full \in BOOLEAN
    BY DEF RingInv, TypeOK
  <1>2. buffer' = [entry |-> entries, in_offs |-> in, out_offs |-> out,
                   full |-> buffer.full \/ in = out]
    BY DEF Add, aesd_circular_buffer_add_entry
  <1>3. in \in Slots /\ out \in Slots
    BY <1>1, NextSlotIs
  <1>4. entries \in [Slots -> Entries \cup {NoEntry}]
    BY <1>1
  <1>5. evicted' \in Entries \cup {NULL}
    BY <1>1 DEF RingInv, RingShape, Add, overwritten_entry
  <1>6. TypeOK'
    BY <1>2, <1>3, <1>4, <1>5 DEF TypeOK
  <1>7. RingShape'
    <2>1. CASE buffer.full
      BY <1>1, <1>2, <2>1 DEF RingInv, RingShape
    <2>2. CASE ~buffer.full /\ buffer.in_offs = MAX - 1
      <3>1. in = 0 /\ out = 0
        BY <1>1, <2>2, NextSlotIs DEF RingInv, RingShape
      <3>2. \A i \in Slots : entries[i] \in Entries
        BY <1>1, <2>2, MAXAssumption DEF RingInv, RingShape, Slots
      <3>3. /\ buffer'.full /\ buffer'.in_offs = buffer'.out_offs
            /\ buffer'.entry = entries
        BY <1>2, <3>1
      <3>4. QED
        BY <3>2, <3>3 DEF RingShape
    <2>3. CASE ~buffer.full /\ buffer.in_offs # MAX - 1
      <3>1. in = buffer.in_offs + 1 /\ out = 0 /\ in # out
        BY <1>1, <2>3, NextSlotIs DEF RingInv, RingShape, Slots
      <3>2. \A i \in Slots : IF i < in THEN entries[i] \in Entries
                                       ELSE entries[i] = NoEntry
        BY <1>1, <2>3, <3>1, MAXAssumption DEF RingInv, RingShape, Slots
      <3>3. /\ ~buffer'.full /\ buffer'.in_offs = in /\ buffer'.out_offs = 0
            /\ buffer'.entry = entries
        BY <1>2, <2>3, <3>1
      <3>4. QED
        BY <3>2, <3>3 DEF RingShape
    <2>4. QED
      BY <1>1, <2>1, <2>2, <2>3
  <1>8. QED
    BY <1>6, <1>7 DEF RingInv

LEMMA TrimRing ==
  ASSUME RingInv, Trim
  PROVE  RingInv'
  <1>1. buffer.entry \in [Slots -> Entries \cup {NoEntry}]
    BY DEF RingInv, TypeOK
  <1>2. \A i \in Slots : (IF buffer.entry[i].buffptr # NULL
                            THEN NoEntry ELSE buffer.entry[i]) = NoEntry
    BY <1>1, EntriesAssumption DEF NoEntry
  <1>3. buffer' = [entry |-> [i \in Slots |-> NoEntry],
                   in_offs |-> 0, out_offs |-> 0, full |-> FALSE]
    BY <1>2 DEF Trim, aesd_trim
  <1>4. QED
    BY <1>3, MAXAssumption DEF Trim, RingInv, TypeOK, RingShape, Slots

LEMMA NextRing == RingInv /\ [Next]_vars => RingInv'
  <1> SUFFICES ASSUME RingInv, [Next]_vars PROVE RingInv'
    OBVIOUS
  <1>1. ASSUME NEW e \in Entries, Add(e) PROVE RingInv'
    BY <1>1, AddRing
  <1>2. CASE Trim
    BY <1>2, TrimRing
  <1>3. CASE UNCHANGED vars
    BY <1>3 DEF vars, RingInv, TypeOK, RingShape
  <1>4. QED
    BY <1>1, <1>2, <1>3 DEF Next

(* Every state the circular buffer reaches is well typed and has the ring  *)
(* shape that find_entry_offset_for_fpos, the seek and the eviction of     *)
(* add_entry rely on.                                                      *)
THEOREM RingShapeHolds == Spec => [](TypeOK /\ RingShape)
  BY InitRing, NextRing, PTL DEF Spec, RingInv

(* In particular the fields of struct aesd_circular_buffer and the entry   *)
(* that add_entry returns keep to their types.                             *)
THEOREM TypesHold == Spec => []TypeOK
  BY RingShapeHolds, PTL

-----------------------------------------------------------------------------
(* The window of a ring that is not full yet: slots 0, 1, ... in order.    *)
LEMMA WindowNotFull ==
  ASSUME NEW b, b.full = FALSE, b.out_offs = 0, b.in_offs \in Slots
  PROVE  Window(b) = [k \in 1 .. b.in_offs |-> b.entry[k - 1]]
  <1>1. EntryCount(b) = b.in_offs
    BY DEF EntryCount, Slots
  <1>2. ASSUME NEW k \in 1 .. b.in_offs PROVE CommandSlot(b, k - 1) = k - 1
    <2>1. k - 1 \in Slots /\ 0 \in Slots /\ k - 1 + 0 = k - 1 /\ k - 1 < MAX
      BY MAXAssumption DEF Slots
    <2>2. QED
      BY <2>1, SlotSum DEF CommandSlot
  <1>3. QED
    BY <1>1, <1>2 DEF Window

(* An empty ring has an empty window.                                      *)
LEMMA WindowEmpty ==
  ASSUME NEW b, b.full = FALSE, b.out_offs = 0, b.in_offs = 0
  PROVE  Window(b) = << >>
  <1>1. EntryCount(b) = 0
    BY DEF EntryCount
  <1>2. QED
    BY <1>1 DEF Window

(* The window of a full ring: all slots, from out_offs on, wrapping.       *)
LEMMA WindowFull ==
  ASSUME NEW b, b.full = TRUE
  PROVE  Window(b) = [k \in 1 .. MAX |-> b.entry[CommandSlot(b, k - 1)]]
  BY DEF Window, EntryCount

LEMMA AddRefines ==
  ASSUME RingInv, NEW e \in Entries, Add(e)
  PROVE  AbstractWindow!AddToRoom(e) \/ AbstractWindow!AddDisplacing(e)
  <1> DEFINE in == NextSlot(buffer.in_offs)
             out == IF buffer.full THEN NextSlot(buffer.out_offs) ELSE buffer.out_offs
             entries == [buffer.entry EXCEPT ![buffer.in_offs] = e]
             w == Window(buffer)
             v == Window(buffer')
  <1>1. /\ buffer.in_offs \in Slots /\ buffer.out_offs \in Slots
        /\ buffer.entry \in [Slots -> Entries \cup {NoEntry}]
        /\ buffer.full \in BOOLEAN
    BY DEF RingInv, TypeOK
  <1>2. buffer' = [entry |-> entries, in_offs |-> in, out_offs |-> out,
                   full |-> buffer.full \/ in = out]
    BY DEF Add, aesd_circular_buffer_add_entry
  <1>3. /\ buffer'.entry = entries /\ buffer'.in_offs = in
        /\ buffer'.out_offs = out /\ buffer'.full = (buffer.full \/ in = out)
    BY <1>2
  <1>4. in \in Slots /\ out \in Slots
    BY <1>1, NextSlotIs
  <1>5. CASE ~buffer.full
    <2> DEFINE n == buffer.in_offs
    <2>1. n \in Nat /\ n < MAX /\ buffer.out_offs = 0
      <3>1. buffer.out_offs = 0
        BY <1>5 DEF RingInv, RingShape
      <3>2. QED
        BY <1>1, <3>1, MAXAssumption DEF Slots
    <2>2. w = [k \in 1 .. n |-> buffer.entry[k - 1]]
      BY <1>1, <1>5, <2>1, WindowNotFull
    <2>3. \A k \in 1 .. n : buffer.entry[k - 1] \in Entries
      <3> TAKE k \in 1 .. n
      <3>1. k - 1 \in Slots /\ k - 1 < n
        BY <2>1, MAXAssumption DEF Slots
      <3>2. QED
        BY <1>5, <3>1 DEF RingInv, RingShape
    <2>4. w \in [1 .. n -> Entries]
      BY <2>2, <2>3
    <2>5. w \in Seq(Entries) /\ Len(w) = n
      BY <2>1, <2>4, FunctionIsSeq
    <2>6. v = [k \in 1 .. n + 1 |-> entries[k - 1]]
      <3>1. CASE n = MAX - 1
        <4>1. in = 0 /\ out = 0 /\ buffer'.full = TRUE
          BY <1>1, <1>3, <1>5, <2>1, <3>1, NextSlotIs
        <4>2. v = [k \in 1 .. MAX |-> entries[CommandSlot(buffer', k - 1)]]
          <5>1. v = [k \in 1 .. MAX |-> buffer'.entry[CommandSlot(buffer', k - 1)]]
            BY <4>1, WindowFull, Zenon
          <5>2. QED
            BY <1>3, <5>1
        <4>3. \A k \in 1 .. MAX : CommandSlot(buffer', k - 1) = k - 1
          <5> TAKE k \in 1 .. MAX
          <5>1. k - 1 \in Slots /\ buffer'.out_offs = 0
            BY <1>3, <4>1, MAXAssumption DEF Slots
          <5>2. QED
            BY <5>1, <1>4, <1>3, CommandSlotIs, MAXAssumption DEF Slots
        <4>4. QED
          BY <4>2, <4>3, <3>1, MAXAssumption
      <3>2. CASE n # MAX - 1
        <4>1. in = n + 1 /\ out = 0 /\ buffer'.full = FALSE
          BY <1>1, <1>3, <1>5, <2>1, <3>2, NextSlotIs
        <4>2. QED
          <5>1. /\ buffer'.full = FALSE /\ buffer'.out_offs = 0
                /\ buffer'.in_offs = n + 1 /\ buffer'.in_offs \in Slots
            BY <1>3, <1>4, <4>1
          <5>2. v = [k \in 1 .. buffer'.in_offs |-> buffer'.entry[k - 1]]
            BY <5>1, WindowNotFull, Zenon
          <5>3. QED
            BY <1>3, <5>1, <5>2
      <3>3. QED
        BY <3>1, <3>2
    <2>7. v = Append(w, e)
      <3>1. \A k \in 1 .. n + 1 : entries[k - 1] = IF k = n + 1 THEN e ELSE buffer.entry[k - 1]
        <4> TAKE k \in 1 .. n + 1
        <4>1. k - 1 \in Slots /\ (k - 1 = n <=> k = n + 1)
          BY <2>1, MAXAssumption DEF Slots
        <4>2. QED
          BY <1>1, <4>1
      <3>2. v \in [1 .. n + 1 -> Entries]
        BY <2>3, <2>6, <3>1, <2>1
      <3>3. v \in Seq(Entries) /\ Len(v) = n + 1
        BY <2>1, <3>2, FunctionIsSeq
      <3>4. /\ Append(w, e) \in Seq(Entries) /\ Len(Append(w, e)) = n + 1
            /\ \A k \in 1 .. n : Append(w, e)[k] = w[k]
            /\ Append(w, e)[n + 1] = e
        BY <2>5, AppendProperties
      <3>5. \A k \in 1 .. n + 1 : v[k] = Append(w, e)[k]
        BY <2>1, <2>2, <2>6, <3>1, <3>4
      <3>6. QED
        BY <3>3, <3>4, <3>5, SeqEqual
    <2>8. evicted' = NULL
      BY <1>5 DEF Add, overwritten_entry
    <2>9. QED
      BY <2>1, <2>5, <2>7, <2>8 DEF AbstractWindow!AddToRoom
  <1>6. CASE buffer.full
    <2> DEFINE o == buffer.out_offs
    <2>1. buffer.in_offs = o /\ out = in /\ buffer'.full = TRUE
      BY <1>1, <1>3, <1>6 DEF RingInv, RingShape
    <2>2. w = [k \in 1 .. MAX |-> buffer.entry[CommandSlot(buffer, k - 1)]]
      BY <1>1, <1>6, WindowFull
    <2>3. v = [k \in 1 .. MAX |-> entries[CommandSlot(buffer', k - 1)]]
      <3>1. v = [k \in 1 .. MAX |-> buffer'.entry[CommandSlot(buffer', k - 1)]]
        BY <2>1, WindowFull, Zenon
      <3>2. QED
        BY <1>3, <3>1
    <2>4. \A i \in Slots : buffer.entry[i] \in Entries /\ entries[i] \in Entries
      BY <1>1, <1>6 DEF RingInv, RingShape
    <2>5. ASSUME NEW k \in 1 .. MAX
          PROVE  /\ k - 1 \in Slots
                 /\ CommandSlot(buffer, k - 1) \in Slots
                 /\ CommandSlot(buffer', k - 1) \in Slots
      <3>1. k - 1 \in Slots
        BY MAXAssumption DEF Slots
      <3>2. QED
        BY <1>1, <1>3, <1>4, <3>1, CommandSlotIs
    <2>6. w \in [1 .. MAX -> Entries] /\ v \in [1 .. MAX -> Entries]
      BY <2>2, <2>3, <2>4, <2>5
    <2>7. /\ w \in Seq(Entries) /\ Len(w) = MAX /\ w # << >>
          /\ v \in Seq(Entries) /\ Len(v) = MAX
      BY <2>6, FunctionIsSeq, EmptySeq, MAXAssumption
    <2>8. /\ Tail(w) \in Seq(Entries) /\ Len(Tail(w)) = MAX - 1
          /\ \A k \in 1 .. MAX - 1 : Tail(w)[k] = w[k + 1]
      BY <2>7, HeadTailProperties
    <2>9. /\ Append(Tail(w), e) \in Seq(Entries) /\ Len(Append(Tail(w), e)) = MAX
          /\ \A k \in 1 .. MAX - 1 : Append(Tail(w), e)[k] = w[k + 1]
          /\ Append(Tail(w), e)[MAX] = e
      BY <2>8, AppendProperties, MAXAssumption
    <2>10. ASSUME NEW k \in 1 .. MAX - 1
           PROVE  v[k] = w[k + 1]
      <3>1. k - 1 \in Slots /\ k \in Slots /\ k \in 1 .. MAX /\ k + 1 \in 1 .. MAX
        BY MAXAssumption DEF Slots
      <3>2. CommandSlot(buffer', k - 1) = IF k - 1 + in < MAX
                                           THEN k - 1 + in ELSE k - 1 + in - MAX
        BY <1>3, <1>4, <2>1, <3>1, CommandSlotIs
      <3>3. CommandSlot(buffer, k) = IF k + o < MAX THEN k + o ELSE k + o - MAX
        BY <1>1, <3>1, CommandSlotIs
      <3>4. in = IF o = MAX - 1 THEN 0 ELSE o + 1
        BY <1>1, <2>1, NextSlotIs
      <3>5. CommandSlot(buffer', k - 1) = CommandSlot(buffer, k)
        BY <1>1, <3>2, <3>3, <3>4, MAXAssumption DEF Slots
      <3>6. CommandSlot(buffer, k) # o /\ CommandSlot(buffer, k) \in Slots
        BY <1>1, <3>3, MAXAssumption DEF Slots
      <3>7. v[k] = buffer.entry[CommandSlot(buffer, k)]
        BY <1>1, <2>1, <2>3, <3>1, <3>5, <3>6
      <3>8. w[k + 1] = buffer.entry[CommandSlot(buffer, (k + 1) - 1)]
        BY <2>2, <3>1
      <3>9. (k + 1) - 1 = k
        OBVIOUS
      <3>10. QED
        BY <3>7, <3>8, <3>9
    <2>11. v[MAX] = e
      <3>1. MAX - 1 \in Slots /\ MAX \in 1 .. MAX
        BY MAXAssumption DEF Slots
      <3>2. CommandSlot(buffer', MAX - 1) = IF MAX - 1 + in < MAX
                                             THEN MAX - 1 + in ELSE MAX - 1 + in - MAX
        BY <1>3, <1>4, <2>1, <3>1, CommandSlotIs
      <3>3. in = IF o = MAX - 1 THEN 0 ELSE o + 1
        BY <1>1, <2>1, NextSlotIs
      <3>4. CommandSlot(buffer', MAX - 1) = o
        BY <1>1, <3>2, <3>3, MAXAssumption DEF Slots
      <3>5. QED
        BY <1>1, <2>1, <2>3, <3>1, <3>4
    <2>12. \A k \in 1 .. MAX : v[k] = Append(Tail(w), e)[k]
      BY <2>9, <2>10, <2>11, MAXAssumption
    <2>13. v = Append(Tail(w), e)
      BY <2>7, <2>9, <2>12, SeqEqual
    <2>14. evicted' = Head(w)
      <3>1. evicted' = buffer.entry[o]
        BY <1>6, <2>1 DEF Add, overwritten_entry
      <3>2. CommandSlot(buffer, 0) = o
        BY <1>1, CommandSlotIs, MAXAssumption, SMTT(40) DEF Slots
      <3>3. w[1] = buffer.entry[CommandSlot(buffer, 1 - 1)]
        BY <2>2, MAXAssumption
      <3>4. QED
        BY <2>7, <3>1, <3>2, <3>3
    <2>15. QED
      BY <2>7, <2>13, <2>14 DEF AbstractWindow!AddDisplacing
  <1>7. QED
    BY <1>5, <1>6

LEMMA TrimRefines ==
  ASSUME Trim
  PROVE  AbstractWindow!Clear
  <1>1. buffer'.full = FALSE /\ buffer'.out_offs = 0 /\ buffer'.in_offs = 0
    BY DEF Trim, aesd_trim
  <1>2. Window(buffer') = << >>
    BY <1>1, WindowEmpty
  <1>3. QED
    BY <1>2 DEF AbstractWindow!Clear, Trim

(* For every MAX the circular buffer implements the first-in first-out     *)
(* window: add_entry appends, and when the ring is full the entry it hands *)
(* back to be freed is the oldest, the only one to leave.                  *)
THEOREM RingImplementsWindow == Spec => KeepsMostRecent
  <1>1. Init => AbstractWindow!Init
    <2> SUFFICES ASSUME Init PROVE AbstractWindow!Init
      OBVIOUS
    <2>1. buffer.full = FALSE /\ buffer.out_offs = 0 /\ buffer.in_offs = 0
      BY DEF Init, aesd_circular_buffer_init
    <2>2. Window(buffer) = << >>
      BY <2>1, WindowEmpty
    <2>3. QED
      BY <2>2 DEF Init, AbstractWindow!Init
  <1>2. RingInv /\ [Next]_vars => [AbstractWindow!Next]_AbstractWindow!vars
    <2> SUFFICES ASSUME RingInv, [Next]_vars
                 PROVE  [AbstractWindow!Next]_AbstractWindow!vars
      OBVIOUS
    <2>1. ASSUME NEW e \in Entries, Add(e) PROVE AbstractWindow!Next
      BY <2>1, AddRefines DEF AbstractWindow!Next
    <2>2. CASE Trim
      BY <2>2, TrimRefines DEF AbstractWindow!Next
    <2>3. CASE UNCHANGED vars
      BY <2>3 DEF vars, AbstractWindow!vars
    <2>4. QED
      BY <2>1, <2>2, <2>3 DEF Next
  <1>3. Spec => []RingInv
    BY RingShapeHolds, PTL DEF RingInv
  <1>4. QED
    BY <1>1, <1>2, <1>3, PTL DEF Spec, KeepsMostRecent, AbstractWindow!Spec

-----------------------------------------------------------------------------
(* The shape makes the buffer a ring in the sense of RingProofs.           *)
LEMMA BufferIsRing ==
  ASSUME RingInv
  PROVE  Ring(buffer)
  <1>1. /\ buffer.in_offs \in Slots /\ buffer.out_offs \in Slots
        /\ buffer.full \in BOOLEAN /\ DOMAIN buffer.entry = Slots
    BY DEF RingInv, TypeOK
  <1>2. \A e \in Entries : Occupied(e)
    BY EntriesAssumption DEF Occupied
  <1>3. QED
    BY <1>1, <1>2 DEF RingInv, RingShape, Ring

(* The concatenation of all entries: as many bytes as the sizes add up to, *)
(* and byte o of command k at the place the sizes before it add up to.     *)
LEMMA PlacesAre ==
  ASSUME RingInv, NEW L, Offsets(buffer, L)
  PROVE  /\ Len(BytePlaces) = L[EntryCount(buffer)]
         /\ \A k \in Slots : \A o \in Nat :
              k < EntryCount(buffer) /\ o < buffer.entry[CommandSlot(buffer, k)].size
                => BytePlaces[L[k] + (o + 1)]
                     = [slot |-> CommandSlot(buffer, k), offset |-> o]
  <1> DEFINE n == EntryCount(buffer)
             A == [slot : Slots, offset : Nat]
             size(k) == buffer.entry[CommandSlot(buffer, k - 1)].size
             place(k) == [b \in 1 .. size(k) |->
                            [slot |-> CommandSlot(buffer, k - 1), offset |-> b - 1]]
             q == [k \in 1 .. n |-> place(k)]
  <1>1. Ring(buffer)
    BY BufferIsRing
  <1>2. n \in 0 .. MAX /\ MAX \in Nat \ {0} /\ n \in Nat
    BY <1>1, CommandsAre, MAXAssumption
  <1>3. \A k \in 1 .. n : k - 1 \in Slots
    BY <1>2 DEF Slots
  <1>4. \A k \in 1 .. n : CommandSlot(buffer, k - 1) \in Slots /\ size(k) \in Nat
    BY <1>1, <1>3, CommandsAre
  <1>5. BytePlaces = FlattenSeq(q)
    BY DEF BytePlaces, Window
  <1>6. CASE n = 0
    <2>1. q = << >>
      BY <1>6
    <2>2. Len(BytePlaces) = 0
      BY <1>5, <2>1 DEF FlattenSeq
    <2>3. \A k \in Slots : ~(k < n)
      BY <1>6 DEF Slots
    <2>4. L[n] = 0
      BY <1>6 DEF Offsets
    <2>5. QED
      BY <2>2, <2>3, <2>4
  <1>7. CASE n # 0
    <2>1. ASSUME NEW k \in 1 .. n
          PROVE  place(k) \in Seq(A) /\ Length(place(k)) = size(k)
      <3>1. size(k) \in Nat /\ CommandSlot(buffer, k - 1) \in Slots
        BY <1>4
      <3>2. place(k) \in [1 .. size(k) -> A]
        <4> HIDE DEF size
        <4>1. \A b \in 1 .. size(k) : b - 1 \in Nat
          BY <3>1
        <4>2. QED
          BY <3>1, <4>1
      <3> HIDE DEF place, size, A
      <3>3. QED
        BY <3>1, <3>2, FunctionIsSeq DEF Length
    <2>2. q \in [1 .. n -> Seq(A)] /\ \A k \in 1 .. n : q[k] = place(k)
      BY <2>1
    <2>3. CountsUp(L, n, q)
      <3>1. L[0] = 0 /\ \A k \in 0 .. n : L[k] \in Nat
        BY <1>2 DEF Offsets
      <3>2. \A i, j \in 0 .. n : i <= j => L[i] <= L[j]
        BY <1>2 DEF Offsets
      <3>3. ASSUME NEW k \in 1 .. n PROVE L[k] = L[k - 1] + Length(q[k])
        <4>1. k - 1 \in Slots /\ (k - 1) + 1 = k
          BY <1>3
        <4>2. L[k] = L[k - 1] + size(k)
          BY <4>1 DEF Offsets
        <4> HIDE DEF place, size, q
        <4>3. QED
          BY <2>1, <2>2, <4>2
      <3> HIDE DEF q
      <3>4. QED
        BY <3>1, <3>2, <3>3 DEF CountsUp
    <2>4. n \in Nat \ {0}
      BY <1>2, <1>7
    <2> HIDE DEF q, A, n
    <2>5. Concatenates(FlattenSeq(q), n, q, L)
      <3>1. q \in [1 .. n -> Seq(A)]
        BY <2>2
      <3> HIDE DEF place, size
      <3>2. QED
        BY <2>3, <2>4, <3>1, FlattenIs
    <2>6. ASSUME NEW k \in Slots, NEW o \in Nat,
                 k < n, o < buffer.entry[CommandSlot(buffer, k)].size
          PROVE  BytePlaces[L[k] + (o + 1)]
                   = [slot |-> CommandSlot(buffer, k), offset |-> o]
      <3>1. k + 1 \in 1 .. n /\ (k + 1) - 1 = k
        BY <1>2, <2>6 DEF Slots
      <3>2. size(k + 1) = buffer.entry[CommandSlot(buffer, k)].size
        BY <3>1
      <3>3. o + 1 \in 1 .. size(k + 1) /\ (o + 1) - 1 = o
        <4>1. size(k + 1) \in Nat
          BY <1>4, <3>1
        <4> HIDE DEF size
        <4>2. QED
          BY <2>6, <3>2, <4>1
      <3>4. q[k + 1] = place(k + 1) /\ Length(q[k + 1]) = size(k + 1)
        <4> HIDE DEF place, size
        <4>1. QED
          BY <2>1, <2>2, <3>1
      <3>5. FlattenSeq(q)[L[(k + 1) - 1] + (o + 1)] = q[k + 1][o + 1]
        <4> HIDE DEF place, size
        <4>1. QED
          BY <2>5, <3>1, <3>3, <3>4 DEF Concatenates
      <3>6. place(k + 1)[o + 1] = [slot |-> CommandSlot(buffer, k), offset |-> o]
        <4>1. place(k + 1)[o + 1] = [slot |-> CommandSlot(buffer, (k + 1) - 1),
                                     offset |-> (o + 1) - 1]
          <5> HIDE DEF size
          <5>1. QED
            BY <3>3
        <4> HIDE DEF place
        <4>2. QED
          BY <3>1, <3>3, <4>1
      <3> HIDE DEF place, size
      <3>7. QED
        BY <1>5, <3>1, <3>4, <3>5, <3>6
    <2>7. Len(BytePlaces) = L[n]
      BY <1>5, <2>5 DEF Concatenates, Length
    <2>8. QED
      BY <2>6, <2>7 DEF n
  <1>8. QED
    BY <1>6, <1>7

(* Looking a position up finds exactly that byte of the concatenation,     *)
LEMMA FindOfRing ==
  ASSUME RingInv
  PROVE  FindFollowsWriteOrder
  <1>1. Ring(buffer)
    BY BufferIsRing
  <1>2. PICK L : Offsets(buffer, L)
    BY <1>1, OffsetsExist
  <1> DEFINE n == EntryCount(buffer)
             P == BytePlaces
  <1>3. L[n] \in Nat
    BY <1>1, <1>2, CommandsAre DEF Offsets
  <1>4. Len(P) = L[n]
    BY <1>2, PlacesAre
  <1>5. ASSUME NEW pos \in Nat
        PROVE  aesd_circular_buffer_find_entry_offset_for_fpos(buffer, pos)
                 = IF pos < L[n] THEN P[pos + 1] ELSE NULL
    <2>1. CASE pos < L[n]
      <3>1. PICK k \in Slots : /\ k < n /\ L[k] <= pos /\ pos - L[k] \in Nat
                               /\ pos - L[k] < buffer.entry[CommandSlot(buffer, k)].size
        BY <1>1, <1>2, <2>1, CommandOf
      <3> DEFINE o == pos - L[k]
      <3>2. L[k] \in Nat
        <4>1. k \in 0 .. MAX
          BY MAXAssumption DEF Slots
        <4>2. QED
          BY <1>2, <4>1 DEF Offsets
      <3>3. o \in Nat /\ L[k] + o = pos /\ L[k] + (o + 1) = pos + 1
        BY <3>1, <3>2
      <3> HIDE DEF o
      <3>4. o < buffer.entry[CommandSlot(buffer, k)].size
        BY <3>1 DEF o
      <3>5. aesd_circular_buffer_find_entry_offset_for_fpos(buffer, L[k] + o)
              = [slot |-> CommandSlot(buffer, k), offset |-> o]
        BY <1>1, <1>2, <3>1, <3>3, <3>4, FindIs
      <3>6. P[L[k] + (o + 1)] = [slot |-> CommandSlot(buffer, k), offset |-> o]
        BY <1>2, <3>1, <3>3, <3>4, PlacesAre
      <3> HIDE DEF P, n
      <3>7. QED
        BY <2>1, <3>3, <3>5, <3>6
    <2>2. CASE L[n] <= pos
      <3>1. aesd_circular_buffer_find_entry_offset_for_fpos(buffer, pos) = NULL
        BY <1>1, <1>2, <2>2, FindNone
      <3>2. ~(pos < L[n])
        BY <1>3, <2>2
      <3>3. QED
        BY <3>1, <3>2
    <2>3. QED
      BY <1>3, <2>1, <2>2
  <1>6. \A pos \in 0 .. L[n] + 1 : pos \in Nat
    BY <1>3
  <1> HIDE DEF P, n
  <1>7. \A pos \in 0 .. Len(P) + 1 :
          aesd_circular_buffer_find_entry_offset_for_fpos(buffer, pos)
            = IF pos < Len(P) THEN P[pos + 1] ELSE NULL
    BY <1>4, <1>5, <1>6
  <1>8. QED
    BY <1>7 DEF FindFollowsWriteOrder, P

(* and a position that the seek hands out is looked up as the byte it was  *)
(* handed out for.                                                         *)
LEMMA SeekOfRing ==
  ASSUME RingInv
  PROVE  SeekAgreesWithFind
  <1>1. Ring(buffer)
    BY BufferIsRing
  <1>2. PICK L : Offsets(buffer, L)
    BY <1>1, OffsetsExist
  <1> DEFINE n == EntryCount(buffer)
             entry(c) == buffer.entry[CommandSlot(buffer, c)]
  <1>3. MAX \in Nat \ {0} /\ n \in 0 .. MAX
    BY <1>1, CommandsAre, MAXAssumption
  <1>4. get_total_size(buffer) = Len(BytePlaces)
    BY <1>1, <1>2, NewPosIs, OffsetsEnd, PlacesAre
  <1>5. ASSUME NEW c \in 0 .. MAX, NEW o \in Nat
        PROVE  IF c < n /\ o < entry(c).size
                 THEN aesd_circular_buffer_find_entry_offset_for_fpos(buffer,
                         adjust_aesd_file_offset(buffer, c, o))
                        = [slot |-> CommandSlot(buffer, c), offset |-> o]
                 ELSE adjust_aesd_file_offset(buffer, c, o) = NULL
    <2>1. CASE c < n /\ o < entry(c).size
      <3>1. c \in Slots /\ ~(c >= MAX) /\ \A i \in 0 .. c - 1 : i \in Slots /\ i < n
        BY <1>3, <2>1 DEF Slots
      <3>2. Occupied(entry(c)) /\ \A i \in 0 .. c - 1 : Occupied(entry(i))
        BY <1>1, <2>1, <3>1, CommandsAre
      <3>3. entry(c).buffptr # NULL /\ ~(o >= entry(c).size)
        BY <2>1, <3>2 DEF Occupied
      <3>4. \A i \in 0 .. c - 1 : entry(i) # NoEntry
        BY <3>2 DEF Occupied, NoEntry
      <3>5. adjust_aesd_file_offset(buffer, c, o) = new_pos(buffer, c) + o
        BY <3>1, <3>3, <3>4 DEF adjust_aesd_file_offset
      <3>6. new_pos(buffer, c) = L[c]
        BY <1>1, <1>2, NewPosIs
      <3>7. aesd_circular_buffer_find_entry_offset_for_fpos(buffer, L[c] + o)
              = [slot |-> CommandSlot(buffer, c), offset |-> o]
        BY <1>1, <1>2, <2>1, <3>1, FindIs
      <3>8. QED
        BY <2>1, <3>5, <3>6, <3>7
    <2>2. CASE ~(c < n) /\ c # MAX
      <3>1. c \in Slots
        BY <1>3, <2>2 DEF Slots
      <3>2. entry(c).buffptr = NULL
        BY <1>1, <2>2, <3>1, CommandsAre DEF NoEntry
      <3>3. QED
        BY <2>2, <3>2 DEF adjust_aesd_file_offset
    <2>3. CASE c = MAX
      <3>1. c >= MAX /\ ~(c < n)
        BY <1>3, <2>3
      <3>2. QED
        BY <3>1 DEF adjust_aesd_file_offset
    <2>4. CASE c < n /\ ~(o < entry(c).size)
      <3>1. c \in Slots
        BY <1>3, <2>4 DEF Slots
      <3>2. entry(c).size \in Nat
        BY <1>1, <3>1, CommandsAre
      <3>3. o >= entry(c).size
        BY <2>4, <3>2
      <3>4. QED
        BY <2>4, <3>3 DEF adjust_aesd_file_offset
    <2>5. QED
      BY <2>1, <2>2, <2>3, <2>4
  <1>6. \A o \in 0 .. Max({e.size : e \in Entries}) : o \in Nat
    OBVIOUS
  <1>7. QED
    BY <1>4, <1>5, <1>6 DEF SeekAgreesWithFind

(* Whatever calls led there, for every number of slots and every set of    *)
(* commands: aesd_circular_buffer_find_entry_offset_for_fpos, which scans  *)
(* from in_offs, resolves each position to the byte the concatenation of   *)
(* the commands, oldest first, has there, and to NULL from its end on.     *)
THEOREM FindFollowsWriteOrderHolds == Spec => []FindFollowsWriteOrder
  <1>1. RingInv => FindFollowsWriteOrder
    BY FindOfRing
  <1>2. Spec => []RingInv
    BY InitRing, NextRing, PTL DEF Spec
  <1>3. QED
    BY <1>1, <1>2, PTL

(* adjust_aesd_file_offset, which counts commands from out_offs, hands out *)
(* exactly the positions of existing bytes, each of which the lookup then  *)
(* resolves to the byte asked for, and get_total_size, which bounds lseek, *)
(* is their number.                                                        *)
THEOREM SeekAgreesWithFindHolds == Spec => []SeekAgreesWithFind
  <1>1. RingInv => SeekAgreesWithFind
    BY SeekOfRing
  <1>2. Spec => []RingInv
    BY InitRing, NextRing, PTL DEF Spec
  <1>3. QED
    BY <1>1, <1>2, PTL
=============================================================================
