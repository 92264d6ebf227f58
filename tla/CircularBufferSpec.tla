------------------------- MODULE CircularBufferSpec -------------------------
(***************************************************************************)
(* The circular buffer as a state machine: any sequence of calls a user of *)
(* aesd-circular-buffer.h can make, the queries being checked as           *)
(* properties of every state reached.                                      *)
(***************************************************************************)
EXTENDS CircularBuffer, SequencesExt

CONSTANT Entries    \* the commands callers add

(* The driver never adds an empty command: the shortest is the line end.   *)
ASSUME EntriesAssumption ==
  /\ \A e \in Entries : e \in [buffptr : {e.buffptr}, size : Nat \ {0}]
  /\ \A e \in Entries : e.buffptr # NULL
  /\ NULL \notin Entries

VARIABLES
  buffer,   \* the struct aesd_circular_buffer
  evicted   \* what the last call to add_entry returned

vars == <<buffer, evicted>>

Init == buffer = aesd_circular_buffer_init /\ evicted = NULL

Add(e) ==
  /\ evicted' = overwritten_entry(buffer)
  /\ buffer' = aesd_circular_buffer_add_entry(buffer, e)

Trim ==
  /\ buffer' = aesd_trim(buffer)
  /\ evicted' = NULL

Next == (\E e \in Entries : Add(e)) \/ Trim

Spec == Init /\ [][Next]_vars

-----------------------------------------------------------------------------
(* The values the struct's fields and the returned pointer range over.     *)
TypeOK ==
  /\ buffer \in [entry : [Slots -> Entries \cup {NoEntry}],
                 in_offs : Slots, out_offs : Slots, full : BOOLEAN]
  /\ evicted \in Entries \cup {NULL}

(* The shape of the ring that every function of the code leans on: once    *)
(* full, in_offs and out_offs coincide and every slot is occupied; before  *)
(* that, out_offs is still 0 and exactly the slots below in_offs are       *)
(* occupied.  It is why find_entry_offset_for_fpos may start its scan at   *)
(* in_offs although the oldest entry is at out_offs, and why the test      *)
(* "in_offs < out_offs" of its loop never fires.                           *)
RingShape ==
  IF buffer.full
    THEN /\ buffer.in_offs = buffer.out_offs
         /\ \A i \in Slots : buffer.entry[i] \in Entries
    ELSE /\ buffer.out_offs = 0
         /\ \A i \in Slots : IF i < buffer.in_offs
                               THEN buffer.entry[i] \in Entries
                               ELSE buffer.entry[i] = NoEntry

(* The bytes of all entries concatenated, oldest first, each byte as the   *)
(* slot and the offset it lives at: what "the zero referenced character    *)
(* index if all buffer strings were concatenated end to end" numbers       *)
(* (aesd-circular-buffer.c:25).                                            *)
BytePlaces ==
  FlattenSeq([k \in 1 .. EntryCount(buffer) |->
                [b \in 1 .. Window(buffer)[k].size |->
                   [slot |-> CommandSlot(buffer, k - 1), offset |-> b - 1]]])

(* Looking a position up finds the slot and offset of exactly that byte of *)
(* the concatenation, and NULL from the end of the data on, whatever the   *)
(* history of adds that rotated the ring.                                  *)
FindFollowsWriteOrder ==
  LET places == BytePlaces
  IN  \A pos \in 0 .. Len(places) + 1 :
        aesd_circular_buffer_find_entry_offset_for_fpos(buffer, pos)
          = IF pos < Len(places) THEN places[pos + 1] ELSE NULL

(* The seek by command number, which walks from out_offs, and the lookup   *)
(* by position, which walks from in_offs, agree: a position handed out for *)
(* byte o of command c is looked up as byte o of the slot of command c.    *)
(* A position is handed out for exactly the bytes that exist, and the      *)
(* total size that bounds lseek is the number of those positions.          *)
SeekAgreesWithFind ==
  /\ get_total_size(buffer) = Len(BytePlaces)
  /\ \A c \in 0 .. MAX, o \in 0 .. Max({e.size : e \in Entries}) :
       LET pos == adjust_aesd_file_offset(buffer, c, o)
       IN  IF c < EntryCount(buffer) /\ o < buffer.entry[CommandSlot(buffer, c)].size
             THEN aesd_circular_buffer_find_entry_offset_for_fpos(buffer, pos)
                    = [slot |-> CommandSlot(buffer, c), offset |-> o]
             ELSE pos = NULL

(* The ring implements the first-in first-out window of CommandWindow: the *)
(* entry add_entry returns (the driver frees it) is the oldest one, and    *)
(* it is the only one that leaves.                                         *)
AbstractWindow ==
  INSTANCE CommandWindow WITH window <- Window(buffer)
KeepsMostRecent == AbstractWindow!Spec
=============================================================================
