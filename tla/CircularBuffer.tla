--------------------------- MODULE CircularBuffer ---------------------------
(***************************************************************************)
(* The circular buffer of aesd-char-driver/aesd-circular-buffer.c: the     *)
(* struct as a record and each function as an operator on that record.     *)
(* The functions that main.c computes from the buffer alone (aesd_trim,    *)
(* get_total_size, the position adjust_aesd_file_offset computes) are here *)
(* too, because what makes them right is how they agree with one another.  *)
(*                                                                         *)
(* An entry's buffptr is an address or NULL; what the address holds is the *)
(* business of AesdChar.  Sizes and offsets are far below the width of     *)
(* size_t, so they are plain naturals.                                     *)
(***************************************************************************)
EXTENDS Integers, Sequences, FiniteSetsExt, Functions

CONSTANTS
  MAX,    \* AESDCHAR_MAX_WRITE_OPERATIONS_SUPPORTED, 10 in the code
  NULL    \* the null pointer

(* in_offs and out_offs are uint8_t and are compared with values already   *)
(* reduced modulo MAX: the code works for MAX up to 256 slots.             *)
ASSUME MAXAssumption == MAX \in 1 .. 256

Slots == 0 .. MAX - 1

(* Mutant of NextSlot: the modulo forgotten.                               *)
NextSlot_NoWrap(x) == x + 1

(* (x + 1) % AESDCHAR_MAX_WRITE_OPERATIONS_SUPPORTED                       *)
NextSlot(x) == (x + 1) % MAX

NoEntry == [buffptr |-> NULL, size |-> 0]

(* memset(buffer, 0, sizeof(struct aesd_circular_buffer))                  *)
aesd_circular_buffer_init ==
  [entry |-> [i \in Slots |-> NoEntry],
   in_offs |-> 0, out_offs |-> 0, full |-> FALSE]

-----------------------------------------------------------------------------
(* Mutant of overwritten_entry: the copy is taken after in_offs advanced.  *)
overwritten_entry_Late(buffer) ==
  IF buffer.full THEN buffer.entry[NextSlot(buffer.in_offs)] ELSE NULL

(* What aesd_circular_buffer_add_entry returns: a copy of the entry it is  *)
(* about to overwrite when the buffer was already full, NULL otherwise.    *)
overwritten_entry(buffer) ==
  IF buffer.full THEN buffer.entry[buffer.in_offs] ELSE NULL

(* Mutant of add_entry: out_offs does not follow once the buffer is full.  *)
add_entry_KeepsOldest(buffer, add_entry) ==
  [entry    |-> [buffer.entry EXCEPT ![buffer.in_offs] = add_entry],
   in_offs  |-> NextSlot(buffer.in_offs),
   out_offs |-> buffer.out_offs,
   full     |-> buffer.full \/ NextSlot(buffer.in_offs) = buffer.out_offs]

(* What it does to the buffer: a full buffer first gives up its oldest     *)
(* slot, the entry is stored at in_offs, in_offs advances, and the buffer  *)
(* becomes (or stays) full when in_offs has caught up with out_offs.       *)
aesd_circular_buffer_add_entry(buffer, add_entry) ==
  LET out == IF buffer.full THEN NextSlot(buffer.out_offs) ELSE buffer.out_offs
      in  == NextSlot(buffer.in_offs)
  IN  [entry    |-> [buffer.entry EXCEPT ![buffer.in_offs] = add_entry],
       in_offs  |-> in,
       out_offs |-> out,
       full     |-> buffer.full \/ in = out]

-----------------------------------------------------------------------------
(* The loop of find_entry_offset_for_fpos visits the slots from in_offs    *)
(* on (not from out_offs) and adds up their sizes.                         *)
ScanSlot(buffer, i) == (i + buffer.in_offs) % MAX

(* The value of accumulation when iteration i starts.                      *)
accumulation(buffer) ==
  LET acc[i \in 0 .. MAX] ==
        IF i = 0 THEN 0
        ELSE acc[i - 1] + buffer.entry[ScanSlot(buffer, i - 1)].size
  IN  acc

(* The early "return NULL" of the loop body.                               *)
ScanGivesUp(buffer, i) ==
  /\ buffer.in_offs < buffer.out_offs
  /\ buffer.in_offs > ScanSlot(buffer, i)

(* Mutant of ScanHits: a position at the end of an entry counts as in it.  *)
ScanHits_OffByOne(buffer, i, char_offset) ==
  accumulation(buffer)[i] + buffer.entry[ScanSlot(buffer, i)].size >= char_offset

(* The iteration i finds the byte at char_offset in the slot it visits.    *)
ScanHits(buffer, i, char_offset) ==
  accumulation(buffer)[i] + buffer.entry[ScanSlot(buffer, i)].size > char_offset

(* The slot and the offset inside it that hold byte char_offset of the     *)
(* concatenated entries, or NULL: decided by the first iteration that      *)
(* gives up or hits, giving up being tested first.                         *)
aesd_circular_buffer_find_entry_offset_for_fpos(buffer, char_offset) ==
  LET stops == {i \in Slots : \/ ScanGivesUp(buffer, i)
                              \/ ScanHits(buffer, i, char_offset)}
      i == Min(stops)
  IN  IF stops = {} \/ ScanGivesUp(buffer, i)
        THEN NULL
        ELSE [slot   |-> ScanSlot(buffer, i),
              offset |-> char_offset - accumulation(buffer)[i]]

-----------------------------------------------------------------------------
(* aesd_trim of main.c: every slot that has memory is emptied (the caller  *)
(* frees it), then the indices and the flag are reset.                     *)
aesd_trim(buffer) ==
  [entry |-> [i \in Slots |-> IF buffer.entry[i].buffptr # NULL
                                THEN NoEntry ELSE buffer.entry[i]],
   in_offs |-> 0, out_offs |-> 0, full |-> FALSE]

get_total_size(buffer) ==
  FoldFunction(LAMBDA e, sum : e.size + sum, 0, buffer.entry)

(* The i-th slot as adjust_aesd_file_offset counts write commands: from    *)
(* out_offs on.                                                            *)
CommandSlot(buffer, i) == (i + buffer.out_offs) % MAX

(* Mutant of new_pos: the target command is counted too.                   *)
new_pos_OffByOne(buffer, write_cmd) ==
  FoldFunctionOnSet(LAMBDA e, sum : e.size + sum, 0, buffer.entry,
                    {CommandSlot(buffer, i) : i \in 0 .. write_cmd})

(* Bytes in the commands before write_cmd (the loop's new_pos).            *)
new_pos(buffer, write_cmd) ==
  FoldFunctionOnSet(LAMBDA e, sum : e.size + sum, 0, buffer.entry,
                    {CommandSlot(buffer, i) : i \in 0 .. write_cmd - 1})

(* The file position that byte write_cmd_offset of command write_cmd has,  *)
(* or NULL where the code returns -EINVAL: a command number out of range,  *)
(* an empty slot before the target, an empty target, an offset past it.    *)
adjust_aesd_file_offset(buffer, write_cmd, write_cmd_offset) ==
  LET target == buffer.entry[CommandSlot(buffer, write_cmd)]
  IN  IF \/ write_cmd >= MAX
         \/ \E i \in 0 .. write_cmd - 1 :
               buffer.entry[CommandSlot(buffer, i)] = NoEntry
         \/ target.buffptr = NULL
         \/ write_cmd_offset >= target.size
        THEN NULL
        ELSE new_pos(buffer, write_cmd) + write_cmd_offset

-----------------------------------------------------------------------------
(* Vocabulary for properties: the entries, oldest first, read off the ring *)
(* from out_offs.  A full ring holds MAX entries; otherwise in_offs is     *)
(* that many slots ahead of out_offs.                                      *)
EntryCount(buffer) ==
  IF buffer.full THEN MAX
  ELSE IF buffer.in_offs >= buffer.out_offs
    THEN buffer.in_offs - buffer.out_offs
    ELSE MAX + buffer.in_offs - buffer.out_offs

Window(buffer) ==
  [k \in 1 .. EntryCount(buffer) |->
      buffer.entry[CommandSlot(buffer, k - 1)]]
=============================================================================
