----------------------------- MODULE MCAesdChar -----------------------------
(* Small instances of the driver.                                          *)
EXTENDS AesdChar, TLC

CONSTANTS a, b   \* two bytes that are not newlines

(* Nothing; part of a line; a line; a line and part of the next; two lines. *)
WriterPayloads == {<< >>, <<a>>, <<b, NL>>, <<NL, a>>, <<a, NL, b, NL>>}
ReaderPayloads == {<<a, NL>>, <<b, a, NL>>}

(* From the start, back from the position, from the end.                   *)
SomeSeeks ==
  {[off |-> 1, whence |-> "SEEK_SET"], [off |-> -1, whence |-> "SEEK_CUR"],
   [off |-> 0, whence |-> "SEEK_END"]}
(* The second byte of either command, and a command number out of range.   *)
SomeSeekTos == [write_cmd : {0, 1, MAX}, write_cmd_offset : {1}]
NoSeeks == {}

(* For the run with fairness: a line end and part of a line, a whence that *)
(* is not served, the first byte of the only command.                      *)
FewPayloads == {<<NL, a>>}
FewSeeks == {[off |-> 0, whence |-> "SEEK_DATA"]}
FewSeekTos == {[write_cmd |-> 0, write_cmd_offset |-> 0]}

Interchangeable == Permutations(Procs) \cup Permutations(Addrs)
=============================================================================
