---------------------------- MODULE MCAesdSocket ----------------------------
(* Small instances of the server: a buffer of four bytes.                  *)
EXTENDS AesdSocket, TLC

CONSTANTS a, b

SomeBytes == {a, b, NL, junk}

Text(bytes) == [data |-> bytes, seek |-> NULL]
Request(cmd, off) ==
  [data |-> <<b, NL>>, seek |-> [write_cmd |-> cmd, offset |-> off]]

(* A line; two lines; a message of more than one buffer; a seek to *)
(* the second byte of the first line.                                      *)
SomeClients ==
  {[chunks |-> <<Text(<<a, NL>>)>>, closes |-> FALSE, resets |-> FALSE],
   [chunks |-> <<Text(<<NL, b, NL>>)>>, closes |-> FALSE, resets |-> FALSE],
   [chunks |-> <<Text(<<a, a, b, NL>>), Text(<<NL>>)>>, closes |-> TRUE, resets |-> FALSE],
   [chunks |-> <<Request(0, 1)>>, closes |-> FALSE, resets |-> FALSE]}

(* For the run with fairness: a line whose client may reset the connection *)
(* or not, a message that fills the buffer exactly, whose client then      *)
(* waits, and a seek whose client may reset.                               *)
FewClients ==
  {[chunks |-> <<Text(<<a, NL>>)>>, closes |-> FALSE, resets |-> TRUE],
   [chunks |-> <<Text(<<a, a, b, NL>>)>>, closes |-> FALSE, resets |-> FALSE],
   [chunks |-> <<Request(0, 1)>>, closes |-> FALSE, resets |-> TRUE]}

ShortDate == <<b, NL>>

Interchangeable == Permutations(Conns)
=============================================================================
