------------------------------- MODULE LineLog -------------------------------
(***************************************************************************)
(* A log of bytes of which the last MAX complete lines and the unfinished  *)
(* one are kept.  Lines are found by looking for the newlines: nothing of  *)
(* the ring, the partial buffer or the memory of the driver is in here.    *)
(***************************************************************************)
EXTENDS Integers, Sequences, FiniteSets, FiniteSetsExt

CONSTANTS
  MAX,  \* how many complete lines are kept
  NL    \* the byte that ends a line

(* Line ends, as the number of bytes up to and including the newline.      *)
Ends(s) == {i \in DOMAIN s : s[i] = NL}
EndsAfter(s, n) == {e \in Ends(s) : e > n}

(* The complete lines of s, which is all that read and the seeks see.      *)
Complete(s) == SubSeq(s, 1, Max(Ends(s) \cup {0}))

(* s without the lines that have MAX complete lines behind them.           *)
Recent(s) ==
  LET old == {e \in Ends(s) : Cardinality(EndsAfter(s, e)) >= MAX}
  IN  SubSeq(s, Max(old \cup {0}) + 1, Len(s))

(* Up to count bytes from pos, stopping at the end of the line.            *)
BytesAt(s, pos, count) ==
  IF pos >= Len(Complete(s)) THEN << >>
  ELSE SubSeq(s, pos + 1, Min({pos + count, Min(EndsAfter(s, pos))}))

(* The positions of byte o of the n-th line, counting from 0: none or one. *)
Positions(s, n, o) ==
  {b + o : b \in {e \in Ends(s) \cup {0} :
                    /\ Cardinality(Ends(s) \ EndsAfter(s, e)) = n
                    /\ EndsAfter(s, e) # {}
                    /\ e + o < Min(EndsAfter(s, e))}}
=============================================================================
