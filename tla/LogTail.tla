------------------------------ MODULE LogTail ------------------------------
(***************************************************************************)
(* A log file: bash/src/logging.rs and the two copies of the durable sink, *)
(* clank-embed/src/log_sink.rs and bash-tool/src/durable_log_sink.rs.      *)
(*                                                                         *)
(* A file is a sequence of bytes.  What a record says is left out: it is a *)
(* number and a length, and its text is that many bytes, all equal to the  *)
(* number, and the line feed that Record::render keeps out of the rest.    *)
(* Any two of them may be of one character: a file that ends between them  *)
(* is no UTF-8, and what is left of the character is the byte Half.        *)
(***************************************************************************)
EXTENDS Integers, Sequences, FiniteSets, SequencesExt

CONSTANTS NL,       \* the byte that ends a line, no record's number
          Half,     \* the beginning of a character without the rest
          MaxLog    \* MAX_LOG_BYTES

ASSUME LogAssumption ==
    MaxLog \in Nat \ {0} /\ NL \notin Nat \ {0} /\ Half \notin Nat \cup {NL}

Bytes == Nat \cup {NL, Half}

Record == [id : Nat \ {0}, len : Nat \ {0}]

Text(r) == [i \in 1..r.len |-> r.id] \o <<NL>>

Texts(records) ==
    LET upTo[n \in 0..Len(records)] ==
            IF n = 0 THEN <<>> ELSE upTo[n - 1] \o Text(records[n])
    IN  upTo[Len(records)]

LastK(s, k) == SubSeq(s, Len(s) - k + 1, Len(s))

(* bound_tail: drop up to and with the first line feed at or after the cut,*)
(* but never the last line.  A line that begins at the cut goes as well.   *)
BoundTail(buf) ==
    LET cut == Len(buf) - MaxLog
        feeds == {i \in DOMAIN buf : buf[i] = NL}
        after == {i \in feeds : i > cut}
        start == IF after = {} THEN 0 ELSE CHOOSE i \in after : \A j \in after : i =< j
        inner == feeds \ {Len(buf)}
        last == IF inner = {} THEN 0 ELSE CHOOSE i \in inner : \A j \in inner : j =< i
    IN  IF cut =< 0 THEN buf
        ELSE SubSeq(buf, (IF start = Len(buf) THEN last ELSE start) + 1, Len(buf))

(* rotate_if_oversized: the file that is appended to may be twice as long. *)
(* It is read as a string; one that is none is left as it is.              *)
Readable(f) == \A i \in DOMAIN f : f[i] # Half

Oversized(f) == Len(f) > 2 * MaxLog /\ Readable(f)

Rotated(f) == IF Oversized(f) THEN BoundTail(f) ELSE f

(* What there may be of s when the writing of it was cut off.              *)
Cuts(s) ==
    {SubSeq(s, 1, n) : n \in 0..Len(s)}
      \cup {SubSeq(s, 1, n - 1) \o <<Half>> :
              n \in {i \in 1..Len(s) - 1 : s[i] # NL /\ s[i + 1] # NL}}

-----------------------------------------------------------------------------
(* What a log may be expected to hold.                                     *)

(* f is the text of the last records, with nothing cut and none left out   *)
(* in between; and it could not hold one more in MaxLog bytes.             *)
HoldsLast(f, records) ==
    \E k \in 0..Len(records) :
      /\ f = Texts(LastK(records, k))
      /\ records # <<>> => k > 0
      /\ Len(f) > MaxLog => k = 1
      /\ k < Len(records) => Len(Texts(LastK(records, k + 1))) >= MaxLog

(* The same of a file that other processes have written to before: it ends *)
(* with them and begins with what those left.  The last line of that may   *)
(* have been cut off; it then goes on with the first record, which is lost *)
(* when the line is.  A file longer than it should be is one line, or is   *)
(* no UTF-8; it then has all the records and grows with each.              *)
EndsWithLast(f, records) ==
    \E k \in 0..Len(records) :
      LET text == Texts(LastK(records, k))
      IN  /\ IsSuffix(text, f)
          /\ records # <<>> => k > 0
          /\ Oversized(f) => k = 1 /\ \A i \in 1..Len(f) - 1 : f[i] # NL
          /\ ~Readable(f) => k = Len(records)
          /\ k < Len(records) - 1 => Len(Texts(LastK(records, k + 1))) >= MaxLog
=============================================================================
