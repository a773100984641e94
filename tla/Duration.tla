------------------------------ MODULE Duration ------------------------------
(***************************************************************************)
(* Durations of the configuration file, as src/config/duration.cpp reads   *)
(* and writes them.  A text is the sequence of its pieces; a piece is a    *)
(* number, the letters after it and whether a space follows these.  The    *)
(* unit "none" is a number with no unit after it, "word" a place where     *)
(* strtod finds no number.  Numbers are whole: a text with a fraction, in  *)
(* nanoseconds, or with a bare s is not represented, nor is one whose sum  *)
(* does not fit 64 bits.                                                   *)
(***************************************************************************)
EXTENDS Integers, FiniteSetsExt, SequencesExt

Factor == [ms |-> 1, s |-> 1000, m |-> 60000, h |-> 3600000]

\* The texts there are.
Texts == Seq([num : Int, unit : {"us", "ms", "s", "m", "h", "none", "word"},
              gap : BOOLEAN])

Piece(n, u) == [num |-> n, unit |-> u, gap |-> FALSE]

\* parse_unit_factor: s, m and h count only before a space or the end.
UnitRead(text, i) ==
  \/ text[i].unit \in {"us", "ms"}
  \/ text[i].unit \in {"s", "m", "h"} /\ (i = Len(text) \/ text[i].gap)

\* The pieces without a unit that counts: the first of them ends the reading.
Unread(text) == {i \in DOMAIN text : ~UnitRead(text, i)}

Millis(p) == IF p.unit = "us" THEN 0 ELSE p.num * Factor[p.unit]
Micros(p) == IF p.unit = "us" THEN p.num ELSE 0

\* What the pieces of read add up to, rounded down to milliseconds.
Total(read) == FoldSeq(LAMBDA p, t : t + Millis(p), 0, read)
               + FoldSeq(LAMBDA p, t : t + Micros(p), 0, read) \div 1000

\* A slip: a number whose unit is not read counts as milliseconds.
parse_duration_ms_bare(text, default_ms) ==
  IF text = <<>> THEN default_ms
  ELSE IF Unread(text) = {} THEN Total(text)
  ELSE text[Min(Unread(text))].num

\* Nothing read before the end, or a place without a number: the default.
parse_duration_ms(text, default_ms) ==
  LET stop == Min(Unread(text) \union {Len(text) + 1})
  IN  IF stop = 1 \/ (stop <= Len(text) /\ text[stop].unit = "word")
      THEN default_ms
      ELSE Total(SubSeq(text, 1, stop - 1))

Written(n, u) == IF n > 0 THEN <<Piece(n, u)>> ELSE <<>>

\* The units of ms that are not zero, largest first, without spaces.
format_duration_ms(ms) ==
  IF ms <= 0 THEN <<Piece(0, "s")>>
  ELSE Written(ms \div 3600000, "h") \o Written((ms % 3600000) \div 60000, "m")
       \o Written((ms % 60000) \div 1000, "s") \o Written(ms % 1000, "ms")
=============================================================================
