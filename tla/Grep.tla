-------------------------------- MODULE Grep --------------------------------
(***************************************************************************)
(* user/grep.c: lines are put together in a buffer from what read()        *)
(* returns, and matched against a pattern with the operators ^ . * $.      *)
(***************************************************************************)
EXTENDS Integers, Sequences

CONSTANTS
  Patterns, Texts,   \* patterns and contents of files
  BUFSIZE            \* sizeof(buf)

\* What is assumed of the constants.
GrepAssumption == BUFSIZE \in Nat /\ BUFSIZE > 1

NL == "\n"

VARIABLES
  pattern, text,     \* the arguments
  pos,               \* offset of the file
  buf,               \* the first m bytes of the buffer
  out,               \* lines written
  done

vars == <<pattern, text, pos, buf, out, done>>

Rest(s) == SubSeq(s, 2, Len(s))

RECURSIVE matchhere(_, _), matchstar(_, _, _)
matchhere(re, t) ==
  IF re = <<>> THEN TRUE
  ELSE IF Len(re) > 1 /\ re[2] = "*" THEN matchstar(re[1], SubSeq(re, 3, Len(re)), t)
  ELSE IF re = <<"$">> THEN t = <<>>
  ELSE t # <<>> /\ re[1] \in {".", t[1]} /\ matchhere(Rest(re), Rest(t))

matchstar(c, re, t) ==
  \/ matchhere(re, t)
  \/ t # <<>> /\ c \in {".", t[1]} /\ matchstar(c, re, Rest(t))

match(re, t) ==
  IF re # <<>> /\ re[1] = "^" THEN matchhere(Rest(re), t)
  ELSE \E i \in 1..Len(t) + 1 : matchhere(re, SubSeq(t, i, Len(t)))

Init ==
  /\ pattern \in Patterns /\ text \in Texts
  /\ pos = 0 /\ buf = <<>> /\ out = <<>> /\ done = FALSE

\* The first line of s, and what follows it.
Ends(s) == {i \in 1..Len(s) : s[i] = NL}
LineEnd(s) == CHOOSE i \in Ends(s) : \A k \in Ends(s) : i <= k

\* The inner loop: the lines in s that match, and the piece of a line after them.
RECURSIVE Matched(_, _)
Matched(re, s) ==
  IF Ends(s) = {} THEN <<>>
  ELSE LET q == LineEnd(s)
           l == SubSeq(s, 1, q - 1)
       IN  (IF match(re, l) THEN <<l>> ELSE <<>>) \o Matched(re, SubSeq(s, q + 1, Len(s)))

\* Mutant: the piece is dropped.
KeptNone(s) == IF Ends(s) = {} THEN s ELSE <<>>

\* memmove(buf, p, m)
Kept(s) == IF Ends(s) = {} THEN s ELSE SubSeq(s, 1 + (CHOOSE i \in Ends(s) : \A k \in Ends(s) : k <= i), Len(s))

\* Mutant: one byte too few.
AskedLess == BUFSIZE - Len(buf) - 2

\* The bytes that read() is asked for.
Asked == BUFSIZE - Len(buf) - 1

\* A turn of the loop: read() returns some of the bytes asked for.
grep ==
  /\ ~done
  /\ \E n \in 1..Asked :
       /\ pos + n <= Len(text)
       /\ LET s == buf \o SubSeq(text, pos + 1, pos + n)
          IN  buf' = Kept(s) /\ out' = out \o Matched(pattern, s)
       /\ pos' = pos + n
  /\ UNCHANGED <<pattern, text, done>>

\* read() returns 0: at the end of the file, or when asked for nothing.
eof ==
  /\ ~done /\ (pos = Len(text) \/ Asked = 0)
  /\ done' = TRUE /\ UNCHANGED <<pattern, text, pos, buf, out>>

Next == grep \/ eof

Spec == Init /\ [][Next]_vars

-----------------------------------------------------------------------------
\* The lines of a text that end in a newline.
RECURSIVE Lines(_)
Lines(s) == IF Ends(s) = {} THEN <<>> ELSE <<SubSeq(s, 1, LineEnd(s) - 1)>> \o Lines(SubSeq(s, LineEnd(s) + 1, Len(s)))

\* The lengths of the prefixes of t that re stands for, from the set At of those before it:
\* the pattern read as an expression, item by item, with no search.
One(c, t, At) == {i + 1 : i \in {k \in At : k < Len(t) /\ c \in {".", t[k + 1]}}}
Star(c, t, At) == {j \in 0..Len(t) : \E i \in At : i <= j /\ \A k \in i + 1..j : c \in {".", t[k]}}
RECURSIVE After(_, _, _)
After(re, t, At) ==
  IF re = <<>> THEN At
  ELSE IF Len(re) > 1 /\ re[2] = "*" THEN After(SubSeq(re, 3, Len(re)), t, Star(re[1], t, At))
  ELSE IF re = <<"$">> THEN At \cap {Len(t)}
  ELSE After(Rest(re), t, One(re[1], t, At))

Means(re, t) ==
  IF re # <<>> /\ re[1] = "^" THEN After(Rest(re), t, {0}) # {} ELSE After(re, t, 0..Len(t)) # {}

LinesFit == \A i \in 1..Len(Lines(text)) : Len(Lines(text)[i]) < BUFSIZE - 1

\* However read() cuts the text, grep writes the lines that the pattern stands for, each
\* once and in order, when every line and the piece after the last fit in the buffer.
Greps ==
  done /\ LinesFit /\ pos = Len(text) =>
    LET Chosen(l) == Means(pattern, l) IN out = SelectSeq(Lines(text), Chosen)

\* A full buffer makes read() return 0 as the end of the file does: grep stops before the
\* end only for a line that does not fit.
ReadsAll == done /\ LinesFit /\ Len(Kept(text)) < BUFSIZE - 1 => pos = Len(text)
=============================================================================
