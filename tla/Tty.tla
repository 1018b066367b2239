-------------------------------- MODULE Tty ---------------------------------
(***************************************************************************)
(* What the console promises its readers: characters typed make a line     *)
(* that can be edited until it is finished; finished lines are read once,  *)
(* in order.                                                               *)
(***************************************************************************)
EXTENDS Integers, Sequences

CONSTANTS Char, Newline, Eof, Size
VARIABLES ready, line    \* characters to be read, and those of the unfinished line

vars == <<ready, line>>

Init == ready = <<>> /\ line = <<>>

Finishes(l) == l # <<>> /\ (l[Len(l)] \in {Newline, Eof} \/ Len(ready) + Len(l) = Size)

Type(c) ==
  LET l == Append(line, c)
  IN  /\ Len(ready) + Len(line) < Size
      /\ IF Finishes(l) THEN ready' = ready \o l /\ line' = <<>>
         ELSE line' = l /\ UNCHANGED ready

Erase == line # <<>> /\ line' = SubSeq(line, 1, Len(line) - 1) /\ UNCHANGED ready

Kill == line' = <<>> /\ UNCHANGED ready

Read == ready # <<>> /\ ready' = Tail(ready) /\ UNCHANGED line

Next == Erase \/ Kill \/ Read \/ \E c \in Char : Type(c)

Spec == Init /\ [][Next]_vars
=============================================================================
