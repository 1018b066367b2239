-------------------------------- MODULE Rows --------------------------------
(***************************************************************************)
(* The I/O-bound worker (user/rows.c), several at a time: each creates a   *)
(* file named after its pid, writes lines to it, reads them back,          *)
(* exchanges some, writes them again and removes the file.                 *)
(***************************************************************************)
EXTENDS Integers, Sequences, FiniteSets, SequencesExt

CONSTANTS
  Worker,     \* the workers, as the distances of their pids from the first one's
  FirstPid,   \* pids the first worker may have
  L,          \* lines, 100
  SWAPS       \* exchanges of two lines, 50

\* What is assumed of the constants.
RowsAssumption ==
  /\ Worker \subseteq Nat /\ FirstPid \subseteq Nat \ {0} /\ IsFiniteSet(Worker)
  /\ L \in Nat \ {0} /\ SWAPS \in Nat

VARIABLES
  first,            \* the first worker's pid
  files,            \* name -> lines of the file
  pc, i, linhas     \* of each worker

vars == <<first, files, pc, i, linhas>>

Pid(w) == first + w

\* Mutant: the pid as it is, however short.
LongPidPlain(pid) == pid

LongPid(pid) == pid + 1000

\* The decimal digits of n, the last one first.
RECURSIVE Backward(_)
Backward(n) == <<n % 10>> \o (IF n \div 10 > 0 THEN Backward(n \div 10) ELSE <<>>)

\* The digits that go into the file's name: the index of the reversal is not reset, and
\* only the digits from the middle on are copied.
FileName(w) ==
  LET digits == Reverse(Backward(LongPid(Pid(w))))
  IN  SubSeq(digits, Len(digits) \div 2 + 1, Len(digits))

Names == {FileName(w) : w \in Worker}

\* A file that an earlier worker left behind is not emptied by open(O_CREATE).
Init ==
  /\ first \in FirstPid
  /\ files \in [Names -> {<<>>, <<<<-1, 1>>>>}]
  /\ pc = [w \in Worker |-> "open"] /\ i = [w \in Worker |-> 1]
  /\ linhas = [w \in Worker |-> <<>>]

Goto(w, l) == pc' = [pc EXCEPT ![w] = l] /\ i' = [i EXCEPT ![w] = 1]
File(w) == files[FileName(w)]

\* A new line at the worker's offset.
Put(w, line) ==
  files' = [files EXCEPT ![FileName(w)] =
             IF i[w] <= Len(@) THEN [@ EXCEPT ![i[w]] = line] ELSE Append(@, line)]

\* Mutant: the line after the last is written too.
LastPast == L + 1

\* The last line of the loops.
LastLine == L

\* The next line of a loop, or the next part of the program.
Advance(w, l) ==
  IF i[w] < LastLine THEN i' = [i EXCEPT ![w] = @ + 1] /\ UNCHANGED pc ELSE Goto(w, l)

open(w) == pc[w] = "open" /\ Goto(w, "write") /\ UNCHANGED <<first, files, linhas>>

\* The line is random: no other worker's nor another line of this one.
write(w) ==
  /\ pc[w] = "write" /\ Put(w, <<w, i[w]>>) /\ Advance(w, "read")
  /\ UNCHANGED <<first, linhas>>

\* read() and strcpy(); the bytes that strcpy() takes past the line are not written back.
read(w) ==
  /\ pc[w] = "read"
  /\ IF i[w] <= Len(File(w))
     THEN /\ linhas' = [linhas EXCEPT ![w] = Append(@, File(w)[i[w]])]
          /\ i' = [i EXCEPT ![w] = @ + 1] /\ UNCHANGED pc
     ELSE Goto(w, "swap") /\ UNCHANGED linhas
  /\ UNCHANGED <<first, files>>

\* Mutant: no copy of the first line is kept.
ExchangedNoCopy(s, a, b) == [s EXCEPT ![a] = s[b]]

Exchanged(s, a, b) == [s EXCEPT ![a] = s[b], ![b] = s[a]]

swap(w) ==
  /\ pc[w] = "swap"
  /\ IF i[w] <= SWAPS
     THEN /\ \E a, b \in 1..L : linhas' = [linhas EXCEPT ![w] = Exchanged(@, a, b)]
          /\ i' = [i EXCEPT ![w] = @ + 1] /\ UNCHANGED pc
     ELSE Goto(w, "rewrite") /\ UNCHANGED linhas
  /\ UNCHANGED <<first, files>>

rewrite(w) ==
  /\ pc[w] = "rewrite" /\ Put(w, linhas[w][i[w]]) /\ Advance(w, "unlink")
  /\ UNCHANGED <<first, linhas>>

unlink(w) ==
  /\ pc[w] = "unlink" /\ Goto(w, "exit")
  /\ files' = [files EXCEPT ![FileName(w)] = <<>>]
  /\ linhas' = [linhas EXCEPT ![w] = <<>>] /\ UNCHANGED first

\* open(), write() or unlink() fails, and the worker exits.
fail(w) ==
  /\ pc[w] \notin {"swap", "exit"} /\ (pc[w] = "read" => i[w] = 1) /\ Goto(w, "exit")
  /\ linhas' = [linhas EXCEPT ![w] = <<>>] /\ UNCHANGED <<first, files>>

Next ==
  \E w \in Worker : open(w) \/ write(w) \/ read(w) \/ swap(w) \/ rewrite(w) \/ unlink(w) \/ fail(w)

Spec == Init /\ [][Next]_vars

-----------------------------------------------------------------------------
\* The lines a worker has read are L at most: linhas has room for no more.
TypeOK ==
  /\ first \in FirstPid /\ DOMAIN files = Names
  /\ \A w \in Worker : i[w] \in 1..L + SWAPS + 1 /\ Len(linhas[w]) <= L

\* Workers of a round never share a file, though the name has only some of the digits.
OwnFile == \A w, x \in Worker : w # x => FileName(w) # FileName(x)

\* What a worker has written at the end is what it wrote at first, in another order, even
\* if its file was there before.
Permuted ==
  \A w \in Worker :
    pc[w] = "unlink" => Len(File(w)) = L /\ ToSet(File(w)) = {<<w, k>> : k \in 1..L}
=============================================================================
