----------------------------- MODULE ShellLines -----------------------------
(***************************************************************************)
(* ShellParse on every line of up to MaxLine tokens, against its grammar:  *)
(*    line   = pipe {"&"} [";" line]                                       *)
(*    pipe   = simple ["|" pipe]                                           *)
(*    simple = "(" line ")" {redir}  or  {word or redir}                   *)
(***************************************************************************)
EXTENDS ShellParse, FiniteSets

CONSTANTS Token, MaxLine

VARIABLE line

Init == line = <<>>
Next == Len(line) < MaxLine /\ \E k \in Token : line' = Append(line, k)
Spec == Init /\ [][Next]_line

IsRedir(k) == k \in {"<", ">", ">>"}

RECURSIVE IsLine(_, _)
RECURSIVE IsPipe(_, _)

IsRedirs(i, j) == (j - i + 1) % 2 = 0 /\ \A x \in i..j : IF (x - i) % 2 = 0 THEN IsRedir(line[x]) ELSE line[x] = "a"

\* Every redirection of line[i..j] has a word after it, which is not one of the arguments.
IsWords(i, j) ==
  /\ \A x \in i..j : line[x] = "a" \/ (IsRedir(line[x]) /\ x < j /\ line[x + 1] = "a")
  /\ Cardinality({x \in i..j : line[x] = "a" /\ (x = i \/ ~IsRedir(line[x - 1]))}) < MAXARGS

IsSimple(i, j) ==
  \/ IsWords(i, j)
  \/ i <= j /\ line[i] = "(" /\ \E m \in i + 1..j : line[m] = ")" /\ IsLine(i + 1, m - 1) /\ IsRedirs(m + 1, j)

IsPipe(i, j) == IsSimple(i, j) \/ \E m \in i..j : line[m] = "|" /\ IsSimple(i, m - 1) /\ IsPipe(m + 1, j)

IsLine(i, j) ==
  \E m \in i - 1..j :
    /\ IsPipe(i, m)
    /\ \E n \in m..j :
         /\ \A x \in m + 1..n : line[x] = "&"
         /\ n = j \/ (line[n + 1] = ";" /\ IsLine(n + 2, j))

\* The parser accepts the lines of the grammar and no others.
Accepts == ~parsecmd(line).err <=> IsLine(1, Len(line))

\* The places of the words of a command, in the order in which it was written.
RECURSIVE Words(_)
Words(c) ==
  CASE c.t = "EXEC" -> {c.argv[x] : x \in DOMAIN c.argv}
    [] c.t = "REDIR" -> Words(c.cmd) \cup {c.file}
    [] c.t = "BACK" -> Words(c.cmd)
    [] OTHER -> Words(c.left) \cup Words(c.right)

RECURSIVE Parts(_)
Parts(c) ==
  CASE c.t = "EXEC" -> {c}
    [] c.t \in {"REDIR", "BACK"} -> {c} \cup Parts(c.cmd)
    [] OTHER -> {c} \cup Parts(c.left) \cup Parts(c.right)

\* No word is lost, and commands keep the order of the line: what is left of an operator
\* comes before what is right of it, and so do the words of a command.
WordsKept ==
  \A r \in {parsecmd(line)} :
    ~r.err =>
      /\ Words(r.cmd) = {x \in DOMAIN line : line[x] = "a"}
      /\ \A c \in Parts(r.cmd) :
           CASE c.t = "EXEC" -> \A x, y \in DOMAIN c.argv : x < y => c.argv[x] < c.argv[y]
             [] c.t \in {"PIPE", "LIST"} -> \A x \in Words(c.left), y \in Words(c.right) : x < y
             [] OTHER -> TRUE
=============================================================================
