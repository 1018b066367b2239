----------------------------- MODULE ShellParse -----------------------------
(***************************************************************************)
(* The shell's parser (user/sh.c) over a line of tokens: "a" is a word.    *)
(* Each function takes the tokens that are left, or what was parsed so     *)
(* far, and returns the command it parsed and the tokens left after it;    *)
(* err is a call of panic(), after which no token is left.                 *)
(***************************************************************************)
EXTENDS Integers, Sequences

CONSTANT MAXARGS

\* What is assumed of the constants.
ParseAssumption == MAXARGS \in Nat \ {0, 1}

\* Commands: t is the type; an EXEC has its words' places in the line, a REDIR its file's.
execcmd == [t |-> "EXEC", argv |-> <<>>]
redircmd(c, file, mode) == [t |-> "REDIR", cmd |-> c, file |-> file, mode |-> mode]

\* Mutant: the sides of a pipe are exchanged.
pipecmdSwapped(l, r) == [t |-> "PIPE", left |-> r, right |-> l]

pipecmd(l, r) == [t |-> "PIPE", left |-> l, right |-> r]

listcmd(l, r) == [t |-> "LIST", left |-> l, right |-> r]
backcmd(c) == [t |-> "BACK", cmd |-> c]

Done(c, ts) == [cmd |-> c, rest |-> ts, err |-> FALSE]
panic == [cmd |-> execcmd, rest |-> <<>>, err |-> TRUE]

\* peek(): the next token is one of toks.
peek(ts, toks) == ts # <<>> /\ ts[1].k \in toks

\* A word is added to the EXEC under the redirections read so far.
RECURSIVE Word(_, _)
Word(c, at) == IF c.t = "REDIR" THEN [c EXCEPT !.cmd = Word(@, at)] ELSE [c EXCEPT !.argv = Append(@, at)]

RECURSIVE Argc(_)
Argc(c) == IF c.t = "REDIR" THEN Argc(c.cmd) ELSE Len(c.argv)

RECURSIVE parseline(_)
RECURSIVE parsepipe(_)
RECURSIVE parseargs(_)
RECURSIVE parseredirs(_)
RECURSIVE backs(_)

\* Redirections that follow what was parsed so far.
parseredirs(r) ==
  IF ~peek(r.rest, {"<", ">", ">>"}) THEN r
  ELSE IF ~peek(Tail(r.rest), {"a"}) THEN panic
  ELSE parseredirs(Done(redircmd(r.cmd, r.rest[2].at, r.rest[1].k), Tail(Tail(r.rest))))

parseblock(ts) ==
  LET l == parseline(Tail(ts))
  IN  IF peek(l.rest, {")"}) THEN parseredirs(Done(l.cmd, Tail(l.rest))) ELSE panic

\* Mutant: the limit is checked one word too late.
TooManyLate(c) == Argc(c) > MAXARGS

\* "too many args": the last entry of argv is for the 0 at its end.
TooMany(c) == Argc(c) >= MAXARGS

\* The loop of parseexec().
parseargs(r) ==
  IF r.rest = <<>> \/ peek(r.rest, {"|", ")", "&", ";"}) THEN r
  ELSE IF r.rest[1].k # "a" \/ TooMany(Word(r.cmd, r.rest[1].at)) THEN panic
  ELSE parseargs(parseredirs(Done(Word(r.cmd, r.rest[1].at), Tail(r.rest))))

parseexec(ts) ==
  IF peek(ts, {"("}) THEN parseblock(ts) ELSE parseargs(parseredirs(Done(execcmd, ts)))

parsepipe(ts) ==
  LET l == parseexec(ts)
  IN  IF peek(l.rest, {"|"}) THEN [parsepipe(Tail(l.rest)) EXCEPT !.cmd = pipecmd(l.cmd, @)] ELSE l

\* The loop of parseline() over "&".
backs(r) == IF peek(r.rest, {"&"}) THEN backs(Done(backcmd(r.cmd), Tail(r.rest))) ELSE r

parseline(ts) ==
  LET l == backs(parsepipe(ts))
  IN  IF peek(l.rest, {";"}) THEN [parseline(Tail(l.rest)) EXCEPT !.cmd = listcmd(l.cmd, @)] ELSE l

\* gettoken(): the kinds of the tokens and their places.
Tokens(line) == [i \in 1..Len(line) |-> [k |-> line[i], at |-> i]]

parsecmd(line) ==
  LET r == parseline(Tokens(line)) IN IF r.rest = <<>> THEN r ELSE panic
=============================================================================
