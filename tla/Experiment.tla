----------------------------- MODULE Experiment -----------------------------
(***************************************************************************)
(* The experiment (user/run_experiment.c): in each round the program forks *)
(* N workers, CPU-bound (graphs.c) or I/O-bound (rows.c), each of which    *)
(* adds its measurements to the kernel's metrics (kernel/proc.c) in the    *)
(* entry whose number is its argument; it then waits for all of them and   *)
(* computes the results.                                                   *)
(***************************************************************************)
EXTENDS Integers, Sequences, FiniteSetsExt, SequencesExt

CONSTANTS
  N,                  \* workers of a round, 20
  BASE,               \* of the two digits of a worker's argument, 10
  MinCpu, MaxCpu,     \* CPU-bound workers of a round
  PERSEC,             \* ticks in a second, 10
  SCALE,              \* results are in units of 1/SCALE, 100000
  MaxTime, MaxRound,  \* bounds on the ticks of a round and on the rounds
  MayFail             \* whether fork(), exec() and workers may fail

\* What is assumed of the constants.
ExperimentAssumption ==
  /\ {N, BASE, PERSEC, SCALE, MaxRound} \subseteq Nat \ {0} /\ N <= 2 * BASE
  /\ 0 <= MinCpu /\ MinCpu <= MaxCpu /\ MaxCpu <= N /\ MaxTime \in Nat /\ MayFail \in BOOLEAN

VARIABLES
  round, pc, j, X,                     \* of run_experiment
  clock,                               \* ticks since the round began
  terminos,
  overheads, eficiencias, justicas,    \* the kernel's metrics
  child, arg, tmp, spent,              \* of each worker; spent is what it measures
  reported                             \* history: workers that have written all of their metrics

Worker == 0..N - 1
metrics == <<overheads, eficiencias, justicas>>
parent == <<round, pc, j, X, terminos>>
workers == <<child, arg, tmp, spent, reported>>
vars == <<parent, clock, metrics, workers>>

Zero == [k \in Worker |-> 0]

\* initialize_metrics(), and the choice of X
begin(x) ==
  /\ overheads' = Zero /\ eficiencias' = Zero /\ justicas' = Zero
  /\ X' = x /\ pc' = "fork" /\ j' = 1 /\ clock' = 0 /\ terminos' = <<>>
  /\ child' = [k \in Worker |-> "none"] /\ arg' = [k \in Worker |-> <<0, 0>>]
  /\ tmp' = Zero /\ spent' = Zero /\ reported' = {}

Init ==
  /\ round = 0 /\ pc = "done" /\ j = 1 /\ X = 0 /\ clock = 0 /\ terminos = <<>>
  /\ overheads = Zero /\ eficiencias = Zero /\ justicas = Zero
  /\ child = [k \in Worker |-> "none"] /\ arg = [k \in Worker |-> <<0, 0>>]
  /\ tmp = Zero /\ spent = Zero /\ reported = {}

startRound ==
  /\ pc = "done" /\ round < MaxRound /\ round' = round + 1
  /\ \E x \in MinCpu..MaxCpu : begin(x)

\* Mutant: a single digit, however large.
IndexStrWide(index) == <<0, index>>

\* Mutant: the second digit alone.
IndexStrShort(index) == <<0, index % BASE>>

\* The two characters of index_str.
IndexStr(index) == IF index < BASE THEN <<0, index>> ELSE <<1, index - BASE>>

\* How the workers read their argument.
Index(str) == BASE * str[1] + str[2]

IsCpu(k) == k < X

\* Round the loop that forks; fork() may fail.
fork ==
  /\ pc = "fork"
  /\ j' = j + 1 /\ pc' = IF j = N THEN "wait" ELSE pc
  /\ \/ child' = [child EXCEPT ![j - 1] = "exec"] /\ arg' = [arg EXCEPT ![j - 1] = IndexStr(j - 1)]
     \/ MayFail /\ UNCHANGED <<child, arg>>
  /\ UNCHANGED <<round, X, clock, terminos, metrics, tmp, spent, reported>>

\* exec() and the work of graphs or rows, which may be done before the next tick.
work(k) ==
  /\ child[k] = "exec"
  /\ child' = [child EXCEPT ![k] = "read"]
  /\ \E a \in 0..1 : spent' = [spent EXCEPT ![k] = a]
  /\ UNCHANGED <<parent, clock, metrics, arg, tmp, reported>>

\* exec() fails, or the worker exits or is killed before it reports.
fail(k) ==
  /\ MayFail /\ child[k] = "exec"
  /\ child' = [child EXCEPT ![k] = "zombie"]
  /\ UNCHANGED <<parent, clock, metrics, arg, tmp, spent, reported>>

\* Mutant: graphs.c reports that it spent no time on files.
EficienciaZero(k) == IF IsCpu(k) THEN 0 ELSE spent[k]

\* What a worker reports as its time on files: graphs.c has none.
Eficiencia(k) == IF IsCpu(k) THEN -1 ELSE spent[k]

Overhead(k) == spent[k]

\* tempo_total of the worker, whole ticks again: none for one that was never on a
\* CPU when the clock ticked.
Justica(k) == 2 * spent[k]

\* increment_metric(index, ..., MODE_EFICIENCIA): += is a load ...
load(k) ==
  /\ child[k] = "read"
  /\ tmp' = [tmp EXCEPT ![k] = eficiencias[Index(arg[k])]]
  /\ child' = [child EXCEPT ![k] = "write"]
  /\ UNCHANGED <<parent, clock, metrics, arg, spent, reported>>

\* ... and a store.
store(k) ==
  /\ child[k] = "write"
  /\ eficiencias' = [eficiencias EXCEPT ![Index(arg[k])] = tmp[k] + Eficiencia(k)]
  /\ child' = [child EXCEPT ![k] = "read2"]
  /\ UNCHANGED <<parent, clock, overheads, justicas, arg, tmp, spent, reported>>

\* increment_metric(index, ..., MODE_OVERHEAD)
load2(k) ==
  /\ child[k] = "read2"
  /\ tmp' = [tmp EXCEPT ![k] = overheads[Index(arg[k])]]
  /\ child' = [child EXCEPT ![k] = "write2"]
  /\ UNCHANGED <<parent, clock, metrics, arg, spent, reported>>

store2(k) ==
  /\ child[k] = "write2"
  /\ overheads' = [overheads EXCEPT ![Index(arg[k])] = tmp[k] + Overhead(k)]
  /\ tmp' = [tmp EXCEPT ![k] = 0]
  /\ child' = [child EXCEPT ![k] = "justica"]
  /\ UNCHANGED <<parent, clock, eficiencias, justicas, arg, spent, reported>>

\* set_justica(), and exit
set_justica(k) ==
  /\ child[k] = "justica"
  /\ justicas' = [justicas EXCEPT ![Index(arg[k])] = Justica(k)]
  /\ child' = [child EXCEPT ![k] = "zombie"] /\ reported' = reported \cup {k}
  /\ UNCHANGED <<parent, clock, overheads, eficiencias, arg, tmp, spent>>

\* Mutant: the program waits for one worker too few.
WaitsShort == N - 1

\* Times that the program calls wait().
Waits == N

Waited(t) ==
  /\ terminos' = Append(terminos, t)
  /\ pc' = IF Len(terminos') = Waits THEN "done" ELSE pc

\* wait(0) returns a worker.
reap(k) ==
  /\ pc = "wait" /\ child[k] = "zombie"
  /\ child' = [child EXCEPT ![k] = "gone"] /\ Waited(clock)
  /\ UNCHANGED <<round, j, X, clock, metrics, arg, tmp, spent, reported>>

\* wait(0) fails for want of workers, and terminos[j] stays as malloc() left it.
nochild ==
  /\ pc = "wait" /\ \A k \in Worker : child[k] \in {"none", "gone"}
  /\ \E t \in 0..MaxTime : Waited(t)
  /\ UNCHANGED <<round, j, X, clock, metrics, workers>>

tick ==
  /\ pc # "done" /\ clock < MaxTime /\ clock' = clock + 1
  /\ UNCHANGED <<parent, metrics, workers>>

Next ==
  \/ startRound \/ fork \/ nochild \/ tick
  \/ \E k \in Worker :
       work(k) \/ fail(k) \/ load(k) \/ store(k) \/ load2(k) \/ store2(k) \/ set_justica(k) \/ reap(k)

Spec == Init /\ [][Next]_vars

-----------------------------------------------------------------------------
(* The results of a round.                                                 *)

Pairs == [i \in 1..N * N |-> <<(i - 1) \div N + 1, ((i - 1) % N) + 1>>]

\* An iteration of the loops that order terminos: the two assignments store the same.
Exchange(t, ij) ==
  IF ij[1] < ij[2] /\ t[ij[2]] < t[ij[1]] THEN [t EXCEPT ![ij[1]] = t[ij[2]]] ELSE t

Ordered == FoldLeft(Exchange, terminos, Pairs)

\* Mutant: a worker that ends on the second counts for the next one.
ReachedLate(s, t) == PERSEC * s > t

\* Second s has come by the time t.
Reached(s, t) == PERSEC * s >= t

\* The loop that fills vazoes: <<vazoes, segundo_atual>>
RECURSIVE CountFrom(_, _, _, _)
CountFrom(t, index, s, v) ==
  IF index > N THEN <<v, s>>
  ELSE IF Reached(s, t[index]) THEN CountFrom(t, index + 1, s, [v EXCEPT ![s] = @ + 1])
  ELSE CountFrom(t, index, s + 1, v)

Counted == CountFrom(Ordered, 1, 0, [s \in 0..MaxTime + 1 |-> 0])
vazoes == Counted[1]
lim == Counted[2]

\* Division truncates; by zero it gives -1 on this machine.
Div(a, b) ==
  IF b = 0 THEN -1
  ELSE IF (a < 0) = (b < 0) THEN (IF a < 0 THEN -a ELSE a) \div (IF b < 0 THEN -b ELSE b)
  ELSE -((IF a < 0 THEN -a ELSE a) \div (IF b < 0 THEN -b ELSE b))

\* Mutant: the average leaves out a second.
SecondsShort == lim - 1

\* Seconds over which the average is taken.
Seconds == lim

\* The greatest and the least of vazoes.
vazao_max == SCALE * Max({vazoes[s] : s \in 0..lim})
vazao_min == SCALE * Min({vazoes[s] : s \in 0..lim})

\* The average of the round, normalised.
vazao_norm ==
  SCALE - Div((Div(N * SCALE, Seconds) - vazao_min) * SCALE, vazao_max - vazao_min)

\* The entries copied to the array of Y numbers.
Copied == {k \in Worker : eficiencias[k] >= 0}

Total(f) == FoldFunction(LAMBDA a, b : a + b, 0, f)

\* The sum of the Y numbers: of the first ones copied.
eficiencia_soma ==
  Total([k \in {c \in Copied : Cardinality({d \in Copied : d < c}) < N - X} |-> eficiencias[k]])

\* Mutant: the sum of the times is turned into a mean.
eficiencia_fimMean == Div(SCALE * (N - X), eficiencia_soma)

eficiencia_fim == Div(SCALE, eficiencia_soma)

overhead_soma == Total(overheads)
overhead_fim == Div(SCALE, overhead_soma)

\* Mutant: the numbers are added, not their squares.
SquaresPlain(f) == Total(f)

Squares(f) == Total([k \in DOMAIN f |-> f[k] * f[k]])

justica_fim == Div(Total(justicas) * Total(justicas) * SCALE, N * Squares(justicas))

\* The sum >> 2
desempenho == (overhead_fim + eficiencia_fim + vazao_norm + justica_fim) \div 4

-----------------------------------------------------------------------------
\* Every variable has its type: the loops stay inside the round's N workers,
\* and terminos never takes more than N times.
TypeOK ==
  /\ pc \in {"fork", "wait", "done"} /\ j \in 1..N + 1 /\ X \in 0..N /\ clock \in 0..MaxTime
  /\ child \in [Worker -> {"none", "exec", "read", "write", "read2", "write2", "justica", "zombie", "gone"}]
  /\ arg \in [Worker -> (0..1) \X (0..BASE - 1)] /\ Len(terminos) <= N

\* When the results are computed the metrics are what this round's workers reported, and 0
\* for those that failed: no increment is lost, though nothing makes it atomic, and none
\* comes from a worker of another entry or round.
MetricsExact ==
  pc = "done" => \A k \in Worker :
    /\ eficiencias[k] = IF k \in reported THEN Eficiencia(k) ELSE 0
    /\ overheads[k] = IF k \in reported THEN Overhead(k) ELSE 0
    /\ justicas[k] = IF k \in reported THEN Justica(k) ELSE 0

\* No worker outlives its round.
RoundOver == pc = "done" => \A k \in Worker : child[k] \in {"none", "gone"}

\* When every wait() succeeds the times are in order as they come, so that the exchange
\* that loses one of its values is never made, and vazoes counts the workers that ended
\* within each second.
Throughput ==
  pc = "done" /\ round > 0 =>
    /\ Ordered = terminos
    /\ \A s \in 0..lim :
         vazoes[s] = Cardinality({i \in 1..N :
           /\ terminos[i] <= PERSEC * s
           /\ s = 0 \/ terminos[i] > PERSEC * (s - 1)})

\* The time that workers spent on files is copied for the I/O-bound workers alone.
OnlyIo == pc = "done" /\ round > 0 => Copied = {k \in Worker : ~IsCpu(k)}

\* Ordering terminos keeps its values.
OrderKeeps ==
  pc = "done" /\ round > 0 =>
    \A t \in 0..MaxTime :
      Cardinality({i \in 1..N : Ordered[i] = t}) = Cardinality({i \in 1..N : terminos[i] = t})

Fraction(x) == 0 <= x /\ x <= SCALE

\* When no worker ends before the first tick of the round, vazoes is 0 for second 0 and
\* not for all seconds, so that neither division of the throughput is by zero.
Spread == vazoes[0] = 0 => lim > 0 /\ vazao_min < vazao_max

\* Each result is a fraction of one, Jain's index at least 1/N, and so is their mean: the
\* throughput when no worker ended before the first tick of the round, the others when not
\* all of the times they add are shorter than a tick.  Then no division is by zero, as
\* run_experiment.c:150 says that one can be.
Normalised ==
  pc = "done" /\ round > 0 =>
    /\ Spread /\ eficiencia_soma >= 0 /\ overhead_soma >= 0
    /\ vazoes[0] = 0 => Fraction(vazao_norm)
    /\ eficiencia_soma > 0 => Fraction(eficiencia_fim)
    /\ overhead_soma > 0 => Fraction(overhead_fim)
    /\ Total(justicas) > 0 => Fraction(justica_fim) /\ N * justica_fim >= SCALE - N
    /\ vazoes[0] = 0 /\ eficiencia_soma > 0 /\ overhead_soma > 0 /\ Total(justicas) > 0 =>
         Fraction(desempenho)

\* The results are fractions of one whatever the workers measured.
AlwaysNormalised == pc = "done" /\ round > 0 => Fraction(desempenho)
=============================================================================
