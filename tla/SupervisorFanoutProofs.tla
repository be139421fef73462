------------------------ MODULE SupervisorFanoutProofs ------------------------
(***************************************************************************)
(* Proofs about a fan-out request of the supervisor.                        *)
(*                                                                         *)
(* The waves of a plan are a recursive function; its recursion equation is  *)
(* proved first (LeastNat to LastWaveIsLast), from the well-foundedness of  *)
(* the natural numbers. The inductive invariant IndInv adds the ledgers to  *)
(* EvidenceInv: they are what keeps a reconciled token count a natural      *)
(* number. Every action has a lemma that it keeps IndInv. SpendInv then     *)
(* counts provider calls by a set of (worker, number) pairs inside the      *)
(* reservation, which bounds them without any sum over the workers.         *)
(***************************************************************************)
EXTENDS SupervisorFanout, FiniteSetTheorems, WellFoundedInduction, TLAPS

\* Every set of natural numbers that is not empty has a least element.
LEMMA LeastNat ==
  ASSUME NEW T \in SUBSET Nat, T # {}
  PROVE  \E x \in T : \A y \in T : x <= y
<1> DEFINE R == OpToRel(<, Nat)
<1>1. IsWellFoundedOn(R, Nat)
  BY NatLessThanWellFounded
<1>2. \A x, y \in Nat : x < y => <<x, y>> \in R
  BY DEF OpToRel
<1> HIDE DEF R
<1>3. PICK x \in T : \A y \in T : <<y, x>> \notin R
  BY <1>1, WFMin
<1>4. ASSUME NEW y \in T PROVE x <= y
  <2>1. ~ (y < x)
    BY <1>2, <1>3, Zenon
  <2> QED BY <2>1
<1> QED BY <1>4

\* Induction over the natural numbers, stated of a set instead of a predicate.
LEMMA SetInduction ==
  ASSUME NEW S, 0 \in S, \A n \in Nat : n \in S => n + 1 \in S
  PROVE  Nat \subseteq S
<1> SUFFICES ASSUME Nat \ S # {} PROVE FALSE
  OBVIOUS
<1>1. PICK x \in Nat \ S : \A y \in Nat \ S : x <= y
  <2> DEFINE T == Nat \ S
  <2>1. T \in SUBSET Nat /\ T # {}
    OBVIOUS
  <2> HIDE DEF T
  <2>2. \E x \in T : \A y \in T : x <= y
    BY <2>1, LeastNat
  <2> QED BY <2>2 DEF T
<1>2. x # 0 /\ x - 1 \in Nat /\ (x - 1) + 1 = x
  BY <1>1
<1>3. x - 1 \notin Nat \ S
  BY <1>1, <1>2
<1> QED BY <1>1, <1>2, <1>3

\* What is complete after one more wave.
OneMore(d, S) == S \cup {w \in Workers : d[w] \subseteq S}

\* The waves up to the n-th, as a finite sequence of sets.
Prefixes(d, n) ==
  {g \in [0..n -> SUBSET Workers] :
     g[0] = {} /\ \A k \in 1..n : g[k] = OneMore(d, g[k - 1])}

\* There are waves up to every number, ...
LEMMA PrefixExists ==
  ASSUME NEW d, NEW n \in Nat
  PROVE  Prefixes(d, n) # {}
<1> DEFINE S == {m \in Nat : Prefixes(d, m) # {}}
<1>1. 0 \in S
  <2> DEFINE g == [k \in 0..0 |-> {}]
  <2>1. g \in Prefixes(d, 0)
    BY DEF Prefixes
  <2> QED BY <2>1
<1>2. ASSUME NEW m \in Nat, m \in S PROVE m + 1 \in S
  <2>1. PICK g : g \in Prefixes(d, m)
    BY <1>2
  <2> DEFINE h == [k \in 0..(m + 1) |-> IF k = m + 1 THEN OneMore(d, g[m]) ELSE g[k]]
  <2>2. h \in [0..(m + 1) -> SUBSET Workers]
    BY <2>1 DEF Prefixes, OneMore
  <2>3. h[0] = {}
    BY <2>1 DEF Prefixes
  <2>4. ASSUME NEW k \in 1..(m + 1) PROVE h[k] = OneMore(d, h[k - 1])
    <3>1. CASE k = m + 1
      BY <3>1
    <3>2. CASE k \in 1..m
      <4>1. h[k] = g[k] /\ h[k - 1] = g[k - 1]
        BY <3>2
      <4> QED BY <4>1, <3>2, <2>1 DEF Prefixes
    <3> QED BY <3>1, <3>2
  <2>5. h \in Prefixes(d, m + 1)
    <3> HIDE DEF h
    <3> QED BY <2>2, <2>3, <2>4 DEF Prefixes
  <2> HIDE DEF h
  <2> QED BY <2>5
<1>3. Nat \subseteq S
  <2> HIDE DEF S
  <2> QED BY <1>1, <1>2, SetInduction
<1> QED BY <1>3

\* ... and two of them agree as far as both go.
LEMMA PrefixUnique ==
  ASSUME NEW d, NEW m \in Nat, NEW n \in Nat, NEW g \in Prefixes(d, m),
         NEW h \in Prefixes(d, n), NEW k \in Nat, k <= m, k <= n
  PROVE  g[k] = h[k]
<1> DEFINE S == {i \in Nat : (i <= m /\ i <= n) => g[i] = h[i]}
<1>1. 0 \in S
  BY DEF Prefixes
<1>2. ASSUME NEW i \in Nat, i \in S PROVE i + 1 \in S
  <2> SUFFICES ASSUME i + 1 <= m, i + 1 <= n PROVE g[i + 1] = h[i + 1]
    OBVIOUS
  <2>1. g[i] = h[i]
    BY <1>2
  <2>2. i + 1 \in 1..m /\ i + 1 \in 1..n /\ (i + 1) - 1 = i
    OBVIOUS
  <2> QED BY <2>1, <2>2 DEF Prefixes
<1>3. Nat \subseteq S
  <2> HIDE DEF S
  <2> QED BY <1>1, <1>2, SetInduction
<1> QED BY <1>3

\* build_execution_waves: nothing is complete before the first wave, and each wave
\* adds the workers whose upstream workers are complete.
LEMMA CompleteRec ==
  /\ Complete[0] = {}
  /\ \A n \in Nat \ {0} :
       Complete[n] = Complete[n - 1] \cup {w \in Workers : deps[w] \subseteq Complete[n - 1]}
<1> DEFINE pick(n) == CHOOSE g : g \in Prefixes(deps, n)
           f == [n \in Nat |-> pick(n)[n]]
           F(f0) == [n \in Nat |-> IF n = 0 THEN {} ELSE
                       f0[n - 1] \cup {w \in Workers : deps[w] \subseteq f0[n - 1]}]
<1>1. \A n \in Nat : pick(n) \in Prefixes(deps, n)
  BY PrefixExists
<1>2. f[0] = {}
  <2>1. pick(0) \in Prefixes(deps, 0)
    BY <1>1
  <2> HIDE DEF pick
  <2> QED BY <2>1 DEF Prefixes
<1>3. ASSUME NEW n \in Nat \ {0} PROVE f[n] = OneMore(deps, f[n - 1])
  <2>1. pick(n) \in Prefixes(deps, n) /\ n - 1 \in Nat /\ pick(n - 1) \in Prefixes(deps, n - 1)
    BY <1>1
  <2> HIDE DEF pick
  <2>2. pick(n)[n - 1] = pick(n - 1)[n - 1]
    BY <2>1, PrefixUnique
  <2>3. n \in 1..n
    OBVIOUS
  <2>4. pick(n)[n] = OneMore(deps, pick(n)[n - 1])
    BY <2>1, <2>3 DEF Prefixes
  <2> QED BY <2>1, <2>2, <2>4
<1>4. f = F(f)
  <2> HIDE DEF pick
  <2>1. \A n \in Nat : f[n] = F(f)[n]
    BY <1>2, <1>3 DEF OneMore
  <2> QED BY <2>1
<1>5. \E f0 : f0 = F(f0)
  <2> HIDE DEF f, F
  <2> QED BY <1>4
<1>6. Complete = CHOOSE f0 : f0 = F(f0)
  BY DEF Complete
<1>7. Complete = F(Complete)
  <2> HIDE DEF F
  <2> QED BY <1>5, <1>6
<1> HIDE DEF f
<1>8. Complete[0] = {}
  BY <1>7
<1>9. ASSUME NEW n \in Nat \ {0}
      PROVE Complete[n] = Complete[n - 1] \cup {w \in Workers : deps[w] \subseteq Complete[n - 1]}
  BY <1>7
<1> QED BY <1>8, <1>9

\* Only workers are ever complete.
LEMMA CompleteWorkers == \A n \in Nat : Complete[n] \subseteq Workers
<1> DEFINE S == {n \in Nat : Complete[n] \subseteq Workers}
<1>1. 0 \in S
  BY CompleteRec
<1>2. ASSUME NEW n \in Nat, n \in S PROVE n + 1 \in S
  <2>1. n + 1 \in Nat \ {0} /\ (n + 1) - 1 = n
    OBVIOUS
  <2> QED BY <2>1, <1>2, CompleteRec
<1>3. Nat \subseteq S
  <2> HIDE DEF S
  <2> QED BY <1>1, <1>2, SetInduction
<1> QED BY <1>3

\* A worker of a wave depends on what was complete before that wave.
LEMMA WaveMember ==
  ASSUME NEW n \in Nat \ {0}, NEW w \in Wave(n)
  PROVE  w \in Workers /\ deps[w] \subseteq Complete[n - 1]
<1>1. w \in Complete[n] /\ w \notin Complete[n - 1]
  BY DEF Wave
<1> QED BY <1>1, CompleteRec

\* A wave completes what was complete before it and its own workers.
LEMMA WaveCompletes ==
  ASSUME NEW n \in Nat \ {0}, NEW w \in Complete[n]
  PROVE  w \in Complete[n - 1] \/ w \in Wave(n)
BY DEF Wave

\* The plan's bounds are those of a finite set of workers.
LEMMA WorkerCount == Cardinality(Workers) \in Nat \ {0}
BY FanoutAssumption, FS_CardinalityType, FS_EmptySet

\* An acyclic plan has a last wave, and it completes every worker.
LEMMA LastWaveIsLast ==
  ASSUME Acyclic
  PROVE  LastWave \in 1..Cardinality(Workers) /\ Complete[LastWave] = Workers
<1> DEFINE N == Cardinality(Workers)
           T == {n \in Nat : Complete[n] = Workers}
<1>1. N \in Nat \ {0}
  BY WorkerCount
<1>2. N \in T
  BY <1>1 DEF Acyclic
<1>3. PICK x \in T : \A y \in T : x <= y
  <2>1. T \in SUBSET Nat /\ T # {}
    BY <1>2
  <2> HIDE DEF T, N
  <2> QED BY <2>1, LeastNat
<1>4. x # 0
  BY <1>3, CompleteRec, FanoutAssumption
<1>5. x \in Nat /\ x <= N /\ x - 1 \in Nat /\ x - 1 \notin T
  BY <1>1, <1>2, <1>3, <1>4
<1>6. x \in 1..N /\ Complete[x] = Workers /\ Complete[x - 1] # Workers
  BY <1>1, <1>3, <1>4, <1>5
<1> HIDE DEF T, N
<1>7. \E n \in 1..N : Complete[n] = Workers /\ Complete[n - 1] # Workers
  BY <1>6
<1> QED BY <1>7 DEF LastWave, N

\* The plan's waves depend on its dependencies only.
LEMMA PlanIsFixed ==
  ASSUME deps' = deps
  PROVE  /\ Complete' = Complete /\ Acyclic' = Acyclic /\ LastWave' = LastWave
         /\ \A n : Wave(n)' = Wave(n)
<1>1. Complete' = Complete
  BY DEF Complete
<1>2. Acyclic' = Acyclic /\ \A n : Wave(n)' = Wave(n)
  BY <1>1 DEF Acyclic, Wave
<1>3. LastWave' = LastWave
  BY <1>1 DEF LastWave
<1> QED BY <1>1, <1>2, <1>3

\* The inductive invariant: evidence, and the ledgers that its types rest on.
IndInv == EvidenceInv /\ LedgersAreReserved

\* A worker's share of the request is a natural number.
LEMMA SharesAreNatural == Calls \in Nat /\ Tokens \in Nat
BY FanoutAssumption DEF Calls, Tokens

\* Nothing reserved always fits.
LEMMA NothingFits == Fits({})
BY SharesAreNatural, FS_EmptySet, FanoutAssumption DEF Fits

\* A state's wave is one of the plan's numbers of waves.
LEMMA WaveNumber ==
  ASSUME TypeOK
  PROVE  parent.wave \in Nat \ {0} /\ parent.wave <= Cardinality(Workers)
BY WorkerCount DEF TypeOK

\* The upstream workers of a plan are workers.
LEMMA UpstreamAreWorkers ==
  ASSUME TypeOK
  PROVE  \A w \in Workers : deps[w] \subseteq Workers
BY FanoutAssumption DEF TypeOK

\* Compiling the plan starts it at its first wave, or blocks the request.
LEMMA CompileStep ==
  ASSUME IndInv, Compile
  PROVE  IndInv'
<1>0. deps' = deps /\ external' = external /\ durable' = durable
  BY DEF Compile
<1>f. /\ Complete' = Complete /\ Acyclic' = Acyclic /\ LastWave' = LastWave
      /\ Calls' = Calls /\ Tokens' = Tokens
  BY <1>0, PlanIsFixed DEF Calls, Tokens
<1>1. TypeOK'
  <2>1. 1 \in 1..Cardinality(Workers)
    BY WorkerCount
  <2> QED BY <2>1 DEF IndInv, EvidenceInv, TypeOK, Compile, Finish
<1>2. DependencyRespected'
  BY <1>0, <1>f DEF IndInv, EvidenceInv, DependencyRespected, TypeOK, Compile, Finish
<1>3. RequiredEvidence'
  BY <1>0, <1>f DEF IndInv, EvidenceInv, RequiredEvidence, TypeOK, Usable, Compile, Finish
<1>4. WavesAreOrdered'
  <2>1. Complete'[0] = {} /\ (Acyclic => 1 <= LastWave)
    BY <1>f, CompleteRec, LastWaveIsLast, WorkerCount
  <2>2. CASE parent'.pc = "reserve"
    <3>1. parent'.wave = 1 /\ Acyclic'
      BY <1>f, <2>2 DEF Compile, Finish, IndInv, EvidenceInv, TypeOK
    <3>2. parent'.wave - 1 = 0
      BY <3>1
    <3> QED BY <1>f, <2>1, <2>2, <3>1, <3>2 DEF WavesAreOrdered
  <2>3. CASE parent'.pc = "done"
    BY <2>3 DEF WavesAreOrdered
  <2> QED BY <2>2, <2>3 DEF Compile, Finish, IndInv, EvidenceInv, TypeOK
<1>5. ProcessesAreCurrent'
  BY <1>0, <1>f DEF IndInv, EvidenceInv, ProcessesAreCurrent, TypeOK, Wave, IdleProc, Active, Compile, Finish
<1>6. ResultsAreKept'
  BY <1>0, <1>f DEF IndInv, EvidenceInv, ResultsAreKept, TypeOK, Compile, Finish
<1>7. VerdictIsKept'
  BY <1>0, <1>f DEF IndInv, EvidenceInv, VerdictIsKept, TypeOK, Compile, Finish
<1>8. LedgersAreReserved'
  BY <1>0, <1>f DEF IndInv, EvidenceInv, LedgersAreReserved, TypeOK, IdleProc, Active, Compile, Finish, Fits
<1>9. OncePerRun'
  BY <1>0, <1>f DEF IndInv, EvidenceInv, OncePerRun, TypeOK, Compile, Finish, NoResult, IdleProc, Active, Pending, Plain
<1> QED BY <1>1, <1>2, <1>3, <1>4, <1>5, <1>6, <1>7, <1>8, <1>9 DEF IndInv, EvidenceInv

\* Reserving a wave leaves what is reserved within the request.
LEMMA ReserveWaveStep ==
  ASSUME IndInv, ReserveWave
  PROVE  IndInv'
<1>0. deps' = deps /\ external' = external /\ durable' = durable
  BY DEF ReserveWave
<1>f. /\ Complete' = Complete /\ Acyclic' = Acyclic /\ LastWave' = LastWave
      /\ Calls' = Calls /\ Tokens' = Tokens
  BY <1>0, PlanIsFixed DEF Calls, Tokens
<1>1. TypeOK'
  <2>1. Wave(parent.wave) \subseteq Workers
    BY WaveNumber, WaveMember DEF IndInv, EvidenceInv
  <2> QED BY <2>1 DEF IndInv, EvidenceInv, TypeOK, ReserveWave, Finish
<1>2. DependencyRespected'
  BY <1>0, <1>f DEF IndInv, EvidenceInv, DependencyRespected, TypeOK, ReserveWave, Finish
<1>3. RequiredEvidence'
  BY <1>0, <1>f DEF IndInv, EvidenceInv, RequiredEvidence, TypeOK, Usable, ReserveWave, Finish
<1>4. WavesAreOrdered'
  BY <1>0, <1>f DEF IndInv, EvidenceInv, WavesAreOrdered, TypeOK, ReserveWave, Finish
<1>5. ProcessesAreCurrent'
  BY <1>0, <1>f DEF IndInv, EvidenceInv, ProcessesAreCurrent, TypeOK, Wave, IdleProc, Active, ReserveWave, Finish
<1>6. ResultsAreKept'
  BY <1>0, <1>f DEF IndInv, EvidenceInv, ResultsAreKept, TypeOK, ReserveWave, Finish
<1>7. VerdictIsKept'
  BY <1>0, <1>f DEF IndInv, EvidenceInv, VerdictIsKept, TypeOK, ReserveWave, Finish
<1>8. LedgersAreReserved'
  BY <1>0, <1>f DEF IndInv, EvidenceInv, LedgersAreReserved, TypeOK, IdleProc, Active, ReserveWave, Finish, Fits
<1>9. OncePerRun'
  BY <1>0, <1>f DEF IndInv, EvidenceInv, OncePerRun, TypeOK, ReserveWave, Finish, NoResult, IdleProc, Active, Pending, Plain
<1> QED BY <1>1, <1>2, <1>3, <1>4, <1>5, <1>6, <1>7, <1>8, <1>9 DEF IndInv, EvidenceInv

\* A wave whose workers all have a result makes way for the next one.
LEMMA NextWaveStep ==
  ASSUME IndInv, NextWave
  PROVE  IndInv'
<1>0. deps' = deps /\ external' = external /\ durable' = durable
  BY DEF NextWave
<1>f. /\ Complete' = Complete /\ Acyclic' = Acyclic /\ LastWave' = LastWave
      /\ Calls' = Calls /\ Tokens' = Tokens
  BY <1>0, PlanIsFixed DEF Calls, Tokens
<1>1. TypeOK'
  <2>1. CASE parent.wave = LastWave
    BY <2>1 DEF IndInv, EvidenceInv, TypeOK, NextWave
  <2>2. CASE parent.wave # LastWave
    <3>1. parent.wave + 1 \in 1..Cardinality(Workers)
      BY <2>2, LastWaveIsLast, WaveNumber, WorkerCount
         DEF NextWave, IndInv, EvidenceInv, WavesAreOrdered
    <3> QED BY <2>2, <3>1 DEF IndInv, EvidenceInv, TypeOK, NextWave
  <2> QED BY <2>1, <2>2
<1>2. DependencyRespected'
  BY <1>0, <1>f DEF IndInv, EvidenceInv, DependencyRespected, TypeOK, NextWave
<1>3. RequiredEvidence'
  BY <1>0, <1>f DEF IndInv, EvidenceInv, RequiredEvidence, TypeOK, Usable, NextWave
<1>4. WavesAreOrdered'
  <2>1. /\ parent.pc = "run" /\ results' = results /\ Acyclic /\ parent.wave <= LastWave
        /\ \A w \in Complete[parent.wave - 1] \cup Wave(parent.wave) : results[w] # NoResult
    BY DEF IndInv, EvidenceInv, WavesAreOrdered, NextWave
  <2>2. \A w \in Complete[parent.wave] : results[w] # NoResult
    BY <2>1, WaveNumber, WaveCompletes DEF IndInv, EvidenceInv
  <2>3. CASE parent.wave = LastWave
    <3>1. parent'.pc = "aggregate"
      BY <2>3 DEF NextWave, IndInv, EvidenceInv, TypeOK
    <3>2. \A w \in Workers : results[w] # NoResult
      BY <2>1, <2>2, <2>3, LastWaveIsLast
    <3> QED BY <2>1, <3>1, <3>2 DEF WavesAreOrdered
  <2>4. CASE parent.wave # LastWave
    <3>1. parent'.pc = "reserve" /\ parent'.wave = parent.wave + 1
      BY <2>4 DEF NextWave, IndInv, EvidenceInv, TypeOK
    <3>2. parent'.wave <= LastWave /\ parent'.wave - 1 = parent.wave
      BY <2>1, <2>4, <3>1, WaveNumber, WorkerCount, LastWaveIsLast DEF IndInv, EvidenceInv
    <3> QED BY <1>f, <2>1, <2>2, <3>1, <3>2 DEF WavesAreOrdered
  <2> QED BY <2>3, <2>4
<1>5. ProcessesAreCurrent'
  BY <1>0, <1>f DEF IndInv, EvidenceInv, ProcessesAreCurrent, TypeOK, Wave, IdleProc, Active, NextWave
<1>6. ResultsAreKept'
  BY <1>0, <1>f DEF IndInv, EvidenceInv, ResultsAreKept, TypeOK, NextWave
<1>7. VerdictIsKept'
  BY <1>0, <1>f DEF IndInv, EvidenceInv, VerdictIsKept, TypeOK, NextWave
<1>8. LedgersAreReserved'
  BY <1>0, <1>f DEF IndInv, EvidenceInv, LedgersAreReserved, TypeOK, IdleProc, Active, NextWave, Fits
<1>9. OncePerRun'
  BY <1>0, <1>f DEF IndInv, EvidenceInv, OncePerRun, TypeOK, NextWave, NoResult, IdleProc, Active, Pending, Plain
<1> QED BY <1>1, <1>2, <1>3, <1>4, <1>5, <1>6, <1>7, <1>8, <1>9 DEF IndInv, EvidenceInv

\* A blocked request keeps its evidence.
LEMMA BlockStep ==
  ASSUME IndInv, Block
  PROVE  IndInv'
<1>0. deps' = deps /\ external' = external /\ durable' = durable
  BY DEF Block
<1>f. /\ Complete' = Complete /\ Acyclic' = Acyclic /\ LastWave' = LastWave
      /\ Calls' = Calls /\ Tokens' = Tokens
  BY <1>0, PlanIsFixed DEF Calls, Tokens
<1>1. TypeOK'
  BY <1>0, <1>f DEF IndInv, EvidenceInv, TypeOK, Result, Plain, NoResult, IdleProc, Active, Usable, Block, Finish
<1>2. DependencyRespected'
  BY <1>0, <1>f DEF IndInv, EvidenceInv, DependencyRespected, TypeOK, Block, Finish
<1>3. RequiredEvidence'
  BY <1>0, <1>f DEF IndInv, EvidenceInv, RequiredEvidence, TypeOK, Usable, Block, Finish
<1>4. WavesAreOrdered'
  BY <1>0, <1>f DEF IndInv, EvidenceInv, WavesAreOrdered, TypeOK, Block, Finish
<1>5. ProcessesAreCurrent'
  BY <1>0, <1>f DEF IndInv, EvidenceInv, ProcessesAreCurrent, TypeOK, Wave, IdleProc, Active, Block, Finish, Running
<1>6. ResultsAreKept'
  BY <1>0, <1>f DEF IndInv, EvidenceInv, ResultsAreKept, TypeOK, Block, Finish
<1>7. VerdictIsKept'
  BY <1>0, <1>f DEF IndInv, EvidenceInv, VerdictIsKept, TypeOK, Block, Finish
<1>8. LedgersAreReserved'
  BY <1>0, <1>f DEF IndInv, EvidenceInv, LedgersAreReserved, TypeOK, IdleProc, Active, Block, Finish, Fits
<1>9. OncePerRun'
  BY <1>0, <1>f DEF IndInv, EvidenceInv, OncePerRun, TypeOK, Block, Finish, NoResult, IdleProc, Active, Pending, Plain
<1> QED BY <1>1, <1>2, <1>3, <1>4, <1>5, <1>6, <1>7, <1>8, <1>9 DEF IndInv, EvidenceInv

\* A lost worker leaves nothing behind but the end of the request.
LEMMA LoseWorkerStep ==
  ASSUME IndInv, NEW w \in Workers, LoseWorker(w)
  PROVE  IndInv'
<1>0. deps' = deps /\ external' = external /\ durable' = durable
  BY DEF LoseWorker
<1>f. /\ Complete' = Complete /\ Acyclic' = Acyclic /\ LastWave' = LastWave
      /\ Calls' = Calls /\ Tokens' = Tokens
  BY <1>0, PlanIsFixed DEF Calls, Tokens
<1>1. TypeOK'
  BY <1>0, <1>f DEF IndInv, EvidenceInv, TypeOK, Result, Plain, NoResult, IdleProc, Active, Usable, LoseWorker
<1>2. DependencyRespected'
  BY <1>0, <1>f DEF IndInv, EvidenceInv, DependencyRespected, TypeOK, LoseWorker, IdleProc, Active
<1>3. RequiredEvidence'
  BY <1>0, <1>f DEF IndInv, EvidenceInv, RequiredEvidence, TypeOK, Usable, LoseWorker
<1>4. WavesAreOrdered'
  BY <1>0, <1>f DEF IndInv, EvidenceInv, WavesAreOrdered, TypeOK, LoseWorker
<1>5. ProcessesAreCurrent'
  BY <1>0, <1>f DEF IndInv, EvidenceInv, ProcessesAreCurrent, TypeOK, Wave, IdleProc, Active, LoseWorker
<1>6. ResultsAreKept'
  BY <1>0, <1>f DEF IndInv, EvidenceInv, ResultsAreKept, TypeOK, LoseWorker
<1>7. VerdictIsKept'
  BY <1>0, <1>f DEF IndInv, EvidenceInv, VerdictIsKept, TypeOK, LoseWorker
<1>8. LedgersAreReserved'
  BY <1>0, <1>f DEF IndInv, EvidenceInv, LedgersAreReserved, TypeOK, IdleProc, Active, LoseWorker, Fits
<1>9. OncePerRun'
  BY <1>0, <1>f DEF IndInv, EvidenceInv, OncePerRun, TypeOK, LoseWorker, NoResult, IdleProc, Active, Pending, Plain
<1> QED BY <1>1, <1>2, <1>3, <1>4, <1>5, <1>6, <1>7, <1>8, <1>9 DEF IndInv, EvidenceInv

\* A crash loses processes, reservations and results, but not what child graphs left.
LEMMA CrashStep ==
  ASSUME IndInv, Crash
  PROVE  IndInv'
<1>0. deps' = deps /\ external' = external /\ durable' = durable
  BY DEF Crash
<1>f. /\ Complete' = Complete /\ Acyclic' = Acyclic /\ LastWave' = LastWave
      /\ Calls' = Calls /\ Tokens' = Tokens
  BY <1>0, PlanIsFixed DEF Calls, Tokens
<1>1. TypeOK'
  BY <1>0, <1>f DEF IndInv, EvidenceInv, TypeOK, Result, Plain, NoResult, IdleProc, Active, Usable, Crash
<1>2. DependencyRespected'
  BY <1>0, <1>f DEF IndInv, EvidenceInv, DependencyRespected, TypeOK, Crash, IdleProc, Active
<1>3. RequiredEvidence'
  BY <1>0, <1>f DEF IndInv, EvidenceInv, RequiredEvidence, TypeOK, Usable, Crash
<1>4. WavesAreOrdered'
  BY <1>0, <1>f DEF IndInv, EvidenceInv, WavesAreOrdered, TypeOK, Crash
<1>5. ProcessesAreCurrent'
  BY <1>0, <1>f DEF IndInv, EvidenceInv, ProcessesAreCurrent, TypeOK, Wave, IdleProc, Active, Crash
<1>6. ResultsAreKept'
  BY <1>0, <1>f DEF IndInv, EvidenceInv, ResultsAreKept, TypeOK, Crash
<1>7. VerdictIsKept'
  BY <1>0, <1>f DEF IndInv, EvidenceInv, VerdictIsKept, TypeOK, Crash
<1>8. LedgersAreReserved'
  <2>1. Fits({})'
    BY <1>f, NothingFits DEF Fits
  <2> QED BY <1>f, <2>1 DEF IndInv, EvidenceInv, LedgersAreReserved, ProcessesAreCurrent, TypeOK, Crash, IdleProc, Active
<1>9. OncePerRun'
  BY <1>0, <1>f DEF IndInv, EvidenceInv, OncePerRun, TypeOK, Crash, NoResult, IdleProc, Active, Pending, Plain
<1> QED BY <1>1, <1>2, <1>3, <1>4, <1>5, <1>6, <1>7, <1>8, <1>9 DEF IndInv, EvidenceInv

\* A re-run starts with the child graphs of the earlier runs, or with none.
LEMMA RerunStep ==
  ASSUME IndInv, Rerun
  PROVE  IndInv'
<1>0. deps' = deps /\ external' = external /\ durable' = durable
  BY DEF Rerun
<1>f. /\ Complete' = Complete /\ Acyclic' = Acyclic /\ LastWave' = LastWave
      /\ Calls' = Calls /\ Tokens' = Tokens
  BY <1>0, PlanIsFixed DEF Calls, Tokens
<1>1. TypeOK'
  <2>1. parent.runs + 1 \in 0..MaxReruns
    BY FanoutAssumption DEF IndInv, EvidenceInv, TypeOK, Rerun
  <2> QED BY <2>1 DEF IndInv, EvidenceInv, TypeOK, Rerun, Result, NoResult
<1>2. DependencyRespected'
  BY <1>0, <1>f DEF IndInv, EvidenceInv, DependencyRespected, TypeOK, Rerun, ProcessesAreCurrent
<1>3. RequiredEvidence'
  BY <1>0, <1>f DEF IndInv, EvidenceInv, RequiredEvidence, TypeOK, Usable, Rerun
<1>4. WavesAreOrdered'
  BY <1>0, <1>f DEF IndInv, EvidenceInv, WavesAreOrdered, TypeOK, Rerun
<1>5. ProcessesAreCurrent'
  BY <1>0, <1>f DEF IndInv, EvidenceInv, ProcessesAreCurrent, TypeOK, Wave, IdleProc, Active, Rerun
<1>6. ResultsAreKept'
  BY <1>0, <1>f DEF IndInv, EvidenceInv, ResultsAreKept, TypeOK, Rerun
<1>7. VerdictIsKept'
  BY <1>0, <1>f DEF IndInv, EvidenceInv, VerdictIsKept, TypeOK, Rerun
<1>8. LedgersAreReserved'
  <2>1. Fits({})'
    BY <1>f, NothingFits DEF Fits
  <2> QED BY <1>f, <2>1 DEF IndInv, EvidenceInv, LedgersAreReserved, ProcessesAreCurrent, TypeOK, Rerun, IdleProc, Active, NoResult, Usable
<1>9. OncePerRun'
  BY <1>0, <1>f DEF IndInv, EvidenceInv, OncePerRun, TypeOK, Rerun, NoResult, IdleProc, Active, Pending, Plain
<1> QED BY <1>1, <1>2, <1>3, <1>4, <1>5, <1>6, <1>7, <1>8, <1>9 DEF IndInv, EvidenceInv

\* A worker is blocked by a failure that is on record.
LEMMA BlockWorkerStep ==
  ASSUME IndInv, NEW w \in Workers, BlockWorker(w)
  PROVE  IndInv'
<1>0. deps' = deps /\ external' = external /\ durable' = durable
  BY DEF BlockWorker
<1>f. /\ Complete' = Complete /\ Acyclic' = Acyclic /\ LastWave' = LastWave
      /\ Calls' = Calls /\ Tokens' = Tokens
  BY <1>0, PlanIsFixed DEF Calls, Tokens
<1>1. TypeOK'
  BY <1>0, <1>f DEF IndInv, EvidenceInv, TypeOK, Result, Plain, NoResult, IdleProc, Active, Usable, BlockWorker
<1>2. DependencyRespected'
  BY <1>0, <1>f DEF IndInv, EvidenceInv, DependencyRespected, TypeOK, BlockWorker
<1>3. RequiredEvidence'
  BY <1>0, <1>f DEF IndInv, EvidenceInv, RequiredEvidence, TypeOK, Usable, BlockWorker
<1>4. WavesAreOrdered'
  BY <1>0, <1>f DEF IndInv, EvidenceInv, WavesAreOrdered, TypeOK, BlockWorker, Plain, NoResult
<1>5. ProcessesAreCurrent'
  BY <1>0, <1>f DEF IndInv, EvidenceInv, ProcessesAreCurrent, TypeOK, Wave, IdleProc, Active, BlockWorker, Pending
<1>6. ResultsAreKept'
  <2>1. w \in Workers /\ \A u \in deps[w] : u \in Workers /\ results[u] # NoResult
    BY WaveNumber, WaveMember, CompleteWorkers
       DEF BlockWorker, Pending, IndInv, EvidenceInv, WavesAreOrdered
  <2>2. PICK u \in deps[w] : results[u].status \notin Usable
    BY DEF BlockWorker, EvidenceFor
  <2>3. child[w].status \notin Usable
    BY <2>1, <2>2 DEF IndInv, EvidenceInv, ResultsAreKept, NoResult, Usable
  <2>4. \E v \in Workers : child[v].status \notin {"none"} \cup Usable
    BY <2>1, <2>2 DEF IndInv, EvidenceInv, ResultsAreKept, NoResult, Usable
  <2> QED BY <2>3, <2>4, <1>0 DEF BlockWorker, IndInv, EvidenceInv, ResultsAreKept, TypeOK
<1>7. VerdictIsKept'
  BY <1>0, <1>f DEF IndInv, EvidenceInv, VerdictIsKept, TypeOK, BlockWorker
<1>8. LedgersAreReserved'
  BY <1>0, <1>f DEF IndInv, EvidenceInv, LedgersAreReserved, TypeOK, IdleProc, Active, BlockWorker, Fits, Plain
<1>9. OncePerRun'
  BY <1>0, <1>f DEF IndInv, EvidenceInv, OncePerRun, TypeOK, BlockWorker, NoResult, IdleProc, Active, Pending, Plain
<1> QED BY <1>1, <1>2, <1>3, <1>4, <1>5, <1>6, <1>7, <1>8, <1>9 DEF IndInv, EvidenceInv

\* A reused checkpoint is the result of the child graph.
LEMMA ReuseCheckpointStep ==
  ASSUME IndInv, NEW w \in Workers, ReuseCheckpoint(w)
  PROVE  IndInv'
<1>0. deps' = deps /\ external' = external /\ durable' = durable
  BY DEF ReuseCheckpoint
<1>f. /\ Complete' = Complete /\ Acyclic' = Acyclic /\ LastWave' = LastWave
      /\ Calls' = Calls /\ Tokens' = Tokens
  BY <1>0, PlanIsFixed DEF Calls, Tokens
<1>1. TypeOK'
  BY <1>0, <1>f DEF IndInv, EvidenceInv, TypeOK, Result, Plain, NoResult, IdleProc, Active, Usable, ReuseCheckpoint
<1>2. DependencyRespected'
  BY <1>0, <1>f DEF IndInv, EvidenceInv, DependencyRespected, TypeOK, ReuseCheckpoint
<1>3. RequiredEvidence'
  BY <1>0, <1>f DEF IndInv, EvidenceInv, RequiredEvidence, TypeOK, Usable, ReuseCheckpoint
<1>4. WavesAreOrdered'
  BY <1>0, <1>f DEF IndInv, EvidenceInv, WavesAreOrdered, TypeOK, ReuseCheckpoint
<1>5. ProcessesAreCurrent'
  BY <1>0, <1>f DEF IndInv, EvidenceInv, ProcessesAreCurrent, TypeOK, Wave, IdleProc, Active, ReuseCheckpoint, Pending
<1>6. ResultsAreKept'
  BY <1>0, <1>f DEF IndInv, EvidenceInv, ResultsAreKept, TypeOK, ReuseCheckpoint
<1>7. VerdictIsKept'
  BY <1>0, <1>f DEF IndInv, EvidenceInv, VerdictIsKept, TypeOK, ReuseCheckpoint
<1>8. LedgersAreReserved'
  BY <1>0, <1>f DEF IndInv, EvidenceInv, LedgersAreReserved, TypeOK, IdleProc, Active, ReuseCheckpoint, Fits
<1>9. OncePerRun'
  BY <1>0, <1>f DEF IndInv, EvidenceInv, OncePerRun, TypeOK, ReuseCheckpoint, NoResult, IdleProc, Active, Pending, Plain
<1> QED BY <1>1, <1>2, <1>3, <1>4, <1>5, <1>6, <1>7, <1>8, <1>9 DEF IndInv, EvidenceInv

\* A worker starts on usable evidence of all its upstream workers.
LEMMA StartWorkerStep ==
  ASSUME IndInv, NEW w \in Workers, StartWorker(w)
  PROVE  IndInv'
<1>0. deps' = deps /\ external' = external /\ durable' = durable
  BY DEF StartWorker
<1>f. /\ Complete' = Complete /\ Acyclic' = Acyclic /\ LastWave' = LastWave
      /\ Calls' = Calls /\ Tokens' = Tokens
  BY <1>0, PlanIsFixed DEF Calls, Tokens
<1>1. TypeOK'
  BY <1>0, <1>f DEF IndInv, EvidenceInv, TypeOK, Result, Plain, NoResult, IdleProc, Active, Usable, StartWorker
<1>2. DependencyRespected'
  BY <1>0, <1>f, UpstreamAreWorkers DEF IndInv, EvidenceInv, DependencyRespected, TypeOK, StartWorker, Pending, EvidenceFor, ResultsAreKept, Plain, Usable, NoResult
<1>3. RequiredEvidence'
  BY <1>0, <1>f DEF IndInv, EvidenceInv, RequiredEvidence, TypeOK, Usable, StartWorker
<1>4. WavesAreOrdered'
  BY <1>0, <1>f DEF IndInv, EvidenceInv, WavesAreOrdered, TypeOK, StartWorker
<1>5. ProcessesAreCurrent'
  BY <1>0, <1>f DEF IndInv, EvidenceInv, ProcessesAreCurrent, TypeOK, Wave, IdleProc, Active, StartWorker, Pending
<1>6. ResultsAreKept'
  BY <1>0, <1>f DEF IndInv, EvidenceInv, ResultsAreKept, TypeOK, StartWorker
<1>7. VerdictIsKept'
  BY <1>0, <1>f DEF IndInv, EvidenceInv, VerdictIsKept, TypeOK, StartWorker
<1>8. LedgersAreReserved'
  BY <1>0, <1>f, SharesAreNatural DEF IndInv, EvidenceInv, LedgersAreReserved, TypeOK, IdleProc, Active, StartWorker, Fits, Pending
<1>9. OncePerRun'
  BY <1>0, <1>f DEF IndInv, EvidenceInv, OncePerRun, TypeOK, StartWorker, Pending, EvidenceFor, NoResult, IdleProc, Active, Plain
<1> QED BY <1>1, <1>2, <1>3, <1>4, <1>5, <1>6, <1>7, <1>8, <1>9 DEF IndInv, EvidenceInv

\* A worker that is refused is on record as a failure.
LEMMA RejectWorkerStep ==
  ASSUME IndInv, NEW w \in Workers, RejectWorker(w)
  PROVE  IndInv'
<1>0. deps' = deps /\ external' = external /\ durable' = durable
  BY DEF RejectWorker
<1>f. /\ Complete' = Complete /\ Acyclic' = Acyclic /\ LastWave' = LastWave
      /\ Calls' = Calls /\ Tokens' = Tokens
  BY <1>0, PlanIsFixed DEF Calls, Tokens
<1>1. TypeOK'
  BY <1>0, <1>f DEF IndInv, EvidenceInv, TypeOK, Result, Plain, NoResult, IdleProc, Active, Usable, RejectWorker, Record
<1>2. DependencyRespected'
  BY <1>0, <1>f DEF IndInv, EvidenceInv, DependencyRespected, TypeOK, RejectWorker, Record, NoResult, Usable
<1>3. RequiredEvidence'
  BY <1>0, <1>f DEF IndInv, EvidenceInv, RequiredEvidence, TypeOK, Usable, RejectWorker, Record, NoResult
<1>4. WavesAreOrdered'
  BY <1>0, <1>f DEF IndInv, EvidenceInv, WavesAreOrdered, TypeOK, RejectWorker, Record, Plain, NoResult
<1>5. ProcessesAreCurrent'
  BY <1>0, <1>f DEF IndInv, EvidenceInv, ProcessesAreCurrent, TypeOK, Wave, IdleProc, Active, RejectWorker, Pending, Record
<1>6. ResultsAreKept'
  BY <1>0, <1>f, UpstreamAreWorkers DEF IndInv, EvidenceInv, ResultsAreKept, TypeOK, RejectWorker, Pending, EvidenceFor, Record, Plain, NoResult, Usable
<1>7. VerdictIsKept'
  BY <1>0, <1>f DEF IndInv, EvidenceInv, VerdictIsKept, TypeOK, RejectWorker, Record, Plain, NoResult
<1>8. LedgersAreReserved'
  BY <1>0, <1>f DEF IndInv, EvidenceInv, LedgersAreReserved, TypeOK, IdleProc, Active, RejectWorker, Fits, Pending, Record, Plain, Usable
<1>9. OncePerRun'
  BY <1>0, <1>f DEF IndInv, EvidenceInv, OncePerRun, TypeOK, RejectWorker, Record, NoResult, IdleProc, Active, Pending, Plain
<1> QED BY <1>1, <1>2, <1>3, <1>4, <1>5, <1>6, <1>7, <1>8, <1>9 DEF IndInv, EvidenceInv

\* A provider call is within the worker's share.
LEMMA ReserveCallStep ==
  ASSUME IndInv, NEW w \in Workers, ReserveCall(w)
  PROVE  IndInv'
<1>0. deps' = deps /\ external' = external /\ durable' = durable
  BY DEF ReserveCall
<1>f. /\ Complete' = Complete /\ Acyclic' = Acyclic /\ LastWave' = LastWave
      /\ Calls' = Calls /\ Tokens' = Tokens
  BY <1>0, PlanIsFixed DEF Calls, Tokens
<1>1. TypeOK'
  BY <1>0, <1>f, FanoutAssumption DEF IndInv, EvidenceInv, TypeOK, Result, Plain, NoResult, IdleProc, Active, Usable, ReserveCall
<1>2. DependencyRespected'
  BY <1>0, <1>f DEF IndInv, EvidenceInv, DependencyRespected, TypeOK, ReserveCall
<1>3. RequiredEvidence'
  BY <1>0, <1>f DEF IndInv, EvidenceInv, RequiredEvidence, TypeOK, Usable, ReserveCall
<1>4. WavesAreOrdered'
  BY <1>0, <1>f DEF IndInv, EvidenceInv, WavesAreOrdered, TypeOK, ReserveCall
<1>5. ProcessesAreCurrent'
  BY <1>0, <1>f DEF IndInv, EvidenceInv, ProcessesAreCurrent, TypeOK, Wave, IdleProc, Active, ReserveCall
<1>6. ResultsAreKept'
  BY <1>0, <1>f DEF IndInv, EvidenceInv, ResultsAreKept, TypeOK, ReserveCall
<1>7. VerdictIsKept'
  BY <1>0, <1>f DEF IndInv, EvidenceInv, VerdictIsKept, TypeOK, ReserveCall
<1>8. LedgersAreReserved'
  BY <1>0, <1>f, SharesAreNatural, FanoutAssumption DEF IndInv, EvidenceInv, LedgersAreReserved, TypeOK, IdleProc, Active, ReserveCall, Fits, Admits
<1>9. OncePerRun'
  BY <1>0, <1>f DEF IndInv, EvidenceInv, OncePerRun, TypeOK, ReserveCall, NoResult, IdleProc, Active, Pending, Plain
<1> QED BY <1>1, <1>2, <1>3, <1>4, <1>5, <1>6, <1>7, <1>8, <1>9 DEF IndInv, EvidenceInv

\* A call that ends leaves the calls of its ledger.
LEMMA EndCallStep ==
  ASSUME IndInv, NEW w \in Workers, EndCall(w)
  PROVE  IndInv'
<1>0. deps' = deps /\ external' = external /\ durable' = durable
  BY DEF EndCall
<1>f. /\ Complete' = Complete /\ Acyclic' = Acyclic /\ LastWave' = LastWave
      /\ Calls' = Calls /\ Tokens' = Tokens
  BY <1>0, PlanIsFixed DEF Calls, Tokens
<1>1. TypeOK'
  <2>1. \A t \in ActualTokens : t \in Nat /\ (worker[w].tokens + t) - Projected \in Nat
    BY FanoutAssumption DEF IndInv, EvidenceInv, TypeOK, LedgersAreReserved, EndCall
  <2> QED BY <2>1 DEF IndInv, EvidenceInv, TypeOK, EndCall, Active
<1>e. /\ UNCHANGED <<parent, alloc, child, results, executions>>
      /\ \A v \in Workers :
           /\ worker'[v].pc \in Active <=> worker[v].pc \in Active
           /\ worker'[v].pc = "idle" <=> worker[v].pc = "idle"
           /\ worker'[v].calls = worker[v].calls
           /\ worker'[v].pc = "call" => worker[v].pc = "call" /\ worker'[v].tokens = worker[v].tokens
  <2>1. UNCHANGED <<parent, alloc, child, results, executions>> /\ worker[w].pc = "call"
    BY DEF EndCall
  <2>2. /\ worker'[w].pc = "think" /\ worker'[w].calls = worker[w].calls
        /\ \A v \in Workers \ {w} : worker'[v] = worker[v]
    BY DEF EndCall, IndInv, EvidenceInv, TypeOK
  <2> QED BY <2>1, <2>2 DEF Active
<1>2. DependencyRespected'
  BY <1>0, <1>e DEF IndInv, EvidenceInv, DependencyRespected
<1>3. RequiredEvidence'
  BY <1>0, <1>f DEF IndInv, EvidenceInv, RequiredEvidence, TypeOK, Usable, EndCall
<1>4. WavesAreOrdered'
  BY <1>0, <1>f DEF IndInv, EvidenceInv, WavesAreOrdered, TypeOK, EndCall
<1>5. ProcessesAreCurrent'
  BY <1>0, <1>f DEF IndInv, EvidenceInv, ProcessesAreCurrent, TypeOK, Wave, IdleProc, Active, EndCall
<1>6. ResultsAreKept'
  BY <1>0, <1>f DEF IndInv, EvidenceInv, ResultsAreKept, TypeOK, EndCall
<1>7. VerdictIsKept'
  BY <1>0, <1>f DEF IndInv, EvidenceInv, VerdictIsKept, TypeOK, EndCall
<1>8. LedgersAreReserved'
  BY <1>0, <1>f, <1>e DEF IndInv, LedgersAreReserved, Fits
<1>9. OncePerRun'
  BY <1>0, <1>e DEF IndInv, EvidenceInv, OncePerRun
<1> QED BY <1>1, <1>2, <1>3, <1>4, <1>5, <1>6, <1>7, <1>8, <1>9 DEF IndInv, EvidenceInv

\* A process that ends leaves its result on record.
LEMMA EndWorkerStep ==
  ASSUME IndInv, NEW w \in Workers, EndWorker(w)
  PROVE  IndInv'
<1>0. deps' = deps /\ external' = external /\ durable' = durable
  BY DEF EndWorker
<1>f. /\ Complete' = Complete /\ Acyclic' = Acyclic /\ LastWave' = LastWave
      /\ Calls' = Calls /\ Tokens' = Tokens
  BY <1>0, PlanIsFixed DEF Calls, Tokens
<1>r. PICK r \in Result :
        /\ Record(w, r) /\ r.status \notin {"none", "blocked"}
        /\ r.status \in Usable => r.calls <= Calls /\ r.tokens <= Tokens
  <2>1. \A s \in Usable \cup {"failed"} :
          /\ Accepted(w, s) \in Result /\ Accepted(w, s).status \notin {"none", "blocked"}
          /\ Accepted(w, s).status \in Usable =>
               Accepted(w, s).calls <= Calls /\ Accepted(w, s).tokens <= Tokens
    BY DEF IndInv, EvidenceInv, TypeOK, Accepted, Plain, Usable, Result
  <2>2. /\ Plain("failed") \in Result
        /\ Plain("failed").status \notin {"none", "blocked"} \cup Usable
    BY DEF Plain, Result, Usable
  <2> HIDE DEF Accepted
  <2> QED BY <2>1, <2>2 DEF EndWorker
<1>p. /\ child[w] = NoResult /\ results[w] = NoResult /\ executions[w] > 0
      /\ r # NoResult
      /\ child' = [child EXCEPT ![w] = r]
      /\ results' = IF parent.pc = "run" THEN [results EXCEPT ![w] = r] ELSE results
      /\ worker' = [worker EXCEPT ![w] = IdleProc] /\ UNCHANGED <<parent, alloc, executions, spent>>
  BY <1>r DEF Record, EndWorker, IndInv, EvidenceInv, ProcessesAreCurrent, NoResult
<1>1. TypeOK'
  BY <1>0, <1>f, <1>r, <1>p DEF IndInv, EvidenceInv, TypeOK, IdleProc, Active
<1>2. DependencyRespected'
  BY <1>0, <1>f, <1>r, <1>p DEF IndInv, EvidenceInv, DependencyRespected, TypeOK, NoResult, Usable, IdleProc, Active
<1>3. RequiredEvidence'
  BY <1>0, <1>f, <1>r, <1>p DEF IndInv, EvidenceInv, RequiredEvidence, TypeOK, NoResult, Usable
<1>4. WavesAreOrdered'
  BY <1>0, <1>f, <1>r, <1>p DEF IndInv, EvidenceInv, WavesAreOrdered, TypeOK
<1>5. ProcessesAreCurrent'
  BY <1>0, <1>f, <1>r, <1>p DEF IndInv, EvidenceInv, ProcessesAreCurrent, TypeOK, Wave, IdleProc, Active
<1>6. ResultsAreKept'
  <2>1. \A v \in Workers : child[v].status \in Usable => v # w
    BY <1>p DEF NoResult, Usable
  <2>2. \A v \in Workers : child[v].status \notin {"none"} \cup Usable => v # w
    BY <1>p DEF NoResult, Usable
  <2>3. \A v \in Workers : v # w => child'[v] = child[v] /\ results'[v] = results[v]
    BY <1>p DEF IndInv, EvidenceInv, TypeOK
  <2>4. child'[w] = r /\ results'[w] \in {r, NoResult}
    BY <1>p DEF IndInv, EvidenceInv, TypeOK
  <2>5. \A u \in deps[w] : u \in Workers /\ child[u].status \in Usable
    BY <1>p, UpstreamAreWorkers DEF IndInv, EvidenceInv, DependencyRespected, EndWorker
  <2>6. \A v \in Workers : \A u \in deps[v] : u \in Workers
    BY UpstreamAreWorkers DEF IndInv, EvidenceInv
  <2> QED BY <1>0, <1>r, <1>p, <2>1, <2>2, <2>3, <2>4, <2>5, <2>6
          DEF IndInv, EvidenceInv, ResultsAreKept
<1>7. VerdictIsKept'
  BY <1>0, <1>f, <1>r, <1>p DEF IndInv, EvidenceInv, VerdictIsKept, TypeOK, NoResult
<1>8. LedgersAreReserved'
  BY <1>0, <1>f, <1>r, <1>p DEF IndInv, EvidenceInv, LedgersAreReserved, TypeOK, IdleProc, Active, Fits
<1>9. OncePerRun'
  BY <1>0, <1>f, <1>r, <1>p DEF IndInv, EvidenceInv, OncePerRun, ProcessesAreCurrent, EndWorker, TypeOK, NoResult, IdleProc, Active, Pending, Plain
<1> QED BY <1>1, <1>2, <1>3, <1>4, <1>5, <1>6, <1>7, <1>8, <1>9 DEF IndInv, EvidenceInv

\* A usable verdict can be read off the child graphs.
LEMMA AggregateStep ==
  ASSUME IndInv, Aggregate
  PROVE  IndInv'
<1>0. deps' = deps /\ external' = external /\ durable' = durable
  BY DEF Aggregate
<1>f. /\ Complete' = Complete /\ Acyclic' = Acyclic /\ LastWave' = LastWave
      /\ Calls' = Calls /\ Tokens' = Tokens
  BY <1>0, PlanIsFixed DEF Calls, Tokens
<1>1. TypeOK'
  BY <1>0, <1>f DEF IndInv, EvidenceInv, TypeOK, Result, Plain, NoResult, IdleProc, Active, Usable, Aggregate, Finish, Verdict
<1>2. DependencyRespected'
  BY <1>0, <1>f DEF IndInv, EvidenceInv, DependencyRespected, TypeOK, Aggregate, Finish
<1>3. RequiredEvidence'
  BY <1>0, <1>f, FanoutAssumption DEF IndInv, EvidenceInv, RequiredEvidence, TypeOK, Usable, Aggregate, Finish, Verdict, ResultsAreKept, WavesAreOrdered, Plain
<1>4. WavesAreOrdered'
  BY <1>0, <1>f DEF IndInv, EvidenceInv, WavesAreOrdered, TypeOK, Aggregate, Finish
<1>5. ProcessesAreCurrent'
  BY <1>0, <1>f DEF IndInv, EvidenceInv, ProcessesAreCurrent, TypeOK, Wave, IdleProc, Active, Aggregate, Finish
<1>6. ResultsAreKept'
  BY <1>0, <1>f DEF IndInv, EvidenceInv, ResultsAreKept, TypeOK, Aggregate, Finish
<1>7. VerdictIsKept'
  BY <1>0, <1>f DEF IndInv, EvidenceInv, VerdictIsKept, TypeOK, Aggregate, Finish, Verdict, ResultsAreKept, WavesAreOrdered, Plain, Usable, NoResult
<1>8. LedgersAreReserved'
  BY <1>0, <1>f DEF IndInv, EvidenceInv, LedgersAreReserved, TypeOK, IdleProc, Active, Aggregate, Finish, Fits
<1>9. OncePerRun'
  BY <1>0, <1>f DEF IndInv, EvidenceInv, OncePerRun, TypeOK, Aggregate, Finish, NoResult, IdleProc, Active, Pending, Plain
<1> QED BY <1>1, <1>2, <1>3, <1>4, <1>5, <1>6, <1>7, <1>8, <1>9 DEF IndInv, EvidenceInv

\* The invariant holds before the request is compiled.
LEMMA IndInit == Init => IndInv
<1> SUFFICES ASSUME Init PROVE IndInv
  OBVIOUS
<1>1. TypeOK
  <2>1. 1 \in 1..Cardinality(Workers) /\ 0 \in 0..MaxReruns
    BY WorkerCount, FanoutAssumption
  <2> QED BY <2>1 DEF Init, TypeOK, Result, NoResult, IdleProc, Active
<1>2. Fits(alloc)
  BY NothingFits DEF Init
<1>3. DependencyRespected /\ RequiredEvidence /\ WavesAreOrdered /\ ProcessesAreCurrent
  BY DEF Init, DependencyRespected, RequiredEvidence, WavesAreOrdered, ProcessesAreCurrent,
         IdleProc, Active, Usable
<1>4. ResultsAreKept /\ VerdictIsKept
  BY DEF Init, ResultsAreKept, VerdictIsKept
<1>5. LedgersAreReserved
  BY <1>2 DEF Init, LedgersAreReserved, IdleProc, NoResult, Active, Usable
<1>6. OncePerRun
  BY DEF Init, OncePerRun
<1> QED BY <1>1, <1>3, <1>4, <1>5, <1>6 DEF IndInv, EvidenceInv

\* Nothing that the invariant speaks of changes in a stuttering step.
LEMMA IndStutter ==
  ASSUME IndInv, UNCHANGED vars
  PROVE  IndInv'
<1>1. /\ Complete' = Complete /\ Acyclic' = Acyclic /\ LastWave' = LastWave
      /\ Calls' = Calls /\ Tokens' = Tokens
  BY PlanIsFixed DEF vars, Calls, Tokens
<1>2. TypeOK' /\ DependencyRespected' /\ RequiredEvidence' /\ VerdictIsKept' /\ ResultsAreKept'
      /\ OncePerRun'
  BY DEF IndInv, EvidenceInv, vars, TypeOK, DependencyRespected, RequiredEvidence,
         VerdictIsKept, ResultsAreKept, OncePerRun
<1>3. WavesAreOrdered'
  BY <1>1 DEF IndInv, EvidenceInv, vars, WavesAreOrdered
<1>4. ProcessesAreCurrent'
  BY <1>1 DEF IndInv, EvidenceInv, vars, ProcessesAreCurrent, Wave
<1>5. LedgersAreReserved'
  BY <1>1 DEF IndInv, vars, LedgersAreReserved, Fits
<1> QED BY <1>2, <1>3, <1>4, <1>5 DEF IndInv, EvidenceInv

\* Every step keeps the invariant.
LEMMA IndStep ==
  ASSUME IndInv, [Next]_vars
  PROVE  IndInv'
<1>1. CASE Compile \/ ReserveWave \/ NextWave \/ Aggregate \/ Block
  BY <1>1, CompileStep, ReserveWaveStep, NextWaveStep, AggregateStep, BlockStep
<1>2. ASSUME NEW w \in Workers,
             \/ BlockWorker(w) \/ ReuseCheckpoint(w) \/ StartWorker(w) \/ RejectWorker(w)
      PROVE  IndInv'
  BY <1>2, BlockWorkerStep, ReuseCheckpointStep, StartWorkerStep, RejectWorkerStep
<1>3. ASSUME NEW w \in Workers,
             \/ ReserveCall(w) \/ EndCall(w) \/ EndWorker(w) \/ LoseWorker(w)
      PROVE  IndInv'
  BY <1>3, ReserveCallStep, EndCallStep, EndWorkerStep, LoseWorkerStep
<1>4. CASE Crash \/ Rerun
  BY <1>4, CrashStep, RerunStep
<1>5. CASE UNCHANGED vars
  BY <1>5, IndStutter
<1> QED BY <1>1, <1>2, <1>3, <1>4, <1>5 DEF Next, Progress

\* In every state: IndInv.
LEMMA AlwaysInd == Spec => []IndInv
<1> QED BY IndInit, IndStep, PTL DEF Spec

(***************************************************************************)
(* Whatever the plan, the interleaving of its workers, the crashes and the  *)
(* re-runs: a worker process only ran on usable evidence of all its         *)
(* upstream workers, and usable evidence that the request reports is on     *)
(* record for every required worker.                                        *)
(***************************************************************************)
THEOREM EvidenceIsSound == Spec => []EvidenceInv
<1>1. IndInv => EvidenceInv
  BY DEF IndInv
<1> QED BY <1>1, AlwaysInd, PTL

\* What aggregate_agent_results concludes from the results agrees with the verdict that an
\* earlier run of the request came to.
LEMMA VerdictAgain ==
  ASSUME IndInv, parent.pc = "aggregate", parent.verdict # "none", Verdict # "blocked"
  PROVE  Verdict = parent.verdict
<1>1. \A w \in Workers : results[w] # NoResult
  BY DEF IndInv, EvidenceInv, WavesAreOrdered
<1>2. CASE parent.verdict = "success"
  <2>1. \A w \in Workers : child[w].status = "success"
    BY <1>2 DEF IndInv, EvidenceInv, VerdictIsKept
  <2>2. \A w \in Workers : results[w].status = "success"
    BY <1>1, <2>1 DEF IndInv, EvidenceInv, ResultsAreKept, Usable
  <2> QED BY <1>2, <2>2 DEF Verdict
<1>3. CASE parent.verdict = "partial"
  <2>1. PICK w \in Workers : child[w].status \notin {"none", "success"}
    BY <1>3 DEF IndInv, EvidenceInv, VerdictIsKept
  <2>2. results[w].status # "success"
    BY <1>1, <2>1 DEF IndInv, EvidenceInv, ResultsAreKept, Plain
  <2> QED BY <1>3, <2>2 DEF Verdict
<1> QED BY <1>2, <1>3 DEF IndInv, EvidenceInv, TypeOK

\* No step takes a verdict back.
LEMMA VerdictStep ==
  ASSUME IndInv, [Next]_vars
  PROVE  VerdictStable
<1>1. CASE Aggregate
  <2>1. PICK s : s \in {Verdict, "blocked"} /\ Finish(s)
    BY <1>1 DEF Aggregate
  <2>2. CASE s = "blocked"
    BY <2>1, <2>2 DEF Finish, VerdictStable, IndInv, EvidenceInv, TypeOK
  <2>3. CASE s # "blocked"
    <3>1. parent.verdict # "none" => s = parent.verdict
      BY <1>1, <2>1, <2>3, VerdictAgain DEF Aggregate
    <3>2. parent'.verdict = s
      BY <2>1, <2>3 DEF Finish, IndInv, EvidenceInv, TypeOK
    <3> QED BY <3>1, <3>2 DEF VerdictStable
  <2> QED BY <2>2, <2>3
<1>2. CASE Compile \/ ReserveWave \/ NextWave \/ Block \/ Crash \/ Rerun
  BY <1>2 DEF Compile, ReserveWave, NextWave, Block, Crash, Rerun, Finish, VerdictStable, StartsOver,
              IndInv, EvidenceInv, TypeOK
<1>3. ASSUME NEW w \in Workers, LoseWorker(w) PROVE VerdictStable
  BY <1>3 DEF LoseWorker, VerdictStable, IndInv, EvidenceInv, TypeOK
<1>4. ASSUME parent' = parent PROVE VerdictStable
  BY <1>4 DEF VerdictStable
<1> QED BY <1>1, <1>2, <1>3, <1>4
        DEF Next, Progress, BlockWorker, ReuseCheckpoint, StartWorker, RejectWorker,
            ReserveCall, EndCall, EndWorker, vars

\* No step executes a completed child graph again or revises its result.
LEMMA ResumeStep ==
  ASSUME IndInv, [Next]_vars
  PROVE  ResumeSkipsDone
<1>1. ASSUME NEW w \in Workers, StartWorker(w) PROVE ResumeSkipsDone
  BY <1>1 DEF StartWorker, ResumeSkipsDone, IndInv, EvidenceInv, TypeOK
<1>2. ASSUME NEW w \in Workers, RejectWorker(w) PROVE ResumeSkipsDone
  BY <1>2 DEF RejectWorker, Record, ResumeSkipsDone, IndInv, EvidenceInv, TypeOK
<1>3. ASSUME NEW w \in Workers, EndWorker(w) PROVE ResumeSkipsDone
  <2>1. child[w] = NoResult /\ executions' = executions
    BY <1>3 DEF EndWorker, IndInv, EvidenceInv, ProcessesAreCurrent
  <2>2. PICK r : Record(w, r)
    BY <1>3 DEF EndWorker
  <2> QED BY <2>1, <2>2 DEF Record, ResumeSkipsDone, IndInv, EvidenceInv, TypeOK
<1>4. ASSUME executions' = executions, child' = child PROVE ResumeSkipsDone
  BY <1>4 DEF ResumeSkipsDone
<1>5. ASSUME Rerun PROVE ResumeSkipsDone
  BY <1>5 DEF Rerun, ResumeSkipsDone, StartsOver, IndInv, EvidenceInv, TypeOK
<1> QED BY <1>1, <1>2, <1>3, <1>4, <1>5
        DEF Next, Progress, Compile, ReserveWave, NextWave, Aggregate, Block, BlockWorker,
            ReuseCheckpoint, ReserveCall, EndCall, LoseWorker, Crash, vars

(***************************************************************************)
(* With checkpoints a re-run of the same external run id continues the      *)
(* request: what a child graph completed is neither executed again nor      *)
(* revised, and a usable verdict that was given once is never replaced by   *)
(* another one.  Without them (the default) a re-run starts over, and that  *)
(* is the only step that does.                                              *)
(***************************************************************************)
THEOREM RerunIsContinuation == Spec => RerunContinues
<1>1. IndInv /\ [Next]_vars => [ResumeSkipsDone /\ VerdictStable]_vars
  BY VerdictStep, ResumeStep
<1> QED BY <1>1, AlwaysInd, PTL DEF Spec, RerunContinues

\* What is used depends on the results only.
LEMMA UsageIsFixed ==
  ASSUME results' = results
  PROVE  UsedCalls' = UsedCalls /\ UsedTokens' = UsedTokens
BY DEF UsedCalls, UsedTokens

(***************************************************************************)
(* The provider calls of a run are counted by charging each of them to a    *)
(* worker and its number in that worker's ledger. A process that ended is   *)
(* not started again in this run, so its numbers are used up.               *)
(***************************************************************************)
Counts(w, i) ==
  IF worker[w].pc \in Active THEN i <= worker[w].calls
  ELSE child[w] # NoResult \/ parent.pc = "unwind"

Charged(T) ==
  /\ T \subseteq alloc \X (1..Calls)
  /\ spent <= Cardinality(T)
  /\ \A w \in Workers, i \in Nat : <<w, i>> \in T => Counts(w, i)

SpendCounted == parent.pc # "done" => \E T : Charged(T)

\* A usable status is the status of a request that ended, within its budget.
UsageKept ==
  parent.status \in Usable =>
    /\ parent.pc = "done"
    /\ UsedCalls <= ParentCalls /\ UsedTokens <= ParentTokens

SpendInv == SpendBounded /\ SpendCounted /\ UsageKept

\* Charges against reservations that fit are within the request.
LEMMA ChargesFit ==
  ASSUME NEW A \in SUBSET Workers, NEW c \in Nat, Cardinality(A) * c <= ParentCalls,
         NEW T, T \subseteq A \X (1..c)
  PROVE  IsFiniteSet(T) /\ Cardinality(T) \in Nat /\ Cardinality(T) <= ParentCalls
<1>1. IsFiniteSet(A) /\ Cardinality(A) \in Nat
  BY FanoutAssumption, FS_Subset, FS_CardinalityType
<1>2. IsFiniteSet(1..c) /\ Cardinality(1..c) = c
  BY FS_Interval
<1>3. IsFiniteSet(A \X (1..c)) /\ Cardinality(A \X (1..c)) = Cardinality(A) * c
  BY <1>1, <1>2, FS_Product
<1>4. IsFiniteSet(T) /\ Cardinality(T) <= Cardinality(A \X (1..c))
  BY <1>3, FS_Subset
<1>5. Cardinality(T) \in Nat
  BY <1>4, FS_CardinalityType
<1>6. Cardinality(A) * c \in Nat
  BY <1>1
<1> QED BY <1>3, <1>4, <1>5, <1>6, FanoutAssumption

\* A step that makes no call and keeps what is charged keeps the count.
LEMMA ChargesKept ==
  ASSUME SpendCounted, parent.pc # "done", alloc \subseteq alloc', external' = external,
         spent' = spent,
         \A w \in Workers : \A i \in Nat : Counts(w, i) => Counts(w, i)'
  PROVE  SpendCounted'
<1>1. Calls' = Calls
  BY DEF Calls
<1>2. PICK T : Charged(T)
  BY DEF SpendCounted
<1>3. T \subseteq alloc' \X (1..Calls) /\ spent' <= Cardinality(T)
  BY <1>2 DEF Charged
<1>4. \A w \in Workers, i \in Nat : <<w, i>> \in T => Counts(w, i)'
  BY <1>2 DEF Charged
<1>5. Charged(T)'
  BY <1>1, <1>3, <1>4 DEF Charged
<1> QED BY <1>5 DEF SpendCounted

\* A call is charged to the number that it has in its worker's ledger.
LEMMA ReserveCallCounts ==
  ASSUME IndInv, SpendInv, NEW w \in Workers, ReserveCall(w)
  PROVE  SpendCounted' /\ SpendBounded'
<1>1. Calls' = Calls /\ Calls \in Nat
  BY SharesAreNatural DEF Calls, ReserveCall
<1>2. worker[w].pc \in Active /\ w \in alloc /\ parent.pc # "done" /\ alloc \subseteq Workers
  BY DEF ReserveCall, Active, IndInv, LedgersAreReserved, EvidenceInv, ProcessesAreCurrent, TypeOK
<1>3. PICK T : Charged(T)
  BY <1>2 DEF SpendInv, SpendCounted
<1>n. PICK n : n = worker[w].calls + 1
  OBVIOUS
<1>u. PICK U : U = T \cup {<<w, n>>}
  OBVIOUS
<1>4. n \in 1..Calls /\ n \in Nat
  BY <1>1, <1>n DEF ReserveCall, Admits, IndInv, EvidenceInv, TypeOK
<1>5. <<w, n>> \notin T
  <2>1. worker[w].calls \in Nat
    BY DEF IndInv, EvidenceInv, TypeOK
  <2>2. ~Counts(w, n)
    BY <1>2, <1>n, <2>1 DEF Counts
  <2> QED BY <1>3, <1>4, <2>2 DEF Charged
<1>6. U \subseteq alloc \X (1..Calls) /\ T \subseteq alloc \X (1..Calls)
  BY <1>2, <1>3, <1>4, <1>u DEF Charged
<1>7. Cardinality(alloc) * Calls <= ParentCalls
  BY DEF IndInv, LedgersAreReserved, Fits
<1>8. IsFiniteSet(T) /\ Cardinality(T) \in Nat /\ Cardinality(U) <= ParentCalls
  <2> QED BY <1>1, <1>2, <1>6, <1>7, ChargesFit
<1>9. Cardinality(U) = Cardinality(T) + 1
  BY <1>5, <1>8, <1>u, FS_AddElement
<1>10. spent' = spent + 1 /\ spent \in Nat /\ spent <= Cardinality(T)
  BY <1>3 DEF ReserveCall, Charged, IndInv, EvidenceInv, TypeOK
<1>11. ASSUME NEW v \in Workers, NEW i \in Nat, <<v, i>> \in U PROVE Counts(v, i)'
  <2>1. worker' = [worker EXCEPT ![w].pc = "call", ![w].calls = @ + 1,
                                 ![w].tokens = @ + Projected]
        /\ child' = child /\ parent' = parent
    BY DEF ReserveCall
  <2>2. worker'[w].pc \in Active /\ worker'[w].calls = n
    BY <2>1, <1>n DEF Active, IndInv, EvidenceInv, TypeOK
  <2>3. CASE v = w
    <3>1. i <= n
      <4>1. CASE <<v, i>> \in T
        <5>1. Counts(w, i) /\ worker[w].calls \in Nat
          BY <1>3, <2>3, <4>1 DEF Charged, IndInv, EvidenceInv, TypeOK
        <5> QED BY <1>2, <1>n, <5>1 DEF Counts
      <4>2. CASE <<v, i>> = <<w, n>>
        BY <4>2, <1>4
      <4> QED BY <1>11, <1>u, <4>1, <4>2
    <3>2. worker'[v].pc \in Active /\ i <= worker'[v].calls
      BY <2>2, <2>3, <3>1
    <3> QED BY <3>2 DEF Counts
  <2>4. CASE v # w
    <3>1. <<v, i>> \in T
      BY <1>11, <1>u, <2>4
    <3>2. Counts(v, i) /\ worker'[v] = worker[v]
      BY <1>3, <2>1, <2>4, <3>1 DEF Charged, IndInv, EvidenceInv, TypeOK
    <3> QED BY <2>1, <3>2 DEF Counts
  <2> QED BY <2>3, <2>4
<1>12. Charged(U)'
  <2>1. alloc' = alloc
    BY DEF ReserveCall
  <2> QED BY <1>1, <1>6, <1>8, <1>9, <1>10, <1>11, <2>1 DEF Charged
<1>13. SpendCounted'
  <2> QED BY <1>12 DEF SpendCounted
<1>14. SpendBounded'
  <2> QED BY <1>8, <1>9, <1>10, FanoutAssumption DEF SpendBounded
<1> QED BY <1>13, <1>14

\* Every other step keeps the count of a run, and a re-run starts a new one.
LEMMA SpendStep ==
  ASSUME IndInv, SpendInv, [Next]_vars
  PROVE  SpendCounted' /\ SpendBounded'
<1>1. ASSUME NEW w \in Workers, ReserveCall(w) PROVE SpendCounted' /\ SpendBounded'
  BY <1>1, ReserveCallCounts
<1>2. CASE Rerun
  <2>1. spent' = 0 /\ {} \subseteq alloc' \X (1..Calls)' /\ 0 <= Cardinality({})
    BY <1>2, FS_EmptySet DEF Rerun
  <2>2. Charged({})'
    BY <2>1 DEF Charged
  <2> QED BY <2>1, <2>2, FanoutAssumption DEF SpendCounted, SpendBounded
<1>3. CASE spent' = spent /\ parent'.pc = "done"
  BY <1>3 DEF SpendInv, SpendCounted, SpendBounded
<1>4. ASSUME parent.pc # "done", alloc \subseteq alloc', external' = external, spent' = spent,
             \A w \in Workers : \A i \in Nat : Counts(w, i) => Counts(w, i)'
      PROVE  SpendCounted' /\ SpendBounded'
  BY <1>4, ChargesKept DEF SpendInv, SpendBounded
<1>5. CASE Compile \/ ReserveWave \/ NextWave \/ Aggregate \/ Block \/ Crash
  <2>1. CASE parent'.pc = "done"
    BY <1>5, <1>3, <2>1 DEF Compile, ReserveWave, NextWave, Aggregate, Block, Crash
  <2>2. CASE parent'.pc # "done"
    <3>1. CASE Compile
      BY <1>4, <2>2, <3>1 DEF Compile, Finish, Counts, IndInv, EvidenceInv, TypeOK
    <3>2. CASE ReserveWave
      BY <1>4, <2>2, <3>2 DEF ReserveWave, Finish, Counts, IndInv, EvidenceInv, TypeOK
    <3>3. CASE NextWave
      BY <1>4, <2>2, <3>3 DEF NextWave, Counts, IndInv, EvidenceInv, TypeOK
    <3>4. ~(Aggregate \/ Block \/ Crash)
      BY <2>2 DEF Aggregate, Block, Crash, Finish, IndInv, EvidenceInv, TypeOK
    <3> QED BY <1>5, <3>1, <3>2, <3>3, <3>4
  <2> QED BY <2>1, <2>2
<1>6. ASSUME NEW w \in Workers, BlockWorker(w) \/ ReuseCheckpoint(w)
      PROVE  SpendCounted' /\ SpendBounded'
  BY <1>4, <1>6 DEF BlockWorker, ReuseCheckpoint, Pending, Counts
<1>7. ASSUME NEW w \in Workers, StartWorker(w) PROVE SpendCounted' /\ SpendBounded'
  BY <1>4, <1>7 DEF StartWorker, Pending, Counts, Active, IndInv, EvidenceInv, TypeOK
<1>8. ASSUME NEW w \in Workers, RejectWorker(w) PROVE SpendCounted' /\ SpendBounded'
  BY <1>4, <1>8
     DEF RejectWorker, Pending, Record, Plain, NoResult, Counts, IndInv, EvidenceInv, TypeOK
<1>9. ASSUME NEW w \in Workers, EndCall(w) PROVE SpendCounted' /\ SpendBounded'
  <2>1. worker[w].pc \in Active /\ parent.pc # "done"
    BY <1>9 DEF EndCall, Active, IndInv, EvidenceInv, ProcessesAreCurrent
  <2>2. \A v \in Workers : worker'[v].calls = worker[v].calls
                           /\ (worker'[v].pc \in Active <=> worker[v].pc \in Active)
    BY <1>9 DEF EndCall, Active, IndInv, EvidenceInv, TypeOK
  <2> QED BY <1>4, <1>9, <2>1, <2>2 DEF EndCall, Counts
<1>10. ASSUME NEW w \in Workers, EndWorker(w) PROVE SpendCounted' /\ SpendBounded'
  <2>1. parent.pc # "done" /\ worker' = [worker EXCEPT ![w] = IdleProc]
        /\ UNCHANGED <<parent, alloc, external, spent>>
    BY <1>10 DEF EndWorker, IndInv, EvidenceInv, ProcessesAreCurrent
  <2>2. PICK r : r # NoResult /\ child' = [child EXCEPT ![w] = r]
    BY <1>10 DEF EndWorker, Record, Accepted, Plain, NoResult, Usable
  <2> QED BY <1>4, <2>1, <2>2 DEF Counts, IdleProc, Active, IndInv, EvidenceInv, TypeOK
<1>11. ASSUME NEW w \in Workers, LoseWorker(w) PROVE SpendCounted' /\ SpendBounded'
  BY <1>4, <1>11 DEF LoseWorker, Counts, IdleProc, Active, IndInv, EvidenceInv, TypeOK
<1>12. CASE UNCHANGED vars
  <2>1. Calls' = Calls
    BY <1>12 DEF Calls, vars
  <2> QED BY <1>12, <2>1 DEF SpendInv, SpendCounted, SpendBounded, Charged, Counts, vars
<1> QED BY <1>1, <1>2, <1>5, <1>6, <1>7, <1>8, <1>9, <1>10, <1>11, <1>12 DEF Next, Progress

\* A usable status is given within the budget and stays so until the request is run again.
LEMMA UsageStep ==
  ASSUME IndInv, UsageKept, [Next]_vars
  PROVE  UsageKept'
<1>1. ASSUME results' = results, parent'.status = parent.status,
             parent.pc = "done" => parent'.pc = "done"
      PROVE  UsageKept'
  BY <1>1, UsageIsFixed DEF UsageKept
<1>2. ASSUME parent'.status \notin Usable PROVE UsageKept'
  BY <1>2 DEF UsageKept, Usable
<1>3. CASE Compile \/ ReserveWave \/ NextWave \/ Block
  BY <1>3, <1>1, <1>2
     DEF Compile, ReserveWave, NextWave, Block, Finish, Usable, IndInv, EvidenceInv, TypeOK
<1>4. CASE Aggregate
  <2>1. CASE UsedCalls <= ParentCalls /\ UsedTokens <= ParentTokens
    <3>1. parent'.pc = "done" /\ results' = results
      BY <1>4 DEF Aggregate, Finish, IndInv, EvidenceInv, TypeOK
    <3> QED BY <2>1, <3>1, UsageIsFixed DEF UsageKept
  <2>2. CASE ~(UsedCalls <= ParentCalls /\ UsedTokens <= ParentTokens)
    BY <1>2, <1>4, <2>2 DEF Aggregate, Finish, Usable, IndInv, EvidenceInv, TypeOK
  <2> QED BY <2>1, <2>2
<1>5. CASE Crash \/ Rerun
  BY <1>2, <1>5 DEF Crash, Rerun, Usable, IndInv, EvidenceInv, TypeOK
<1>6. ASSUME NEW w \in Workers, LoseWorker(w) PROVE UsageKept'
  BY <1>1, <1>6 DEF LoseWorker, IndInv, EvidenceInv, TypeOK
<1>7. ASSUME parent.pc # "done", parent' = parent PROVE UsageKept'
  BY <1>2, <1>7 DEF UsageKept
<1>8. ASSUME NEW w \in Workers,
             \/ BlockWorker(w) \/ ReuseCheckpoint(w) \/ StartWorker(w) \/ RejectWorker(w)
             \/ ReserveCall(w) \/ EndCall(w) \/ EndWorker(w)
      PROVE  UsageKept'
  <2>1. parent' = parent
    BY <1>8 DEF BlockWorker, ReuseCheckpoint, StartWorker, RejectWorker, ReserveCall, EndCall,
                EndWorker
  <2>2. parent.pc # "done"
    BY <1>8 DEF BlockWorker, ReuseCheckpoint, StartWorker, RejectWorker, ReserveCall, EndCall,
                EndWorker, Pending, Active, IndInv, EvidenceInv, ProcessesAreCurrent
  <2> QED BY <1>7, <2>1, <2>2
<1>9. CASE UNCHANGED vars
  BY <1>1, <1>9 DEF vars
<1> QED BY <1>3, <1>4, <1>5, <1>6, <1>8, <1>9 DEF Next, Progress

\* Nothing is spent or used before the request is compiled.
LEMMA SpendInit == Init => SpendInv
<1> SUFFICES ASSUME Init PROVE SpendInv
  OBVIOUS
<1>1. Charged({})
  BY FS_EmptySet DEF Init, Charged
<1>2. SpendBounded /\ UsageKept
  BY FanoutAssumption DEF Init, SpendBounded, UsageKept, Usable
<1> QED BY <1>1, <1>2 DEF SpendInv, SpendCounted

\* Evidence that is used was accepted within its worker's share.
LEMMA BudgetHolds ==
  ASSUME IndInv, SpendInv
  PROVE  WithinBudget
<1>1. ASSUME NEW w \in Workers, results[w].status \in Usable
      PROVE  results[w].calls <= Calls /\ results[w].tokens <= Tokens
  <2>1. results[w] = child[w]
    BY <1>1 DEF IndInv, EvidenceInv, ResultsAreKept, NoResult, Plain, Usable
  <2> QED BY <1>1, <2>1 DEF IndInv, LedgersAreReserved
<1> QED BY <1>1 DEF WithinBudget, AcceptedWithinBudget, SpendInv, UsageKept, IndInv

(***************************************************************************)
(* However the workers interleave, and although every worker process has a  *)
(* ledger of its own that only its reservation limits: a run of the request *)
(* makes at most max_model_calls provider calls, and the evidence it uses   *)
(* cost no more than its tasks and the request allow.                       *)
(***************************************************************************)
THEOREM BudgetIsKept == Spec => []WithinBudget
<1>1. Init => IndInv /\ SpendInv
  BY IndInit, SpendInit
<1>2. IndInv /\ SpendInv /\ [Next]_vars => IndInv' /\ SpendInv'
  BY IndStep, SpendStep, UsageStep DEF SpendInv
<1>3. IndInv /\ SpendInv => WithinBudget
  BY BudgetHolds
<1> QED BY <1>1, <1>2, <1>3, PTL DEF Spec

=============================================================================
