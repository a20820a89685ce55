------------------------------ MODULE Draws_proofs ------------------------------
(***************************************************************************)
(* What becomes of draws, for every number of chains and draws: the seeds  *)
(* and streams of the chains that make them (Chains), their assembly into  *)
(* a fit (Fit), the handlers and files that store them (ChainStore), the   *)
(* effective sample size (EffectiveSize) and the statistics of the summary *)
(* that takes them back (Summary, Sample).                                 *)
(***************************************************************************)
EXTENDS Fit, Sample, DataLemmas

Seed == Int32 \cup {NA}

\* Adding in R integers gives an R integer or NA.
LEMMA AddType ==
  ASSUME NEW a \in Seed, NEW b \in Int
  PROVE  Add(a, b) \in Seed
BY ChainsAssumption DEF Add, Seed, Int32

-------------------------------------------------------------------------------
(***************************************************************************)
(* Types.                                                                  *)
(***************************************************************************)

LEMMA TypeNext == TypeOK /\ [Next]_vars => TypeOK'
<1> SUFFICES ASSUME TypeOK, [Next]_vars PROVE TypeOK'
  OBVIOUS
<1>1. PICK n \in 1 .. MaxChains :
        /\ seeds \in [1 .. n -> Seed] /\ status \in [1 .. n -> Statuses]
        /\ streams \in [1 .. n -> Seq(Seed)] /\ n_cores \in 1 .. n
  BY DEF TypeOK, Seed
<1>2. Chain = 1 .. n BY <1>1 DEF Chain
<1>3. given \in BOOLEAN /\ unix \in BOOLEAN /\ pc \in Places BY DEF TypeOK
<1>4. SUFFICES /\ given' = given /\ unix' = unix /\ seeds' = seeds /\ n_cores' = n_cores
               /\ pc' \in Places
               /\ status' \in [1 .. n -> Statuses]
               /\ streams' \in [1 .. n -> Seq(Seed)]
  BY <1>1, <1>3 DEF TypeOK, Seed
<1>5. CASE UNCHANGED vars BY <1>1, <1>3, <1>5 DEF vars
<1>6. CASE Validate \/ Collect
  BY <1>1, <1>3, <1>6 DEF Validate, Collect, Places
<1>7. ASSUME NEW c \in Chain, Start(c) \/ Return(c) \/ Raise(c) \/ Die(c)
      PROVE  /\ given' = given /\ unix' = unix /\ seeds' = seeds
             /\ n_cores' = n_cores /\ pc' \in Places
             /\ status' \in [1 .. n -> Statuses]
             /\ streams' \in [1 .. n -> Seq(Seed)]
  BY <1>1, <1>2, <1>3, <1>7 DEF Start, Return, Raise, Die, Statuses, Places
<1>8. ASSUME NEW c \in Chain, BuildSampler(c)
      PROVE  /\ given' = given /\ unix' = unix /\ seeds' = seeds
             /\ n_cores' = n_cores /\ pc' \in Places
             /\ status' \in [1 .. n -> Statuses]
             /\ streams' \in [1 .. n -> Seq(Seed)]
  <2>1. streams[c] \in Seq(Seed) BY <1>1, <1>2
  <2>2. Add(seeds[c], Len(streams[c])) \in Seed BY <1>1, <1>2, <2>1, AddType
  <2>3. Append(streams[c], Add(seeds[c], Len(streams[c]))) \in Seq(Seed)
    BY <2>1, <2>2
  <2>4. QED BY <1>1, <1>2, <1>3, <1>8, <2>3 DEF BuildSampler
<1>9. QED BY <1>5, <1>6, <1>7, <1>8 DEF Next, Step

\* A call's bookkeeping stays in its type whatever its chains do.
THEOREM CallTypeCorrect == Spec => []TypeOK
<1>1. Init => TypeOK
  <2> SUFFICES ASSUME Init PROVE TypeOK
    OBVIOUS
  <2>1. PICK n \in 1 .. MaxChains, cores \in CoreChoices :
          /\ IF given THEN seeds \in [1 .. n -> SeedChoices]
                      ELSE \E seed \in SeedChoices : seeds = DefaultSeeds(seed, n)
          /\ n_cores = IF cores < n THEN cores ELSE n
          /\ status = [c \in 1 .. n |-> "waiting"]
          /\ streams = [c \in 1 .. n |-> << >>]
    BY DEF Init
  <2>2. n \in Nat /\ cores \in Nat \ {0} /\ n_cores \in 1 .. n
    BY <2>1, ChainsAssumption
  <2>3. seeds \in [1 .. n -> Seed]
    <3>1. CASE given BY <2>1, <3>1, ChainsAssumption DEF Seed
    <3>2. CASE ~given
      <4>1. PICK seed \in SeedChoices : seeds = DefaultSeeds(seed, n)
        BY <2>1, <3>2
      <4>2. seed \in Seed BY ChainsAssumption DEF Seed
      <4>3. \A c \in 1 .. n : (c - 1) * K \in Int BY ChainsAssumption
      <4>4. \A c \in 1 .. n : Add(seed, (c - 1) * K) \in Seed
        BY <4>2, <4>3, AddType
      <4>5. QED BY <4>1, <4>4 DEF DefaultSeeds
    <3>3. QED BY <3>1, <3>2
  <2>4. status \in [1 .. n -> Statuses] /\ streams \in [1 .. n -> Seq(Seed)]
    BY <2>1 DEF Statuses
  <2>5. QED BY <2>2, <2>3, <2>4 DEF Init, TypeOK, Places, Seed
<1>2. QED BY <1>1, TypeNext, PTL DEF Spec

-------------------------------------------------------------------------------
(***************************************************************************)
(* Streams.  The seeds of an accepted call are at least n_traits apart, so *)
(* the blocks seed .. seed + n_traits - 1 do not meet; a block that runs   *)
(* past the largest integer turns into NA, and only the block of the       *)
(* largest seed can.                                                       *)
(***************************************************************************)

Apart(a, b) == a # NA /\ b # NA => a + K <= b \/ b + K <= a

SeedsApart ==
  (~given \/ pc \notin {"validate", "refused"}) =>
    \A c, d \in Chain : c # d => Apart(seeds[c], seeds[d])

StreamsFollowSeeds ==
  \A c \in Chain :
    /\ Len(streams[c]) <= K
    /\ Len(streams[c]) > 0 => seeds[c] # NA /\ pc \notin {"validate", "refused"}
    /\ \A a \in 1 .. Len(streams[c]) : streams[c][a] = Add(seeds[c], a - 1)

\* Default seeds are a multiple of n_traits apart, while they are integers.
LEMMA DefaultApart ==
  ASSUME NEW seed \in Seed, NEW n \in Nat, NEW c \in 1 .. n, NEW d \in 1 .. n, c < d
  PROVE  Apart(DefaultSeeds(seed, n)[c], DefaultSeeds(seed, n)[d])
<1>1. K \in Nat \ {0} /\ NA \notin Int BY ChainsAssumption
<1>2. (c - 1) * K \in Int /\ (d - 1) * K \in Int BY <1>1
<1>3. (d - 1) * K >= (c - 1) * K + K
  <2>1. PICK e \in Nat : d = c + 1 + e
    <3>1. d - c - 1 \in Nat /\ d = c + 1 + (d - c - 1) OBVIOUS
    <3>2. QED BY <3>1
  <2>2. (d - 1) * K = (c - 1) * K + K + e * K BY <1>1, <2>1
  <2>3. e * K >= 0 BY <1>1
  <2>4. e * K \in Int BY <1>1
  <2>5. QED BY <1>1, <1>2, <2>2, <2>3, <2>4
<1>4. /\ DefaultSeeds(seed, n)[c] = Add(seed, (c - 1) * K)
      /\ DefaultSeeds(seed, n)[d] = Add(seed, (d - 1) * K)
  BY DEF DefaultSeeds
<1> DEFINE u == (c - 1) * K
           v == (d - 1) * K
<1>5. u \in Int /\ v \in Int /\ v >= u + K BY <1>2, <1>3
<1> HIDE DEF u, v
<1>6. Apart(Add(seed, u), Add(seed, v))
  BY <1>1, <1>5 DEF Apart, Add, Seed, Int32
<1>7. QED BY <1>4, <1>6 DEF u, v

LEMMA ApartSymmetric == \A a, b \in Seed : Apart(a, b) => Apart(b, a)
BY DEF Apart

\* Given seeds that pass the check are apart.
LEMMA AcceptedApart ==
  ASSUME TypeOK, given, Accepted, NEW c \in Chain, NEW d \in Chain, c # d
  PROVE  Apart(seeds[c], seeds[d])
<1>1. PICK n \in 1 .. MaxChains : seeds \in [1 .. n -> Seed]
  BY DEF TypeOK, Seed
<1>2. Chain = 1 .. n /\ n \in Nat /\ n > 1
  BY <1>1, ChainsAssumption DEF Chain
<1>3. Cardinality(Chain) > 1 BY <1>2, FS_Interval
<1>4. seeds[c] \in Int /\ seeds[d] \in Int /\ seeds[c] # seeds[d]
  BY <1>1, <1>2 DEF Accepted, Missing, Duplicate, Seed, Int32
<1>5. K \in Nat \ {0} BY ChainsAssumption
<1>6. CASE K = 1 BY <1>4, <1>6 DEF Apart
<1>7. CASE K > 1
  <2>1. ~TooClose BY <1>3, <1>7 DEF Accepted
  <2>2. QED BY <1>4, <1>5, <2>1 DEF TooClose, Apart
<1>8. QED BY <1>5, <1>6, <1>7

LEMMA StreamsNext ==
  TypeOK /\ SeedsApart /\ StreamsFollowSeeds /\ [Next]_vars =>
    SeedsApart' /\ StreamsFollowSeeds'
<1> SUFFICES ASSUME TypeOK, SeedsApart, StreamsFollowSeeds, [Next]_vars
             PROVE  SeedsApart' /\ StreamsFollowSeeds'
  OBVIOUS
<1>1. PICK n \in 1 .. MaxChains :
        /\ seeds \in [1 .. n -> Seed] /\ status \in [1 .. n -> Statuses]
        /\ streams \in [1 .. n -> Seq(Seed)]
  BY DEF TypeOK, Seed
<1>2. Chain = 1 .. n BY <1>1 DEF Chain
<1>3. given' = given /\ seeds' = seeds /\ Chain' = Chain
  BY DEF vars, Next, Step, Validate, Collect, Start, BuildSampler, Return, Raise,
         Die, Chain
<1>4. ASSUME pc \notin {"validate", "refused"}, pc' \notin {"validate", "refused"},
             streams' = streams
      PROVE  SeedsApart' /\ StreamsFollowSeeds'
  BY <1>3, <1>4 DEF SeedsApart, StreamsFollowSeeds
<1>5. CASE UNCHANGED vars
  BY <1>3, <1>5 DEF vars, SeedsApart, StreamsFollowSeeds
<1>6. CASE Validate
  <2>1. /\ pc = "validate" /\ streams' = streams
        /\ pc' = IF Accepted THEN "running" ELSE "refused"
    BY <1>6 DEF Validate
  <2>2. SeedsApart'
    <3>1. CASE ~given BY <1>3, <3>1 DEF SeedsApart
    <3>2. CASE given /\ Accepted
      <4>1. \A c, d \in Chain : c # d => Apart(seeds[c], seeds[d])
        BY <3>2, AcceptedApart
      <4>2. QED BY <1>3, <4>1 DEF SeedsApart
    <3>3. CASE given /\ ~Accepted
      BY <1>3, <2>1, <3>3 DEF SeedsApart
    <3>4. QED BY <3>1, <3>2, <3>3
  <2>3. StreamsFollowSeeds'
    BY <1>3, <2>1 DEF StreamsFollowSeeds
  <2>4. QED BY <2>2, <2>3
<1>7. CASE Collect BY <1>4, <1>7 DEF Collect
<1>8. ASSUME NEW c \in Chain, Start(c) \/ Return(c) \/ Raise(c) \/ Die(c)
      PROVE  SeedsApart' /\ StreamsFollowSeeds'
  BY <1>4, <1>8 DEF Start, Return, Raise, Die
<1>9. ASSUME NEW c \in Chain, BuildSampler(c)
      PROVE  SeedsApart' /\ StreamsFollowSeeds'
  <2>1. /\ pc = "running" /\ pc' = pc /\ seeds[c] # NA /\ Len(streams[c]) < K
        /\ streams' = [streams EXCEPT ![c] =
                         Append(streams[c], Add(seeds[c], Len(streams[c])))]
    BY <1>9 DEF BuildSampler
  <2>2. streams[c] \in Seq(Seed) /\ K \in Nat
    BY <1>1, <1>2, ChainsAssumption
  <2>3. /\ streams'[c] = Append(streams[c], Add(seeds[c], Len(streams[c])))
        /\ \A d \in Chain : d # c => streams'[d] = streams[d]
    BY <1>1, <1>2, <2>1
  <2>4. Add(seeds[c], Len(streams[c])) \in Seed
    BY <1>1, <1>2, <2>2, AddType
  <2>5. /\ Len(streams'[c]) = Len(streams[c]) + 1
        /\ streams'[c][Len(streams[c]) + 1] = Add(seeds[c], Len(streams[c]))
        /\ \A a \in 1 .. Len(streams[c]) : streams'[c][a] = streams[c][a]
    BY <2>2, <2>3, <2>4
  <2>6. ASSUME NEW a \in 1 .. Len(streams'[c])
        PROVE  streams'[c][a] = Add(seeds[c], a - 1)
    <3>1. CASE a = Len(streams[c]) + 1
      <4>1. a - 1 = Len(streams[c]) BY <2>2, <3>1
      <4>2. QED BY <2>5, <3>1, <4>1
    <3>2. CASE a # Len(streams[c]) + 1
      <4>1. a \in 1 .. Len(streams[c]) BY <2>2, <2>5, <3>2
      <4>2. QED BY <2>5, <4>1 DEF StreamsFollowSeeds
    <3>3. QED BY <3>1, <3>2
  <2>7. Len(streams'[c]) <= K BY <2>1, <2>2, <2>5
  <2>8. ASSUME NEW d \in Chain
        PROVE  /\ Len(streams'[d]) <= K
               /\ Len(streams'[d]) > 0 =>
                    seeds[d] # NA /\ pc' \notin {"validate", "refused"}
               /\ \A a \in 1 .. Len(streams'[d]) : streams'[d][a] = Add(seeds[d], a - 1)
    <3>1. CASE d = c BY <2>1, <2>6, <2>7, <3>1
    <3>2. CASE d # c BY <2>1, <2>3, <3>2 DEF StreamsFollowSeeds
    <3>3. QED BY <3>1, <3>2
  <2>9. QED BY <1>3, <2>1, <2>8 DEF SeedsApart, StreamsFollowSeeds
<1>10. QED BY <1>5, <1>6, <1>7, <1>8, <1>9 DEF Next, Step

LEMMA StreamsInvHolds == Spec => [](TypeOK /\ SeedsApart /\ StreamsFollowSeeds)
<1>1. Init => SeedsApart /\ StreamsFollowSeeds
  <2> SUFFICES ASSUME Init PROVE SeedsApart /\ StreamsFollowSeeds
    OBVIOUS
  <2>1. PICK n \in 1 .. MaxChains :
          /\ ~given => \E seed \in SeedChoices : seeds = DefaultSeeds(seed, n)
          /\ given => seeds \in [1 .. n -> SeedChoices]
          /\ streams = [c \in 1 .. n |-> << >>]
    BY DEF Init
  <2>2. Chain = 1 .. n /\ n \in Nat
    BY <2>1, ChainsAssumption DEF Chain, DefaultSeeds
  <2>3. SeedsApart
    <3>1. CASE given BY <3>1 DEF SeedsApart, Init
    <3>2. CASE ~given
      <4>1. PICK seed \in SeedChoices : seeds = DefaultSeeds(seed, n)
        BY <2>1, <3>2
      <4>2. seed \in Seed BY ChainsAssumption DEF Seed
      <4>3. ASSUME NEW c \in 1 .. n, NEW d \in 1 .. n, c # d
            PROVE  Apart(seeds[c], seeds[d])
        <5>1. CASE c < d BY <2>2, <4>1, <4>2, <5>1, DefaultApart
        <5>2. CASE d < c
          <6>1. Apart(seeds[d], seeds[c]) BY <2>2, <4>1, <4>2, <5>2, DefaultApart
          <6>2. QED BY <6>1 DEF Apart
        <5>3. QED BY <2>2, <4>3, <5>1, <5>2
      <4>4. QED BY <2>2, <4>3 DEF SeedsApart
    <3>3. QED BY <3>1, <3>2
  <2>4. \A c \in Chain : Len(streams[c]) = 0 BY <2>1, <2>2
  <2>5. StreamsFollowSeeds BY <2>4, ChainsAssumption DEF StreamsFollowSeeds
  <2>6. QED BY <2>3, <2>5
<1>2. QED BY <1>1, StreamsNext, CallTypeCorrect, PTL DEF Spec

\* Blocks of n_traits seeds that start n_traits apart have no seed in common, and
\* at most the upper one reaches past the largest integer.
LEMMA BlocksDisjoint ==
  ASSUME NEW p \in Int32, NEW q \in Int32, p + K <= q,
         NEW u \in 0 .. K - 1, NEW v \in 0 .. K - 1
  PROVE  Add(p, u) # Add(q, v)
<1>1. K \in Nat /\ MaxInt \in Nat /\ NA \notin Int BY ChainsAssumption
<1>2. p \in Int /\ q \in Int /\ p + u < q /\ p + u \in Int32
  BY <1>1 DEF Int32
<1>3. Add(p, u) = p + u BY <1>1, <1>2 DEF Add
<1>4. Add(q, v) = NA \/ Add(q, v) = q + v BY DEF Add
<1>5. p + u # q + v /\ p + u # NA BY <1>1, <1>2
<1>6. QED BY <1>3, <1>4, <1>5

\* No two chains ever build samplers on one stream.
THEOREM ChainsShareNoStream == Spec => []StreamsDisjoint
<1>1. TypeOK /\ SeedsApart /\ StreamsFollowSeeds => StreamsDisjoint
  <2> SUFFICES ASSUME TypeOK, SeedsApart, StreamsFollowSeeds,
                      NEW c \in Chain, NEW d \in Chain, c # d,
                      NEW a \in DOMAIN streams[c], NEW b \in DOMAIN streams[d]
               PROVE  streams[c][a] # streams[d][b]
    BY DEF StreamsDisjoint
  <2>1. PICK n \in 1 .. MaxChains :
          seeds \in [1 .. n -> Seed] /\ streams \in [1 .. n -> Seq(Seed)]
    BY DEF TypeOK, Seed
  <2>2. /\ seeds[c] \in Seed /\ seeds[d] \in Seed
        /\ streams[c] \in Seq(Seed) /\ streams[d] \in Seq(Seed)
    BY <2>1 DEF Chain
  <2>3. a \in 1 .. Len(streams[c]) /\ b \in 1 .. Len(streams[d]) BY <2>2
  <2>4. /\ streams[c][a] = Add(seeds[c], a - 1)
        /\ streams[d][b] = Add(seeds[d], b - 1)
        /\ seeds[c] # NA /\ seeds[d] # NA
        /\ a <= K /\ b <= K
        /\ pc \notin {"validate", "refused"}
    BY <2>2, <2>3, ChainsAssumption, SMTT(60) DEF StreamsFollowSeeds
  <2>5. seeds[c] + K <= seeds[d] \/ seeds[d] + K <= seeds[c]
    BY <2>4 DEF SeedsApart, Apart
  <2>6. /\ K \in Nat /\ MaxInt \in Nat /\ NA \notin Int /\ a \in Nat /\ b \in Nat
        /\ a > 0 /\ b > 0
    BY <2>2, <2>3, ChainsAssumption
  <2>7. /\ seeds[c] \in Int32 /\ seeds[d] \in Int32
        /\ a - 1 \in 0 .. K - 1 /\ b - 1 \in 0 .. K - 1
    BY <2>2, <2>4, <2>6 DEF Seed
  <2>8. CASE seeds[c] + K <= seeds[d]
    BY <2>4, <2>7, <2>8, BlocksDisjoint
  <2>9. CASE seeds[d] + K <= seeds[c]
    <3>1. Add(seeds[d], b - 1) # Add(seeds[c], a - 1)
      BY <2>7, <2>9, BlocksDisjoint
    <3>2. QED BY <2>4, <3>1
  <2>10. QED BY <2>5, <2>8, <2>9
<1>2. QED BY <1>1, StreamsInvHolds, PTL

-------------------------------------------------------------------------------
(***************************************************************************)
(* All or nothing.                                                         *)
(***************************************************************************)

\* A call ends with every chain's result in order or with an error.
THEOREM CallIsAllOrNothing == Spec => ImplementsAllOrNothing
<1> USE DEF Promise!Pending, Promise!Error, Promise!Fit
<1>1. Init => Promise!Init BY DEF Init, Promise!Init, Outcome
<1>2. TypeOK /\ [Next]_vars => [Promise!End]_<<seeds, Outcome>>
  <2> SUFFICES ASSUME TypeOK, [Next]_vars
               PROVE  [Promise!End]_<<seeds, Outcome>>
    OBVIOUS
  <2>1. CASE UNCHANGED vars BY <2>1 DEF vars, Outcome, Chain
  <2>2. CASE Validate
    <3>1. /\ pc = "validate" /\ pc' \in {"running", "refused"} /\ seeds' = seeds
      BY <2>2 DEF Validate
    <3>2. QED BY <3>1 DEF Outcome, Promise!End
  <2>3. CASE Collect
    <3>1. /\ pc = "running" /\ seeds' = seeds /\ status' = status
          /\ pc' = IF Failed = {} THEN "returned" ELSE "failed"
      BY <2>3 DEF Collect
    <3>2. Outcome = Promise!Pending BY <3>1 DEF Outcome
    <3>3. CASE Failed = {}
      <4>1. PICK n \in 1 .. MaxChains :
              seeds \in [1 .. n -> Seed] /\ status \in [1 .. n -> Statuses]
        BY DEF TypeOK, Seed
      <4>2. Chain = 1 .. n BY <4>1 DEF Chain
      <4>3. \A c \in Chain : status[c] = "value"
        BY <2>3, <3>3, <4>1, <4>2 DEF Failed, Collect, Statuses
      <4>4. [c \in Chain |-> IF status[c] = "value" THEN seeds[c] ELSE NA] = seeds
        BY <4>1, <4>2, <4>3
      <4>5. Outcome' = Promise!Fit(seeds)
        BY <3>1, <3>3, <4>4 DEF Outcome, Chain
      <4>6. QED BY <3>1, <3>2, <4>5 DEF Promise!End
    <3>4. CASE Failed # {}
      BY <3>1, <3>2, <3>4 DEF Outcome, Promise!End
    <3>5. QED BY <3>3, <3>4
  <2>4. ASSUME NEW c \in Chain, Start(c) \/ BuildSampler(c) \/ Return(c)
        PROVE  UNCHANGED <<seeds, Outcome>>
    BY <2>4 DEF Start, BuildSampler, Return, Outcome
  <2>5. ASSUME NEW c \in Chain, Raise(c) \/ Die(c)
        PROVE  [Promise!End]_<<seeds, Outcome>>
    <3>1. /\ pc = "running" /\ pc' \in {"running", "failed", "crashed"}
          /\ seeds' = seeds
      BY <2>5 DEF Raise, Die
    <3>2. QED BY <3>1 DEF Outcome, Promise!End
  <2>6. QED BY <2>1, <2>2, <2>3, <2>4, <2>5 DEF Next, Step
<1>3. QED
  BY <1>1, <1>2, CallTypeCorrect, PTL
     DEF Spec, ImplementsAllOrNothing, Promise!Spec, Promise!absVars

(***************************************************************************)
(* The arrays of a fit (Fit).                                              *)
(***************************************************************************)

\* Where R keeps an entry, counted draws first, then chains, then items.
LEMMA ArrayPlace ==
  \A n, C, w \in Nat \ {0} :
    \A i \in 1 .. n, c \in 1 .. C, j \in 1 .. w :
      /\ i + n * ((c - 1) + C * (j - 1)) \in 1 .. C * (w * n)
      /\ i + n * ((j - 1) + w * (c - 1)) = (c - 1) * (w * n) + ((j - 1) * n + i)
      /\ i + n * ((c - 1) + C * (j - 1)) = ((c - 1) * n + i) + (n * C) * (j - 1)
      /\ (j - 1) * n + i \in 1 .. w * n
      /\ (c - 1) * n + i \in 1 .. n * C
<1> SUFFICES ASSUME NEW n \in Nat \ {0}, NEW C \in Nat \ {0}, NEW w \in Nat \ {0},
                    NEW i \in 1 .. n, NEW c \in 1 .. C, NEW j \in 1 .. w
             PROVE  /\ i + n * ((c - 1) + C * (j - 1)) \in 1 .. C * (w * n)
                    /\ i + n * ((j - 1) + w * (c - 1)) = (c - 1) * (w * n) + ((j - 1) * n + i)
                    /\ i + n * ((c - 1) + C * (j - 1)) = ((c - 1) * n + i) + (n * C) * (j - 1)
                    /\ (j - 1) * n + i \in 1 .. w * n
                    /\ (c - 1) * n + i \in 1 .. n * C
  OBVIOUS
<1>1. \A m, a, b \in Nat : \A e \in 1 .. m : a + 1 <= b => a * m + e \in 1 .. b * m
  <2> SUFFICES ASSUME NEW m \in Nat, NEW a \in Nat, NEW b \in Nat, NEW e \in 1 .. m, a + 1 <= b
               PROVE  a * m + e \in 1 .. b * m
    OBVIOUS
  <2>1. m * (a + 1) <= m * b /\ m * (a + 1) = a * m + m /\ m * b = b * m
        /\ a * m \in Nat /\ b * m \in Nat
    BY ProductGrows
  <2> QED
    BY <2>1
<1>2. (j - 1) * n + i \in 1 .. w * n /\ (c - 1) * n + i \in 1 .. C * n
  <2>1. j - 1 \in Nat /\ j - 1 + 1 <= w /\ c - 1 \in Nat /\ c - 1 + 1 <= C
    OBVIOUS
  <2> QED
    BY <1>1, <2>1
<1>3. (j - 1) * (C * n) + ((c - 1) * n + i) \in 1 .. w * (C * n)
  <2>1. j - 1 \in Nat /\ j - 1 + 1 <= w /\ C * n \in Nat
    BY ProductGrows
  <2> QED
    BY <1>1, <1>2, <2>1
<1>4. (j - 1) * (C * n) + ((c - 1) * n + i) = i + n * ((c - 1) + C * (j - 1))
  OBVIOUS
<1>5. i + n * ((j - 1) + w * (c - 1)) = (c - 1) * (w * n) + ((j - 1) * n + i)
  OBVIOUS
<1>6. i + n * ((c - 1) + C * (j - 1)) = ((c - 1) * n + i) + (n * C) * (j - 1)
  OBVIOUS
<1>7. w * (C * n) = C * (w * n) /\ C * n = n * C
  OBVIOUS
<1> QED
  BY <1>2, <1>3, <1>4, <1>5, <1>6, <1>7, Zenon

LEMMA ArrayFields == \A d, m : RArray(d, m).data = d /\ RArray(d, m).dim = m
BY DEF RArray

LEMMA IntsFlat ==
  \A s \in Seq(Seq(Int)), n \in Nat :
    (\A i \in 1 .. Len(s) : Len(s[i]) = n) =>
      /\ FlattenSeq(s) \in Seq(Int)
      /\ Len(FlattenSeq(s)) = Len(s) * n
      /\ \A i \in 1 .. Len(s), j \in 1 .. n :
           /\ (i - 1) * n + j \in 1 .. Len(s) * n
           /\ FlattenSeq(s)[(i - 1) * n + j] = s[i][j]
BY FlattenEqual

\* A flat sequence holds the C sequences of s, of n numbers each.
Blocks(flat, s, C, n) ==
  /\ flat \in Seq(Int) /\ Len(flat) = C * n
  /\ \A c \in 1 .. C, i \in 1 .. n : flat[(c - 1) * n + i] = s[c][i]

LEMMA NumbersFlat ==
  \A C, n \in Nat : \A s \in Seq(Seq(Int)) :
    Len(s) = C /\ (\A c \in 1 .. C : Len(s[c]) = n) => Blocks(FlattenSeq(s), s, C, n)
<1> SUFFICES ASSUME NEW C \in Nat, NEW n \in Nat, NEW s \in Seq(Seq(Int)),
                    Len(s) = C, \A c \in 1 .. C : Len(s[c]) = n
             PROVE  Blocks(FlattenSeq(s), s, C, n)
  BY Zenon
<1>1. \A c \in 1 .. Len(s) : Len(s[c]) = n
  BY Zenon
<1>2. FlattenSeq(s) \in Seq(Int) /\ Len(FlattenSeq(s)) = Len(s) * n
  BY <1>1, IntsFlat, Zenon
<1>3. ASSUME NEW c \in 1 .. C, NEW i \in 1 .. n
      PROVE  FlattenSeq(s)[(c - 1) * n + i] = s[c][i]
  <2>1. c \in 1 .. Len(s)
    BY Zenon
  <2> QED
    BY <1>1, <2>1, IntsFlat, Zenon
<1> QED
  BY <1>2, <1>3, Zenon DEF Blocks

\* Vectors become the columns of a matrix.
LEMMA VectorsAt ==
  ASSUME NEW n \in Nat \ {0}, NEW C \in Nat \ {0}, NEW V,
         V = [c \in 1 .. C |-> V[c]],
         \A c \in 1 .. C : V[c] \in Seq(Int) /\ Len(V[c]) = n
  PROVE  /\ BindVectors(V).dim = <<n, C>>
         /\ Blocks(BindVectors(V).data, V, C, n)
<1>1. V \in Seq(Seq(Int)) /\ Len(V) = C
  BY Listed, Zenon
<1>2. Len(V[1]) = n
  OBVIOUS
<1>3. Blocks(FlattenSeq(V), V, C, n)
  <2>1. C \in Nat /\ n \in Nat
    OBVIOUS
  <2> QED
    BY <1>1, <2>1, NumbersFlat, Zenon
<1>5. BindVectors(V) = RArray(FlattenSeq(V), <<n, C>>)
  BY <1>1, <1>2, Zenon DEF BindVectors
<1>6. BindVectors(V).data = FlattenSeq(V) /\ BindVectors(V).dim = <<n, C>>
  BY <1>5, ArrayFields, ZenonT(60)
<1> QED
  BY <1>3, <1>6, Zenon

\* unlist() goes through the draws of an item, its items, and the chains.
Unlisted(u, M, n, C, w) ==
  /\ u \in Seq(Int) /\ Len(u) = C * (w * n)
  /\ \A c \in 1 .. C, j \in 1 .. w, i \in 1 .. n :
       u[(c - 1) * (w * n) + ((j - 1) * n + i)] = M[c][i][j]

LEMMA UnlistAt ==
  ASSUME NEW n \in Nat \ {0}, NEW C \in Nat \ {0}, NEW w \in Nat, NEW M,
         M = [c \in 1 .. C |-> M[c]],
         \A c \in 1 .. C : M[c] \in Seq(Seq(Int)) /\ Len(M[c]) = n,
         \A c \in 1 .. C, i \in 1 .. n : Len(M[c][i]) = w
  PROVE  Unlisted(Unlist(M), M, n, C, w)
<1> DEFINE Columns(c) == [j \in 1 .. w |-> [i \in 1 .. n |-> M[c][i][j]]]
           Flat == [c \in 1 .. C |-> FlattenSeq(Columns(c))]
<1>1. \A c \in 1 .. C, i \in 1 .. n : \A j \in 1 .. w : M[c][i][j] \in Int
  <2> SUFFICES ASSUME NEW c \in 1 .. C, NEW i \in 1 .. n, NEW j \in 1 .. w
               PROVE  M[c][i][j] \in Int
    OBVIOUS
  <2>1. M[c] \in Seq(Seq(Int)) /\ Len(M[c]) = n
    OBVIOUS
  <2>2. M[c][i] \in Seq(Int)
    <3>1. \A m \in Seq(Seq(Int)) : Len(m) = n => m[i] \in Seq(Int)
      OBVIOUS
    <3> QED
      BY <2>1, <3>1, Zenon
  <2>3. Len(M[c][i]) = w
    OBVIOUS
  <2> QED
    BY <2>2, <2>3, SMTT(60)
<1>2. ASSUME NEW c \in 1 .. C
      PROVE  Blocks(FlattenSeq(Columns(c)), Columns(c), w, n)
  <2> DEFINE s == Columns(c)
  <2>1. \A j \in 1 .. w : s[j] \in Seq(Int) /\ Len(s[j]) = n
    <3> SUFFICES ASSUME NEW j \in 1 .. w PROVE s[j] \in Seq(Int) /\ Len(s[j]) = n
      BY Zenon
    <3> DEFINE x == [i \in 1 .. n |-> M[c][i][j]]
    <3>1. x = [i \in 1 .. n |-> x[i]] /\ \A i \in 1 .. n : x[i] \in Int
      BY <1>1, Zenon
    <3>4. s[j] = x
      BY Zenon
    <3> HIDE DEF x, s
    <3>2. n \in Nat
      OBVIOUS
    <3>3. x \in Seq(Int) /\ Len(x) = n
      BY <3>1, <3>2, Listed, Zenon
    <3> QED
      BY <3>3, <3>4, Zenon
  <2>2. s \in Seq(Seq(Int)) /\ Len(s) = w
    <3>1. s = [j \in 1 .. w |-> s[j]]
      OBVIOUS
    <3> HIDE DEF s
    <3> QED
      BY <2>1, <3>1, Listed, ZenonT(60)
  <2> HIDE DEF s
  <2>4. n \in Nat
    OBVIOUS
  <2>5. Blocks(FlattenSeq(s), s, w, n)
    BY <2>1, <2>2, <2>4, NumbersFlat, Zenon
  <2> QED
    BY <2>5, Zenon DEF s
<1>3. Unlist(M) = FlattenSeq(Flat)
  <2>1. DOMAIN M = 1 .. C
    BY Zenon
  <2>2. ASSUME NEW c \in 1 .. C PROVE DOMAIN M[c] = 1 .. n /\ DOMAIN M[c][1] = 1 .. w
    <3>1. M[c] \in Seq(Seq(Int)) /\ Len(M[c]) = n /\ n \in Nat \ {0}
      BY Zenon
    <3>2. M[c][1] \in Seq(Int) /\ DOMAIN M[c] = 1 .. n
      <4>1. \A m \in Seq(Seq(Int)) : Len(m) = n => m[1] \in Seq(Int) /\ DOMAIN m = 1 .. n
        OBVIOUS
      <4> QED
        BY <3>1, <4>1, Zenon
    <3>3. Len(M[c][1]) = w
      BY SMTT(60)
    <3> QED
      BY <3>2, <3>3
  <2>3. ASSUME NEW c \in 1 .. C PROVE [j \in DOMAIN M[c][1] |-> Column(M[c], j)] = Columns(c)
    BY <2>2, Zenon DEF Column
  <2> HIDE DEF Columns
  <2> QED
    BY <2>1, <2>3, Zenon DEF Unlist
<1>8. \A c \in 1 .. C, j \in 1 .. w, i \in 1 .. n : Columns(c)[j][i] = M[c][i][j]
  OBVIOUS
<1> HIDE DEF Columns
<1>4. \A c \in 1 .. C : Flat[c] = FlattenSeq(Columns(c))
  BY Zenon
<1>5. Flat \in Seq(Seq(Int)) /\ Len(Flat) = C
  <2>1. Flat = [c \in 1 .. C |-> Flat[c]] /\ \A c \in 1 .. C : Flat[c] \in Seq(Int)
    BY <1>2, <1>4, Zenon DEF Blocks
  <2>2. C \in Nat
    OBVIOUS
  <2> HIDE DEF Flat
  <2> QED
    BY <2>1, <2>2, Listed, Zenon
<1> HIDE DEF Flat
<1>6. Blocks(FlattenSeq(Flat), Flat, C, w * n)
  <2>1. \A c \in 1 .. C : Len(Flat[c]) = w * n
    BY <1>2, <1>4, Zenon DEF Blocks
  <2>2. C \in Nat /\ w * n \in Nat
    BY ProductGrows
  <2> QED
    BY <1>5, <2>1, <2>2, NumbersFlat, Zenon
<1>7. ASSUME NEW c \in 1 .. C, NEW j \in 1 .. w, NEW i \in 1 .. n
      PROVE  Unlist(M)[(c - 1) * (w * n) + ((j - 1) * n + i)] = M[c][i][j]
  <2>1. w \in Nat \ {0}
    OBVIOUS
  <2>2. 1 \in 1 .. C
    OBVIOUS
  <2>3. (j - 1) * n + i \in 1 .. w * n
    BY <2>1, <2>2, ArrayPlace, Zenon
  <2>4. Flat[c][(j - 1) * n + i] = Columns(c)[j][i]
    <3>1. Blocks(FlattenSeq(Columns(c)), Columns(c), w, n)
      BY <1>2, Zenon
    <3>2. FlattenSeq(Columns(c))[(j - 1) * n + i] = Columns(c)[j][i]
      BY <3>1, Zenon DEF Blocks
    <3> QED
      BY <1>4, <3>2, Zenon
  <2> QED
    <3>1. FlattenSeq(Flat)[(c - 1) * (w * n) + ((j - 1) * n + i)] = Flat[c][(j - 1) * n + i]
      BY <1>6, <2>3, Zenon DEF Blocks
    <3>2. Columns(c)[j][i] = M[c][i][j]
      BY <1>8, Zenon
    <3> QED
      BY <1>3, <2>4, <3>1, <3>2, Zenon
<1>9. Unlist(M) \in Seq(Int) /\ Len(Unlist(M)) = C * (w * n)
  BY <1>3, <1>6, Zenon DEF Blocks
<1> QED
  BY <1>7, <1>9, Zenon DEF Unlisted

\* Draws by chains by items, entry by entry.
Cube(a, M, n, C, w) ==
  /\ a.dim = <<n, C, w>>
  /\ a.data \in Seq(Int) /\ Len(a.data) = (n * C) * w
  /\ \A c \in 1 .. C, j \in 1 .. w, i \in 1 .. n :
       a.data[i + n * ((c - 1) + C * (j - 1))] = M[c][i][j]

\* A place in such an array, taken apart and put together.
Apart3(p, n, C, i, c, j) ==
  /\ ((p - 1) % n) + 1 = i
  /\ ((p - 1) \div (n * C)) + 1 = j
  /\ (((p - 1) \div n) % C) + 1 = c

LEMMA PlaceApart ==
  \A n, C, w \in Nat \ {0} :
    \A i \in 1 .. n, c \in 1 .. C, j \in 1 .. w : \A p :
      p = i + n * ((c - 1) + C * (j - 1)) => Apart3(p, n, C, i, c, j)
<1> SUFFICES ASSUME NEW n \in Nat \ {0}, NEW C \in Nat \ {0}, NEW w \in Nat \ {0},
                    NEW i \in 1 .. n, NEW c \in 1 .. C, NEW j \in 1 .. w,
                    NEW p, p = i + n * ((c - 1) + C * (j - 1))
             PROVE  Apart3(p, n, C, i, c, j)
  OBVIOUS
<1> DEFINE q == C * (j - 1) + (c - 1)
           r == (c - 1) * n + (i - 1)
<1>1. i - 1 \in 0 .. n - 1 /\ c - 1 \in 0 .. C - 1 /\ j - 1 \in Nat
  OBVIOUS
<1>2. p - 1 = n * q + (i - 1)
  OBVIOUS
<1>3. p - 1 = (n * C) * (j - 1) + r
  OBVIOUS
<1>4. n * C \in Nat \ {0} /\ r \in 0 .. n * C - 1
  <2>1. r + 1 = (c - 1) * n + i /\ n * C \in Nat
    BY ProductGrows
  <2>2. (c - 1) * n + i \in 1 .. n * C
    BY ArrayPlace, Zenon
  <2>3. (c - 1) * n \in Nat
    BY <1>1, ProductGrows
  <2> HIDE DEF q, r
  <2>4. \A e \in Int, m \in Nat : e + 1 \in 1 .. m => m \in Nat \ {0} /\ e \in 0 .. m - 1
    OBVIOUS
  <2>5. r \in Int
    BY <1>1, <2>3 DEF r
  <2> QED
    BY <2>1, <2>2, <2>4, <2>5, Zenon
<1>5. q \in Nat
  BY <1>1, ProductGrows
<1> HIDE DEF q, r
<1>6. (p - 1) \div n = q /\ (p - 1) % n = i - 1
  <2>1. (n * q + (i - 1)) \div n = q /\ (n * q + (i - 1)) % n = i - 1
    BY <1>1, <1>5, Quotient, Zenon
  <2> QED
    BY <1>2, <2>1, Zenon
<1>7. (p - 1) \div (n * C) = j - 1
  <2>1. ((n * C) * (j - 1) + r) \div (n * C) = j - 1
    BY <1>1, <1>4, Quotient, Zenon
  <2> QED
    BY <1>3, <2>1, Zenon
<1>8. q % C = c - 1
  BY <1>1, Quotient, Zenon DEF q
<1>9. i - 1 + 1 = i /\ j - 1 + 1 = j /\ c - 1 + 1 = c
  OBVIOUS
<1> QED
  BY <1>6, <1>7, <1>8, <1>9, Zenon DEF Apart3

LEMMA PlaceTogether ==
  \A n, C, w \in Nat \ {0} :
    \A p \in 1 .. C * (w * n) :
      /\ ((p - 1) % n) + 1 \in 1 .. n
      /\ ((p - 1) \div (n * C)) + 1 \in 1 .. w
      /\ (((p - 1) \div n) % C) + 1 \in 1 .. C
<1> SUFFICES ASSUME NEW n \in Nat \ {0}, NEW C \in Nat \ {0}, NEW w \in Nat \ {0},
                    NEW p \in 1 .. C * (w * n)
             PROVE  /\ ((p - 1) % n) + 1 \in 1 .. n
                    /\ ((p - 1) \div (n * C)) + 1 \in 1 .. w
                    /\ (((p - 1) \div n) % C) + 1 \in 1 .. C
  OBVIOUS
<1> DEFINE m == n * C
           e == p - 1
<1>1. m \in Nat /\ m > 0 /\ m * w = C * (w * n) /\ m * w \in Nat
  <2>1. n * C >= n * 1
    BY ProductGrows
  <2> QED
    BY <2>1, ProductGrows
<1>2. e \in Nat /\ e < m * w
  BY <1>1
<1> HIDE DEF m, e
<1>3. (e % n) + 1 \in 1 .. n /\ ((e \div n) % C) + 1 \in 1 .. C
  <2>1. \A a \in Nat, b \in Nat \ {0} : a \div b \in Nat /\ (a % b) + 1 \in 1 .. b
    OBVIOUS
  <2> QED
    BY <1>2, <2>1, Zenon
<1>4. (e \div m) + 1 \in 1 .. w
  <2> DEFINE d == e \div m
             r == e % m
  <2>1. d \in Nat /\ r \in Nat /\ e = m * d + r
    BY <1>1, <1>2
  <2> HIDE DEF d, r
  <2>2. ~(w <= d)
    <3> SUFFICES ASSUME w <= d PROVE FALSE
      OBVIOUS
    <3>1. m * w <= m * d /\ m * d \in Nat
      BY <1>1, <2>1, ProductGrows
    <3> QED
      BY <1>1, <1>2, <2>1, <3>1
  <2>3. d + 1 \in 1 .. w
    BY <2>1, <2>2
  <2> QED
    BY <2>3 DEF d
<1> QED
  BY <1>3, <1>4 DEF m, e

\* Matrices become a cube, whose entries are theirs.
LEMMA MatricesAt ==
  ASSUME NEW n \in Nat \ {0}, NEW C \in Nat \ {0}, NEW w \in Nat, NEW M,
         M = [c \in 1 .. C |-> M[c]],
         \A c \in 1 .. C : M[c] \in Seq(Seq(Int)) /\ Len(M[c]) = n,
         \A c \in 1 .. C, i \in 1 .. n : Len(M[c][i]) = w
  PROVE  Cube(BindMatrices(M), M, n, C, w)
<1> DEFINE u == Unlist(M)
           a == RArray(u, <<n, w, C>>)
           From(p) == At3(a, ((p - 1) % n) + 1, ((p - 1) \div (n * C)) + 1,
                             (((p - 1) \div n) % C) + 1)
           data == [p \in 1 .. C * (w * n) |-> From(p)]
<1>1. Unlisted(u, M, n, C, w)
  BY UnlistAt, Zenon
<1>2. C * (w * n) \in Nat
  BY ProductGrows
<1>3. DOMAIN u = 1 .. C * (w * n)
  <2> HIDE DEF u
  <2> QED
    BY <1>1 DEF Unlisted
<1> HIDE DEF u
<1>4. a.data = u /\ a.dim = <<n, w, C>>
  BY ArrayFields, Zenon
<1>5. a.dim[1] = n /\ a.dim[2] = w /\ a.dim[3] = C
  <2> HIDE DEF a
  <2> QED
    BY <1>4
<1>6. BindMatrices(M) = SwapLast(a)
  <2>1. DOMAIN M = 1 .. C
    BY Zenon
  <2>2. Len(M) = C
    BY <2>1
  <2>3. Len(M[1]) = n /\ Len(M[1][1]) = w
    OBVIOUS
  <2> QED
    BY <2>2, <2>3, Zenon DEF BindMatrices, u
<1> HIDE DEF a
<1>7. SwapLast(a) = RArray(data, <<n, C, w>>)
  <2> DEFINE d == <<a.dim[1], a.dim[3], a.dim[2]>>
  <2>1. d = <<n, C, w>> /\ d[1] = n /\ d[2] = C
    BY <1>5
  <2>2. SwapLast(a) = RArray([p \in DOMAIN a.data |->
                  At3(a, ((p - 1) % d[1]) + 1, ((p - 1) \div (d[1] * d[2])) + 1,
                         (((p - 1) \div d[1]) % d[2]) + 1)], d)
    BY Zenon DEF SwapLast
  <2> HIDE DEF d
  <2> QED
    BY <1>3, <1>4, <2>1, <2>2, Zenon
<1>8. BindMatrices(M).data = data /\ BindMatrices(M).dim = <<n, C, w>>
  <2>1. RArray(data, <<n, C, w>>).data = data /\ RArray(data, <<n, C, w>>).dim = <<n, C, w>>
    BY ArrayFields, Zenon
  <2> HIDE DEF data
  <2> QED
    BY <1>6, <1>7, <2>1, Zenon
<1>9. \A i \in 1 .. n, c \in 1 .. C, j \in 1 .. w :
        /\ At3(a, i, j, c) = M[c][i][j]
        /\ At3(a, i, j, c) \in Int
  <2> SUFFICES ASSUME NEW i \in 1 .. n, NEW c \in 1 .. C, NEW j \in 1 .. w
               PROVE  At3(a, i, j, c) = M[c][i][j] /\ At3(a, i, j, c) \in Int
    OBVIOUS
  <2> DEFINE x == i + n * ((j - 1) + w * (c - 1))
  <2>1. At3(a, i, j, c) = u[x]
    BY <1>4, <1>5, Zenon DEF At3
  <2>2. w \in Nat \ {0}
    OBVIOUS
  <2>3. x = (c - 1) * (w * n) + ((j - 1) * n + i)
    BY SMTT(60)
  <2>4. x \in 1 .. w * (C * n)
    BY <2>2, ArrayPlace, Zenon
  <2>5. w * (C * n) = C * (w * n)
    OBVIOUS
  <2> HIDE DEF x
  <2>6. u[x] = M[c][i][j]
    BY <1>1, <2>3, Zenon DEF Unlisted
  <2>7. u[x] \in Int
    BY <1>1, <2>4, <2>5 DEF Unlisted
  <2> QED
    BY <2>1, <2>6, <2>7, Zenon
<1>10. data \in Seq(Int) /\ Len(data) = (n * C) * w
  <2>1. \A p \in 1 .. C * (w * n) : data[p] \in Int
    <3> SUFFICES ASSUME NEW p \in 1 .. C * (w * n) PROVE From(p) \in Int
      BY Zenon
    <3>1. w \in Nat \ {0}
      OBVIOUS
    <3> QED
      BY <1>9, <3>1, PlaceTogether, Zenon
  <2>2. data = [p \in 1 .. C * (w * n) |-> data[p]]
    OBVIOUS
  <2> HIDE DEF data
  <2>3. data \in Seq(Int) /\ Len(data) = C * (w * n)
    BY <1>2, <2>1, <2>2, Listed, Zenon
  <2>4. C * (w * n) = (n * C) * w
    OBVIOUS
  <2> QED
    BY <2>3, <2>4, Zenon
<1>11. ASSUME NEW c \in 1 .. C, NEW j \in 1 .. w, NEW i \in 1 .. n
       PROVE  data[i + n * ((c - 1) + C * (j - 1))] = M[c][i][j]
  <2>1. w \in Nat \ {0}
    OBVIOUS
  <2>2. PICK p \in 1 .. C * (w * n) : p = i + n * ((c - 1) + C * (j - 1))
    BY <2>1, ArrayPlace, Zenon
  <2>3. Apart3(p, n, C, i, c, j)
    BY <2>1, <2>2, PlaceApart, Zenon
  <2>4. data[p] = At3(a, i, j, c)
    BY <2>2, <2>3, Zenon DEF Apart3
  <2> QED
    BY <1>9, <2>2, <2>4, Zenon
<1> HIDE DEF data
<1> QED
  BY <1>8, <1>10, <1>11, Zenon DEF Cube

\* What new_irt_causal_fit() is given, and the shape of what it makes of it.
Drawn(c) == Results[seeds[c]]

Widths(W) ==
  /\ W \in [1 .. K -> Nat]
  /\ \A k \in 1 .. K, s \in Int32 : \A i \in DOMAIN Results[s].alpha[k] :
       Len(Results[s].alpha[k][i]) = W[k]

FitShape(n, C, W) ==
  /\ fit.n_sampling = n
  /\ fit.ate.dim = <<n, C>>
  /\ Blocks(fit.ate.data, [c \in 1 .. C |-> Drawn(c).ate], C, n)
  /\ fit.alpha = [k \in 1 .. K |-> fit.alpha[k]]
  /\ \A k \in 1 .. K :
       Cube(fit.alpha[k], [c \in 1 .. C |-> Drawn(c).alpha[k]], n, C, W[k])

LEMMA WidthsExist == \E W : Widths(W)
<1> DEFINE Good(k, w) == \A s \in Int32 : \A i \in DOMAIN Results[s].alpha[k] :
                           Len(Results[s].alpha[k][i]) = w
           W == [k \in 1 .. K |-> CHOOSE w \in Nat : Good(k, w)]
<1>1. ASSUME NEW k \in 1 .. K PROVE W[k] \in Nat /\ Good(k, W[k])
  <2>1. \E w \in Nat : Good(k, w)
    <3>1. CASE \A s \in Int32 : DOMAIN Results[s].alpha[k] = {}
      <4>1. Good(k, 0)
        BY <3>1, Zenon
      <4> QED
        BY <4>1
    <3>2. CASE ~(\A s \in Int32 : DOMAIN Results[s].alpha[k] = {})
      <4>1. PICK r \in Int32 : \E j \in DOMAIN Results[r].alpha[k] : TRUE
        BY <3>2, Zenon
      <4>2. PICK j \in DOMAIN Results[r].alpha[k] : TRUE
        BY <4>1
      <4>3. Good(k, Len(Results[r].alpha[k][j]))
        <5>1. \A s, q \in Int32 :
                \A i \in DOMAIN Results[s].alpha[k], l \in DOMAIN Results[q].alpha[k] :
                  Len(Results[s].alpha[k][i]) = Len(Results[q].alpha[k][l])
          BY FitAssumption
        <5> QED
          BY <5>1, ZenonT(60)
      <4>4. Len(Results[r].alpha[k][j]) \in Nat
        <5>1. Results[r].alpha[k] \in Seq(Seq(Int))
          BY FitAssumption, Zenon
        <5>2. \A m \in Seq(Seq(Int)) : \A i \in DOMAIN m : Len(m[i]) \in Nat
          OBVIOUS
        <5> QED
          BY <4>2, <5>1, <5>2, Zenon
      <4> HIDE DEF Good
      <4> QED
        BY <4>3, <4>4, Zenon
    <3> QED
      BY <3>1, <3>2
  <2> HIDE DEF Good
  <2>2. (CHOOSE w \in Nat : Good(k, w)) \in Nat /\ Good(k, CHOOSE w \in Nat : Good(k, w))
    BY <2>1, Zenon
  <2>3. W[k] = CHOOSE w \in Nat : Good(k, w)
    BY Zenon
  <2> QED
    BY <2>2, <2>3, Zenon
<1>2. W \in [1 .. K -> Nat]
  <2>1. \A k \in 1 .. K : (CHOOSE w \in Nat : Good(k, w)) \in Nat
    BY <1>1, Zenon
  <2> HIDE DEF Good
  <2> QED
    BY <2>1
<1>3. ASSUME NEW k \in 1 .. K, NEW s \in Int32, NEW i \in DOMAIN Results[s].alpha[k]
      PROVE  Len(Results[s].alpha[k][i]) = W[k]
  <2> HIDE DEF W
  <2> QED
    BY <1>1, Zenon
<1> HIDE DEF W
<1> QED
  BY <1>2, <1>3, Zenon DEF Widths

\* The first n of a sequence.
Prefix(took, s, n) == Len(took) = n /\ \A i \in 1 .. n : took[i] = s[i] /\ i \in DOMAIN s

LEMMA TakenRows ==
  ASSUME NEW S, NEW s \in Seq(S), NEW n \in Nat, n <= Len(s)
  PROVE  SubSeq(s, 1, n) \in Seq(S) /\ Prefix(SubSeq(s, 1, n), s, n)
BY DEF Prefix

LEMMA TakenFields ==
  \A r, n : /\ Taken(r, n).ate = SubSeq(r.ate, 1, n)
            /\ \A k \in 1 .. K : Taken(r, n).alpha[k] = SubSeq(r.alpha[k], 1, n)
BY DEF Taken

LEMMA FitFields ==
  \A rs : /\ NewFit(rs).ate = BindVectors([c \in DOMAIN rs |-> rs[c].ate])
          /\ NewFit(rs).alpha =
               [k \in 1 .. K |-> BindMatrices([c \in DOMAIN rs |-> rs[c].alpha[k]])]
          /\ NewFit(rs).n_sampling = Len(rs[1].ate)
BY DEF NewFit

\* A fit made of n draws of each of C chains has those draws in place.
LEMMA NewFitShape ==
  ASSUME NEW C \in Nat \ {0}, seeds \in [1 .. C -> Int32], NEW n \in Lengths,
         NEW W, Widths(W),
         fit = NewFit([c \in Chain |-> Taken(Results[seeds[c]], n)])
  PROVE  FitShape(n, C, W)
<1> DEFINE per == [c \in 1 .. C |-> Taken(Drawn(c), n)]
           V == [c \in 1 .. C |-> SubSeq(Drawn(c).ate, 1, n)]
           M(k) == [c \in 1 .. C |-> SubSeq(Drawn(c).alpha[k], 1, n)]
<1>1. Chain = 1 .. C
  BY DEF Chain
<1>2. n \in Nat \ {0} /\ n \in Nat
  BY FitAssumption
<1>3. \A c \in 1 .. C : seeds[c] \in Int32
  OBVIOUS
<1>4. ASSUME NEW c \in 1 .. C PROVE Drawn(c).ate \in Seq(Int) /\ n <= Len(Drawn(c).ate)
  BY <1>3, FitAssumption, Zenon DEF Drawn
<1>5. ASSUME NEW c \in 1 .. C, NEW k \in 1 .. K
      PROVE  Drawn(c).alpha[k] \in Seq(Seq(Int)) /\ n <= Len(Drawn(c).alpha[k])
  BY <1>3, FitAssumption, Zenon DEF Drawn
<1>6. ASSUME NEW c \in 1 .. C
      PROVE  /\ V[c] \in Seq(Int) /\ Len(V[c]) = n
             /\ \A i \in 1 .. n : V[c][i] = Drawn(c).ate[i]
  <2>1. V[c] = SubSeq(Drawn(c).ate, 1, n)
    BY Zenon
  <2> DEFINE took == SubSeq(Drawn(c).ate, 1, n)
  <2>2. took \in Seq(Int) /\ Prefix(took, Drawn(c).ate, n)
    BY <1>2, <1>4, TakenRows, Zenon
  <2> HIDE DEF took
  <2>4. V[c] = took
    BY <2>1, Zenon DEF took
  <2> HIDE DEF V
  <2> QED
    BY <2>2, <2>4, Zenon DEF Prefix
<1>7. ASSUME NEW c \in 1 .. C, NEW k \in 1 .. K
      PROVE  /\ M(k)[c] \in Seq(Seq(Int)) /\ Len(M(k)[c]) = n
             /\ \A i \in 1 .. n : M(k)[c][i] = Drawn(c).alpha[k][i] /\ Len(M(k)[c][i]) = W[k]
  <2>1. M(k)[c] = SubSeq(Drawn(c).alpha[k], 1, n)
    BY Zenon
  <2> DEFINE took == SubSeq(Drawn(c).alpha[k], 1, n)
  <2>2. took \in Seq(Seq(Int)) /\ Prefix(took, Drawn(c).alpha[k], n)
    BY <1>2, <1>5, TakenRows, Zenon
  <2> HIDE DEF took
  <2>5. M(k)[c] = took
    BY <2>1, Zenon DEF took
  <2> HIDE DEF M
  <2>3. \A i \in 1 .. n : Len(Drawn(c).alpha[k][i]) = W[k]
    BY <1>3, <2>2, Zenon DEF Drawn, Widths, Prefix
  <2> QED
    BY <2>2, <2>3, <2>5, Zenon DEF Prefix
<1>8. /\ fit.ate = BindVectors(V)
      /\ fit.alpha = [k \in 1 .. K |-> BindMatrices(M(k))]
      /\ fit.n_sampling = n
  <2>1. fit = NewFit(per) /\ DOMAIN per = 1 .. C
    BY <1>1, Zenon DEF Drawn
  <2>2. \A c \in 1 .. C :
          /\ per[c].ate = SubSeq(Drawn(c).ate, 1, n)
          /\ \A k \in 1 .. K : per[c].alpha[k] = SubSeq(Drawn(c).alpha[k], 1, n)
    <3> SUFFICES ASSUME NEW c \in 1 .. C
                 PROVE  /\ per[c].ate = SubSeq(Drawn(c).ate, 1, n)
                        /\ \A k \in 1 .. K : per[c].alpha[k] = SubSeq(Drawn(c).alpha[k], 1, n)
      BY Zenon
    <3>1. per[c] = Taken(Drawn(c), n)
      BY Zenon
    <3> HIDE DEF per
    <3> QED
      BY <3>1, TakenFields, ZenonT(60)
  <2> HIDE DEF per
  <2>3. /\ fit.ate = BindVectors([c \in DOMAIN per |-> per[c].ate])
        /\ fit.alpha = [k \in 1 .. K |-> BindMatrices([c \in DOMAIN per |-> per[c].alpha[k]])]
        /\ fit.n_sampling = Len(per[1].ate)
    BY <2>1, FitFields, Zenon
  <2>4. [c \in DOMAIN per |-> per[c].ate] = V
    BY <2>1, <2>2, Zenon
  <2>5. \A k \in 1 .. K : [c \in DOMAIN per |-> per[c].alpha[k]] = M(k)
    BY <2>1, <2>2, Zenon
  <2>6. Len(per[1].ate) = n
    <3>1. 1 \in 1 .. C
      OBVIOUS
    <3> QED
      BY <1>6, <2>2, <3>1, ZenonT(60)
  <2> HIDE DEF V, M
  <2> QED
    BY <2>3, <2>4, <2>5, <2>6, Zenon
<1>9. fit.ate.dim = <<n, C>> /\ Blocks(fit.ate.data, [c \in 1 .. C |-> Drawn(c).ate], C, n)
  <2>1. V = [c \in 1 .. C |-> V[c]]
    BY Zenon
  <2>2. \A c \in 1 .. C : V[c] \in Seq(Int) /\ Len(V[c]) = n
    BY <1>6, Zenon
  <2> HIDE DEF V
  <2>3. BindVectors(V).dim = <<n, C>> /\ Blocks(BindVectors(V).data, V, C, n)
    BY <1>2, <2>1, <2>2, VectorsAt, Zenon
  <2>4. \A c \in 1 .. C, i \in 1 .. n : V[c][i] = [d \in 1 .. C |-> Drawn(d).ate][c][i]
    BY <1>6, Zenon
  <2> DEFINE x == BindVectors(V)
             y == [d \in 1 .. C |-> Drawn(d).ate]
  <2>5. x.data \in Seq(Int) /\ Len(x.data) = C * n /\ fit.ate = x /\ x.dim = <<n, C>>
    BY <1>8, <2>3, Zenon DEF Blocks
  <2>6. ASSUME NEW c \in 1 .. C, NEW i \in 1 .. n PROVE x.data[(c - 1) * n + i] = y[c][i]
    <3>1. x.data[(c - 1) * n + i] = V[c][i]
      BY <2>3, Zenon DEF Blocks
    <3> HIDE DEF x, y
    <3> QED
      BY <2>4, <3>1, Zenon DEF y
  <2> HIDE DEF x, y
  <2> QED
    BY <2>5, <2>6, Zenon DEF Blocks, y
<1>10. ASSUME NEW k \in 1 .. K
       PROVE  Cube(fit.alpha[k], [c \in 1 .. C |-> Drawn(c).alpha[k]], n, C, W[k])
  <2> DEFINE m == M(k)
  <2>1. m = [c \in 1 .. C |-> m[c]]
    BY Zenon
  <2>2. /\ \A c \in 1 .. C : m[c] \in Seq(Seq(Int)) /\ Len(m[c]) = n
        /\ \A c \in 1 .. C, i \in 1 .. n : Len(m[c][i]) = W[k]
    BY <1>7, Zenon
  <2>3. \A c \in 1 .. C, i \in 1 .. n : m[c][i] = [d \in 1 .. C |-> Drawn(d).alpha[k]][c][i]
    BY <1>7, Zenon
  <2>4. fit.alpha[k] = BindMatrices(m)
    BY <1>8, Zenon
  <2> HIDE DEF m
  <2>5. W[k] \in Nat
    BY DEF Widths
  <2>6. Cube(BindMatrices(m), m, n, C, W[k])
    BY <1>2, <2>1, <2>2, <2>5, MatricesAt, Zenon
  <2> DEFINE x == BindMatrices(m)
             y == [d \in 1 .. C |-> Drawn(d).alpha[k]]
  <2>7. /\ x.dim = <<n, C, W[k]>> /\ x.data \in Seq(Int)
        /\ Len(x.data) = (n * C) * W[k] /\ fit.alpha[k] = x
    BY <2>4, <2>6, Zenon DEF Cube
  <2>8. ASSUME NEW c \in 1 .. C, NEW j \in 1 .. W[k], NEW i \in 1 .. n
        PROVE  x.data[i + n * ((c - 1) + C * (j - 1))] = y[c][i][j]
    <3>1. x.data[i + n * ((c - 1) + C * (j - 1))] = m[c][i][j]
      BY <2>6, Zenon DEF Cube
    <3>2. m[c][i] = y[c][i]
      BY <2>3, Zenon
    <3> HIDE DEF x, y
    <3> QED
      BY <3>1, <3>2, Zenon
  <2> HIDE DEF x, y
  <2> QED
    BY <2>7, <2>8, Zenon DEF Cube, y
<1>11. fit.alpha = [k \in 1 .. K |-> fit.alpha[k]]
  <2> HIDE DEF M
  <2> QED
    BY <1>8, Zenon
<1> QED
  BY <1>8, <1>9, <1>10, <1>11, Zenon DEF FitShape

\* Every entry of flat, from where its sequence begins.
FlatAt(S, flat, s, starts) ==
  /\ flat \in Seq(S) /\ Len(flat) = starts[Len(s)]
  /\ \A i \in 1 .. Len(s), j \in Nat : j \in 1 .. Len(s[i]) =>
       starts[i - 1] + j \in 1 .. Len(flat) /\ flat[starts[i - 1] + j] = s[i][j]

LEMMA Flattened ==
  ASSUME NEW S, NEW s \in Seq(Seq(S)), NEW starts, StartsOf(s, starts)
  PROVE  FlatAt(S, FlattenSeq(s), s, starts)
<1>1. FlattenSeq(s) \in Seq(S)
  BY FlattenEntries, Zenon
<1>2. Len(FlattenSeq(s)) = starts[Len(s)]
  BY FlattenEntries, Zenon
<1>3. ASSUME NEW i \in 1 .. Len(s), NEW j \in Nat, j \in 1 .. Len(s[i])
      PROVE  /\ starts[i - 1] + j \in 1 .. starts[Len(s)]
             /\ FlattenSeq(s)[starts[i - 1] + j] = s[i][j]
  <2>1. starts[i - 1] + j \in 1 .. starts[Len(s)]
    BY <1>3, FlattenEntries, Zenon
  <2>2. FlattenSeq(s)[starts[i - 1] + j] = s[i][j]
    BY <1>3, FlattenEntries
  <2> QED
    BY <2>1, <2>2
<1> QED
  BY <1>1, <1>2, <1>3, Zenon DEF FlatAt

\* The variables of a draws array: ate, then the items of each bank.
NameOf(k, j) == IF K > 1 THEN <<"alpha", k, j>> ELSE <<"alpha", j>>

Name == {<<"ate">>} \cup {NameOf(k, j) : k \in 1 .. K, j \in Nat}

BankStarts(B, W) ==
  /\ B \in [0 .. K -> Nat] /\ B[0] = 0
  /\ \A k \in 1 .. K : B[k] = B[k - 1] + W[k]

Named(names, B, W) ==
  /\ names \in Seq(Name) /\ Len(names) = 1 + B[K] /\ names[1] = <<"ate">>
  /\ \A k \in 1 .. K, j \in Nat : j \in 1 .. W[k] =>
       1 + B[k - 1] + j \in 1 .. Len(names) /\ names[1 + B[k - 1] + j] = NameOf(k, j)
  /\ \A v \in DOMAIN names : v = 1 \/ \E k \in 1 .. K : \E j \in 1 .. W[k] : v = 1 + B[k - 1] + j

LEMMA NamesShape ==
  ASSUME NEW C \in Nat \ {0}, NEW n \in Nat \ {0}, NEW W, Widths(W), FitShape(n, C, W)
  PROVE  \E B : /\ BankStarts(B, W) /\ Named(VariableNames, B, W)
                /\ SizesSum([k \in 1 .. K |-> fit.alpha[k].dim[3]]) = B[K]
<1> DEFINE row(k) == [j \in 1 .. W[k] |-> NameOf(k, j)]
           ns == [k \in 1 .. K |-> row(k)]
           ate == <<<<"ate">>>>
<1>1. K \in Nat \ {0} /\ K \in Nat /\ \A k \in 1 .. K : W[k] \in Nat
  BY ChainsAssumption DEF Widths
<1>2. \A k \in 1 .. K : fit.alpha[k].dim[3] = W[k]
  <2>1. \A k \in 1 .. K : fit.alpha[k].dim = <<n, C, W[k]>>
    BY Zenon DEF FitShape, Cube
  <2>2. \A x, y, z : <<x, y, z>>[3] = z
    OBVIOUS
  <2> QED
    BY <2>1, <2>2
<1>3. ASSUME NEW k \in 1 .. K PROVE row(k) \in Seq(Name) /\ Len(row(k)) = W[k]
  <2>1. row(k) = [j \in 1 .. W[k] |-> row(k)[j]]
    BY Zenon
  <2>2. \A j \in 1 .. W[k] : row(k)[j] \in Name
    <3>1. \A j \in 1 .. W[k] : j \in Nat /\ row(k)[j] = NameOf(k, j)
      BY <1>1
    <3> QED
      BY <3>1 DEF Name
  <2> HIDE DEF row
  <2>3. row(k) \in Seq(Name) /\ Len(row(k)) = W[k]
    BY <1>1, <2>1, <2>2, Listed, Zenon
  <2> QED
    BY <2>3, Zenon
<1>4. ns \in Seq(Seq(Name)) /\ Len(ns) = K
  <2>1. ns = [k \in 1 .. K |-> ns[k]] /\ \A k \in 1 .. K : ns[k] \in Seq(Name)
    BY <1>3, Zenon
  <2> HIDE DEF ns
  <2> QED
    BY <1>1, <2>1, Listed, Zenon
<1>5. \A k \in 1 .. K : Len(ns[k]) = W[k]
  BY <1>3, Zenon
<1>6. \A k \in 1 .. K : \A j \in 1 .. W[k] : ns[k][j] = NameOf(k, j)
  BY Zenon
<1>7. VariableNames = ate \o FlattenSeq(ns)
  <2>1. \A k \in 1 .. K : [j \in 1 .. fit.alpha[k].dim[3] |->
                              IF K > 1 THEN <<"alpha", k, j>> ELSE <<"alpha", j>>] = row(k)
    BY <1>2, Zenon DEF NameOf
  <2> HIDE DEF row
  <2> QED
    BY <2>1, Zenon DEF VariableNames
<1> HIDE DEF ns, row
<1>8. PICK B : StartsOf(ns, B)
  BY <1>4, StartsExist, Zenon
<1>9. BankStarts(B, W)
  <2>1. B \in [0 .. K -> Nat] /\ B[0] = 0
    BY <1>4, <1>8, Zenon DEF StartsOf
  <2>2. \A k \in 1 .. K : B[k] = B[k - 1] + W[k]
    BY <1>4, <1>5, <1>8, Zenon DEF StartsOf
  <2> QED
    BY <2>1, <2>2, Zenon DEF BankStarts
<1> DEFINE flat == FlattenSeq(ns)
<1>10. FlatAt(Name, flat, ns, B)
  BY <1>4, <1>8, Flattened, Zenon
<1>11. flat \in Seq(Name) /\ Len(flat) = B[K]
  BY <1>4, <1>10, Zenon DEF FlatAt
<1>12. /\ ate \in Seq(Name) /\ Len(ate) = 1 /\ ate[1] = <<"ate">>
  <2>1. <<"ate">> \in Name
    BY DEF Name
  <2> QED
    BY <2>1, OneListed, Zenon
<1> HIDE DEF flat, ate
<1> DEFINE names == ate \o flat
<1>13. /\ names \in Seq(Name) /\ Len(names) = 1 + B[K] /\ names[1] = <<"ate">>
       /\ \A j \in 1 .. B[K] : names[1 + j] = flat[j]
  <2>1. names \in Seq(Name)
    BY <1>11, <1>12, ConcatAt, Zenon
  <2>2. Len(names) = Len(ate) + Len(flat)
    BY <1>11, <1>12, ConcatAt, Zenon
  <2>3. \A j \in 1 .. Len(ate) : names[j] = ate[j]
    BY <1>11, <1>12, ConcatAt, ZenonT(60)
  <2>4. ASSUME NEW j \in 1 .. Len(flat) PROVE names[Len(ate) + j] = flat[j]
    <3>1. \A a, b \in Seq(Name) : \A i \in 1 .. Len(b) : (a \o b)[Len(a) + i] = b[i]
      BY ConcatAt
    <3> QED
      BY <1>11, <1>12, <3>1, Zenon
  <2>5. 1 \in 1 .. 1
    OBVIOUS
  <2> HIDE DEF names
  <2> QED
    BY <1>11, <1>12, <2>1, <2>2, <2>3, <2>4, <2>5, Zenon
<1> HIDE DEF names
<1>14. ASSUME NEW k \in 1 .. K, NEW j \in Nat, j \in 1 .. W[k]
       PROVE  1 + B[k - 1] + j \in 1 .. Len(names) /\ names[1 + B[k - 1] + j] = NameOf(k, j)
  <2>1. k \in 1 .. Len(ns) /\ j \in 1 .. Len(ns[k])
    BY <1>4, <1>5, <1>14, Zenon
  <2>2. B[k - 1] + j \in 1 .. Len(flat) /\ flat[B[k - 1] + j] = ns[k][j]
    BY <1>10, <2>1, Zenon DEF FlatAt
  <2>3. B[k - 1] \in Nat /\ B[K] \in Nat
    <3>1. k - 1 \in 0 .. K /\ K \in 0 .. K
      BY <1>1
    <3> QED
      BY <1>9, <3>1, Zenon DEF BankStarts
  <2>4. 1 + B[k - 1] + j = 1 + (B[k - 1] + j) /\ 1 + B[k - 1] + j \in 1 .. 1 + B[K]
    <3>1. \A a, b \in Nat : a + j \in 1 .. b => 1 + a + j = 1 + (a + j) /\ 1 + a + j \in 1 .. 1 + b
      OBVIOUS
    <3> QED
      BY <1>11, <2>2, <2>3, <3>1, Zenon
  <2>5. names[1 + (B[k - 1] + j)] = flat[B[k - 1] + j]
    BY <1>11, <1>13, <2>2, Zenon
  <2>6. ns[k][j] = NameOf(k, j)
    BY <1>6, <1>14, Zenon
  <2> QED
    BY <1>13, <2>2, <2>4, <2>5, <2>6, Zenon
<1>15. ASSUME NEW v \in DOMAIN names, v # 1
       PROVE  \E k \in 1 .. K : \E j \in 1 .. W[k] : v = 1 + B[k - 1] + j
  <2>1. B[K] \in Nat
    <3>1. K \in 0 .. K
      BY <1>1
    <3> QED
      BY <1>9, <3>1, Zenon DEF BankStarts
  <2>2. PICK p \in 1 .. B[K] : v = 1 + p
    <3>1. DOMAIN names = 1 .. 1 + B[K]
      BY <1>13
    <3>2. v \in 1 .. 1 + B[K]
      BY <3>1, Zenon
    <3>3. v - 1 \in 1 .. B[K] /\ v = 1 + (v - 1)
      BY <1>15, <2>1, <3>2
    <3> QED
      BY <3>3
  <2>3. p \in 1 .. B[Len(ns)]
    BY <1>4, Zenon
  <2>4. PICK k \in 1 .. Len(ns) : \E j \in 1 .. Len(ns[k]) : p = B[k - 1] + j
    <3>1. ns \in Seq(Seq(Name)) /\ StartsOf(ns, B)
      BY <1>4, <1>8, Zenon
    <3>2. StartsCover(ns, B)
      BY <3>1, FlattenCovers, Zenon
    <3> QED
      BY <2>3, <3>2, Zenon DEF StartsCover
  <2>5. k \in 1 .. K /\ Len(ns[k]) = W[k]
    BY <1>4, <1>5, Zenon
  <2>6. PICK j \in 1 .. W[k] : p = B[k - 1] + j
    BY <2>4, <2>5, Zenon
  <2>7. v = 1 + B[k - 1] + j
    <3>1. k - 1 \in 0 .. K
      BY <1>1, <2>5
    <3>2. B[k - 1] \in Nat
      BY <1>9, <3>1, Zenon DEF BankStarts
    <3>3. \A a \in Nat, b \in Int : 1 + (a + b) = 1 + a + b
      OBVIOUS
    <3>4. j \in Int
      BY <1>1, <2>5
    <3> QED
      BY <2>2, <2>6, <3>2, <3>3, <3>4, Zenon
  <2> QED
    BY <2>5, <2>7, Zenon
<1>16. Named(names, B, W)
  BY <1>13, <1>14, <1>15, Zenon DEF Named
<1>17. SizesSum([k \in 1 .. K |-> fit.alpha[k].dim[3]]) = B[K]
  <2>1. [k \in 1 .. K |-> fit.alpha[k].dim[3]] = [k \in 1 .. Len(ns) |-> Len(ns[k])]
    BY <1>2, <1>4, <1>5, Zenon
  <2>2. FoldLeft(LAMBDA a, b : a + b, 0, [k \in 1 .. Len(ns) |-> Len(ns[k])]) = B[Len(ns)]
    BY <1>4, <1>8, TotalLength, Zenon
  <2> QED
    BY <1>4, <2>1, <2>2, Zenon DEF SizesSum
<1> QED
  BY <1>7, <1>9, <1>16, <1>17, Zenon DEF names, flat

LEMMA NamesApart ==
  /\ \A k \in 1 .. K : \A j : NameOf(k, j) # <<"ate">> /\ NameOf(k, j)[1] # "ate"
  /\ \A k, l \in 1 .. K : \A i, j : NameOf(k, i) = NameOf(l, j) => k = l /\ i = j
BY ChainsAssumption DEF NameOf

LEMMA BankStartsRange ==
  ASSUME NEW W, NEW B, BankStarts(B, W)
  PROVE  \A k \in 1 .. K : B[k - 1] \in Nat /\ B[k] \in Nat /\ k - 1 \in 0 .. K
<1> SUFFICES ASSUME NEW k \in 1 .. K
             PROVE  B[k - 1] \in Nat /\ B[k] \in Nat /\ k - 1 \in 0 .. K
  OBVIOUS
<1>1. k - 1 \in 0 .. K /\ k \in 0 .. K
  BY ChainsAssumption
<1> QED
  BY <1>1, Zenon DEF BankStarts

LEMMA NamesDistinct ==
  ASSUME NEW W, NEW B, BankStarts(B, W), NEW names, Named(names, B, W)
  PROVE  Cardinality(ToSet(names)) = Len(names)
<1>1. names \in Seq(Name)
  BY Zenon DEF Named
<1>2. Len(names) \in Nat /\ DOMAIN names = 1 .. Len(names) /\ names = [v \in 1 .. Len(names) |-> names[v]]
  BY <1>1
<1>3. ASSUME NEW v \in DOMAIN names
      PROVE  \/ v = 1 /\ names[v] = <<"ate">>
             \/ \E k \in 1 .. K : \E j \in 1 .. W[k] :
                  v = 1 + B[k - 1] + j /\ names[v] = NameOf(k, j)
  <2>1. CASE v = 1
    BY <2>1, Zenon DEF Named
  <2>2. CASE v # 1
    <3>1. PICK k \in 1 .. K : \E j \in 1 .. W[k] : v = 1 + B[k - 1] + j
      BY <2>2, Zenon DEF Named
    <3>2. PICK j \in 1 .. W[k] : v = 1 + B[k - 1] + j
      BY <3>1
    <3>3. j \in Nat
      OBVIOUS
    <3>4. names[v] = NameOf(k, j)
      BY <3>2, <3>3, Zenon DEF Named
    <3> QED
      BY <3>2, <3>4, Zenon
  <2> QED
    BY <2>1, <2>2
<1>4. ASSUME NEW u \in DOMAIN names, NEW v \in DOMAIN names, names[u] = names[v]
      PROVE  u = v
  <2>1. CASE u = 1 /\ names[u] = <<"ate">>
    <3>1. ASSUME NEW k \in 1 .. K, NEW j \in 1 .. W[k], names[v] = NameOf(k, j) PROVE FALSE
      BY <1>4, <2>1, <3>1, NamesApart, Zenon
    <3> QED
      BY <1>3, <2>1, <3>1, Zenon
  <2>2. CASE \E k \in 1 .. K : \E j \in 1 .. W[k] :
               u = 1 + B[k - 1] + j /\ names[u] = NameOf(k, j)
    <3>1. PICK k \in 1 .. K : \E j \in 1 .. W[k] :
                 u = 1 + B[k - 1] + j /\ names[u] = NameOf(k, j)
      BY <2>2
    <3>2. PICK j \in 1 .. W[k] : u = 1 + B[k - 1] + j /\ names[u] = NameOf(k, j)
      BY <3>1
    <3>3. names[v] # <<"ate">>
      BY <1>4, <3>2, NamesApart, Zenon
    <3>4. PICK l \in 1 .. K : \E i \in 1 .. W[l] :
                 v = 1 + B[l - 1] + i /\ names[v] = NameOf(l, i)
      BY <1>3, <3>3, Zenon
    <3>5. PICK i \in 1 .. W[l] : v = 1 + B[l - 1] + i /\ names[v] = NameOf(l, i)
      BY <3>4
    <3>6. NameOf(k, j) = NameOf(l, i)
      BY <1>4, <3>2, <3>5, Zenon
    <3>7. k = l /\ j = i
      BY <3>6, NamesApart
    <3> QED
      BY <3>2, <3>5, <3>7, Zenon
  <2> QED
    BY <1>3, <2>1, <2>2, Zenon
<1>5. names \in [1 .. Len(names) -> ToSet(names)]
  <2>1. \A v \in 1 .. Len(names) : names[v] \in ToSet(names)
    BY <1>2, Zenon DEF ToSet
  <2> QED
    BY <1>2, <2>1
<1>6. names \in Injection(1 .. Len(names), ToSet(names))
  BY <1>2, <1>4, <1>5, Zenon DEF Injection, IsInjective
<1>7. names \in Surjection(1 .. Len(names), ToSet(names))
  BY <1>2, <1>5, Zenon DEF Surjection, ToSet
<1>8. ExistsBijection(1 .. Len(names), ToSet(names))
  BY <1>6, <1>7, Zenon DEF ExistsBijection, Bijection
<1> QED
  BY <1>2, <1>8, FS_CountingElements, Zenon

\* The numbers of a draws array: ate's, then each item's.
Gathered(data, n, C, B, W) ==
  /\ data \in Seq(Int)
  /\ Len(data) = (n * C) * (1 + B[K])
  /\ \A q \in 1 .. n * C : data[q] = fit.ate.data[q]
  /\ \A k \in 1 .. K : \A q \in 1 .. (n * C) * W[k] :
       data[(n * C) * (1 + B[k - 1]) + q] = fit.alpha[k].data[q]

LEMMA DrawsShape ==
  ASSUME NEW C \in Nat \ {0}, NEW n \in Nat \ {0}, NEW W, Widths(W), FitShape(n, C, W),
         NEW B, BankStarts(B, W)
  PROVE  Gathered(FlattenSeq([p \in DOMAIN Pieces |-> Pieces[p].data]), n, C, B, W)
<1> DEFINE S == {fit.ate} \cup {fit.alpha[k] : k \in 1 .. K}
           m == n * C
           data == [p \in 1 .. 1 + K |-> Pieces[p].data]
           starts == [p \in 0 .. 1 + K |-> IF p = 0 THEN 0 ELSE m * (1 + B[p - 1])]
<1>1. K \in Nat /\ 1 + K \in Nat /\ m \in Nat /\ m = C * n
  BY ChainsAssumption, ProductGrows
<1>2. /\ fit.ate.data \in Seq(Int) /\ Len(fit.ate.data) = m
      /\ \A k \in 1 .. K : fit.alpha[k].data \in Seq(Int) /\ Len(fit.alpha[k].data) = m * W[k]
  <2>1. fit.ate.data \in Seq(Int) /\ Len(fit.ate.data) = C * n
    BY Zenon DEF FitShape, Blocks
  <2>2. \A k \in 1 .. K : fit.alpha[k].data \in Seq(Int) /\ Len(fit.alpha[k].data) = m * W[k]
    BY Zenon DEF FitShape, Cube
  <2> HIDE DEF m
  <2> QED
    BY <1>1, <2>1, <2>2, Zenon
<1>3. /\ DOMAIN Pieces = 1 .. 1 + K /\ Pieces[1] = fit.ate
      /\ \A k \in 1 .. K : Pieces[1 + k] = fit.alpha[k]
  <2>1. \A k \in 1 .. K : fit.alpha[k] \in S
    BY Zenon
  <2>2. fit.ate \in S
    BY Zenon
  <2> HIDE DEF S
  <2>3. fit.alpha \in Seq(S) /\ Len(fit.alpha) = K
    BY <1>1, <2>1, Listed, Zenon DEF FitShape
  <2>4. <<fit.ate>> \in Seq(S) /\ Len(<<fit.ate>>) = 1 /\ <<fit.ate>>[1] = fit.ate
    BY <2>2, OneListed, Zenon
  <2> QED
    <3>1. \A b \in Seq(S), x \in S : Len(b) = K =>
            /\ DOMAIN (<<x>> \o b) = 1 .. 1 + K /\ (<<x>> \o b)[1] = x
            /\ \A k \in 1 .. K : (<<x>> \o b)[1 + k] = b[k]
      BY <1>1
    <3> QED
      BY <2>2, <2>3, <3>1, Zenon DEF Pieces
<1>4. [p \in DOMAIN Pieces |-> Pieces[p].data] = data
  BY <1>3, Zenon
<1>5. data[1] = fit.ate.data /\ \A k \in 1 .. K : data[1 + k] = fit.alpha[k].data
  <2>1. 1 \in 1 .. 1 + K /\ \A k \in 1 .. K : 1 + k \in 1 .. 1 + K
    BY <1>1
  <2> QED
    BY <1>3, <2>1, Zenon
<1>6. \A p \in 1 .. 1 + K : p = 1 \/ \E k \in 1 .. K : p = 1 + k /\ p - 1 = k
  <2>1. \A p \in 1 .. 1 + K : p # 1 => p - 1 \in 1 .. K /\ p = 1 + (p - 1)
    BY <1>1
  <2> QED
    BY <2>1, Zenon
<1>7. data = [p \in 1 .. 1 + K |-> data[p]]
  BY Zenon
<1> HIDE DEF data
<1>8. data \in Seq(Seq(Int)) /\ Len(data) = 1 + K
  <2>1. \A p \in 1 .. 1 + K : data[p] \in Seq(Int)
    BY <1>2, <1>5, <1>6, Zenon
  <2> QED
    BY <1>1, <1>7, <2>1, Listed, Zenon
<1>9. \A k \in 1 .. K : /\ B[k - 1] \in Nat /\ B[k] \in Nat /\ W[k] \in Nat
                        /\ B[k] = B[k - 1] + W[k] /\ k - 1 \in 0 .. K
  BY BankStartsRange, Zenon DEF BankStarts, Widths
<1>10. B[0] = 0 /\ B[K] \in Nat /\ \A b \in 0 .. K : B[b] \in Nat
  <2>1. K \in 0 .. K
    BY <1>1
  <2> QED
    BY <2>1 DEF BankStarts
<1>11. /\ starts[0] = 0 /\ starts[1] = m
       /\ \A k \in 1 .. K : /\ starts[1 + k] = m * (1 + B[k - 1]) + m * W[k]
                            /\ starts[k] = m * (1 + B[k - 1])
       /\ starts[1 + K] = m * (1 + B[K])
  <2> HIDE DEF m
  <2>1. starts[0] = 0
    BY <1>1
  <2>2. \A p \in 1 .. 1 + K : starts[p] = m * (1 + B[p - 1])
    BY <1>1
  <2> HIDE DEF starts
  <2>3. starts[1] = m
    <3>1. 1 \in 1 .. 1 + K /\ 1 - 1 = 0 /\ m * (1 + 0) = m
      BY <1>1
    <3> QED
      BY <1>10, <2>2, <3>1, Zenon
  <2>4. ASSUME NEW k \in 1 .. K
        PROVE  /\ starts[1 + k] = m * (1 + B[k - 1]) + m * W[k]
               /\ starts[k] = m * (1 + B[k - 1])
    <3>1. PICK p \in 1 .. 1 + K : p = 1 + k /\ p - 1 = k
      BY <1>1
    <3>3. k \in 1 .. 1 + K
      BY <1>1
    <3>4. starts[p] = m * (1 + B[p - 1]) /\ starts[k] = m * (1 + B[k - 1])
      BY <2>2, <3>3, Zenon
    <3>2. \A b, w \in Nat : m * (1 + (b + w)) = m * (1 + b) + m * w
      BY <1>1
    <3> QED
      <4>1. m * (1 + (B[k - 1] + W[k])) = m * (1 + B[k - 1]) + m * W[k]
        BY <1>9, <3>2, Zenon
      <4>2. starts[1 + k] = m * (1 + B[k])
        BY <3>1, <3>4, Zenon
      <4>3. B[k] = B[k - 1] + W[k]
        BY <1>9, Zenon
      <4> QED
        BY <3>4, <4>1, <4>2, <4>3, Zenon
  <2>5. starts[1 + K] = m * (1 + B[K])
    <3>1. PICK p \in 1 .. 1 + K : p = 1 + K /\ p - 1 = K
      BY <1>1
    <3>2. starts[p] = m * (1 + B[p - 1])
      BY <2>2, Zenon
    <3> QED
      BY <3>1, <3>2, Zenon
  <2> QED
    BY <2>1, <2>3, <2>4, <2>5, Zenon
<1>12. starts \in [0 .. 1 + K -> Nat]
  <2>1. \A p \in 0 .. 1 + K : (IF p = 0 THEN 0 ELSE m * (1 + B[p - 1])) \in Nat
    <3> SUFFICES ASSUME NEW p \in 0 .. 1 + K, p # 0 PROVE m * (1 + B[p - 1]) \in Nat
      OBVIOUS
    <3>1. p - 1 \in 0 .. K
      BY <1>1
    <3>2. 1 + B[p - 1] \in Nat
      BY <1>10, <3>1
    <3> HIDE DEF m
    <3> QED
      BY <1>1, <3>2, ProductGrows
  <2> HIDE DEF m
  <2> QED
    BY <2>1
<1> HIDE DEF starts, m
<1>13. StartsOf(data, starts)
  <2>1. ASSUME NEW p \in 1 .. 1 + K PROVE starts[p] = starts[p - 1] + Len(data[p])
    <3>1. CASE p = 1
      <4>1. p - 1 = 0 /\ 0 + m = m
        BY <1>1, <3>1
      <4>2. Len(data[p]) = m /\ starts[p] = m /\ starts[p - 1] = 0
        BY <1>2, <1>5, <1>11, <3>1, <4>1, Zenon
      <4> QED
        BY <4>1, <4>2, Zenon
    <3>2. CASE p # 1
      <4>1. PICK k \in 1 .. K : p = 1 + k /\ p - 1 = k
        BY <1>6, <3>2, Zenon
      <4> QED
        BY <1>2, <1>5, <1>11, <4>1, Zenon
    <3> QED
      BY <3>1, <3>2
  <2> QED
    BY <1>8, <1>11, <1>12, <2>1, Zenon DEF StartsOf
<1> DEFINE flat == FlattenSeq(data)
<1>14. FlatAt(Int, flat, data, starts)
  BY <1>8, <1>13, Flattened, Zenon
<1> HIDE DEF flat
<1>15. flat \in Seq(Int) /\ Len(flat) = m * (1 + B[K])
  BY <1>8, <1>11, <1>14, Zenon DEF FlatAt
<1>16. ASSUME NEW q \in 1 .. m PROVE flat[q] = fit.ate.data[q]
  <2>1. 1 \in 1 .. Len(data) /\ 1 - 1 = 0 /\ 0 + q = q /\ q \in Nat
    BY <1>1, <1>8
  <2>2. q \in 1 .. Len(data[1])
    BY <1>2, <1>5, Zenon
  <2>3. flat[starts[1 - 1] + q] = data[1][q]
    BY <1>14, <2>1, <2>2, Zenon DEF FlatAt
  <2> QED
    BY <1>5, <1>11, <2>1, <2>3, Zenon
<1>17. ASSUME NEW k \in 1 .. K, NEW q \in 1 .. m * W[k]
       PROVE  flat[m * (1 + B[k - 1]) + q] = fit.alpha[k].data[q]
  <2>1. PICK p \in 1 .. Len(data) : p = 1 + k /\ p - 1 = k
    BY <1>1, <1>8
  <2>2. q \in Nat
    OBVIOUS
  <2>3. data[1 + k] = fit.alpha[k].data /\ q \in 1 .. Len(data[1 + k])
    BY <1>2, <1>5, Zenon
  <2>4. flat[starts[p - 1] + q] = data[p][q]
    BY <1>14, <2>1, <2>2, <2>3, Zenon DEF FlatAt
  <2> QED
    BY <1>11, <2>1, <2>3, <2>4, Zenon
<1> QED
  BY <1>4, <1>15, <1>16, <1>17, Zenon DEF Gathered, flat, m

\* What indexing and collapsing an array with two and with three dims read.
Plane(a, x, y) ==
  /\ a.dim[1] = x /\ a.dim[2] = y
  /\ \A i, j : At2(a, i, j) = a.data[i + x * (j - 1)]
  /\ Collapse(a) = a.data

Solid(a, x, y, z) ==
  /\ a.dim[1] = x /\ a.dim[2] = y /\ a.dim[3] = z
  /\ \A i, j, k : At3(a, i, j, k) = a.data[i + x * ((j - 1) + y * (k - 1))]
  /\ \A i, j : At2(Collapse(a), i, j) = a.data[i + (x * y) * (j - 1)]

LEMMA PlaneFields == \A a, x, y : a.dim = <<x, y>> => Plane(a, x, y)
<1> SUFFICES ASSUME NEW a, NEW x, NEW y, a.dim = <<x, y>> PROVE Plane(a, x, y)
  BY Zenon
<1>1. a.dim[1] = x /\ a.dim[2] = y /\ Len(a.dim) = 2
  OBVIOUS
<1> QED
  BY <1>1, Zenon DEF At2, Collapse, Plane

LEMMA SolidFields == \A a, x, y, z : a.dim = <<x, y, z>> => Solid(a, x, y, z)
<1> SUFFICES ASSUME NEW a, NEW x, NEW y, NEW z, a.dim = <<x, y, z>> PROVE Solid(a, x, y, z)
  BY Zenon
<1>1. a.dim[1] = x /\ a.dim[2] = y /\ a.dim[3] = z /\ ~(Len(a.dim) = 2)
  OBVIOUS
<1>2. Collapse(a) = RArray(a.data, <<x * y, z>>)
  BY <1>1, Zenon DEF Collapse
<1>3. Collapse(a).data = a.data /\ Collapse(a).dim = <<x * y, z>>
  BY <1>2, ArrayFields, ZenonT(60)
<1>4. Plane(Collapse(a), x * y, z)
  BY <1>3, PlaneFields, Zenon
<1>5. \A i, j : At2(Collapse(a), i, j) = a.data[i + (x * y) * (j - 1)]
  BY <1>3, <1>4, Zenon DEF Plane
<1> QED
  BY <1>1, <1>5, Zenon DEF At3, Solid

\* Draws in place are found under every position and name.
LEMMA FitShapeFaithful ==
  ASSUME Len(seeds) \in Nat \ {0}, seeds \in [1 .. Len(seeds) -> Int32],
         fit.n_sampling \in Lengths,
         NEW W, Widths(W), FitShape(fit.n_sampling, Len(seeds), W)
  PROVE  FitFaithful
<1> DEFINE n == fit.n_sampling
           C == Len(seeds)
           names == VariableNames
           flat == FlattenSeq([p \in DOMAIN Pieces |-> Pieces[p].data])
           a == DrawsArray
           Val(name, c, i) ==
             IF name[1] = "ate" THEN Drawn(c).ate[i]
             ELSE Drawn(c).alpha[IF K > 1 THEN name[2] ELSE 1][i][name[Len(name)]]
           Place(c, i, v) == i + n * ((c - 1) + C * (v - 1))
<1>20. /\ C \in Nat \ {0} /\ Chain = 1 .. C /\ \A c \in 1 .. C : seeds[c] \in Int32
  BY DEF Chain
<1>21. n \in Lengths /\ FitShape(n, C, W)
  BY Zenon
<1> HIDE DEF n, C
<1>1. n \in Nat \ {0} /\ n \in Nat /\ K \in Nat \ {0} /\ n * C \in Nat
  BY <1>20, <1>21, FitAssumption, ChainsAssumption, ProductGrows
<1>2. PICK B : /\ BankStarts(B, W) /\ Named(names, B, W)
               /\ SizesSum([k \in 1 .. K |-> fit.alpha[k].dim[3]]) = B[K]
  BY <1>1, <1>20, <1>21, NamesShape, Zenon
<1>3. Gathered(flat, n, C, B, W)
  BY <1>1, <1>2, <1>20, <1>21, DrawsShape, Zenon
<1>5. Cardinality(ToSet(names)) = Len(names)
  BY <1>2, NamesDistinct, Zenon
<1>6. Len(names) = 1 + B[K] /\ DOMAIN names = 1 .. 1 + B[K]
  <2>1. Len(names) = 1 + B[K] /\ names \in Seq(Name)
    BY <1>2, Zenon DEF Named
  <2> HIDE DEF names
  <2> QED
    BY <2>1
<1>7. /\ fit.ate.dim = <<n, C>>
      /\ \A k \in 1 .. K : fit.alpha[k].dim = <<n, C, W[k]>>
  BY <1>21, Zenon DEF FitShape, Cube
<1>22. Plane(fit.ate, n, C) /\ \A k \in 1 .. K : Solid(fit.alpha[k], n, C, W[k])
  <2>1. Plane(fit.ate, n, C)
    BY <1>7, PlaneFields, Zenon
  <2>2. \A k \in 1 .. K : Solid(fit.alpha[k], n, C, W[k])
    BY <1>7, SolidFields, Zenon
  <2> QED
    BY <2>1, <2>2
<1>8. a.data = flat /\ a.dim = <<n, C, Len(names)>>
  <2>1. fit.ate.dim[1] = n /\ fit.ate.dim[2] = C
    BY <1>22, Zenon DEF Plane
  <2>2. a = RArray(flat, <<n, C, 1 + B[K]>>)
    BY <1>2, <2>1, Zenon DEF DrawsArray
  <2> HIDE DEF flat, names, a
  <2>3. a.data = flat /\ a.dim = <<n, C, 1 + B[K]>>
    BY <2>2, ArrayFields, Zenon
  <2> QED
    BY <1>6, <2>3, Zenon
<1> HIDE DEF flat, names, a
<1>23. Solid(a, n, C, Len(names))
  BY <1>8, SolidFields, Zenon
<1>9. Len(a.data) = n * C * Len(names)
  BY <1>3, <1>6, <1>8, Zenon DEF Gathered
<1>10. ASSUME NEW c \in 1 .. C, NEW i \in 1 .. n
       PROVE  /\ fit.ate.data[(c - 1) * n + i] = Drawn(c).ate[i]
              /\ At2(fit.ate, i, c) = Drawn(c).ate[i]
              /\ Collapse(fit.ate)[(c - 1) * n + i] = Drawn(c).ate[i]
  <2> DEFINE y == [d \in 1 .. C |-> Drawn(d).ate]
  <2>1. fit.ate.data[(c - 1) * n + i] = y[c][i]
    BY <1>21, Zenon DEF FitShape, Blocks
  <2>2. y[c] = Drawn(c).ate
    BY Zenon
  <2> HIDE DEF y
  <2>3. At2(fit.ate, i, c) = fit.ate.data[i + n * (c - 1)] /\ Collapse(fit.ate) = fit.ate.data
    BY <1>22, Zenon DEF Plane
  <2>4. i + n * (c - 1) = (c - 1) * n + i
    BY <1>1, <1>20
  <2> QED
    BY <2>1, <2>2, <2>3, <2>4, Zenon
<1>11. ASSUME NEW c \in 1 .. C, NEW i \in 1 .. n, NEW k \in 1 .. K, NEW j \in 1 .. W[k]
       PROVE  /\ fit.alpha[k].data[Place(c, i, j)] = Drawn(c).alpha[k][i][j]
              /\ At3(fit.alpha[k], i, c, j) = Drawn(c).alpha[k][i][j]
              /\ At2(Collapse(fit.alpha[k]), (c - 1) * n + i, j) = Drawn(c).alpha[k][i][j]
  <2> DEFINE y == [d \in 1 .. C |-> Drawn(d).alpha[k]]
  <2>1. Cube(fit.alpha[k], y, n, C, W[k])
    BY <1>21, Zenon DEF FitShape
  <2>2. y[c] = Drawn(c).alpha[k]
    BY Zenon
  <2> HIDE DEF y
  <2>3. fit.alpha[k].data[i + n * ((c - 1) + C * (j - 1))] = y[c][i][j]
    BY <2>1, Zenon DEF Cube
  <2>4. /\ At3(fit.alpha[k], i, c, j) = fit.alpha[k].data[i + n * ((c - 1) + C * (j - 1))]
        /\ At2(Collapse(fit.alpha[k]), (c - 1) * n + i, j) =
             fit.alpha[k].data[(c - 1) * n + i + (n * C) * (j - 1)]
    <3>1. Solid(fit.alpha[k], n, C, W[k])
      BY <1>22, Zenon
    <3> QED
      BY <3>1, ZenonT(60) DEF Solid
  <2>5. i + n * ((c - 1) + C * (j - 1)) = (c - 1) * n + i + (n * C) * (j - 1)
    BY <1>1, <1>20
  <2> QED
    BY <2>2, <2>3, <2>4, <2>5, Zenon
<1>12. ASSUME NEW c \in 1 .. C, NEW k \in 1 .. K PROVE DOMAIN Drawn(c).alpha[k][1] = 1 .. W[k]
  <2> DEFINE m == Drawn(c).alpha[k]
  <2>1. m \in Seq(Seq(Int)) /\ n <= Len(m)
    BY <1>20, <1>21, FitAssumption, Zenon DEF Drawn
  <2>2. \A s \in Seq(Seq(Int)) : n <= Len(s) => 1 \in DOMAIN s /\ s[1] \in Seq(Int)
    BY <1>1
  <2>3. 1 \in DOMAIN m /\ m[1] \in Seq(Int)
    BY <2>1, <2>2, Zenon
  <2>4. Len(m[1]) = W[k]
    BY <1>20, <2>3, Zenon DEF Drawn, Widths
  <2> HIDE DEF m
  <2>5. DOMAIN m[1] = 1 .. W[k]
    BY <2>3, <2>4
  <2> QED
    BY <2>5, Zenon DEF m
<1>13. ASSUME NEW c \in 1 .. C, NEW i \in 1 .. n, NEW v \in DOMAIN names
       PROVE  /\ At3(a, i, c, v) = Val(names[v], c, i)
              /\ Pooled(v)[(c - 1) * n + i] = Val(names[v], c, i)
  <2>1. At3(a, i, c, v) = flat[Place(c, i, v)]
    BY <1>8, <1>23, Zenon DEF Solid
  <2>2. B[K] \in Nat /\ v \in Nat \ {0}
    <3>1. K \in 1 .. K
      BY <1>1
    <3>2. B[K] \in Nat
      BY <1>2, <3>1, BankStartsRange, Zenon
    <3> QED
      BY <1>6, <3>2
  <2>3. Pooled(v)[(c - 1) * n + i] = flat[Place(c, i, v)]
    <3> DEFINE lo == (v - 1) * (n * C) + 1
               q == (c - 1) * n + i
    <3>1. a.dim[1] = n /\ a.dim[2] = C
      BY <1>23, Zenon DEF Solid
    <3>2. Pooled(v) = SubSeq(flat, lo, v * (n * C))
      BY <1>8, <3>1, Zenon DEF Pooled, a
    <3>3. q \in 1 .. n * C
      BY <1>1, <1>20, ArrayPlace, Zenon
    <3>4. (v - 1) * (n * C) \in Nat /\ v * (n * C) = (v - 1) * (n * C) + n * C
      <4>1. v - 1 \in Nat
        BY <2>2
      <4> QED
        BY <1>1, <2>2, <4>1, ProductGrows, SMTT(60)
    <3>5. Place(c, i, v) = q + lo - 1
      BY <1>1, <1>20, <2>2, SMTT(60)
    <3> HIDE DEF Place, q
    <3>6. \A s, l, h : l \in Nat \ {0} /\ h = l - 1 + n * C => SubSeq(s, l, h)[q] = s[q + l - 1]
      BY <1>1, <3>3, SMTT(60)
    <3>7. lo \in Nat \ {0} /\ v * (n * C) = lo - 1 + n * C
      BY <1>1, <3>4
    <3> HIDE DEF lo
    <3> QED
      BY <3>2, <3>5, <3>6, <3>7, Zenon DEF q
  <2>4. flat[Place(c, i, v)] = Val(names[v], c, i)
    <3>1. CASE v = 1
      <4>1. Place(c, i, v) = (c - 1) * n + i
        BY <1>1, <1>20, <3>1
      <4>2. (c - 1) * n + i \in 1 .. n * C
        BY <1>1, <1>20, ArrayPlace, Zenon
      <4>3. flat[(c - 1) * n + i] = Drawn(c).ate[i]
        BY <1>3, <1>10, <4>2, Zenon DEF Gathered
      <4>4. names[v] = <<"ate">>
        BY <1>2, <3>1, Zenon DEF Named
      <4>5. names[v][1] = "ate"
        BY <4>4
      <4> HIDE DEF Place
      <4> QED
        BY <4>1, <4>3, <4>5, Zenon
    <3>2. CASE v # 1
      <4>1. PICK k \in 1 .. K : \E j \in 1 .. W[k] : v = 1 + B[k - 1] + j
        BY <1>2, <3>2, Zenon DEF Named
      <4>2. PICK j \in 1 .. W[k] : v = 1 + B[k - 1] + j
        BY <4>1
      <4>3. names[v] = NameOf(k, j)
        <5>1. j \in Nat
          OBVIOUS
        <5> QED
          BY <1>2, <4>2, <5>1, Zenon DEF Named
      <4>4. Val(names[v], c, i) = Drawn(c).alpha[k][i][j]
        <5>1. ~(names[v][1] = "ate")
          BY <4>3, NamesApart, Zenon
        <5>2. (IF K > 1 THEN names[v][2] ELSE 1) = k /\ names[v][Len(names[v])] = j
          BY <1>1, <4>3 DEF NameOf
        <5> QED
          BY <5>1, <5>2, Zenon
      <4>5. B[k - 1] \in Nat /\ W[k] \in Nat \ {0}
        <5>1. B[k - 1] \in Nat
          BY <1>2, BankStartsRange, Zenon
        <5>2. W[k] \in Nat
          BY Zenon DEF Widths
        <5> QED
          BY <5>1, <5>2
      <4>6. Place(c, i, v) = (n * C) * (1 + B[k - 1]) + Place(c, i, j)
        <5>1. j \in Nat \ {0}
          OBVIOUS
        <5> QED
          <6>1. \A b \in Nat, l \in Nat \ {0} : \A u : u = 1 + b + l =>
                  i + n * ((c - 1) + C * (u - 1)) =
                    (n * C) * (1 + b) + (i + n * ((c - 1) + C * (l - 1)))
            BY <1>1, <1>20
          <6> QED
            BY <4>2, <4>5, <5>1, <6>1, ZenonT(60)
      <4>7. Place(c, i, j) \in 1 .. (n * C) * W[k]
        <5>1. Place(c, i, j) \in 1 .. C * (W[k] * n)
          BY <1>1, <1>20, <4>5, ArrayPlace, Zenon
        <5>2. C * (W[k] * n) = (n * C) * W[k]
          BY <1>1, <1>20, <4>5
        <5> HIDE DEF Place
        <5> QED
          BY <5>1, <5>2, Zenon
      <4>8. fit.alpha[k].data[Place(c, i, j)] = Drawn(c).alpha[k][i][j]
        BY <1>11, ZenonT(60)
      <4> HIDE DEF Place, Val
      <4>9. flat[(n * C) * (1 + B[k - 1]) + Place(c, i, j)] = fit.alpha[k].data[Place(c, i, j)]
        BY <1>3, <4>7, Zenon DEF Gathered
      <4> QED
        BY <4>4, <4>6, <4>8, <4>9, Zenon
    <3> QED
      BY <3>1, <3>2
  <2> HIDE DEF Place, Val
  <2> QED
    BY <2>1, <2>3, <2>4, Zenon
<1>14. ASSUME NEW c \in Chain, NEW i \in 1 .. n
       PROVE  /\ At2(fit.ate, i, c) = Drawn(c).ate[i]
              /\ Collapse(fit.ate)[(c - 1) * n + i] = Drawn(c).ate[i]
              /\ \A k \in 1 .. K : \A j \in DOMAIN Drawn(c).alpha[k][1] :
                   /\ At3(fit.alpha[k], i, c, j) = Drawn(c).alpha[k][i][j]
                   /\ At2(Collapse(fit.alpha[k]), (c - 1) * n + i, j) = Drawn(c).alpha[k][i][j]
              /\ \A v \in DOMAIN names :
                   /\ At3(a, i, c, v) = Val(names[v], c, i)
                   /\ Pooled(v)[(c - 1) * n + i] = Val(names[v], c, i)
  <2> HIDE DEF Val
  <2>1. c \in 1 .. C
    BY <1>20, Zenon
  <2>2. \A k \in 1 .. K : \A j \in DOMAIN Drawn(c).alpha[k][1] :
          /\ At3(fit.alpha[k], i, c, j) = Drawn(c).alpha[k][i][j]
          /\ At2(Collapse(fit.alpha[k]), (c - 1) * n + i, j) = Drawn(c).alpha[k][i][j]
    <3> SUFFICES ASSUME NEW k \in 1 .. K, NEW j \in DOMAIN Drawn(c).alpha[k][1]
                 PROVE  /\ At3(fit.alpha[k], i, c, j) = Drawn(c).alpha[k][i][j]
                        /\ At2(Collapse(fit.alpha[k]), (c - 1) * n + i, j) = Drawn(c).alpha[k][i][j]
      BY Zenon
    <3>1. j \in 1 .. W[k]
      BY <1>12, <2>1, Zenon
    <3> QED
      BY <1>11, <2>1, <3>1, ZenonT(60)
  <2>3. \A v \in DOMAIN names :
          /\ At3(a, i, c, v) = Val(names[v], c, i)
          /\ Pooled(v)[(c - 1) * n + i] = Val(names[v], c, i)
    BY <1>13, <2>1, Zenon
  <2> QED
    BY <1>10, <2>1, <2>2, <2>3, Zenon
<1> QED
  BY <1>5, <1>8, <1>9, <1>14, Zenon DEF FitFaithful, Drawn, names, a, n, C

(***************************************************************************)
(* Sums, means and variances of the statistics (Summary).                  *)
(***************************************************************************)
LEMMA CountIs ==
  /\ \A n \in Int : Count(n) \in Rationals
  /\ \A n \in Nat \ {0} : Less(Zero, Count(n)) /\ Count(n) # Zero
  /\ Count(0) = Zero /\ Count(1) = One
  /\ \A m, n \in Int : /\ Plus(Count(m), Count(n)) = Count(m + n)
                       /\ Minus(Count(m), Count(n)) = Count(m - n)
                       /\ Count(m) = Count(n) <=> m = n
                       /\ AtMost(Count(m), Count(n)) <=> m <= n
                       /\ Less(Count(m), Count(n)) <=> m < n
<1>1. \A n \in Int : Count(n) \in Rationals
  BY FracValue DEF Count
<1>2. Count(0) = Zero /\ Count(1) = One
  BY DEF Count, Zero, One
<1>3. ASSUME NEW m \in Int, NEW n \in Int
      PROVE  /\ Plus(Count(m), Count(n)) = Count(m + n)
             /\ Minus(Count(m), Count(n)) = Count(m - n)
             /\ Count(m) = Count(n) <=> m = n
             /\ AtMost(Count(m), Count(n)) <=> m <= n
             /\ Less(Count(m), Count(n)) <=> m < n
  <2>1. 1 \in Nat \ {0}
    OBVIOUS
  <2>2. Plus(Count(m), Count(n)) = Count(m + n) /\ Minus(Count(m), Count(n)) = Count(m - n)
    <3>1. Plus(Frac(m, 1), Frac(n, 1)) = Frac(m + n, 1)
      BY <2>1, SameParts
    <3>2. Minus(Frac(m, 1), Frac(n, 1)) = Frac(m - n, 1)
      BY <2>1, SameParts
    <3> QED
      BY <3>1, <3>2, Zenon DEF Count
  <2>3. Ordered(Count(m), Count(n), m, n)
    BY <2>1, SameOrder, Zenon DEF Count
  <2> QED
    BY <2>2, <2>3, Zenon DEF Ordered
<1>4. ASSUME NEW n \in Nat \ {0} PROVE Less(Zero, Count(n)) /\ Count(n) # Zero
  <2>1. 0 \in Int /\ n \in Int /\ 0 < n
    OBVIOUS
  <2>2. Less(Count(0), Count(n)) <=> 0 < n
    BY <1>3, <2>1, Zenon
  <2>3. Count(0) = Count(n) <=> 0 = n
    BY <1>3, <2>1, Zenon
  <2>4. Less(Count(0), Count(n)) /\ Count(0) # Count(n)
    BY <2>1, <2>2, <2>3
  <2> QED
    BY <1>2, <2>4, Zenon
<1> QED
  BY <1>1, <1>2, <1>3, <1>4

\* Counts add up.
LEMMA CountsAdd == \A m, n \in Int : Plus(Count(m), Count(n)) = Count(m + n)
BY CountIs

\* A sum and the partial sums it runs through.
Totals(f, xs) ==
  /\ f \in [0 .. Len(xs) -> Rationals] /\ f[0] = Zero /\ SumOf(xs) = f[Len(xs)]
  /\ \A i \in 1 .. Len(xs) : f[i] = Plus(f[i - 1], xs[i])

LEMMA TotalsExist == \A xs \in Seq(Rationals) : \E f : Totals(f, xs)
<1> TAKE xs \in Seq(Rationals)
<1> DEFINE N == Len(xs)
<1>1. N \in Nat /\ \A i \in 1 .. N : xs[i] \in Rationals
  OBVIOUS
<1>2. Zero \in Rationals
  BY ZeroOne
<1>3. PICK g : /\ g[0] = Zero /\ SumOf(xs) = g[N]
               /\ \A i \in 1 .. N : g[i] = Plus(g[i - 1], xs[i])
  <2>1. SumFromBySteps(Zero, xs, SumFrom(Zero, xs))
    BY <1>2, SumFromUnfolds
  <2>2. SumOf(xs) = SumFrom(Zero, xs)
    BY Zenon DEF SumOf, SumFrom
  <2> QED
    BY <2>1, <2>2, Zenon DEF SumFromBySteps
<1> HIDE DEF N
<1> DEFINE T == {n \in Nat : n <= N => g[n] \in Rationals}
<1>4. 0 \in T
  BY <1>2, <1>3
<1>5. ASSUME NEW n \in Nat, n \in T PROVE n + 1 \in T
  <2> SUFFICES ASSUME n + 1 <= N PROVE g[n + 1] \in Rationals
    OBVIOUS
  <2>1. PICK i \in 1 .. N : i = n + 1 /\ i - 1 = n
    BY <1>1
  <2>2. g[i] = Plus(g[n], xs[i]) /\ xs[i] \in Rationals
    BY <1>1, <1>3, <2>1, Zenon
  <2>3. g[n] \in Rationals
    BY <1>1, <1>5, <2>1
  <2> QED
    BY <2>1, <2>2, <2>3, Closed
<1>6. \A n \in Nat : n <= N => g[n] \in Rationals
  <2>1. Nat \subseteq T
    <3> HIDE DEF T
    <3> QED
      BY <1>4, <1>5, Induction
  <2> QED
    BY <2>1
<1> DEFINE f == [n \in 0 .. N |-> g[n]]
<1>7. f \in [0 .. N -> Rationals] /\ f[0] = Zero /\ SumOf(xs) = f[N]
  BY <1>1, <1>3, <1>6
<1>8. ASSUME NEW i \in 1 .. N PROVE f[i] = Plus(f[i - 1], xs[i])
  <2>1. i \in 0 .. N /\ i - 1 \in 0 .. N
    BY <1>1
  <2> QED
    BY <1>3, <2>1
<1> HIDE DEF f
<1>9. Totals(f, xs)
  BY <1>7, <1>8 DEF Totals, N
<1> QED
  BY <1>9

LEMMA SumIn == \A xs \in Seq(Rationals) : SumOf(xs) \in Rationals
<1> TAKE xs \in Seq(Rationals)
<1>1. PICK f : Totals(f, xs)
  BY TotalsExist
<1>2. Len(xs) \in 0 .. Len(xs)
  OBVIOUS
<1> QED
  BY <1>1, <1>2, Zenon DEF Totals

\* A sum of numbers none of which is negative is zero only if they are.
NonNegatives(xs) == xs \in Seq(Rationals) /\ \A i \in 1 .. Len(xs) : AtMost(Zero, xs[i])

ZeroIffZeros(x, xs) ==
  /\ x \in Rationals /\ AtMost(Zero, x)
  /\ x = Zero <=> \A i \in 1 .. Len(xs) : xs[i] = Zero

LEMMA NonNegativeSum == \A xs : NonNegatives(xs) => ZeroIffZeros(SumOf(xs), xs)
<1> SUFFICES ASSUME NEW xs, NonNegatives(xs) PROVE ZeroIffZeros(SumOf(xs), xs)
  OBVIOUS
<1> DEFINE N == Len(xs)
<1>1. N \in Nat /\ \A i \in 1 .. N : xs[i] \in Rationals /\ AtMost(Zero, xs[i])
  BY DEF NonNegatives
<1>2. PICK f : Totals(f, xs)
  BY TotalsExist DEF NonNegatives
<1>3. /\ f \in [0 .. N -> Rationals] /\ f[0] = Zero /\ SumOf(xs) = f[N]
      /\ \A i \in 1 .. N : f[i] = Plus(f[i - 1], xs[i])
  BY <1>2, Zenon DEF Totals
<1> HIDE DEF N
<1> DEFINE Good(n) == AtMost(Zero, f[n]) /\ (f[n] = Zero <=> \A i \in 1 .. n : xs[i] = Zero)
           T == {n \in Nat : n <= N => Good(n)}
<1>4. 0 \in T
  <2>1. AtMost(Zero, Zero)
    BY ZeroOne, LessIs
  <2>2. Good(0)
    BY <1>3, <2>1
  <2> QED
    BY <2>2
<1>5. ASSUME NEW n \in Nat, n \in T PROVE n + 1 \in T
  <2> SUFFICES ASSUME n + 1 <= N PROVE Good(n + 1)
    OBVIOUS
  <2>1. PICK j \in 1 .. N : j = n + 1 /\ j - 1 = n /\ n \in 0 .. N /\ n <= N
    BY <1>1
  <2>2. f[j] = Plus(f[n], xs[j]) /\ xs[j] \in Rationals /\ AtMost(Zero, xs[j]) /\ f[n] \in Rationals
    BY <1>1, <1>3, <2>1
  <2>3. Good(n)
    BY <1>5, <2>1
  <2>4. AtMost(Zero, f[j]) /\ (f[j] = Zero <=> f[n] = Zero /\ xs[j] = Zero)
    <3>1. Plus(Zero, Zero) = Zero /\ Zero \in Rationals /\ AtMost(Zero, Zero)
      BY ZeroOne, Units, LessIs
    <3>2. CASE f[n] = Zero /\ xs[j] = Zero
      BY <2>2, <3>1, <3>2
    <3>3. CASE f[n] # Zero
      <4>1. Less(Zero, f[n])
        BY <2>2, <2>3, <3>1, <3>3, LessIs
      <4>2. Less(Zero, f[j])
        BY <2>2, <4>1, Positives
      <4>3. f[j] \in Rationals
        BY <2>2, Closed
      <4> QED
        BY <3>1, <3>3, <4>2, <4>3, LessIs, Positives
    <3>4. CASE xs[j] # Zero
      <4>1. Less(Zero, xs[j])
        BY <2>2, <3>1, <3>4, LessIs
      <4>2. Less(Zero, f[j])
        BY <2>2, <2>3, <4>1, Positives
      <4>3. f[j] \in Rationals
        BY <2>2, Closed
      <4> QED
        BY <3>1, <3>4, <4>2, <4>3, LessIs, Positives
    <3> QED
      BY <3>2, <3>3, <3>4
  <2>5. (\A i \in 1 .. n + 1 : xs[i] = Zero) <=> (\A i \in 1 .. n : xs[i] = Zero) /\ xs[j] = Zero
    <3>1. 1 .. n + 1 = (1 .. n) \cup {n + 1}
      OBVIOUS
    <3> QED
      BY <2>1, <3>1
  <2> QED
    BY <2>1, <2>3, <2>4, <2>5
<1>6. N \in T
  <2> HIDE DEF T
  <2>1. Nat \subseteq T
    BY <1>4, <1>5, Induction
  <2> QED
    BY <1>1, <2>1
<1>7. Good(N) /\ N \in 0 .. N
  BY <1>1, <1>6
<1> QED
  BY <1>3, <1>7 DEF ZeroIffZeros, N

LEMMA SquareIs ==
  \A x \in Rationals : /\ Square(x) \in Rationals /\ AtMost(Zero, Square(x))
                       /\ Square(x) = Zero <=> x = Zero
<1> TAKE x \in Rationals
<1>1. PICK n \in Int, d \in Nat \ {0} : x = Frac(n, d)
  BY Fraction, Zenon
<1>2. n * n \in Int /\ d * d \in Nat \ {0} /\ (n * n = 0 <=> n = 0) /\ 1 \in Nat \ {0} /\ 0 \in Int
  <2>1. d * d \in Nat \ {0}
    BY ProductPositive
  <2>2. n * n = 0 <=> n = 0
    BY Z3T(30)
  <2> QED
    BY <2>1, <2>2
<1>3. Square(x) = Frac(n * n, d * d)
  BY <1>1, FracTimes, Zenon DEF Square
<1>4. \A a \in Int, b \in Nat \ {0} : Frac(a, b) = Zero <=> a = 0
  <2> TAKE a \in Int, b \in Nat \ {0}
  <2>1. Frac(a, b) = Frac(0, 1) <=> a * 1 = 0 * b
    BY <1>2, FracEqual
  <2> QED
    BY <2>1 DEF Zero
<1>5. Square(x) = Zero <=> x = Zero
  BY <1>1, <1>2, <1>3, <1>4, Zenon
<1>6. Square(x) \in Rationals /\ AtMost(Zero, Square(x))
  BY Closed, Positives DEF Square
<1> QED
  BY <1>5, <1>6

LEMMA DifferenceZero == \A x, y \in Rationals : Minus(x, y) = Zero <=> x = y
<1> TAKE x \in Rationals, y \in Rationals
<1>1. Plus(y, Minus(x, y)) = x /\ Plus(y, Zero) = y /\ Minus(x, x) = Zero
  BY MinusPlus, Units
<1> QED
  BY <1>1

LEMMA ZeroOver ==
  \A x, y \in Rationals :
    AtMost(Zero, x) /\ Less(Zero, y) =>
      /\ Over(x, y) \in Rationals /\ AtMost(Zero, Over(x, y))
      /\ Over(x, y) = Zero <=> x = Zero
<1> SUFFICES ASSUME NEW x \in Rationals, NEW y \in Rationals, AtMost(Zero, x), Less(Zero, y)
             PROVE  /\ Over(x, y) \in Rationals /\ AtMost(Zero, Over(x, y))
                    /\ Over(x, y) = Zero <=> x = Zero
  OBVIOUS
<1>1. y # Zero /\ Zero \in Rationals /\ Times(y, Zero) = Zero
  BY ZeroOne, Units, Positives
<1>2. Over(x, y) \in Rationals /\ Times(y, Over(x, y)) = x
  BY <1>1, Closed, OverCancels
<1>3. Over(x, y) = Zero => x = Zero
  BY <1>1, <1>2
<1>4. x = Zero => Over(x, y) = Zero
  BY <1>1, OverCancels
<1>5. x # Zero => Less(Zero, Over(x, y))
  BY <1>1, LessIs, Positives
<1>6. AtMost(Zero, Over(x, y))
  BY <1>1, <1>2, <1>4, <1>5, LessIs
<1> QED
  BY <1>2, <1>3, <1>4, <1>6

\* A sequence of one number over and over.
AllAre(x, xs) == x \in Rationals /\ xs \in Seq(Rationals) /\ \A i \in 1 .. Len(xs) : xs[i] = x

LEMMA ConstantSum == \A x, xs : AllAre(x, xs) => SumOf(xs) = Times(Count(Len(xs)), x)
<1> SUFFICES ASSUME NEW x, NEW xs, AllAre(x, xs) PROVE SumOf(xs) = Times(Count(Len(xs)), x)
  OBVIOUS
<1> DEFINE N == Len(xs)
<1>1. N \in Nat /\ x \in Rationals /\ \A i \in 1 .. N : xs[i] = x
  BY DEF AllAre
<1>2. PICK f : Totals(f, xs)
  BY TotalsExist DEF AllAre
<1>3. /\ f[0] = Zero /\ SumOf(xs) = f[N]
      /\ \A i \in 1 .. N : f[i] = Plus(f[i - 1], xs[i])
  BY <1>2, Zenon DEF Totals
<1> HIDE DEF N
<1> DEFINE T == {n \in Nat : n <= N => f[n] = Times(Count(n), x)}
<1>4. 0 \in T
  <2>1. Times(Count(0), x) = Zero
    <3>1. Times(Zero, x) = Times(x, Zero) /\ Times(x, Zero) = Zero
      BY <1>1, ZeroOne, Units, TimesCommutes
    <3> QED
      BY <3>1, CountIs
  <2> QED
    BY <1>3, <2>1
<1>5. ASSUME NEW n \in Nat, n \in T PROVE n + 1 \in T
  <2> SUFFICES ASSUME n + 1 <= N PROVE f[n + 1] = Times(Count(n + 1), x)
    OBVIOUS
  <2>1. PICK i \in 1 .. N : i = n + 1 /\ i - 1 = n /\ n <= N
    BY <1>1
  <2>2. f[i] = Plus(Times(Count(n), x), x)
    BY <1>1, <1>3, <1>5, <2>1
  <2>3. /\ Count(n) \in Rationals /\ One \in Rationals /\ Plus(Count(n), One) = Count(n + 1)
        /\ Count(n + 1) \in Rationals
    <3>1. n \in Int /\ 1 \in Int /\ n + 1 \in Int
      OBVIOUS
    <3>2. Plus(Count(n), Count(1)) = Count(n + 1)
      BY ONLY <3>1, CountsAdd, Zenon
    <3>3. Count(1) = One
      BY CountIs
    <3> QED
      BY <3>1, <3>2, <3>3, CountIs, ZeroOne, Zenon
  <2>4. Times(x, Plus(Count(n), One)) = Plus(Times(x, Count(n)), Times(x, One))
    BY <1>1, <2>3, TimesDistributes
  <2>5. Times(x, One) = x /\ Times(x, Count(n)) = Times(Count(n), x)
        /\ Times(x, Count(n + 1)) = Times(Count(n + 1), x)
    BY <1>1, <2>3, Units, TimesCommutes
  <2> QED
    BY <2>1, <2>2, <2>3, <2>4, <2>5
<1>6. Nat \subseteq T
  <2> HIDE DEF T
  <2> QED
    BY <1>4, <1>5, Induction
<1> QED
  BY <1>1, <1>3, <1>6 DEF N

\* The mean.
MeanOf(x, xs) ==
  /\ x \in Rationals /\ Times(Count(Len(xs)), x) = SumOf(xs)
  /\ (\A i \in 1 .. Len(xs) : xs[i] = xs[1]) => x = xs[1]

LEMMA MeanIs == \A xs \in Seq(Rationals) : xs # <<>> => MeanOf(ColMean(xs), xs)
<1> SUFFICES ASSUME NEW xs \in Seq(Rationals), xs # <<>> PROVE MeanOf(ColMean(xs), xs)
  OBVIOUS
<1>1. Len(xs) \in Nat \ {0} /\ xs[1] \in Rationals
  OBVIOUS
<1>2. Count(Len(xs)) \in Rationals /\ Count(Len(xs)) # Zero
  BY <1>1, CountIs
<1>3. SumOf(xs) \in Rationals
  BY SumIn
<1>4. ColMean(xs) \in Rationals /\ Times(Count(Len(xs)), ColMean(xs)) = SumOf(xs)
  BY <1>2, <1>3, Closed, OverCancels DEF ColMean
<1>5. ASSUME \A i \in 1 .. Len(xs) : xs[i] = xs[1] PROVE ColMean(xs) = xs[1]
  <2>1. SumOf(xs) = Times(Count(Len(xs)), xs[1])
    <3>1. AllAre(xs[1], xs)
      BY <1>1, <1>5 DEF AllAre
    <3> QED
      BY <3>1, ConstantSum, Zenon
  <2> QED
    BY <1>1, <1>2, <2>1, OverCancels DEF ColMean
<1> QED
  BY <1>4, <1>5 DEF MeanOf

\* The squares about a number, and the variance: zero where all are that number.
Spreads(x, xs, m) ==
  /\ x \in Rationals /\ AtMost(Zero, x)
  /\ x = Zero <=> \A i \in 1 .. Len(xs) : xs[i] = m

LEMMA SquaresIs ==
  \A xs \in Seq(Rationals), m \in Rationals : Spreads(SquaresAbout(xs, m), xs, m)
<1> TAKE xs \in Seq(Rationals), m \in Rationals
<1> DEFINE N == Len(xs)
           ys == [i \in DOMAIN xs |-> Square(Minus(xs[i], m))]
<1>1. N \in Nat /\ DOMAIN xs = 1 .. N /\ \A i \in 1 .. N : xs[i] \in Rationals
  OBVIOUS
<1> HIDE DEF N
<1>2. ASSUME NEW i \in 1 .. N
      PROVE  /\ ys[i] \in Rationals /\ AtMost(Zero, ys[i])
             /\ ys[i] = Zero <=> xs[i] = m
  <2>1. Minus(xs[i], m) \in Rationals /\ (Minus(xs[i], m) = Zero <=> xs[i] = m)
    BY <1>1, Closed, DifferenceZero
  <2>2. ys[i] = Square(Minus(xs[i], m))
    BY <1>1
  <2> QED
    BY <2>1, <2>2, SquareIs, Zenon
<1>3. ys \in Seq(Rationals) /\ Len(ys) = N
  <2>1. ys = [i \in 1 .. N |-> ys[i]]
    BY <1>1
  <2> HIDE DEF ys
  <2> QED
    BY <1>1, <1>2, <2>1, Listed
<1>4. SquaresAbout(xs, m) = SumOf(ys)
  BY Zenon DEF SquaresAbout
<1> HIDE DEF ys
<1>5. ZeroIffZeros(SumOf(ys), ys)
  <2>1. NonNegatives(ys)
    BY <1>2, <1>3 DEF NonNegatives
  <2> QED
    BY <2>1, NonNegativeSum, Zenon
<1> QED
  BY <1>2, <1>3, <1>4, <1>5 DEF ZeroIffZeros, Spreads, N

LEMMA VarianceIs ==
  \A xs \in Seq(Rationals), m \in Rationals :
    Len(xs) >= 2 => Spreads(ColVariance(xs, m), xs, m)
<1> SUFFICES ASSUME NEW xs \in Seq(Rationals), NEW m \in Rationals, Len(xs) >= 2
             PROVE  Spreads(ColVariance(xs, m), xs, m)
  OBVIOUS
<1>1. Len(xs) - 1 \in Nat \ {0} /\ Len(xs) - 1 \in Int
  <2>1. Len(xs) \in Nat
    OBVIOUS
  <2> DEFINE n == Len(xs)
  <2> HIDE DEF n
  <2>2. n \in Nat /\ n >= 2
    BY <2>1 DEF n
  <2>3. n - 1 \in Nat \ {0} /\ n - 1 \in Int
    BY ONLY <2>2
  <2> QED
    BY <2>3 DEF n
<1>2. Count(Len(xs) - 1) \in Rationals /\ Less(Zero, Count(Len(xs) - 1))
  BY <1>1, CountIs, Zenon
<1>3. Spreads(SquaresAbout(xs, m), xs, m)
  BY SquaresIs
<1>4. SquaresAbout(xs, m) \in Rationals /\ AtMost(Zero, SquaresAbout(xs, m))
  BY <1>3, Zenon DEF Spreads
<1>5. /\ ColVariance(xs, m) \in Rationals /\ AtMost(Zero, ColVariance(xs, m))
      /\ ColVariance(xs, m) = Zero <=> SquaresAbout(xs, m) = Zero
  BY <1>2, <1>4, ZeroOver, Zenon DEF ColVariance
<1> QED
  BY <1>3, <1>5, Zenon DEF Spreads

\* About the mean it is zero where all are the same.
Varies(x, xs) ==
  /\ x \in Rationals /\ AtMost(Zero, x)
  /\ x = Zero <=> \A i \in 1 .. Len(xs) : xs[i] = xs[1]

LEMMA VarianceAboutMean ==
  \A xs \in Seq(Rationals) : Len(xs) >= 2 => Varies(ColVariance(xs, ColMean(xs)), xs)
<1> SUFFICES ASSUME NEW xs \in Seq(Rationals), Len(xs) >= 2
             PROVE  Varies(ColVariance(xs, ColMean(xs)), xs)
  OBVIOUS
<1>1. xs # <<>> /\ 1 \in 1 .. Len(xs)
  OBVIOUS
<1>2. MeanOf(ColMean(xs), xs)
  BY <1>1, MeanIs
<1>3. Spreads(ColVariance(xs, ColMean(xs)), xs, ColMean(xs))
  BY <1>2, VarianceIs DEF MeanOf
<1>4. (\A i \in 1 .. Len(xs) : xs[i] = ColMean(xs)) <=> (\A i \in 1 .. Len(xs) : xs[i] = xs[1])
  BY <1>1, <1>2, Zenon DEF MeanOf
<1> QED
  BY <1>3, <1>4, Zenon DEF Spreads, Varies

(***************************************************************************)
(* R-hat of a matrix of numbers (Fit).                                     *)
(***************************************************************************)
\* A matrix of h rows and m columns; its columns; where each is stuck at a number
\* of its own, and where all are at the same.
Matrix(S, rows, h, m) == h \in Nat \ {0} /\ m \in Nat \ {0} /\ rows \in [1 .. h -> [1 .. m -> S]]

ColumnsStuck(rows, h, m) == \A c \in 1 .. m : \A i \in 1 .. h : rows[i][c] = rows[1][c]
AllSame(rows, h, m)      == \A c \in 1 .. m : \A i \in 1 .. h : rows[i][c] = rows[1][1]

RHatOf(r, stuck, same) ==
  /\ r = NA <=> same
  /\ r = Inf <=> stuck /\ ~same
  /\ r \notin {NA, Inf} => r \in Rationals /\ Less(Zero, r)

LEMMA NANoNumber == NA # Inf /\ NA \notin Rationals
BY FitAssumption, DoublesFinite DEF Double, Rationals

ColumnOf(col, rows, h, c) ==
  /\ col \in Seq(Rationals) /\ Len(col) = h /\ col # <<>>
  /\ \A i \in 1 .. h : col[i] = rows[i][c]

LEMMA ColumnIs ==
  \A rows, h, m : Matrix(Rationals, rows, h, m) =>
    \A c \in 1 .. m : ColumnOf(Column(rows, c), rows, h, c)
<1> SUFFICES ASSUME NEW rows, NEW h, NEW m, Matrix(Rationals, rows, h, m), NEW c \in 1 .. m
             PROVE  ColumnOf(Column(rows, c), rows, h, c)
  OBVIOUS
<1>1. h \in Nat \ {0} /\ DOMAIN rows = 1 .. h /\ \A i \in 1 .. h : rows[i][c] \in Rationals
  BY DEF Matrix
<1>2. Column(rows, c) = [i \in 1 .. h |-> rows[i][c]]
  BY <1>1 DEF Column
<1>3. \A i \in 1 .. h : Column(rows, c)[i] = rows[i][c]
  BY <1>2
<1>4. Column(rows, c) \in Seq(Rationals) /\ Len(Column(rows, c)) = h
  <2>1. Column(rows, c) = [i \in 1 .. h |-> Column(rows, c)[i]]
    BY <1>2
  <2>2. \A i \in 1 .. h : Column(rows, c)[i] \in Rationals
    BY <1>1, <1>3
  <2> QED
    BY <1>1, <2>1, <2>2, Listed
<1> QED
  BY <1>1, <1>3, <1>4 DEF ColumnOf

\* R-hat is undefined where all is the same, infinite where each column is stuck,
\* and a positive number otherwise.
LEMMA RHatBasicIs ==
  \A rows, h, m : Matrix(Rationals, rows, h, m) /\ h >= 2 /\ m >= 2 =>
    RHatOf(RHatBasic(rows), ColumnsStuck(rows, h, m), AllSame(rows, h, m))
<1> SUFFICES ASSUME NEW rows, NEW h, NEW m, Matrix(Rationals, rows, h, m), h >= 2, m >= 2
             PROVE  RHatOf(RHatBasic(rows), ColumnsStuck(rows, h, m), AllSame(rows, h, m))
  OBVIOUS
<1> DEFINE stuck == ColumnsStuck(rows, h, m)
           same == AllSame(rows, h, m)
           columns == [c \in DOMAIN rows[1] |-> Column(rows, c)]
           means == [c \in DOMAIN columns |-> ColMean(columns[c])]
           vs == [c \in DOMAIN columns |-> ColVariance(columns[c], means[c])]
           within == ColMean(vs)
           spread == ColVariance(means, ColMean(means))
           between == Times(Count(Len(rows)), spread)
<1>1. /\ h \in Nat \ {0} /\ m \in Nat \ {0} /\ Len(rows) = h /\ DOMAIN rows[1] = 1 .. m
      /\ h - 1 \in Nat \ {0} /\ h \in Int /\ h - 1 \in Int /\ h \in Nat
  BY DEF Matrix
<1>2. RHatBasic(rows) = IF within = Zero
                          THEN IF Less(Zero, between) THEN Inf ELSE NA
                          ELSE Over(Plus(Over(between, within), Count(Len(rows) - 1)), Count(Len(rows)))
  BY Zenon DEF RHatBasic
<1>3. ASSUME NEW c \in 1 .. m
      PROVE  /\ columns[c] \in Seq(Rationals) /\ Len(columns[c]) = h /\ columns[c] # <<>>
             /\ \A i \in 1 .. h : columns[c][i] = rows[i][c]
  <2>1. columns[c] = Column(rows, c)
    BY <1>1
  <2>2. ColumnOf(Column(rows, c), rows, h, c)
    BY ColumnIs, Zenon
  <2> HIDE DEF columns
  <2> QED
    BY <2>1, <2>2, Zenon DEF ColumnOf
<1>4. DOMAIN columns = 1 .. m
  BY <1>1
<1> HIDE DEF columns
<1>5. ASSUME NEW c \in 1 .. m
      PROVE  /\ means[c] \in Rationals
             /\ (\A i \in 1 .. h : rows[i][c] = rows[1][c]) => means[c] = rows[1][c]
  <2>1. means[c] = ColMean(columns[c])
    BY <1>4
  <2>2. MeanOf(means[c], columns[c])
    BY <1>3, <2>1, MeanIs
  <2>3. 1 \in 1 .. h /\ h = Len(columns[c])
    BY <1>1, <1>3
  <2> QED
    BY <1>3, <2>2, <2>3, Zenon DEF MeanOf
<1>6. means \in Seq(Rationals) /\ Len(means) = m
  <2>1. means = [c \in 1 .. m |-> means[c]]
    BY <1>4
  <2> HIDE DEF means
  <2> QED
    BY <1>1, <1>5, <2>1, Listed
<1>7. ASSUME NEW c \in 1 .. m
      PROVE  /\ vs[c] \in Rationals /\ AtMost(Zero, vs[c])
             /\ vs[c] = Zero <=> \A i \in 1 .. h : rows[i][c] = rows[1][c]
  <2>1. vs[c] = ColVariance(columns[c], ColMean(columns[c]))
    BY <1>4
  <2>2. Varies(vs[c], columns[c])
    BY <1>1, <1>3, <2>1, VarianceAboutMean
  <2>3. 1 \in 1 .. h /\ h = Len(columns[c])
    BY <1>1, <1>3
  <2> QED
    BY <1>3, <2>2, <2>3, Zenon DEF Varies
<1>8. vs \in Seq(Rationals) /\ Len(vs) = m
  <2>1. vs = [c \in 1 .. m |-> vs[c]]
    BY <1>4
  <2> HIDE DEF vs
  <2> QED
    BY <1>1, <1>7, <2>1, Listed
<1> HIDE DEF means, vs
<1>9. within \in Rationals /\ AtMost(Zero, within) /\ (within = Zero <=> stuck)
  <2>1. ZeroIffZeros(SumOf(vs), vs)
    <3>1. NonNegatives(vs)
      BY <1>7, <1>8 DEF NonNegatives
    <3> QED
      BY <3>1, NonNegativeSum, Zenon
  <2>2. SumOf(vs) \in Rationals /\ AtMost(Zero, SumOf(vs)) /\ (SumOf(vs) = Zero <=> stuck)
    BY <1>7, <1>8, <2>1, Zenon DEF ZeroIffZeros, ColumnsStuck
  <2>3. Count(m) \in Rationals /\ Less(Zero, Count(m))
    BY <1>1, CountIs
  <2>4. within = Over(SumOf(vs), Count(m))
    BY <1>8, Zenon DEF ColMean
  <2> HIDE DEF stuck, within
  <2> QED
    BY <2>2, <2>3, <2>4, ZeroOver, Zenon
<1>10. /\ spread \in Rationals /\ AtMost(Zero, spread)
       /\ spread = Zero <=> \A c \in 1 .. m : means[c] = means[1]
  <2>1. Varies(spread, means)
    BY <1>6, VarianceAboutMean
  <2> QED
    BY <1>6, <2>1, Zenon DEF Varies
<1> HIDE DEF spread, within
<1>11. Count(h) \in Rationals /\ Less(Zero, Count(h)) /\ Count(h - 1) \in Rationals /\ Less(Zero, Count(h - 1))
  BY <1>1, CountIs, Zenon
<1>12. /\ between \in Rationals /\ AtMost(Zero, between)
       /\ Less(Zero, between) <=> \E c \in 1 .. m : means[c] # means[1]
  <2>1. between = Times(Count(h), spread)
    BY <1>1
  <2>2. between \in Rationals
    BY <1>10, <1>11, <2>1, Closed
  <2>3. CASE spread = Zero
    <3>1. between = Zero /\ Zero \in Rationals
      BY <1>11, <2>1, <2>3, Units, ZeroOne
    <3>2. AtMost(Zero, between) /\ ~Less(Zero, between)
      BY <3>1, LessIs
    <3> QED
      BY <1>10, <2>2, <2>3, <3>2
  <2>4. CASE spread # Zero
    <3>1. Less(Zero, spread)
      BY <1>10, <2>4, ZeroOne, LessIs
    <3>2. Less(Zero, between)
      BY <1>10, <1>11, <2>1, <3>1, Positives
    <3> QED
      BY <1>10, <2>2, <2>4, <3>2, ZeroOne, LessIs
  <2> QED
    BY <2>3, <2>4
<1> HIDE DEF between
<1>13. CASE stuck
  <2>1. \A c \in 1 .. m : means[c] = rows[1][c]
    BY <1>5, <1>13 DEF ColumnsStuck
  <2>2. same <=> \A c \in 1 .. m : means[c] = means[1]
    <3>1. 1 \in 1 .. m /\ 1 \in 1 .. h
      BY <1>1
    <3> QED
      BY <1>13, <2>1, <3>1 DEF AllSame, ColumnsStuck
  <2>3. RHatBasic(rows) = IF Less(Zero, between) THEN Inf ELSE NA
    BY <1>2, <1>9, <1>13
  <2>4. CASE same
    <3>1. RHatBasic(rows) = NA
      BY <1>12, <2>2, <2>3, <2>4
    <3> QED
      BY <2>4, <3>1, NANoNumber DEF RHatOf
  <2>5. CASE ~same
    <3>1. RHatBasic(rows) = Inf
      BY <1>12, <2>2, <2>3, <2>5
    <3> QED
      BY <1>13, <2>5, <3>1, NANoNumber DEF RHatOf
  <2> QED
    BY <2>4, <2>5
<1>14. CASE ~stuck
  <2>1. ~same
    <3>1. 1 \in 1 .. m /\ 1 \in 1 .. h
      BY <1>1
    <3> QED
      BY <1>14, <3>1 DEF AllSame, ColumnsStuck
  <2>2. within # Zero /\ Less(Zero, within)
    BY <1>9, <1>14, ZeroOne, LessIs
  <2>3. Over(between, within) \in Rationals /\ AtMost(Zero, Over(between, within))
    BY <1>9, <1>12, <2>2, ZeroOver, Zenon
  <2> DEFINE top == Plus(Over(between, within), Count(h - 1))
  <2>4. top \in Rationals /\ Less(Zero, top)
    BY <1>11, <2>3, Closed, Positives
  <2>5. RHatBasic(rows) = Over(top, Count(h))
    BY <1>1, <1>2, <2>2
  <2> HIDE DEF top
  <2>6. RHatBasic(rows) \in Rationals /\ Less(Zero, RHatBasic(rows))
    BY <1>11, <2>4, <2>5, Closed, Positives
  <2>7. RHatBasic(rows) # NA /\ RHatBasic(rows) # Inf
    BY <2>6, NANoNumber, DoublesFinite
  <2> QED
    BY <1>14, <2>1, <2>6, <2>7 DEF RHatOf
<1> QED
  BY <1>13, <1>14

(***************************************************************************)
(* Counting positions, and the entry that comes k-th.                      *)
(***************************************************************************)
(***************************************************************************)
(* Sets of positions, and the least and greatest in an order.              *)
(***************************************************************************)
Sizes(n, I) == IsFiniteSet(I) /\ Cardinality(I) \in 0 .. n /\ (I = {} <=> Cardinality(I) = 0)

LEMMA PositionSets ==
  \A n \in Nat : \A I, J \in SUBSET (1 .. n) :
    /\ Sizes(n, I)
    /\ I \subseteq J => Cardinality(I) <= Cardinality(J)
    /\ I \cap J = {} => Cardinality(I \cup J) = Cardinality(I) + Cardinality(J)
<1> TAKE n \in Nat
<1> TAKE I, J \in SUBSET (1 .. n)
<1>1. IsFiniteSet(1 .. n) /\ Cardinality(1 .. n) = n
  BY FS_Interval
<1>2. /\ IsFiniteSet(I) /\ IsFiniteSet(J) /\ Cardinality(I) <= n
      /\ Cardinality(I) \in Nat /\ Cardinality(J) \in Nat
  BY <1>1, FS_Subset, FS_CardinalityType
<1>3. Sizes(n, I)
  <2>1. I = {} <=> Cardinality(I) = 0
    BY <1>2, FS_EmptySet, Zenon
  <2>2. Cardinality(I) \in 0 .. n
    BY <1>2
  <2> QED
    BY <1>2, <2>1, <2>2, Zenon DEF Sizes
<1>4. I \subseteq J => Cardinality(I) <= Cardinality(J)
  BY <1>2, FS_Subset
<1>5. ASSUME I \cap J = {} PROVE Cardinality(I \cup J) = Cardinality(I) + Cardinality(J)
  <2>1. Cardinality(I \cup J) = Cardinality(I) + Cardinality(J) - Cardinality(I \cap J)
    BY <1>2, FS_Union
  <2>2. Cardinality(I \cap J) = 0
    BY <1>5, FS_EmptySet, Zenon
  <2> QED
    BY <1>2, <2>1, <2>2
<1> QED
  BY <1>3, <1>4, <1>5

\* A strict total order on S, as a set of pairs.
IsOrder(S, B) ==
  /\ \A x, y \in S : <<x, y>> \in B => <<y, x>> \notin B
  /\ \A x, y, z \in S : <<x, y>> \in B /\ <<y, z>> \in B => <<x, z>> \in B
  /\ \A x, y \in S : x = y \/ <<x, y>> \in B \/ <<y, x>> \in B

LEMMA LeastPosition ==
  ASSUME NEW S, NEW B, IsOrder(S, B), NEW N \in Nat, NEW f \in [1 .. N -> S],
         NEW I \in SUBSET (1 .. N), I # {}
  PROVE  \E i \in I : \A j \in I : <<f[j], f[i]>> \notin B
<1> DEFINE Good(J) == \E i \in J : \A j \in J : <<f[j], f[i]>> \notin B
           T == {n \in Nat : n <= N => \A J \in SUBSET (1 .. n) : J # {} => Good(J)}
<1>1. 0 \in T
  <2>1. \A J \in SUBSET (1 .. 0) : J = {}
    OBVIOUS
  <2> QED
    BY <2>1
<1>2. ASSUME NEW n \in Nat, n \in T PROVE n + 1 \in T
  <2> SUFFICES ASSUME n + 1 <= N, NEW J \in SUBSET (1 .. n + 1), J # {} PROVE Good(J)
    OBVIOUS
  <2>1. \A i \in J : f[i] \in S
    OBVIOUS
  <2>2. J \ {n + 1} \in SUBSET (1 .. n)
    OBVIOUS
  <2>3. CASE J \ {n + 1} = {}
    <3>1. J = {n + 1}
      BY <2>3
    <3> QED
      BY <2>1, <3>1 DEF IsOrder
  <2>4. CASE J \ {n + 1} # {} /\ n + 1 \in J
    <3>1. PICK i \in J \ {n + 1} : \A j \in J \ {n + 1} : <<f[j], f[i]>> \notin B
      <4>1. J \ {n + 1} # {} /\ n <= N
        BY <2>4
      <4> HIDE DEF Good
      <4>2. Good(J \ {n + 1})
        BY <1>2, <2>2, <4>1
      <4> QED
        BY <4>2 DEF Good
    <3>2. CASE <<f[n + 1], f[i]>> \in B
      <4>1. \A j \in J : <<f[j], f[n + 1]>> \notin B
        <5> TAKE j \in J
        <5>1. CASE j = n + 1
          BY <2>1, <2>4, <5>1 DEF IsOrder
        <5>2. CASE j # n + 1
          BY <2>1, <2>4, <3>1, <3>2, <5>2 DEF IsOrder
        <5> QED
          BY <5>1, <5>2
      <4> QED
        BY <2>4, <4>1
    <3>3. CASE <<f[n + 1], f[i]>> \notin B
      BY <3>1, <3>3
    <3> QED
      BY <3>2, <3>3
  <2>5. CASE n + 1 \notin J
    <3>1. J \in SUBSET (1 .. n)
      BY <2>2, <2>5
    <3> QED
      BY <1>2, <3>1
  <2> QED
    BY <2>3, <2>4, <2>5
<1>3. N \in T
  <2> HIDE DEF T
  <2>1. Nat \subseteq T
    BY <1>1, <1>2, Induction
  <2> QED
    BY <2>1
<1> QED
  BY <1>3

LEMMA GreatestPosition ==
  ASSUME NEW S, NEW B, IsOrder(S, B), NEW N \in Nat, NEW f \in [1 .. N -> S],
         NEW I \in SUBSET (1 .. N), I # {}
  PROVE  \E i \in I : \A j \in I : <<f[i], f[j]>> \notin B
<1> DEFINE R == {p \in S \X S : <<p[2], p[1]>> \in B}
<1>1. \A x, y \in S : <<x, y>> \in R <=> <<y, x>> \in B
  OBVIOUS
<1> HIDE DEF R
<1>2. IsOrder(S, R)
  BY <1>1 DEF IsOrder
<1>3. PICK i \in I : \A j \in I : <<f[j], f[i]>> \notin R
  BY <1>2, LeastPosition
<1> QED
  BY <1>1, <1>3

\* Fewer than k entries are before x, and k or more are not after it.
Kth(B, f, n, k, x) ==
  /\ \E i \in 1 .. n : x = f[i]
  /\ Cardinality({i \in 1 .. n : <<f[i], x>> \in B}) < k
  /\ Cardinality({i \in 1 .. n : <<x, f[i]>> \notin B}) >= k

LEMMA KthExists ==
  ASSUME NEW S, NEW B, IsOrder(S, B), NEW N \in Nat, NEW f \in [1 .. N -> S], NEW k \in 1 .. N
  PROVE  \E x : Kth(B, f, N, k, x)
<1> DEFINE NotAfter(i) == {j \in 1 .. N : <<f[i], f[j]>> \notin B}
           I == {i \in 1 .. N : Cardinality(NotAfter(i)) >= k}
<1>1. I # {}
  <2>1. 1 .. N \in SUBSET (1 .. N) /\ 1 .. N # {}
    OBVIOUS
  <2>2. PICK i \in 1 .. N : \A j \in 1 .. N : <<f[i], f[j]>> \notin B
    BY <2>1, GreatestPosition
  <2>3. NotAfter(i) = 1 .. N
    BY <2>2
  <2>4. Cardinality(1 .. N) = N
    BY FS_Interval
  <2>5. Cardinality(NotAfter(i)) >= k
    <3> HIDE DEF NotAfter
    <3> QED
      BY <2>3, <2>4
  <2> QED
    BY <2>5
<1>2. PICK i \in I : \A j \in I : <<f[j], f[i]>> \notin B
  <2>1. I \in SUBSET (1 .. N)
    OBVIOUS
  <2> HIDE DEF I
  <2> QED
    BY <1>1, <2>1, LeastPosition
<1> DEFINE J == {j \in 1 .. N : <<f[j], f[i]>> \in B}
<1>3. J \in SUBSET (1 .. N) /\ Cardinality(J) \in Nat
  <2>1. J \in SUBSET (1 .. N)
    OBVIOUS
  <2> HIDE DEF J
  <2> QED
    BY <2>1, PositionSets DEF Sizes
<1>4. ASSUME Cardinality(J) >= k PROVE FALSE
  <2>1. J # {}
    <3> HIDE DEF J
    <3>1. Cardinality({}) = 0
      BY FS_EmptySet
    <3>2. J = {} => Cardinality(J) = 0
      BY <3>1
    <3> QED
      BY <1>4, <3>2
  <2>2. PICK j \in J : \A l \in J : <<f[j], f[l]>> \notin B
    <3> HIDE DEF J
    <3> QED
      BY <1>3, <2>1, GreatestPosition
  <2>3. J \subseteq NotAfter(j) /\ NotAfter(j) \in SUBSET (1 .. N)
    BY <2>2
  <2>4. Cardinality(J) <= Cardinality(NotAfter(j)) /\ Cardinality(NotAfter(j)) \in Nat
    <3> HIDE DEF J, NotAfter
    <3>1. Sizes(N, NotAfter(j)) /\ Cardinality(J) <= Cardinality(NotAfter(j))
      BY <1>3, <2>3, PositionSets, Zenon
    <3> QED
      BY <3>1 DEF Sizes
  <2>5. j \in I
    <3>1. j \in 1 .. N /\ Cardinality(NotAfter(j)) >= k
      <4> HIDE DEF NotAfter
      <4> QED
        BY <1>3, <1>4, <2>4
    <3> QED
      BY <3>1
  <2> QED
    BY <1>2, <2>2, <2>5
<1>5. Cardinality(J) < k
  <2> HIDE DEF J
  <2> QED
    BY <1>3, <1>4
<1>6. Kth(B, f, N, k, f[i])
  BY <1>5 DEF Kth
<1> QED
  BY <1>6

\* Sorting integers, and finite doubles.
LEMMA SortedIntegers ==
  ASSUME NEW xs \in Seq(Int), NEW k \in 1 .. Len(xs)
  PROVE  Sorted(xs, <)[k] \in Int
<1> DEFINE B == {p \in Int \X Int : p[1] < p[2]}
           N == Len(xs)
           Placed(x) == /\ Cardinality({i \in DOMAIN xs : xs[i] < x}) < k
                        /\ Cardinality({i \in DOMAIN xs : ~(x < xs[i])}) >= k
<1>1. IsOrder(Int, B)
  BY DEF IsOrder
<1>2. N \in Nat /\ DOMAIN xs = 1 .. N /\ xs \in [1 .. N -> Int] /\ \A i \in 1 .. N : xs[i] \in Int
  OBVIOUS
<1>3. PICK x : Kth(B, xs, N, k, x)
  <2> HIDE DEF B, N
  <2>1. k \in 1 .. N
    BY DEF N
  <2> QED
    BY <1>1, <1>2, <2>1, KthExists
<1>4. x \in ToSet(xs) /\ x \in Int
  BY <1>2, <1>3 DEF Kth, ToSet
<1>5. Placed(x)
  <2>1. {i \in 1 .. N : <<xs[i], x>> \in B} = {i \in DOMAIN xs : xs[i] < x}
    BY <1>2, <1>4
  <2>2. {i \in 1 .. N : <<x, xs[i]>> \notin B} = {i \in DOMAIN xs : ~(x < xs[i])}
    BY <1>2, <1>4
  <2> QED
    BY <1>3, <2>1, <2>2 DEF Kth
<1>6. Sorted(xs, <)[k] = CHOOSE y \in ToSet(xs) : Placed(y)
  BY <1>2 DEF Sorted
<1>7. Sorted(xs, <)[k] \in ToSet(xs)
  <2> HIDE DEF Placed
  <2> QED
    BY <1>4, <1>5, <1>6
<1> QED
  BY <1>2, <1>7 DEF ToSet

(***************************************************************************)
(* Ranks, distances from the median and half chains (Fit).                 *)
(***************************************************************************)
EntriesOf(xs, rows, h, m) ==
  /\ xs \in Seq(Int)
  /\ Len(xs) = h * m
  /\ \A i \in 1 .. h, c \in 1 .. m : (i - 1) * m + c \in 1 .. h * m /\ xs[(i - 1) * m + c] = rows[i][c]

LEMMA EntriesAt == \A rows, h, m : Matrix(Int, rows, h, m) => EntriesOf(Entries(rows), rows, h, m)
<1> SUFFICES ASSUME NEW rows, NEW h, NEW m, Matrix(Int, rows, h, m)
             PROVE  EntriesOf(Entries(rows), rows, h, m)
  OBVIOUS
<1>1. h \in Nat /\ m \in Nat /\ rows = [i \in 1 .. h |-> rows[i]] /\ \A i \in 1 .. h : rows[i] \in [1 .. m -> Int]
  BY DEF Matrix
<1>2. \A i \in 1 .. h : rows[i] \in Seq(Int) /\ Len(rows[i]) = m
  <2> TAKE i \in 1 .. h
  <2>1. rows[i] = [c \in 1 .. m |-> rows[i][c]] /\ \A c \in 1 .. m : rows[i][c] \in Int
    BY <1>1
  <2> QED
    BY <1>1, <2>1, Listed, Zenon
<1>3. rows \in Seq(Seq(Int)) /\ Len(rows) = h
  BY <1>1, <1>2, Listed, Zenon
<1>4. /\ Entries(rows) \in Seq(Int) /\ Len(Entries(rows)) = h * m
      /\ \A i \in 1 .. h, c \in 1 .. m :
           (i - 1) * m + c \in 1 .. h * m /\ Entries(rows)[(i - 1) * m + c] = rows[i][c]
  <2>1. \A i \in 1 .. Len(rows) : Len(rows[i]) = m
    BY <1>2, <1>3
  <2>2. /\ FlattenSeq(rows) \in Seq(Int) /\ Len(FlattenSeq(rows)) = Len(rows) * m
        /\ \A i \in 1 .. Len(rows), c \in 1 .. m :
             (i - 1) * m + c \in 1 .. Len(rows) * m /\ FlattenSeq(rows)[(i - 1) * m + c] = rows[i][c]
    BY <1>1, <1>3, <2>1, IntsFlat, Zenon
  <2> QED
    BY <1>3, <2>2, Zenon DEF Entries
<1> QED
  BY <1>4 DEF EntriesOf

\* Entries below a number, and at it.
BelowAt(xs, v) == {e \in DOMAIN xs : xs[e] < v}
EqualAt(xs, v) == {e \in DOMAIN xs : xs[e] = v}
Score(xs, v) == Count(2 * Cardinality(BelowAt(xs, v)) + Cardinality(EqualAt(xs, v)) + 1)

LEMMA ScoreGrows ==
  ASSUME NEW xs \in Seq(Int), NEW v \in Int, NEW w \in Int, v < w, \E e \in 1 .. Len(xs) : xs[e] = v
  PROVE  Score(xs, v) # Score(xs, w)
<1> DEFINE N == Len(xs)
           p == Cardinality(BelowAt(xs, v))
           q == Cardinality(EqualAt(xs, v))
           r == Cardinality(BelowAt(xs, w))
           s == Cardinality(EqualAt(xs, w))
<1>1. N \in Nat /\ DOMAIN xs = 1 .. N /\ \A e \in 1 .. N : xs[e] \in Int
  OBVIOUS
<1>2. /\ BelowAt(xs, v) \in SUBSET (1 .. N) /\ EqualAt(xs, v) \in SUBSET (1 .. N)
      /\ BelowAt(xs, w) \in SUBSET (1 .. N) /\ EqualAt(xs, w) \in SUBSET (1 .. N)
      /\ BelowAt(xs, v) \cap EqualAt(xs, v) = {} /\ EqualAt(xs, v) # {}
      /\ BelowAt(xs, v) \cup EqualAt(xs, v) \subseteq BelowAt(xs, w)
      /\ BelowAt(xs, v) \cup EqualAt(xs, v) \in SUBSET (1 .. N)
  BY <1>1 DEF BelowAt, EqualAt
<1> HIDE DEF N
<1>3. p \in Nat /\ q \in Nat /\ r \in Nat /\ s \in Nat /\ q # 0
  <2>1. Sizes(N, BelowAt(xs, v)) /\ Sizes(N, EqualAt(xs, v)) /\ Sizes(N, BelowAt(xs, w)) /\ Sizes(N, EqualAt(xs, w))
    BY <1>1, <1>2, PositionSets, Zenon
  <2> QED
    BY <1>1, <1>2, <2>1 DEF Sizes
<1>4. p + q <= r
  <2>1. Cardinality(BelowAt(xs, v) \cup EqualAt(xs, v)) = p + q
    BY <1>1, <1>2, PositionSets, Zenon
  <2>2. Cardinality(BelowAt(xs, v) \cup EqualAt(xs, v)) <= r
    BY <1>1, <1>2, PositionSets, Zenon
  <2> QED
    BY <2>1, <2>2
<1> HIDE DEF p, q, r, s
<1>5. 2 * p + q + 1 \in Int /\ 2 * r + s + 1 \in Int /\ 2 * p + q + 1 # 2 * r + s + 1
  BY ONLY <1>3, <1>4
<1>6. Count(2 * p + q + 1) # Count(2 * r + s + 1)
  BY <1>5, CountIs
<1> QED
  BY <1>6 DEF Score, p, q, r, s

LEMMA ScoreIs ==
  ASSUME NEW xs \in Seq(Int)
  PROVE  /\ \A v : Score(xs, v) \in Rationals
         /\ \A d, e \in 1 .. Len(xs) : Score(xs, xs[d]) = Score(xs, xs[e]) <=> xs[d] = xs[e]
<1>1. ASSUME NEW v PROVE Score(xs, v) \in Rationals
  <2>1. Len(xs) \in Nat /\ BelowAt(xs, v) \in SUBSET (1 .. Len(xs)) /\ EqualAt(xs, v) \in SUBSET (1 .. Len(xs))
    BY DEF BelowAt, EqualAt
  <2>2. Sizes(Len(xs), BelowAt(xs, v)) /\ Sizes(Len(xs), EqualAt(xs, v))
    BY <2>1, PositionSets, Zenon
  <2>3. 2 * Cardinality(BelowAt(xs, v)) + Cardinality(EqualAt(xs, v)) + 1 \in Int
    BY <2>2 DEF Sizes
  <2> QED
    BY <2>3, CountIs DEF Score
<1>2. ASSUME NEW d \in 1 .. Len(xs), NEW e \in 1 .. Len(xs), xs[d] # xs[e]
      PROVE  Score(xs, xs[d]) # Score(xs, xs[e])
  <2>1. xs[d] \in Int /\ xs[e] \in Int
    BY EntriesIn
  <2>2. CASE xs[d] < xs[e]
    BY <2>1, <2>2, ScoreGrows
  <2>3. CASE xs[e] < xs[d]
    <3>1. Score(xs, xs[e]) # Score(xs, xs[d])
      BY <2>1, <2>3, ScoreGrows
    <3> QED
      BY <3>1
  <2> QED
    BY <1>2, <2>1, <2>2, <2>3
<1> QED
  BY <1>1, <1>2

\* The ranks agree where the draws do.
Ranked(z, rows, h, m) ==
  /\ Matrix(Rationals, z, h, m)
  /\ ColumnsStuck(z, h, m) <=> ColumnsStuck(rows, h, m)
  /\ AllSame(z, h, m) <=> AllSame(rows, h, m)

LEMMA RanksAgree == \A rows, h, m : Matrix(Int, rows, h, m) => Ranked(ZScale(rows), rows, h, m)
<1> SUFFICES ASSUME NEW rows, NEW h, NEW m, Matrix(Int, rows, h, m)
             PROVE  Ranked(ZScale(rows), rows, h, m)
  OBVIOUS
<1> DEFINE xs == Entries(rows)
           z == ZScale(rows)
<1>1. h \in Nat \ {0} /\ m \in Nat \ {0} /\ DOMAIN rows = 1 .. h /\ \A i \in 1 .. h : DOMAIN rows[i] = 1 .. m
  BY DEF Matrix
<1>2. EntriesOf(xs, rows, h, m)
  BY EntriesAt
<1>3. xs \in Seq(Int) /\ Len(xs) = h * m
  BY <1>2 DEF EntriesOf
<1>4. ASSUME NEW i \in 1 .. h, NEW c \in 1 .. m
      PROVE  \E e \in 1 .. Len(xs) : xs[e] = rows[i][c]
  BY <1>2, <1>3 DEF EntriesOf
<1>5. z = [i \in 1 .. h |-> [c \in 1 .. m |-> Score(xs, rows[i][c])]]
  <2>1. z = [i \in DOMAIN rows |-> [c \in DOMAIN rows[i] |-> Score(xs, rows[i][c])]]
    BY DEF ZScale, Score, BelowAt, EqualAt
  <2> HIDE DEF z, xs
  <2> QED
    BY <1>1, <2>1
<1> HIDE DEF xs, z
<1>6. \A i \in 1 .. h, c \in 1 .. m : z[i][c] = Score(xs, rows[i][c]) /\ z[i][c] \in Rationals
  BY <1>3, <1>5, ScoreIs
<1>7. Matrix(Rationals, z, h, m)
  BY <1>1, <1>5, <1>6 DEF Matrix
<1>8. ASSUME NEW i \in 1 .. h, NEW c \in 1 .. m, NEW j \in 1 .. h, NEW d \in 1 .. m
      PROVE  z[i][c] = z[j][d] <=> rows[i][c] = rows[j][d]
  <2>1. PICK e \in 1 .. Len(xs) : xs[e] = rows[i][c]
    BY <1>4
  <2>2. PICK g \in 1 .. Len(xs) : xs[g] = rows[j][d]
    BY <1>4
  <2>3. Score(xs, xs[e]) = Score(xs, xs[g]) <=> xs[e] = xs[g]
    BY <1>3, ScoreIs
  <2> QED
    BY <1>6, <2>1, <2>2, <2>3
<1>9. 1 \in 1 .. h /\ 1 \in 1 .. m
  BY <1>1
<1>10. ColumnsStuck(z, h, m) <=> ColumnsStuck(rows, h, m)
  <2>1. \A c \in 1 .. m : \A i \in 1 .. h : z[i][c] = z[1][c] <=> rows[i][c] = rows[1][c]
    BY <1>8, <1>9
  <2> QED
    BY <2>1, Zenon DEF ColumnsStuck
<1>11. AllSame(z, h, m) <=> AllSame(rows, h, m)
  <2>1. \A c \in 1 .. m : \A i \in 1 .. h : z[i][c] = z[1][1] <=> rows[i][c] = rows[1][1]
    BY <1>8, <1>9
  <2> QED
    BY <2>1, Zenon DEF AllSame
<1> QED
  BY <1>7, <1>10, <1>11 DEF Ranked, z

\* Twice the distances from the median.
Distance(x, median2) == IF 2 * x - median2 < 0 THEN -(2 * x - median2) ELSE 2 * x - median2

Distances(f, rows, h, m, median2) ==
  /\ Matrix(Int, f, h, m)
  /\ \A i \in 1 .. h, c \in 1 .. m : f[i][c] = Distance(rows[i][c], median2)

LEMMA FoldedIs ==
  \A rows, h, m : Matrix(Int, rows, h, m) => \E median2 \in Int : Distances(Folded(rows), rows, h, m, median2)
<1> SUFFICES ASSUME NEW rows, NEW h, NEW m, Matrix(Int, rows, h, m)
             PROVE  \E median2 \in Int : Distances(Folded(rows), rows, h, m, median2)
  OBVIOUS
<1> DEFINE ys == Entries(rows)
           xs == Sorted(ys, <)
           n == Len(xs)
           median2 == xs[(n + 1) \div 2] + xs[(n + 2) \div 2]
<1>1. h \in Nat \ {0} /\ m \in Nat \ {0} /\ DOMAIN rows = 1 .. h
      /\ \A i \in 1 .. h : DOMAIN rows[i] = 1 .. m /\ \A c \in 1 .. m : rows[i][c] \in Int
  BY DEF Matrix
<1>2. ys \in Seq(Int) /\ Len(ys) \in Nat \ {0}
  <2>1. EntriesOf(ys, rows, h, m)
    BY EntriesAt
  <2>2. h * m \in Nat \ {0}
    BY <1>1, ProductPositive
  <2> QED
    BY <2>1, <2>2 DEF EntriesOf
<1> HIDE DEF ys
<1>3. n = Len(ys)
  <2>1. DOMAIN ys = 1 .. Len(ys)
    BY <1>2
  <2> DEFINE P(k) == CHOOSE x \in ToSet(ys) :
                       /\ Cardinality({i \in DOMAIN ys : ys[i] < x}) < k
                       /\ Cardinality({i \in DOMAIN ys : ~(x < ys[i])}) >= k
  <2>2. xs = [k \in DOMAIN ys |-> xs[k]]
    <3>1. xs = [k \in DOMAIN ys |-> P(k)]
      BY DEF Sorted
    <3> HIDE DEF P, xs
    <3> QED
      BY <3>1
  <2>3. xs = [k \in 1 .. Len(ys) |-> xs[k]]
    BY <2>1, <2>2, Zenon
  <2> HIDE DEF xs, P
  <2> QED
    BY <1>2, <2>3
<1>4. \A k \in 1 .. n : xs[k] \in Int
  BY <1>2, <1>3, SortedIntegers
<1>5. Folded(rows) = [i \in DOMAIN rows |-> [c \in DOMAIN rows[i] |-> Distance(rows[i][c], median2)]]
  BY DEF Folded, Distance, ys
<1> HIDE DEF xs
<1>6. (n + 1) \div 2 \in 1 .. n /\ (n + 2) \div 2 \in 1 .. n
  <2> HIDE DEF n
  <2>1. n \in Nat \ {0}
    BY <1>2, <1>3
  <2> QED
    BY ONLY <2>1
<1>7. median2 \in Int
  BY <1>4, <1>6
<1> HIDE DEF median2
<1>8. Folded(rows) = [i \in 1 .. h |-> [c \in 1 .. m |-> Distance(rows[i][c], median2)]]
  BY <1>1, <1>5
<1>9. \A i \in 1 .. h, c \in 1 .. m : Distance(rows[i][c], median2) \in Int
  BY <1>1, <1>7 DEF Distance
<1>10. Matrix(Int, Folded(rows), h, m)
  BY <1>1, <1>8, <1>9 DEF Matrix
<1>11. \A i \in 1 .. h, c \in 1 .. m : Folded(rows)[i][c] = Distance(rows[i][c], median2)
  BY <1>8
<1>12. Distances(Folded(rows), rows, h, m, median2)
  BY <1>10, <1>11 DEF Distances
<1> QED
  BY <1>7, <1>12

LEMMA IntConcat ==
  \A a, b \in Seq(Int) :
    /\ a \o b \in Seq(Int) /\ Len(a \o b) = Len(a) + Len(b)
    /\ \A j \in 1 .. Len(a) : (a \o b)[j] = a[j]
    /\ \A j \in 1 .. Len(b) : (a \o b)[Len(a) + j] = b[j]
BY ConcatAt

SplitOf(s, rows, n, h, C) ==
  /\ Matrix(Int, s, h, C + C) /\ h >= 2
  /\ \A i \in 1 .. h, c \in 1 .. C :
       s[i][c] = rows[i][c] /\ s[i][C + c] = rows[n - h + i][c]

LEMMA SplitIs ==
  \A rows, n, C : Matrix(Int, rows, n, C) /\ n >= 4 =>
    SplitOf(SplitChains(rows), rows, n, n \div 2, C)
<1> SUFFICES ASSUME NEW rows, NEW n, NEW C, Matrix(Int, rows, n, C), n >= 4
             PROVE  SplitOf(SplitChains(rows), rows, n, n \div 2, C)
  OBVIOUS
<1> DEFINE h == n \div 2
           s == SplitChains(rows)
<1>1. n \in Nat \ {0} /\ C \in Nat \ {0} /\ \A i \in 1 .. n : rows[i] \in [1 .. C -> Int]
  BY DEF Matrix
<1>2. h \in Nat \ {0} /\ h >= 2 /\ \A i \in 1 .. h : i \in 1 .. n /\ n - h + i \in 1 .. n
  BY <1>1
<1>3. Len(rows) = n
  BY DEF Matrix
<1>4. s = [i \in 1 .. h |-> rows[i] \o rows[n - h + i]]
  BY <1>3 DEF SplitChains
<1> HIDE DEF h, s
<1>5. ASSUME NEW i \in 1 .. h
      PROVE  /\ s[i] \in [1 .. C + C -> Int]
             /\ \A c \in 1 .. C : s[i][c] = rows[i][c] /\ s[i][C + c] = rows[n - h + i][c]
  <2> DEFINE a == rows[i]
             b == rows[n - h + i]
  <2>1. a \in [1 .. C -> Int] /\ b \in [1 .. C -> Int]
    BY <1>1, <1>2
  <2>2. s[i] = a \o b
    BY <1>4
  <2> HIDE DEF a, b
  <2>3. a \in Seq(Int) /\ b \in Seq(Int) /\ Len(a) = C /\ Len(b) = C
    BY <1>1, <2>1
  <2>4. /\ a \o b \in Seq(Int) /\ Len(a \o b) = C + C
        /\ \A c \in 1 .. C : (a \o b)[c] = a[c] /\ (a \o b)[C + c] = b[c]
    <3>1. /\ a \o b \in Seq(Int) /\ Len(a \o b) = Len(a) + Len(b)
          /\ \A c \in 1 .. Len(a) : (a \o b)[c] = a[c]
          /\ \A c \in 1 .. Len(b) : (a \o b)[Len(a) + c] = b[c]
      BY <2>3, IntConcat, Zenon
    <3> QED
      BY <2>3, <3>1, Zenon
  <2>5. a \o b \in [1 .. C + C -> Int]
    <3>1. \A q \in Seq(Int) : q \in [1 .. Len(q) -> Int]
      OBVIOUS
    <3> QED
      BY <2>4, <3>1, Zenon
  <2> QED
    BY <2>2, <2>4, <2>5 DEF a, b
<1>6. Matrix(Int, s, h, C + C)
  <2>1. C + C \in Nat \ {0}
    BY <1>1
  <2>2. s \in [1 .. h -> [1 .. C + C -> Int]]
    BY <1>4, <1>5
  <2> QED
    BY <1>2, <2>1, <2>2 DEF Matrix
<1>7. SplitOf(s, rows, n, h, C)
  BY <1>2, <1>5, <1>6 DEF SplitOf
<1> QED
  BY <1>7 DEF s, h

\* The values a column takes.
Seen(s, h, d) == {s[i][d] : i \in 1 .. h}

LEMMA HalvesAreColumns ==
  ASSUME NEW rows, NEW n, NEW C, Matrix(Int, rows, n, C), n >= 4,
         NEW s, SplitOf(s, rows, n, n \div 2, C)
  PROVE  Halves(rows) = {Seen(s, n \div 2, d) : d \in 1 .. C + C}
<1> DEFINE h == n \div 2
           first == 1 .. h
           second == n - h + 1 .. n
           Of(js, c) == {rows[i][c] : i \in js}
<1>1. /\ n \in Nat \ {0} /\ C \in Nat \ {0} /\ DOMAIN rows[1] = 1 .. C /\ Len(rows) = n /\ h \in Nat
      /\ h <= n
  BY DEF Matrix
<1>2. Halves(rows) = {Of(js, c) : js \in {first, second}, c \in 1 .. C}
  BY <1>1 DEF Halves
<1>3. \A i \in 1 .. h, c \in 1 .. C : s[i][c] = rows[i][c] /\ s[i][C + c] = rows[n - h + i][c]
  BY Zenon DEF SplitOf
<1> HIDE DEF h
<1>4. ASSUME NEW c \in 1 .. C PROVE Of(first, c) = Seen(s, h, c)
  BY <1>3 DEF Seen
<1>5. ASSUME NEW c \in 1 .. C PROVE Of(second, c) = Seen(s, h, C + c)
  <2>1. \A j \in second : j - (n - h) \in 1 .. h /\ n - h + (j - (n - h)) = j
    BY <1>1
  <2>2. \A i \in 1 .. h : n - h + i \in second
    BY <1>1
  <2> HIDE DEF second
  <2>3. ASSUME NEW x \in Of(second, c) PROVE x \in Seen(s, h, C + c)
    <3>1. PICK j \in second : x = rows[j][c]
      OBVIOUS
    <3>2. PICK i \in 1 .. h : n - h + i = j
      BY <2>1
    <3> QED
      BY <1>3, <3>1, <3>2 DEF Seen
  <2>4. ASSUME NEW x \in Seen(s, h, C + c) PROVE x \in Of(second, c)
    BY <1>3, <2>2, <2>4 DEF Seen
  <2> QED
    BY <2>3, <2>4
<1>6. \A d \in 1 .. C + C : d \in 1 .. C \/ \E c \in 1 .. C : d = C + c
  <2> TAKE d \in 1 .. C + C
  <2>1. d \notin 1 .. C => d - C \in 1 .. C /\ d = C + (d - C)
    BY <1>1
  <2> QED
    BY <2>1
<1>7. \A c \in 1 .. C : c \in 1 .. C + C /\ C + c \in 1 .. C + C
  BY <1>1
<1> HIDE DEF Of, first, second
<1>8. \A hv \in Halves(rows) : \E d \in 1 .. C + C : hv = Seen(s, h, d)
  BY <1>2, <1>4, <1>5, <1>7
<1>9. \A d \in 1 .. C + C : Seen(s, h, d) \in Halves(rows)
  BY <1>2, <1>4, <1>5, <1>6
<1> QED
  BY <1>8, <1>9 DEF h

StuckHalves(hs)  == \A hv \in hs : Cardinality(hv) = 1
SingleValue(hs)  == Cardinality(UNION hs) = 1

LEMMA SeenFinite ==
  \A s : \A h \in Nat : \A d : IsFiniteSet(Seen(s, h, d))
<1> SUFFICES ASSUME NEW s, NEW h \in Nat, NEW d PROVE IsFiniteSet(Seen(s, h, d))
  OBVIOUS
<1> DEFINE g == [i \in 1 .. h |-> s[i][d]]
<1>1. g \in Surjection(1 .. h, Seen(s, h, d))
  BY DEF Surjection, Seen
<1>2. IsFiniteSet(1 .. h)
  BY FS_Interval
<1> HIDE DEF g
<1> QED
  BY <1>1, <1>2, FS_Surjection

LEMMA ColumnsFinite ==
  \A s : \A h, m \in Nat : IsFiniteSet(UNION {Seen(s, h, d) : d \in 1 .. m})
<1> SUFFICES ASSUME NEW s, NEW h \in Nat, NEW m \in Nat
             PROVE  IsFiniteSet(UNION {Seen(s, h, d) : d \in 1 .. m})
  OBVIOUS
<1> DEFINE U == {Seen(s, h, d) : d \in 1 .. m}
           g == [d \in 1 .. m |-> Seen(s, h, d)]
<1>1. g \in Surjection(1 .. m, U)
  BY DEF Surjection
<1>2. IsFiniteSet(1 .. m)
  BY FS_Interval
<1>3. \A u \in U : IsFiniteSet(u)
  BY SeenFinite
<1> HIDE DEF g, U
<1>4. IsFiniteSet(U)
  BY <1>1, <1>2, FS_Surjection
<1>5. IsFiniteSet(UNION U)
  BY <1>3, <1>4, FS_UNION
<1> QED
  BY <1>5 DEF U

\* One value, by counting and by comparing.
Told(hs, s, h, m) ==
  /\ IsFiniteSet(UNION hs)
  /\ StuckHalves(hs) <=> ColumnsStuck(s, h, m)
  /\ SingleValue(hs) <=> AllSame(s, h, m)

LEMMA HalvesTell ==
  ASSUME NEW s, NEW h \in Nat \ {0}, NEW m \in Nat \ {0},
         NEW hs, hs = {Seen(s, h, d) : d \in 1 .. m}
  PROVE  Told(hs, s, h, m)
<1>1. 1 \in 1 .. h /\ 1 \in 1 .. m /\ h \in Nat /\ m \in Nat
  OBVIOUS
<1>2. ASSUME NEW d \in 1 .. m
      PROVE  Cardinality(Seen(s, h, d)) = 1 <=> \A i \in 1 .. h : s[i][d] = s[1][d]
  <2>1. s[1][d] \in Seen(s, h, d)
    BY <1>1 DEF Seen
  <2>2. (\E x : Seen(s, h, d) = {x}) <=> \A i \in 1 .. h : s[i][d] = s[1][d]
    <3>1. ASSUME NEW x, Seen(s, h, d) = {x} PROVE \A i \in 1 .. h : s[i][d] = s[1][d]
      BY <1>1, <3>1 DEF Seen
    <3>2. ASSUME \A i \in 1 .. h : s[i][d] = s[1][d] PROVE Seen(s, h, d) = {s[1][d]}
      BY <1>1, <3>2 DEF Seen
    <3> QED
      BY <3>1, <3>2
  <2>3. IsFiniteSet(Seen(s, h, d))
    BY <1>1, SeenFinite
  <2> QED
    BY <2>2, <2>3, FS_Singleton, Zenon
<1>3. StuckHalves(hs) <=> ColumnsStuck(s, h, m)
  BY <1>2, Zenon DEF StuckHalves, ColumnsStuck
<1>4. \A x : x \in UNION hs <=> \E d \in 1 .. m : \E i \in 1 .. h : x = s[i][d]
  BY DEF Seen
<1>5. (\E x : UNION hs = {x}) <=> AllSame(s, h, m)
  <2>1. ASSUME NEW x, UNION hs = {x} PROVE AllSame(s, h, m)
    <3>1. \A d \in 1 .. m : \A i \in 1 .. h : s[i][d] = x
      BY <1>4, <2>1
    <3> QED
      BY <1>1, <3>1 DEF AllSame
  <2>2. ASSUME AllSame(s, h, m) PROVE UNION hs = {s[1][1]}
    <3>1. \A x : x \in UNION hs <=> x = s[1][1]
      BY <1>1, <1>4, <2>2 DEF AllSame
    <3> QED
      BY <3>1, Zenon
  <2> QED
    BY <2>1, <2>2
<1>6. IsFiniteSet(UNION hs)
  BY <1>1, ColumnsFinite
<1>7. SingleValue(hs) <=> AllSame(s, h, m)
  BY <1>5, <1>6, FS_Singleton, Zenon DEF SingleValue
<1> QED
  BY <1>3, <1>6, <1>7 DEF Told

\* R-hat of the ranks of the half chains.
LEMMA RankRHat ==
  \A rows, n, C : Matrix(Int, rows, n, C) /\ n >= 4 =>
    /\ IsFiniteSet(UNION Halves(rows))
    /\ RHatOf(RHatRank(rows), StuckHalves(Halves(rows)), SingleValue(Halves(rows)))
<1> SUFFICES ASSUME NEW rows, NEW n, NEW C, Matrix(Int, rows, n, C), n >= 4
             PROVE  /\ IsFiniteSet(UNION Halves(rows))
                    /\ RHatOf(RHatRank(rows), StuckHalves(Halves(rows)), SingleValue(Halves(rows)))
  OBVIOUS
<1> DEFINE h == n \div 2
           m == C + C
           s == SplitChains(rows)
<1>1. SplitOf(s, rows, n, h, C)
  BY SplitIs, Zenon
<1>2. Matrix(Int, s, h, m) /\ h \in Nat \ {0} /\ m \in Nat \ {0} /\ h >= 2 /\ m >= 2
  <2>1. C \in Nat \ {0} /\ n \in Nat
    BY DEF Matrix
  <2>2. Matrix(Int, s, h, m)
    BY <1>1, Zenon DEF SplitOf
  <2> HIDE DEF s
  <2> QED
    BY <2>1, <2>2
<1>3. Halves(rows) = {Seen(s, h, d) : d \in 1 .. m}
  BY <1>1, HalvesAreColumns
<1> HIDE DEF s, h, m
<1>4. Told(Halves(rows), s, h, m)
  BY <1>2, <1>3, HalvesTell
<1>5. Ranked(ZScale(s), s, h, m)
  BY <1>2, RanksAgree, Zenon
<1>6. RHatOf(RHatBasic(ZScale(s)), ColumnsStuck(ZScale(s), h, m), AllSame(ZScale(s), h, m))
  BY <1>2, <1>5, RHatBasicIs DEF Ranked
<1>7. RHatRank(rows) = RHatBasic(ZScale(s))
  BY Zenon DEF RHatRank, s
<1> QED
  BY <1>4, <1>5, <1>6, <1>7 DEF RHatOf, Ranked, Told

\* Every number is below the infinity.
LEMMA BelowInfinity ==
  /\ \A x \in Rationals : Less(x, Inf) /\ ~Less(Inf, x)
  /\ ~Less(Inf, Inf)
<1>1. Inf = <<1, 0>> /\ NaN = <<0, 0>>
  BY DoublesFinite
<1>2. ~Less(Inf, Inf)
  BY <1>1 DEF Less
<1>3. ASSUME NEW x \in Rationals PROVE Less(x, Inf) /\ ~Less(Inf, x)
  <2>1. x[1] \in Int /\ x[2] \in Nat \ {0} /\ IsFinite(x) /\ x # NaN /\ x # Inf
    BY RationalParts, DoublesFinite
  <2>2. Inf[1] = 1 /\ Inf[2] = 0 /\ ~IsFinite(Inf) /\ Inf # NaN
    BY <1>1, DoublesFinite
  <2>3. gcd[<<0, x[2]>>] = x[2] /\ gcd[<<x[2], 0>>] = x[2]
    <3>1. gcd[<<x[2], 0>>] = x[2]
      BY <2>1, GcdUnfolds
    <3> QED
      BY <2>1, <3>1, GcdCommutes
  <2>4. x[2] \div x[2] = 1 /\ 0 \div x[2] = 0
    <3>1. (x[2] * 1) \div x[2] = 1 /\ (x[2] * 0) \div x[2] = 0
      BY <2>1, ExactQuotient
    <3>2. x[2] * 1 = x[2] /\ x[2] * 0 = 0
      BY <2>1
    <3> QED
      BY <3>1, <3>2
  <2>5. Minus(Inf, x)[1] = 1
    <3> DEFINE y == Negative(x)
    <3>1. y[1] \in Int /\ y[2] = x[2] /\ IsFinite(y)
      BY <2>1 DEF Negative, IsFinite
    <3> HIDE DEF y
    <3>2. Plus(Inf, y) = Frac(1 * (x[2] \div x[2]) + y[1] * (0 \div x[2]), (0 \div x[2]) * x[2])
      BY <2>2, <2>3, <3>1 DEF Plus
    <3>3. 1 * (x[2] \div x[2]) + y[1] * (0 \div x[2]) = 1 /\ (0 \div x[2]) * x[2] = 0
      BY <2>1, <2>4, <3>1
    <3>4. Plus(Inf, y) = Frac(1, 0)
      BY <3>2, <3>3
    <3> QED
      BY <1>1, <3>4 DEF Minus, Inf, y
  <2>6. Minus(x, Inf)[1] = -1
    <3> DEFINE y == Negative(Inf)
    <3>1. y[1] = -1 /\ y[2] = 0 /\ ~IsFinite(y)
      BY <1>1 DEF Negative, IsFinite
    <3> HIDE DEF y
    <3>2. Plus(x, y) = Frac(x[1] * (0 \div x[2]) + (-1) * (x[2] \div x[2]), (x[2] \div x[2]) * 0)
      BY <2>1, <2>3, <3>1 DEF Plus
    <3>3. x[1] * (0 \div x[2]) + (-1) * (x[2] \div x[2]) = -1 /\ (x[2] \div x[2]) * 0 = 0
      BY <2>1, <2>4
    <3>4. Plus(x, y) = Frac(-1, 0)
      BY <3>2, <3>3
    <3>5. Frac(-1, 0) = <<-1, 0>>
      BY DEF Frac, Sign
    <3> QED
      BY <3>4, <3>5 DEF Minus, y
  <2> QED
    BY <2>1, <2>2, <2>5, <2>6 DEF Less, IsNaN
<1> QED
  BY <1>2, <1>3

\* The larger of two R-hats.
LEMMA LargerIs ==
  \A a, b, sa, ca, sb, cb :
    RHatOf(a, sa, ca) /\ RHatOf(b, sb, cb) =>
      /\ Larger(a, b) = NA <=> ca \/ cb
      /\ Larger(a, b) = Inf <=> Larger(a, b) # NA /\ (sa \/ sb)
      /\ Larger(a, b) \notin {NA, Inf} => Larger(a, b) \in Rationals /\ Less(Zero, Larger(a, b))
<1> SUFFICES ASSUME NEW a, NEW b, NEW sa, NEW ca, NEW sb, NEW cb,
                    RHatOf(a, sa, ca), RHatOf(b, sb, cb)
             PROVE  /\ Larger(a, b) = NA <=> ca \/ cb
                    /\ Larger(a, b) = Inf <=> Larger(a, b) # NA /\ (sa \/ sb)
                    /\ Larger(a, b) \notin {NA, Inf} => Larger(a, b) \in Rationals /\ Less(Zero, Larger(a, b))
  OBVIOUS
<1>1. CASE a = NA \/ b = NA
  <2>1. Larger(a, b) = NA
    BY <1>1 DEF Larger
  <2>2. ca \/ cb
    BY <1>1 DEF RHatOf
  <2> QED
    BY <2>1, <2>2, NANoNumber
<1>2. CASE a # NA /\ b # NA
  <2>1. ~ca /\ ~cb /\ (a = Inf <=> sa) /\ (b = Inf <=> sb)
    BY <1>2 DEF RHatOf
  <2>2. Larger(a, b) = IF Less(a, b) THEN b ELSE a
    BY <1>2 DEF Larger
  <2>3. Larger(a, b) # NA
    BY <1>2, <2>2
  <2>4. (a # Inf => a \in Rationals /\ Less(Zero, a)) /\ (b # Inf => b \in Rationals /\ Less(Zero, b))
    BY <1>2 DEF RHatOf
  <2>5. CASE a = Inf
    <3>1. ~Less(a, b)
      BY <2>4, <2>5, BelowInfinity
    <3> QED
      BY <2>1, <2>2, <2>3, <2>5, <3>1
  <2>6. CASE a # Inf /\ b = Inf
    <3>1. Less(a, b)
      BY <2>4, <2>6, BelowInfinity
    <3> QED
      BY <2>1, <2>2, <2>3, <2>6, <3>1
  <2>7. CASE a # Inf /\ b # Inf
    BY <2>1, <2>2, <2>3, <2>4, <2>7
  <2> QED
    BY <2>5, <2>6, <2>7
<1> QED
  BY <1>1, <1>2

\* Two numbers as far from the median are the same, or mirror images.
LEMMA FoldsOfThree ==
  ASSUME NEW rows, NEW n, NEW C, Matrix(Int, rows, n, C), n >= 4,
         SingleValue(Halves(Folded(rows)))
  PROVE  Cardinality(UNION Halves(rows)) <= 2
<1> DEFINE h == n \div 2
           m == C + C
           f == Folded(rows)
           s == SplitChains(rows)
           g == SplitChains(f)
<1>1. PICK median2 \in Int : Distances(f, rows, n, C, median2)
  BY FoldedIs
<1>2. Matrix(Int, f, n, C)
  BY <1>1 DEF Distances
<1>3. SplitOf(s, rows, n, h, C) /\ SplitOf(g, f, n, h, C)
  BY <1>2, SplitIs
<1>4. n \in Nat \ {0} /\ C \in Nat \ {0} /\ h \in Nat \ {0} /\ m \in Nat \ {0} /\ h <= n
  <2>1. n \in Nat \ {0} /\ C \in Nat \ {0}
    BY DEF Matrix
  <2> QED
    BY <2>1
<1>5. /\ Halves(rows) = {Seen(s, h, d) : d \in 1 .. m}
      /\ Halves(f) = {Seen(g, h, d) : d \in 1 .. m}
  <2>1. Halves(rows) = {Seen(s, h, d) : d \in 1 .. m}
    BY <1>3, HalvesAreColumns
  <2>2. Halves(f) = {Seen(g, h, d) : d \in 1 .. m}
    BY <1>2, <1>3, HalvesAreColumns
  <2> QED
    BY <2>1, <2>2
<1>6. AllSame(g, h, m)
  <2>1. Told(Halves(f), g, h, m)
    <3> HIDE DEF f, g, h, m
    <3> QED
      BY <1>4, <1>5, HalvesTell
  <2> QED
    BY <2>1 DEF Told
<1>7. \A i \in 1 .. h, d \in 1 .. m : s[i][d] \in Int
  BY ONLY <1>3, Zenon DEF SplitOf, Matrix
<1>8. ASSUME NEW i \in 1 .. h, NEW d \in 1 .. m PROVE g[i][d] = Distance(s[i][d], median2)
  <2>1. \A j \in 1 .. n, c \in 1 .. C : f[j][c] = Distance(rows[j][c], median2)
    BY <1>1 DEF Distances
  <2>2. \A c \in 1 .. C : /\ s[i][c] = rows[i][c] /\ s[i][C + c] = rows[n - h + i][c]
                          /\ g[i][c] = f[i][c] /\ g[i][C + c] = f[n - h + i][c]
    BY <1>3, Zenon DEF SplitOf
  <2> HIDE DEF f, s, g, h
  <2>3. i \in 1 .. n /\ n - h + i \in 1 .. n
    BY <1>4
  <2>4. d \in 1 .. C \/ \E c \in 1 .. C : d = C + c
    <3>1. d \notin 1 .. C => d - C \in 1 .. C /\ d = C + (d - C)
      BY <1>4
    <3> QED
      BY <3>1
  <2> QED
    BY <2>1, <2>2, <2>3, <2>4
<1> DEFINE x == s[1][1]
           U == UNION Halves(rows)
<1> HIDE DEF f, s, g, h, m
<1>9. 1 \in 1 .. h /\ 1 \in 1 .. m
  BY <1>4
<1>10. \A i \in 1 .. h, d \in 1 .. m : s[i][d] = x \/ s[i][d] = median2 - x
  <2> TAKE i \in 1 .. h, d \in 1 .. m
  <2>1. Distance(s[i][d], median2) = Distance(x, median2)
    BY <1>6, <1>8, <1>9 DEF AllSame
  <2>2. s[i][d] \in Int /\ x \in Int
    BY <1>7, <1>9
  <2> HIDE DEF x
  <2> QED
    BY <2>1, <2>2 DEF Distance
<1>11. U \subseteq {x, median2 - x}
  BY <1>5, <1>10 DEF Seen
<1>12. IsFiniteSet({x, median2 - x}) /\ Cardinality({x, median2 - x}) \in Nat /\ Cardinality({x, median2 - x}) <= 2
  <2> HIDE DEF x
  <2> DEFINE y == median2 - x
  <2> HIDE DEF y
  <2>1. {x, y} = {x} \cup {y}
    OBVIOUS
  <2>2. IsFiniteSet({x}) /\ Cardinality({x}) = 1
    BY FS_Singleton
  <2>3. IsFiniteSet({x, y}) /\ Cardinality({x, y}) \in Nat /\ Cardinality({x, y}) <= 2
    BY <2>1, <2>2, FS_AddElement
  <2> QED
    BY <2>3 DEF y
<1>13. Cardinality(U) <= Cardinality({x, median2 - x}) /\ Cardinality(U) \in Nat
  <2> HIDE DEF x, U
  <2> QED
    BY <1>11, <1>12, FS_Subset, FS_CardinalityType
<1> QED
  BY <1>12, <1>13

\* What is flagged in a matrix of draws, whose R-hat is r.
Flagged(rows, r, halves, folds) ==
  /\ r = NA <=> Len(rows) < 4 \/ SingleValue(halves) \/ SingleValue(folds)
  /\ r = Inf <=> r # NA /\ (StuckHalves(halves) \/ StuckHalves(folds))
  /\ r \notin {NA, Inf} => IsFinite(r) /\ Less(Zero, r)
  /\ Len(rows) >= 4 /\ StuckHalves(halves) /\ Cardinality(UNION halves) > 2 => r = Inf

\* Draws that are all one value are so in halves.
LEMMA OneValueHalves ==
  ASSUME NEW rows, NEW n, NEW C, Matrix(Int, rows, n, C), n >= 4,
         Cardinality(ToSet(Entries(rows))) = 1
  PROVE  SingleValue(Halves(rows))
<1> DEFINE h == n \div 2
           m == C + C
           xs == Entries(rows)
           s == SplitChains(rows)
<1>1. EntriesOf(xs, rows, n, C)
  BY EntriesAt
<1>2. n \in Nat \ {0} /\ C \in Nat \ {0} /\ h \in Nat \ {0} /\ m \in Nat \ {0} /\ h <= n
  <2>1. n \in Nat \ {0} /\ C \in Nat \ {0}
    BY DEF Matrix
  <2> QED
    BY <2>1
<1>3. xs \in Seq(Int) /\ Len(xs) = n * C /\ n * C \in Nat /\ DOMAIN xs = 1 .. n * C
  <2>1. xs \in Seq(Int) /\ Len(xs) = n * C
    BY <1>1 DEF EntriesOf
  <2> HIDE DEF xs
  <2> QED
    BY <2>1
<1>4. ToSet(xs) = {xs[e] : e \in 1 .. n * C}
  BY <1>3, Zenon DEF ToSet
<1>5. IsFiniteSet(ToSet(xs))
  <2> DEFINE g == [e \in 1 .. n * C |-> xs[e]]
  <2>1. g \in Surjection(1 .. n * C, ToSet(xs))
    BY <1>4 DEF Surjection
  <2>2. IsFiniteSet(1 .. n * C)
    BY <1>3, FS_Interval
  <2> HIDE DEF g
  <2> QED
    BY <2>1, <2>2, FS_Surjection
<1>6. PICK x : ToSet(xs) = {x}
  <2>1. Cardinality(ToSet(xs)) = 1
    OBVIOUS
  <2> HIDE DEF xs
  <2> QED
    BY <1>5, <2>1, FS_Singleton, Zenon
<1>7. \A i \in 1 .. n, c \in 1 .. C : rows[i][c] = x
  <2> TAKE i \in 1 .. n, c \in 1 .. C
  <2>1. (i - 1) * C + c \in 1 .. n * C /\ xs[(i - 1) * C + c] = rows[i][c]
    BY <1>1, Zenon DEF EntriesOf
  <2> HIDE DEF xs
  <2>2. rows[i][c] \in ToSet(xs)
    BY <1>4, <2>1, Zenon
  <2> QED
    BY <1>6, <2>2
<1>8. SplitOf(s, rows, n, h, C)
  BY SplitIs
<1>9. AllSame(s, h, m)
  <2>1. \A c \in 1 .. C : \A i \in 1 .. h : s[i][c] = rows[i][c] /\ s[i][C + c] = rows[n - h + i][c]
    BY <1>8, Zenon DEF SplitOf
  <2> HIDE DEF s, h
  <2>2. \A i \in 1 .. h : i \in 1 .. n /\ n - h + i \in 1 .. n
    BY <1>2
  <2>3. \A c \in 1 .. C : \A i \in 1 .. h : s[i][c] = x /\ s[i][C + c] = x
    BY <1>7, <2>1, <2>2, Zenon
  <2>4. \A d \in 1 .. m : d \in 1 .. C \/ \E c \in 1 .. C : d = C + c
    <3> TAKE d \in 1 .. m
    <3>1. d \notin 1 .. C => d - C \in 1 .. C /\ d = C + (d - C)
      BY <1>2
    <3> QED
      BY <3>1
  <2> HIDE DEF m
  <2>5. \A d \in 1 .. m : \A i \in 1 .. h : s[i][d] = x
    BY <2>3, <2>4, Zenon
  <2>6. 1 \in 1 .. h /\ 1 \in 1 .. m
    BY <1>2
  <2> QED
    BY <2>5, <2>6, Zenon DEF AllSame
<1>10. Halves(rows) = {Seen(s, h, d) : d \in 1 .. m}
  BY <1>8, HalvesAreColumns
<1>11. Told(Halves(rows), s, h, m)
  <2> HIDE DEF s, h, m
  <2> QED
    BY <1>2, <1>10, HalvesTell
<1> QED
  BY <1>9, <1>11, Zenon DEF Told

LEMMA MatrixRHat ==
  ASSUME NEW rows, NEW n, NEW C, Matrix(Int, rows, n, C)
  PROVE  Flagged(rows, RHatMatrix(rows), Halves(rows), Halves(Folded(rows)))
<1> DEFINE f == Folded(rows)
           halves == Halves(rows)
           folds == Halves(f)
           r == RHatMatrix(rows)
           one == Cardinality(ToSet(Entries(rows))) = 1
<1>1. n \in Nat \ {0} /\ Len(rows) = n
  BY DEF Matrix
<1>2. r = IF n < 4 \/ one THEN NA ELSE Larger(RHatRank(rows), RHatRank(f))
  BY <1>1, Zenon DEF RHatMatrix
<1> HIDE DEF f, halves, folds, r, one
<1>3. CASE n < 4
  <2>1. r = NA
    BY <1>2, <1>3
  <2>2. ~(n >= 4)
    BY <1>1, <1>3
  <2>3. Flagged(rows, r, halves, folds)
    BY <1>1, <1>3, <2>1, <2>2, NANoNumber, Zenon DEF Flagged
  <2> QED
    BY <2>3 DEF f, halves, folds, r
<1>4. CASE n >= 4 /\ one
  <2>1. r = NA
    BY <1>2, <1>4
  <2>2. SingleValue(halves)
    BY <1>4, OneValueHalves DEF one, halves
  <2>3. ~(Cardinality(UNION halves) > 2)
    BY <2>2 DEF SingleValue
  <2>4. Flagged(rows, r, halves, folds)
    BY <2>1, <2>2, <2>3, NANoNumber, Zenon DEF Flagged
  <2> QED
    BY <2>4 DEF f, halves, folds, r
<1>5. CASE n >= 4 /\ ~one
  <2>1. ~(n < 4)
    BY <1>1, <1>5
  <2>2. r = Larger(RHatRank(rows), RHatRank(f))
    BY <1>2, <1>5, <2>1
  <2>3. Matrix(Int, f, n, C)
    BY FoldedIs DEF Distances, f
  <2>4. RHatOf(RHatRank(rows), StuckHalves(halves), SingleValue(halves))
    BY <1>5, RankRHat DEF halves
  <2>5. RHatOf(RHatRank(f), StuckHalves(folds), SingleValue(folds))
    BY <1>5, <2>3, RankRHat DEF folds
  <2>6. /\ r = NA <=> SingleValue(halves) \/ SingleValue(folds)
        /\ r = Inf <=> r # NA /\ (StuckHalves(halves) \/ StuckHalves(folds))
        /\ r \notin {NA, Inf} => r \in Rationals /\ Less(Zero, r)
    BY <2>2, <2>4, <2>5, LargerIs
  <2>7. r \in Rationals => IsFinite(r)
    BY RationalParts
  <2>8. SingleValue(folds) => ~(Cardinality(UNION halves) > 2)
    <3> SUFFICES ASSUME SingleValue(folds) PROVE ~(Cardinality(UNION halves) > 2)
      OBVIOUS
    <3>1. Cardinality(UNION halves) <= 2
      BY <1>5, FoldsOfThree DEF f, halves, folds
    <3>2. Cardinality(UNION halves) \in Nat
      BY <1>5, RankRHat, FS_CardinalityType DEF halves
    <3> QED
      BY <3>1, <3>2
  <2>9. SingleValue(halves) => ~(Cardinality(UNION halves) > 2)
    BY DEF SingleValue
  <2>10. Flagged(rows, r, halves, folds)
    BY <1>1, <2>1, <2>6, <2>7, <2>8, <2>9, Zenon DEF Flagged
  <2> QED
    BY <2>10 DEF f, halves, folds, r
<1> QED
  BY <1>1, <1>3, <1>4, <1>5

\* A variable's slice of a fit's array is a matrix of its draws by chains.
LEMMA SliceShape ==
  ASSUME Len(seeds) \in Nat \ {0}, seeds \in [1 .. Len(seeds) -> Int32],
         fit.n_sampling \in Lengths,
         NEW W, Widths(W), FitShape(fit.n_sampling, Len(seeds), W)
  PROVE  \A v \in DOMAIN VariableNames : Matrix(Int, Slice(v), fit.n_sampling, Len(seeds))
<1> DEFINE n == fit.n_sampling
           C == Len(seeds)
           names == VariableNames
           flat == FlattenSeq([p \in DOMAIN Pieces |-> Pieces[p].data])
           a == DrawsArray
<1>1. C \in Nat \ {0} /\ n \in Lengths /\ FitShape(n, C, W)
  BY Zenon
<1> HIDE DEF n, C
<1>2. n \in Nat \ {0} /\ n \in Nat /\ K \in Nat \ {0} /\ n * C \in Nat
  BY <1>1, FitAssumption, ChainsAssumption, ProductGrows
<1>3. PICK B : /\ BankStarts(B, W) /\ Named(names, B, W)
               /\ SizesSum([k \in 1 .. K |-> fit.alpha[k].dim[3]]) = B[K]
  BY <1>1, <1>2, NamesShape, Zenon
<1>4. Gathered(flat, n, C, B, W)
  BY <1>1, <1>2, <1>3, DrawsShape, Zenon
<1>5. Len(names) = 1 + B[K] /\ DOMAIN names = 1 .. 1 + B[K]
  <2>1. Len(names) = 1 + B[K] /\ names \in Seq(Name)
    BY <1>3, Zenon DEF Named
  <2> HIDE DEF names
  <2> QED
    BY <2>1
<1>6. a.data = flat /\ a.dim = <<n, C, 1 + B[K]>>
  <2>1. fit.ate.dim = <<n, C>>
    BY <1>1, Zenon DEF FitShape
  <2>2. Plane(fit.ate, n, C)
    BY <2>1, PlaneFields, Zenon
  <2>3. a = RArray(flat, <<n, C, 1 + B[K]>>)
    BY <1>3, <2>2, Zenon DEF DrawsArray, Plane
  <2> HIDE DEF flat, names, a
  <2> QED
    BY <2>3, ArrayFields, Zenon
<1> HIDE DEF flat, names, a
<1>7. Solid(a, n, C, 1 + B[K])
  BY <1>6, SolidFields, Zenon
<1>8. flat \in Seq(Int) /\ Len(flat) = (n * C) * (1 + B[K])
  BY <1>4, Zenon DEF Gathered
<1>9. B[K] \in Nat
  <2>1. K \in 1 .. K
    BY <1>2
  <2> QED
    BY <1>3, <2>1, BankStartsRange, Zenon
<1> SUFFICES ASSUME NEW v \in 1 .. 1 + B[K] PROVE Matrix(Int, Slice(v), n, C)
  BY <1>5, Zenon DEF n, C, names
<1>10. Slice(v) = [i \in 1 .. n |-> [c \in 1 .. C |-> At3(a, i, c, v)]]
  BY <1>7, Zenon DEF Solid, Slice, a
<1>11. ASSUME NEW i \in 1 .. n, NEW c \in 1 .. C PROVE At3(a, i, c, v) \in Int
  <2> DEFINE w == 1 + B[K]
             q == i + n * ((c - 1) + C * (v - 1))
  <2>1. At3(a, i, c, v) = flat[q]
    BY <1>6, <1>7, Zenon DEF Solid
  <2>2. w \in Nat \ {0} /\ v \in 1 .. w
    BY <1>9
  <2> HIDE DEF w
  <2>3. q \in 1 .. C * (w * n)
    BY <1>1, <1>2, <2>2, ArrayPlace, Zenon
  <2>4. C * (w * n) = (n * C) * w
    BY <1>1, <1>2, <2>2
  <2>5. q \in 1 .. Len(flat)
    BY <1>8, <2>3, <2>4, Zenon DEF w
  <2> HIDE DEF q
  <2> QED
    BY <1>8, <2>1, <2>5, EntriesIn
<1> HIDE DEF a
<1> QED
  BY <1>1, <1>2, <1>10, <1>11 DEF Matrix

(***************************************************************************)
(* How a fit comes about (Fit).                                            *)
(***************************************************************************)

\* A chain that has built samplers had a seed, and one that returned had built
\* them all.
ChainsRan ==
  /\ \A c \in Chain :
       /\ streams[c] # <<>> => seeds[c] # NA
       /\ status[c] = "value" => Len(streams[c]) = K
  /\ pc = "returned" => \A c \in Chain : status[c] = "value"

\* A fit is made of the draws the chains' seeds determine.
FitMade ==
  fit # <<>> =>
    /\ \A c \in Chain : seeds[c] \in Int32
    /\ \E n \in Lengths : fit = NewFit([c \in Chain |-> Taken(Results[seeds[c]], n)])

FitInv == TypeOK /\ ChainsRan /\ FitMade

LEMMA FitNextKeepsCall == FitNext => [Next]_vars
BY DEF FitNext, Assemble

\* Making a fit of the results disturbs nothing of the call: what is proved of a
\* call holds of one that goes on to make a fit.
THEOREM FitKeepsCall == FitSpec => Spec
<1>1. FitInit => Init
  BY DEF FitInit
<1>2. [FitNext]_fitVars => [Next]_vars
  BY FitNextKeepsCall DEF fitVars
<1> QED
  BY <1>1, <1>2, PTL DEF FitSpec, Spec

LEMMA SeedsKept == [Next]_vars => seeds' = seeds
BY DEF Next, Step, Validate, Collect, Start, BuildSampler, Return, Raise, Die, vars

LEMMA ChainsRanNext == TypeOK /\ ChainsRan /\ [Next]_vars => ChainsRan'
<1> SUFFICES ASSUME TypeOK, ChainsRan, [Next]_vars PROVE ChainsRan'
  OBVIOUS
<1>1. PICK m \in 1 .. MaxChains :
        /\ seeds \in [1 .. m -> Seed] /\ status \in [1 .. m -> Statuses]
        /\ streams \in [1 .. m -> Seq(Seed)]
  BY DEF TypeOK, Seed
<1>2. Chain = 1 .. m /\ seeds' = seeds /\ Chain' = Chain
  BY <1>1, SeedsKept DEF Chain
<1>3. \A c \in Chain : /\ streams[c] # <<>> => seeds[c] # NA
                       /\ status[c] = "value" => Len(streams[c]) = K
  BY Zenon DEF ChainsRan
<1>4. SUFFICES /\ \A c \in Chain : /\ streams'[c] # <<>> => seeds[c] # NA
                                   /\ status'[c] = "value" => Len(streams'[c]) = K
               /\ pc' = "returned" => \A c \in Chain : status'[c] = "value"
  BY <1>2, Zenon DEF ChainsRan
<1>5. CASE UNCHANGED vars
  <2>1. streams' = streams /\ status' = status /\ pc' = pc
    BY <1>5 DEF vars
  <2> QED
    BY <2>1, <1>3, Zenon DEF ChainsRan
<1>6. CASE Validate
  <2>1. streams' = streams /\ status' = status /\ pc' # "returned"
    BY <1>6 DEF Validate
  <2> QED
    BY <2>1, <1>3, Zenon
<1>7. CASE Collect
  <2>1. streams' = streams /\ status' = status
    BY <1>7 DEF Collect
  <2>2. ASSUME pc' = "returned", NEW c \in Chain PROVE status[c] = "value"
    <3>1. status[c] \notin {"waiting", "running", "try-error", "NULL"}
      BY <1>7, <2>2 DEF Collect, Failed
    <3>2. status[c] \in Statuses
      BY <1>1, <1>2
    <3> QED
      BY <3>1, <3>2 DEF Statuses
  <2> QED
    BY <2>1, <2>2, <1>3, Zenon
<1>8. ASSUME NEW c \in Chain, Step(c)
      PROVE  /\ \A d \in Chain : /\ streams'[d] # <<>> => seeds[d] # NA
                                 /\ status'[d] = "value" => Len(streams'[d]) = K
             /\ pc' # "returned"
  <2>1. CASE Start(c) \/ Raise(c) \/ Die(c)
    <3>1. /\ streams' = streams /\ pc' # "returned"
          /\ \A d \in Chain : status'[d] = "value" => status[d] = "value"
      BY <1>1, <1>2, <2>1 DEF Start, Raise, Die
    <3> QED
      BY <1>3, <3>1, Zenon
  <2>2. CASE Return(c)
    <3>1. /\ streams' = streams /\ pc' # "returned" /\ Len(streams[c]) = K
          /\ \A d \in Chain : d # c => status'[d] = status[d]
      BY <1>1, <1>2, <2>2 DEF Return
    <3> QED
      BY <1>3, <3>1, Zenon
  <2>3. CASE BuildSampler(c)
    <3>1. /\ status' = status /\ pc' # "returned" /\ status[c] = "running" /\ seeds[c] # NA
          /\ \A d \in Chain : d # c => streams'[d] = streams[d]
      BY <1>1, <1>2, <2>3 DEF BuildSampler
    <3>2. status[c] # "value"
      BY <3>1
    <3> QED
      BY <1>3, <3>1, <3>2, Zenon
  <2> QED
    BY <1>8, <2>1, <2>2, <2>3 DEF Step
<1> QED
  BY <1>5, <1>6, <1>7, <1>8 DEF Next

\* A fit is only made when every chain has returned, so has had a seed.
LEMMA AssembleMakes == TypeOK /\ ChainsRan /\ Assemble => FitMade'
<1> SUFFICES ASSUME TypeOK, ChainsRan, Assemble PROVE FitMade'
  OBVIOUS
<1>1. seeds' = seeds /\ pc = "returned"
  BY DEF Assemble, vars
<1>2. PICK n \in Lengths : fit' = NewFit([c \in Chain |-> Taken(Results[seeds[c]], n)])
  BY DEF Assemble
<1>3. ASSUME NEW c \in Chain PROVE seeds[c] \in Int32
  <2>1. PICK m \in 1 .. MaxChains : seeds \in [1 .. m -> Seed] /\ streams \in [1 .. m -> Seq(Seed)]
    BY DEF TypeOK, Seed
  <2>2. seeds[c] \in Seed /\ streams[c] \in Seq(Seed)
    BY <2>1 DEF Chain
  <2>3. Len(streams[c]) = K
    BY <1>1, <1>3, Zenon DEF ChainsRan
  <2>4. streams[c] # <<>>
    BY <2>3, ChainsAssumption
  <2>5. seeds[c] # NA
    BY <2>4, Zenon DEF ChainsRan
  <2> QED
    BY <2>2, <2>5 DEF Seed
<1>4. \A c \in Chain' : seeds'[c] \in Int32
  BY <1>1, <1>3, Zenon DEF Chain
<1>5. fit' = NewFit([c \in Chain' |-> Taken(Results[seeds'[c]], n)])
  BY <1>1, <1>2, Zenon DEF Chain
<1> QED
  BY <1>4, <1>5, Zenon DEF FitMade

LEMMA FitInvNext == FitInv /\ [FitNext]_fitVars => FitInv'
<1> SUFFICES ASSUME FitInv, [FitNext]_fitVars PROVE FitInv'
  OBVIOUS
<1>1. TypeOK /\ ChainsRan /\ FitMade
  BY DEF FitInv
<1>2. [Next]_vars
  BY FitNextKeepsCall DEF fitVars
<1>3. TypeOK' /\ ChainsRan'
  BY <1>1, <1>2, TypeNext, ChainsRanNext
<1>4. FitMade'
  <2>1. CASE Assemble
    BY <1>1, <2>1, AssembleMakes
  <2>2. CASE fit' = fit
    <3>1. seeds' = seeds
      BY <1>2, SeedsKept
    <3> QED
      BY <1>1, <2>2, <3>1, Zenon DEF FitMade, Chain
  <2> QED
    BY <2>1, <2>2 DEF FitNext, fitVars
<1> QED
  BY <1>3, <1>4 DEF FitInv

LEMMA FitInvFaithful == FitInv => FitFaithful
<1> SUFFICES ASSUME FitInv, fit # <<>> PROVE FitFaithful
  BY Zenon DEF FitFaithful
<1>1. PICK m \in 1 .. MaxChains : seeds \in [1 .. m -> Seed]
  BY DEF FitInv, TypeOK, Seed
<1>2. Len(seeds) = m /\ Chain = 1 .. m /\ m \in Nat \ {0}
  BY <1>1 DEF Chain
<1>3. seeds \in [1 .. Len(seeds) -> Int32]
  <2>1. \A c \in Chain : seeds[c] \in Int32
    BY Zenon DEF FitInv, FitMade
  <2> QED
    BY <1>1, <1>2, <2>1
<1>4. PICK n \in Lengths : fit = NewFit([c \in Chain |-> Taken(Results[seeds[c]], n)])
  BY Zenon DEF FitInv, FitMade
<1>5. PICK W : Widths(W)
  BY WidthsExist
<1>6. Len(seeds) \in Nat \ {0}
  BY <1>2
<1>7. FitShape(n, Len(seeds), W)
  BY <1>3, <1>4, <1>5, <1>6, NewFitShape, Zenon
<1>8. fit.n_sampling = n
  BY <1>7, Zenon DEF FitShape
<1> QED
  BY <1>3, <1>5, <1>6, <1>7, <1>8, FitShapeFaithful, Zenon

LEMMA FitInvHolds == FitSpec => []FitInv
<1>1. FitSpec => []TypeOK
  BY FitKeepsCall, CallTypeCorrect
<1>2. FitInit => ChainsRan /\ FitMade
  <2> SUFFICES ASSUME FitInit PROVE ChainsRan /\ FitMade
    OBVIOUS
  <2>1. FitMade /\ Init
    BY DEF FitInit, FitMade
  <2>2. ChainsRan
    <3>1. PICK m \in 1 .. MaxChains :
            /\ DOMAIN seeds = 1 .. m
            /\ status = [c \in 1 .. m |-> "waiting"] /\ streams = [c \in 1 .. m |-> <<>>]
      <4>1. PICK m \in 1 .. MaxChains, cores \in CoreChoices :
              /\ IF given THEN seeds \in [1 .. m -> SeedChoices]
                 ELSE \E seed \in SeedChoices : seeds = DefaultSeeds(seed, m)
              /\ status = [c \in 1 .. m |-> "waiting"] /\ streams = [c \in 1 .. m |-> <<>>]
        BY <2>1 DEF Init
      <4>2. DOMAIN seeds = 1 .. m
        <5>1. CASE given
          BY <4>1, <5>1
        <5>2. CASE ~given
          BY <4>1, <5>2 DEF DefaultSeeds
        <5> QED
          BY <5>1, <5>2
      <4> QED
        BY <4>1, <4>2
    <3>2. pc = "validate"
      BY <2>1 DEF Init
    <3> QED
      BY <3>1, <3>2 DEF ChainsRan, Chain
  <2> QED
    BY <2>1, <2>2
<1>3. TypeOK /\ ChainsRan /\ FitMade => FitInv
  BY DEF FitInv
<1> QED
  BY <1>1, <1>2, <1>3, FitInvNext, PTL DEF FitSpec

\* R/chains.R:118-138, R/diagnostics.R:12-48,132-139: whatever the chains, draws,
\* banks and items, every number of a fit, of extract() and of the summary's
\* array is the draw its position or name says.
THEOREM FitsAreFaithful == FitSpec => []FitFaithful
BY FitInvHolds, FitInvFaithful, PTL

LEMMA FitInvFlags == FitInv => RHatFlagsStuck
<1> SUFFICES ASSUME FitInv, fit # <<>>, NEW v \in DOMAIN VariableNames
             PROVE  LET rows == Slice(v)
                    IN  Flagged(rows, RHatMatrix(rows), Halves(rows), Halves(Folded(rows)))
  BY Zenon DEF RHatFlagsStuck, Flagged, StuckHalves, SingleValue
<1>1. PICK m \in 1 .. MaxChains : seeds \in [1 .. m -> Seed]
  BY DEF FitInv, TypeOK, Seed
<1>2. Len(seeds) = m /\ Chain = 1 .. m /\ m \in Nat \ {0}
  BY <1>1 DEF Chain
<1>3. seeds \in [1 .. Len(seeds) -> Int32]
  <2>1. \A c \in Chain : seeds[c] \in Int32
    BY Zenon DEF FitInv, FitMade
  <2> QED
    BY <1>1, <1>2, <2>1
<1>4. PICK n \in Lengths : fit = NewFit([c \in Chain |-> Taken(Results[seeds[c]], n)])
  BY Zenon DEF FitInv, FitMade
<1>5. PICK W : Widths(W)
  BY WidthsExist
<1>6. Len(seeds) \in Nat \ {0}
  BY <1>2
<1>7. FitShape(n, Len(seeds), W)
  BY <1>3, <1>4, <1>5, <1>6, NewFitShape, Zenon
<1>8. fit.n_sampling = n
  BY <1>7, Zenon DEF FitShape
<1>9. Matrix(Int, Slice(v), n, Len(seeds))
  BY <1>3, <1>5, <1>6, <1>7, <1>8, SliceShape, Zenon
<1> QED
  BY <1>9, MatrixRHat, Zenon

\* R/diagnostics.R:296-330: whatever the draws, their number and the chains',
\* R-hat is undefined, infinite or a number exactly where the half chains say:
\* chains stuck at three values or more are always flagged.
THEOREM StuckChainsAreFlagged == FitSpec => []RHatFlagsStuck
<1>1. FitSpec => []FitInv
  BY FitInvHolds
<1> QED
  BY <1>1, FitInvFlags, PTL

-------------------------------------------------------------------------------
(***************************************************************************)
(* The handlers hold what their chains made, and the file what they held.  *)
(***************************************************************************)
Store ==
  [save_warmup : BOOLEAN, stepsize : Number, diag_inv_mass : Seq(Number),
   draws : Seq(Seq(Number)), lps : Seq(Number),
   warmup_draws : Seq(Seq(Number)), warmup_lps : Seq(Number),
   warmup_stepsizes : Seq(Number), warmup_diag_inv_masses : Seq(Seq(Number))]

StoreTyped ==
  /\ handlers \in [Chains -> Store]
  /\ warmups \in [Chains -> Nat] /\ made \in [Chains -> Nat]
  /\ complete \subseteq Chains
  /\ trace \in [Chains -> Seq(Int)]

HoldsDraws(m) ==
  /\ Len(handlers[m].draws) = made[m] /\ Len(handlers[m].lps) = made[m]
  /\ made[m] <= Len(trace[m])
  /\ \A i \in 1 .. made[m] :
       handlers[m].draws[i] = Position(trace[m][i]) /\ handlers[m].lps[i] = LogDensity(m, i)

HoldsAdapted(m) ==
  m \in complete =>
    /\ handlers[m].stepsize = StepSize(m, warmups[m])
    /\ handlers[m].diag_inv_mass = InvMass(m, warmups[m])

FileFresh ==
  file = [content |-> file.content, words |->
            CASE file.content = "step_size" -> StepSizeWords
              [] file.content = "mass_matrix" -> MassWords
              [] file.content = "sample" -> SampleWords(FALSE)
              [] file.content = "warmup_and_sample" -> SampleWords(TRUE)
              [] OTHER -> <<>>]

StoreInv ==
  /\ StoreTyped
  /\ \A m \in Chains : HoldsDraws(m) /\ HoldsAdapted(m)
  /\ FileFresh

LEMMA ValueTypes ==
  /\ \A v \in Int : Position(v) \in Seq(Number) /\ Len(Position(v)) = Dims
  /\ \A m \in Int, n \in Int : LogDensity(m, n) \in Number /\ Negative(LogDensity(m, n)) \in Number
  /\ \A m \in Int, n \in Int : StepSize(m, n) \in Number
  /\ \A m \in Int, n \in Int : InvMass(m, n) \in Seq(Number) /\ Len(InvMass(m, n)) = Dims
<1>1. Dims \in Nat
  BY StoreAssumption
<1>2. \A v \in Int, d \in 1 .. Dims : v + d - 1 \in Int /\ v + d \in Int
  BY <1>1
<1>3. ASSUME NEW v \in Int PROVE Position(v) \in Seq(Number) /\ Len(Position(v)) = Dims
  <2>1. \A d \in 1 .. Dims : Frac(v + d - 1, 1) \in Number
    BY <1>2, FracType
  <2> QED
    BY <1>1, <2>1 DEF Position
<1>4. ASSUME NEW m \in Int, NEW n \in Int PROVE LogDensity(m, n) \in Number
  <2>1. 100 * m + n \in Int
    OBVIOUS
  <2> QED
    BY <2>1, FracType DEF LogDensity
<1>5. \A x \in Number : Negative(x) \in Number
  BY DEF Negative, Number
<1>6. ASSUME NEW m \in Int, NEW n \in Int PROVE StepSize(m, n) \in Number
  <2>1. n + 1 \in Int
    OBVIOUS
  <2> QED
    BY <2>1, FracType DEF StepSize
<1>7. ASSUME NEW m \in Int, NEW n \in Int
      PROVE  InvMass(m, n) \in Seq(Number) /\ Len(InvMass(m, n)) = Dims
  <2>1. m + 1 \in Int
    OBVIOUS
  <2>2. \A d \in 1 .. Dims : Frac(n + d, m + 1) \in Number
    BY <1>2, <2>1, FracType
  <2> QED
    BY <1>1, <2>2 DEF InvMass
<1> QED
  BY <1>3, <1>4, <1>5, <1>6, <1>7

LEMMA NewStoreTyped == \A save \in BOOLEAN : NewStore(save) \in Store
<1>1. Zero \in Number
  BY FracType DEF Zero
<1> QED
  BY <1>1 DEF NewStore, Store

LEMMA StoreInitInv == StoreInit => StoreInv
<1> SUFFICES ASSUME StoreInit PROVE StoreInv
  OBVIOUS
<1>1. handlers \in [Chains -> Store] /\ \A m \in Chains : handlers[m].draws = <<>> /\ handlers[m].lps = <<>>
  BY NewStoreTyped DEF StoreInit, NewStore
<1>2. trace \in [Chains -> Seq(Int)]
  BY StoreAssumption DEF StoreInit, Chains
<1>3. StoreTyped
  BY <1>1, <1>2 DEF StoreInit, StoreTyped
<1>4. \A m \in Chains : HoldsDraws(m)
  BY <1>1, <1>2 DEF StoreInit, HoldsDraws
<1>5. \A m \in Chains : HoldsAdapted(m)
  BY DEF StoreInit, HoldsAdapted
<1>6. FileFresh
  BY DEF StoreInit, FileFresh, NoFile
<1> QED
  BY <1>3, <1>4, <1>5, <1>6 DEF StoreInv

\* An event ends what the file had to say; writing leaves the handlers alone.
LEMMA WordsKept ==
  ASSUME handlers' = handlers
  PROVE  /\ StepSizeWords' = StepSizeWords /\ MassWords' = MassWords
         /\ \A w \in BOOLEAN : SampleWords(w)' = SampleWords(w)
<1>1. StepSizeWords' = StepSizeWords
  BY DEF StepSizeWords, PerChain
<1>2. MassWords' = MassWords
  BY DEF MassWords, PerChain
<1>3. ASSUME NEW w \in BOOLEAN PROVE SampleWords(w)' = SampleWords(w)
  BY DEF SampleWords, PerChain
<1> QED
  BY <1>1, <1>2, <1>3

LEMMA DrawsKept ==
  ASSUME NEW m \in Chains, HoldsDraws(m), made'[m] = made[m], trace' = trace,
         handlers'[m].draws = handlers[m].draws, handlers'[m].lps = handlers[m].lps
  PROVE  HoldsDraws(m)'
BY DEF HoldsDraws

\* One more draw, at the end of its chain's.
LEMMA DrawAppended ==
  ASSUME StoreTyped, NEW m \in Chains, HoldsDraws(m), OnSample(m)
  PROVE  HoldsDraws(m)'
<1> DEFINE h == handlers[m]
           i == made[m] + 1
<1>1. h.draws \in Seq(Seq(Number)) /\ h.lps \in Seq(Number) /\ made[m] \in Nat /\ m \in Int
  BY DEF StoreTyped, Store, Chains
<1>2. i \in DOMAIN trace[m] /\ trace[m] \in Seq(Int)
  BY DEF StoreTyped, OnSample
<1>3. Position(trace[m][i]) \in Seq(Number) /\ LogDensity(m, i) \in Number
  <2>1. trace[m][i] \in Int /\ i \in Int
    BY <1>1, <1>2
  <2> HIDE DEF i
  <2> QED
    BY <1>1, <2>1, ValueTypes
<1>4. /\ handlers'[m].draws = Append(h.draws, Position(trace[m][i]))
      /\ handlers'[m].lps = Append(h.lps, LogDensity(m, i))
      /\ made'[m] = i /\ trace' = trace
  BY DEF StoreTyped, Store, OnSample
<1> HIDE DEF h
<1>5. /\ Len(h.draws) = made[m] /\ Len(h.lps) = made[m]
      /\ \A n \in 1 .. made[m] : h.draws[n] = Position(trace[m][n]) /\ h.lps[n] = LogDensity(m, n)
  BY DEF HoldsDraws, h
<1>6. /\ Len(handlers'[m].draws) = i
      /\ \A n \in 1 .. i : handlers'[m].draws[n] = IF n = i THEN Position(trace[m][i]) ELSE h.draws[n]
  BY <1>1, <1>3, <1>4, <1>5
<1>7. /\ Len(handlers'[m].lps) = i
      /\ \A n \in 1 .. i : handlers'[m].lps[n] = IF n = i THEN LogDensity(m, i) ELSE h.lps[n]
  BY <1>1, <1>3, <1>4, <1>5
<1>8. i <= Len(trace[m]) /\ \A n \in 1 .. i : n # i => n \in 1 .. made[m]
  BY <1>1, <1>2
<1> QED
  BY <1>4, <1>5, <1>6, <1>7, <1>8, Zenon DEF HoldsDraws

LEMMA StoreStep == StoreInv /\ StoreNext => StoreInv'
<1> SUFFICES ASSUME StoreInv, StoreNext PROVE StoreInv'
  OBVIOUS
<1>1. StoreTyped /\ FileFresh /\ \A m \in Chains : HoldsDraws(m) /\ HoldsAdapted(m)
  BY DEF StoreInv
<1>2. Chains \subseteq Int
  BY StoreAssumption DEF Chains
<1>3. file' = NoFile => FileFresh'
  BY DEF FileFresh, NoFile
<1>4. ASSUME NEW m \in Chains, OnWarmup(m) PROVE StoreInv'
  <2>1. warmups[m] + 1 \in Int /\ -(warmups[m] + 1) \in Int /\ warmups[m] + 1 \in Nat
    BY <1>1 DEF StoreTyped
  <2>2. /\ Position(-(warmups[m] + 1)) \in Seq(Number)
        /\ Negative(LogDensity(m, warmups[m] + 1)) \in Number
        /\ StepSize(m, warmups[m] + 1) \in Number
        /\ InvMass(m, warmups[m] + 1) \in Seq(Number)
    BY <1>2, <2>1, ValueTypes
  <2>3. StoreTyped'
    <3>1. handlers[m] \in Store
      BY <1>1 DEF StoreTyped
    <3>2. /\ Append(handlers[m].warmup_draws, Position(-(warmups[m] + 1))) \in Seq(Seq(Number))
          /\ Append(handlers[m].warmup_lps, Negative(LogDensity(m, warmups[m] + 1))) \in Seq(Number)
          /\ Append(handlers[m].warmup_stepsizes, StepSize(m, warmups[m] + 1)) \in Seq(Number)
          /\ Append(handlers[m].warmup_diag_inv_masses, InvMass(m, warmups[m] + 1)) \in Seq(Seq(Number))
      <4>1. /\ handlers[m].warmup_draws \in Seq(Seq(Number)) /\ handlers[m].warmup_lps \in Seq(Number)
            /\ handlers[m].warmup_stepsizes \in Seq(Number)
            /\ handlers[m].warmup_diag_inv_masses \in Seq(Seq(Number))
        BY <3>1 DEF Store
      <4> QED
        BY <2>2, <4>1
    <3>3. handlers' \in [Chains -> Store]
      BY <1>1, <1>4, <3>1, <3>2, Zenon DEF StoreTyped, Store, OnWarmup
    <3> QED
      BY <1>1, <1>4, <2>1, <3>3 DEF StoreTyped, OnWarmup
  <2>4. ASSUME NEW c \in Chains
        PROVE  /\ handlers'[c].draws = handlers[c].draws /\ handlers'[c].lps = handlers[c].lps
               /\ made' = made /\ trace' = trace /\ complete' = {}
    BY <1>1, <1>4 DEF StoreTyped, Store, OnWarmup
  <2>5. \A c \in Chains : HoldsDraws(c)' /\ HoldsAdapted(c)'
    BY <1>1, <2>4, DrawsKept DEF HoldsAdapted
  <2> QED
    BY <1>3, <1>4, <2>3, <2>5 DEF OnWarmup, StoreInv
<1>5. ASSUME NEW m \in Chains, OnWarmupComplete(m) PROVE StoreInv'
  <2>1. StepSize(m, warmups[m]) \in Number /\ InvMass(m, warmups[m]) \in Seq(Number)
    BY <1>1, <1>2, ValueTypes DEF StoreTyped
  <2>2. StoreTyped'
    BY <1>1, <1>5, <2>1, ZenonT(60) DEF StoreTyped, Store, OnWarmupComplete
  <2>3. ASSUME NEW c \in Chains
        PROVE  /\ handlers'[c].draws = handlers[c].draws /\ handlers'[c].lps = handlers[c].lps
               /\ made' = made /\ trace' = trace /\ warmups' = warmups
               /\ handlers'[c].stepsize = IF c = m THEN StepSize(m, warmups[m])
                                                   ELSE handlers[c].stepsize
               /\ handlers'[c].diag_inv_mass = IF c = m THEN InvMass(m, warmups[m])
                                                        ELSE handlers[c].diag_inv_mass
               /\ complete' = complete \cup {m}
    BY <1>1, <1>5 DEF StoreTyped, Store, OnWarmupComplete
  <2>4. \A c \in Chains : HoldsDraws(c)' /\ HoldsAdapted(c)'
    BY <1>1, <2>3, DrawsKept DEF HoldsAdapted
  <2> QED
    BY <1>3, <1>5, <2>2, <2>4 DEF OnWarmupComplete, StoreInv
<1>6. ASSUME NEW m \in Chains, OnSample(m) PROVE StoreInv'
  <2>1. made[m] + 1 \in Nat /\ trace[m][made[m] + 1] \in Int
    BY <1>1, <1>6 DEF StoreTyped, OnSample
  <2>2. Position(trace[m][made[m] + 1]) \in Seq(Number) /\ LogDensity(m, made[m] + 1) \in Number
    BY <1>2, <2>1, ValueTypes
  <2>3. StoreTyped'
    <3>1. handlers[m] \in Store
      BY <1>1 DEF StoreTyped
    <3>2. /\ Append(handlers[m].draws, Position(trace[m][made[m] + 1])) \in Seq(Seq(Number))
          /\ Append(handlers[m].lps, LogDensity(m, made[m] + 1)) \in Seq(Number)
      <4>1. handlers[m].draws \in Seq(Seq(Number)) /\ handlers[m].lps \in Seq(Number)
        BY <3>1 DEF Store
      <4> QED
        BY <2>2, <4>1
    <3>3. handlers' \in [Chains -> Store]
      BY <1>1, <1>6, <3>1, <3>2 DEF StoreTyped, Store, OnSample
    <3> QED
      BY <1>1, <1>6, <2>1, <3>3 DEF StoreTyped, OnSample
  <2>4. ASSUME NEW c \in Chains
        PROVE  /\ c # m => /\ handlers'[c].draws = handlers[c].draws
                           /\ handlers'[c].lps = handlers[c].lps /\ made'[c] = made[c]
               /\ trace' = trace /\ warmups' = warmups /\ complete' = complete
               /\ handlers'[c].stepsize = handlers[c].stepsize
               /\ handlers'[c].diag_inv_mass = handlers[c].diag_inv_mass
    BY <1>1, <1>6 DEF StoreTyped, Store, OnSample
  <2>5. \A c \in Chains : HoldsDraws(c)'
    BY <1>1, <1>6, <2>4, DrawsKept, DrawAppended
  <2>6. \A c \in Chains : HoldsAdapted(c)'
    BY <1>1, <2>4 DEF HoldsAdapted
  <2> QED
    BY <1>3, <1>6, <2>3, <2>5, <2>6 DEF OnSample, StoreInv
<1>7. ASSUME UNCHANGED <<handlers, warmups, made, complete, trace>>, FileFresh' PROVE StoreInv'
  BY <1>1, <1>7 DEF StoreInv, StoreTyped, HoldsDraws, HoldsAdapted
<1>8. CASE OnRHat
  BY <1>3, <1>7, <1>8 DEF OnRHat
<1>9. CASE WriteStepSize
  <2>1. FileFresh'
    BY <1>9, WordsKept DEF WriteStepSize, Write, FileFresh, NoFile
  <2> QED
    BY <1>7, <1>9, <2>1 DEF WriteStepSize, Write
<1>10. CASE WriteMassMatrix
  <2>1. FileFresh'
    BY <1>10, WordsKept DEF WriteMassMatrix, Write, FileFresh, NoFile
  <2> QED
    BY <1>7, <1>10, <2>1 DEF WriteMassMatrix, Write
<1>11. CASE WriteSample
  <2>1. FileFresh'
    <3>1. PICK w \in BOOLEAN :
            Write(IF w THEN "warmup_and_sample" ELSE "sample", SampleWords(w))
      BY <1>11 DEF WriteSample
    <3>2. handlers' = handlers
      BY <3>1 DEF Write
    <3>3. SampleWords(FALSE)' = SampleWords(FALSE) /\ SampleWords(TRUE)' = SampleWords(TRUE)
      BY <3>2, WordsKept
    <3>4. file' = NoFile \/ file' = [NoFile EXCEPT !.content = "refused"]
            \/ file' = [content |-> IF w THEN "warmup_and_sample" ELSE "sample", words |-> SampleWords(w)]
      BY <3>1 DEF Write
    <3>5. file'.content = "refused" /\ file' = [content |-> "refused", words |-> <<>>] => FileFresh'
      BY DEF FileFresh
    <3>6. file' = [NoFile EXCEPT !.content = "refused"] => FileFresh'
      BY <3>5 DEF NoFile
    <3>7. file' = [content |-> "sample", words |-> SampleWords(FALSE)'] => FileFresh'
      BY DEF FileFresh
    <3>8. file' = [content |-> "warmup_and_sample", words |-> SampleWords(TRUE)'] => FileFresh'
      BY DEF FileFresh
    <3> QED
      BY <1>3, <3>3, <3>4, <3>6, <3>7, <3>8
  <2> QED
    BY <1>7, <1>11, <2>1 DEF WriteSample, Write
<1> QED
  BY <1>4, <1>5, <1>6, <1>8, <1>9, <1>10, <1>11 DEF StoreNext
-------------------------------------------------------------------------------
(***************************************************************************)
(* What a file holds where.                                                *)
(***************************************************************************)
Word == ({"uint64"} \X Int) \cup ({"double"} \X Number)

\* The words one draw takes.
DrawLength == 2 + Dims

\* The laws of sequences, for sequences of words.
LEMMA WordConcat ==
  \A a, b \in Seq(Word) :
    /\ a \o b \in Seq(Word) /\ Len(a \o b) = Len(a) + Len(b)
    /\ \A j \in 1 .. Len(a) : (a \o b)[j] = a[j]
    /\ \A j \in 1 .. Len(b) : (a \o b)[Len(a) + j] = b[j]
BY ConcatAt

LEMMA WordFlatten ==
  \A ws \in Seq(Seq(Word)), n \in Nat :
    (\A i \in 1 .. Len(ws) : Len(ws[i]) = n) =>
      /\ FlattenSeq(ws) \in Seq(Word)
      /\ Len(FlattenSeq(ws)) = Len(ws) * n
      /\ \A i \in 1 .. Len(ws), j \in 1 .. n :
           /\ (i - 1) * n + j \in 1 .. Len(ws) * n
           /\ FlattenSeq(ws)[(i - 1) * n + j] = ws[i][j]
BY FlattenEqual

LEMMA WordsListed ==
  \A n \in Nat : \A f :
    f = [i \in 1 .. n |-> f[i]] /\ (\A i \in 1 .. n : f[i] \in Seq(Word)) =>
      f \in Seq(Seq(Word)) /\ Len(f) = n
BY Listed

LEMMA WordTypes ==
  /\ \A n \in Int : Uint(n) \in Seq(Word) /\ Len(Uint(n)) = 1 /\ Uint(n)[1] = <<"uint64", n>>
  /\ \A x \in Number : Real(x) \in Seq(Word) /\ Len(Real(x)) = 1 /\ Real(x)[1] = <<"double", x>>
  /\ \A v \in Seq(Number) : /\ Vector(v) \in Seq(Word) /\ Len(Vector(v)) = Len(v)
                            /\ \A d \in 1 .. Len(v) : Vector(v)[d] = <<"double", v[d]>>
<1>1. /\ \A n \in Int : <<"uint64", n>> \in Word
      /\ \A x \in Number : <<"double", x>> \in Word
  BY DEF Word
<1>2. \A n \in Int : Uint(n) \in Seq(Word) /\ Len(Uint(n)) = 1 /\ Uint(n)[1] = <<"uint64", n>>
  BY <1>1, OneListed DEF Uint
<1>3. \A x \in Number : Real(x) \in Seq(Word) /\ Len(Real(x)) = 1 /\ Real(x)[1] = <<"double", x>>
  BY <1>1, OneListed DEF Real
<1>4. ASSUME NEW v \in Seq(Number)
      PROVE  /\ Vector(v) \in Seq(Word) /\ Len(Vector(v)) = Len(v)
             /\ \A d \in 1 .. Len(v) : Vector(v)[d] = <<"double", v[d]>>
  <2>1. Len(v) \in Nat /\ DOMAIN v = 1 .. Len(v) /\ \A d \in 1 .. Len(v) : <<"double", v[d]>> \in Word
    BY <1>1
  <2> QED
    BY <2>1 DEF Vector
<1> QED
  BY <1>2, <1>3, <1>4

\* A flag, the log density, the values.
OneDraw(flag, x, v) == Uint(flag) \o Real(x) \o Vector(v)

LEMMA DrawWordsAt ==
  \A flag \in Int, x \in Number, v \in Seq(Number) :
    Len(v) = Dims =>
      /\ OneDraw(flag, x, v) \in Seq(Word) /\ Len(OneDraw(flag, x, v)) = DrawLength
      /\ OneDraw(flag, x, v)[1] = <<"uint64", flag>>
      /\ OneDraw(flag, x, v)[2] = <<"double", x>>
      /\ \A d \in 1 .. Dims : OneDraw(flag, x, v)[2 + d] = <<"double", v[d]>>
<1> SUFFICES ASSUME NEW flag \in Int, NEW x \in Number, NEW vs \in Seq(Number), Len(vs) = Dims
             PROVE  /\ OneDraw(flag, x, vs) \in Seq(Word) /\ Len(OneDraw(flag, x, vs)) = DrawLength
                    /\ OneDraw(flag, x, vs)[1] = <<"uint64", flag>>
                    /\ OneDraw(flag, x, vs)[2] = <<"double", x>>
                    /\ \A d \in 1 .. Dims : OneDraw(flag, x, vs)[2 + d] = <<"double", vs[d]>>
  BY Zenon
<1> DEFINE a == Uint(flag)
           b == Real(x)
           v == Vector(vs)
<1>2. /\ a \in Seq(Word) /\ Len(a) = 1 /\ a[1] = <<"uint64", flag>>
      /\ b \in Seq(Word) /\ Len(b) = 1 /\ b[1] = <<"double", x>>
      /\ v \in Seq(Word) /\ Len(v) = Dims
      /\ \A d \in 1 .. Dims : v[d] = <<"double", vs[d]>>
  BY WordTypes, Zenon
<1>3. OneDraw(flag, x, vs) = (a \o b) \o v
  BY DEF OneDraw
<1> HIDE DEF a, b, v
<1>4. /\ a \o b \in Seq(Word) /\ Len(a \o b) = 2
      /\ (a \o b)[1] = a[1] /\ (a \o b)[2] = b[1]
  <2>1. /\ a \o b \in Seq(Word) /\ Len(a \o b) = Len(a) + Len(b)
        /\ \A j \in 1 .. Len(a) : (a \o b)[j] = a[j]
        /\ \A j \in 1 .. Len(b) : (a \o b)[Len(a) + j] = b[j]
    BY <1>2, WordConcat, Zenon
  <2>2. 1 \in 1 .. 1 /\ 1 + 1 = 2
    OBVIOUS
  <2> QED
    BY <1>2, <2>1, <2>2
<1>5. /\ (a \o b) \o v \in Seq(Word) /\ Len((a \o b) \o v) = 2 + Dims
      /\ \A j \in 1 .. 2 : ((a \o b) \o v)[j] = (a \o b)[j]
      /\ \A j \in 1 .. Dims : ((a \o b) \o v)[2 + j] = v[j]
  <2> DEFINE c == a \o b
  <2> HIDE DEF c
  <2>1. c \in Seq(Word) /\ Len(c) = 2
    BY <1>4 DEF c
  <2>2. /\ c \o v \in Seq(Word) /\ Len(c \o v) = Len(c) + Len(v)
        /\ \A j \in 1 .. Len(c) : (c \o v)[j] = c[j]
        /\ \A j \in 1 .. Len(v) : (c \o v)[Len(c) + j] = v[j]
    BY <1>2, <2>1, WordConcat, Zenon
  <2>3. /\ c \o v \in Seq(Word) /\ Len(c \o v) = 2 + Dims
        /\ \A j \in 1 .. 2 : (c \o v)[j] = c[j]
        /\ \A j \in 1 .. Dims : (c \o v)[2 + j] = v[j]
    BY <1>2, <2>1, <2>2, Zenon
  <2> QED
    BY <2>3 DEF c
<1>6. 1 \in 1 .. 2 /\ 2 \in 1 .. 2
  OBVIOUS
<1> QED
  BY <1>2, <1>3, <1>4, <1>5, <1>6, Zenon DEF DrawLength

\* One chain's section, from word b on: a count, and its draws.
SectionAt(w, b, m, flag) ==
  /\ b + 1 \in DOMAIN w /\ w[b + 1] = <<"uint64", made[m]>>
  /\ \A i \in 1 .. made[m] :
       LET k == b + 1 + (i - 1) * DrawLength
       IN  /\ k + 1 \in DOMAIN w /\ w[k + 1] = <<"uint64", flag>>
           /\ k + 2 \in DOMAIN w /\ w[k + 2] = <<"double", LogDensity(m, i)>>
           /\ \A d \in 1 .. Dims : /\ k + 2 + d \in DOMAIN w
                                  /\ w[k + 2 + d] = <<"double", Position(trace[m][i])[d]>>

Words(m, is) == write_draws(is, handlers[m].draws, handlers[m].lps)

LEMMA WordsOfChain ==
  ASSUME StoreTyped, NEW m \in Chains, HoldsDraws(m), NEW is \in BOOLEAN
  PROVE  /\ Words(m, is) \in Seq(Word)
         /\ Len(Words(m, is)) = 1 + made[m] * DrawLength
         /\ SectionAt(Words(m, is), 0, m, IF is THEN 1 ELSE 0)
<1> DEFINE draws == handlers[m].draws
           lps == handlers[m].lps
           flag == IF is THEN 1 ELSE 0
           parts == [i \in DOMAIN draws |-> DrawWords(is, draws, lps, i)]
           L == DrawLength
<1>1. /\ draws \in Seq(Seq(Number)) /\ lps \in Seq(Number) /\ made[m] \in Nat
      /\ Len(draws) = made[m] /\ Len(lps) = made[m] /\ trace[m] \in Seq(Int)
      /\ L \in Nat /\ L = 2 + Dims /\ Dims \in Nat
  BY StoreAssumption DEF StoreTyped, Store, HoldsDraws, DrawLength
<1>2. \A i \in 1 .. made[m] :
        /\ draws[i] = Position(trace[m][i]) /\ lps[i] = LogDensity(m, i)
        /\ i <= Len(lps) /\ Len(draws[i]) = Dims
  <2>1. \A i \in 1 .. made[m] : trace[m][i] \in Int /\ i <= made[m]
    BY <1>1 DEF HoldsDraws
  <2> QED
    BY <1>1, <2>1, ValueTypes DEF HoldsDraws
<1>3. Words(m, is) = Uint(made[m]) \o FlattenSeq(parts)
  BY <1>1 DEF Words, write_draws
<1>4. DOMAIN draws = 1 .. made[m]
  BY <1>1
<1> HIDE DEF draws, lps, L
<1>5. \A i \in 1 .. made[m] :
        /\ parts[i] \in Seq(Word) /\ Len(parts[i]) = L
        /\ parts[i][1] = <<"uint64", flag>> /\ parts[i][2] = <<"double", LogDensity(m, i)>>
        /\ \A d \in 1 .. Dims : parts[i][2 + d] = <<"double", Position(trace[m][i])[d]>>
  <2> SUFFICES ASSUME NEW i \in 1 .. made[m]
               PROVE  /\ parts[i] \in Seq(Word) /\ Len(parts[i]) = L
                      /\ parts[i][1] = <<"uint64", flag>>
                      /\ parts[i][2] = <<"double", LogDensity(m, i)>>
                      /\ \A d \in 1 .. Dims :
                           parts[i][2 + d] = <<"double", Position(trace[m][i])[d]>>
    OBVIOUS
  <2>1. /\ OneDraw(flag, lps[i], draws[i]) \in Seq(Word)
        /\ Len(OneDraw(flag, lps[i], draws[i])) = DrawLength
        /\ OneDraw(flag, lps[i], draws[i])[1] = <<"uint64", flag>>
        /\ OneDraw(flag, lps[i], draws[i])[2] = <<"double", lps[i]>>
        /\ \A d \in 1 .. Dims : OneDraw(flag, lps[i], draws[i])[2 + d] = <<"double", draws[i][d]>>
    <3> DEFINE x == lps[i]
               v == draws[i]
    <3>1. flag \in Int /\ x \in Number /\ v \in Seq(Number) /\ Len(v) = Dims
      BY <1>1, <1>2, ValueTypes
    <3> HIDE DEF flag, x, v, parts
    <3>2. OneDraw(flag, x, v) \in Seq(Word)
      BY <3>1, DrawWordsAt, Zenon
    <3>3. Len(OneDraw(flag, x, v)) = DrawLength
      BY <3>1, DrawWordsAt, Zenon
    <3>4. OneDraw(flag, x, v)[1] = <<"uint64", flag>>
      BY <3>1, DrawWordsAt, ZenonT(60)
    <3>5. OneDraw(flag, x, v)[2] = <<"double", x>>
      BY <3>1, DrawWordsAt, ZenonT(60)
    <3>6. \A d \in 1 .. Dims : OneDraw(flag, x, v)[2 + d] = <<"double", v[d]>>
      BY <3>1, DrawWordsAt
    <3> QED
      BY <3>2, <3>3, <3>4, <3>5, <3>6 DEF x, v
  <2>2. parts[i] = OneDraw(flag, lps[i], draws[i])
    BY <1>4 DEF DrawWords, OneDraw
  <2> HIDE DEF parts, flag
  <2> QED
    BY <1>2, <2>1, <2>2 DEF L
<1>6. parts \in Seq(Seq(Word)) /\ Len(parts) = made[m]
  <2>1. parts = [i \in 1 .. made[m] |-> parts[i]]
    BY <1>4
  <2> HIDE DEF parts
  <2> QED
    BY <1>1, <1>5, <2>1, WordsListed, Zenon
<1> DEFINE flat == FlattenSeq(parts)
<1> HIDE DEF parts
<1>7. /\ flat \in Seq(Word) /\ Len(flat) = made[m] * L
      /\ \A i \in 1 .. made[m], j \in 1 .. L :
           /\ (i - 1) * L + j \in 1 .. made[m] * L
           /\ flat[(i - 1) * L + j] = parts[i][j]
  <2>1. L \in Nat /\ \A i \in 1 .. Len(parts) : Len(parts[i]) = L
    BY <1>1, <1>5, <1>6, Zenon
  <2>2. /\ flat \in Seq(Word) /\ Len(flat) = Len(parts) * L
        /\ \A i \in 1 .. Len(parts), j \in 1 .. L :
             /\ (i - 1) * L + j \in 1 .. Len(parts) * L
             /\ flat[(i - 1) * L + j] = parts[i][j]
    BY <1>6, <2>1, WordFlatten, Zenon DEF flat
  <2> HIDE DEF flat
  <2> QED
    BY <1>6, <2>2, Zenon
<1> DEFINE a == Uint(made[m])
<1>8. a \in Seq(Word) /\ Len(a) = 1 /\ a[1] = <<"uint64", made[m]>>
  BY <1>1, WordTypes
<1> HIDE DEF flat, a
<1>9. /\ a \o flat \in Seq(Word) /\ Len(a \o flat) = 1 + made[m] * L
      /\ \A j \in 1 .. 1 : (a \o flat)[j] = a[j]
      /\ \A j \in 1 .. made[m] * L : (a \o flat)[1 + j] = flat[j]
  <2>1. /\ a \o flat \in Seq(Word) /\ Len(a \o flat) = Len(a) + Len(flat)
        /\ \A j \in 1 .. Len(a) : (a \o flat)[j] = a[j]
        /\ \A j \in 1 .. Len(flat) : (a \o flat)[Len(a) + j] = flat[j]
    BY <1>7, <1>8, WordConcat, Zenon
  <2> QED
    BY <1>7, <1>8, <2>1, Zenon
<1> DEFINE w == Words(m, is)
<1>10. w = a \o flat
  BY <1>3 DEF a, flat
<1> HIDE DEF w
<1>11. DOMAIN w = 1 .. 1 + made[m] * L /\ made[m] * L \in Nat
  BY <1>1, <1>9, <1>10
<1>12. 0 + 1 \in DOMAIN w /\ w[0 + 1] = <<"uint64", made[m]>>
  <2>1. 0 + 1 = 1 /\ 1 \in 1 .. 1 /\ 1 \in 1 .. 1 + made[m] * L
    BY <1>11
  <2> QED
    BY <1>8, <1>9, <1>10, <1>11, <2>1, Zenon
<1>13. ASSUME NEW i \in 1 .. made[m], NEW j \in 1 .. L
       PROVE  /\ 0 + 1 + (i - 1) * L + j \in DOMAIN w
              /\ w[0 + 1 + (i - 1) * L + j] = parts[i][j]
  <2>1. (i - 1) * L \in Nat /\ j \in Nat
    <3>1. \A x, y \in Nat : x * y \in Nat
      OBVIOUS
    <3>2. i - 1 \in Nat /\ j \in Nat
      BY <1>1
    <3> QED
      BY <1>1, <3>1, <3>2, Zenon
  <2>2. (i - 1) * L + j \in 1 .. made[m] * L /\ flat[(i - 1) * L + j] = parts[i][j]
    BY <1>7, Zenon
  <2>3. w[1 + ((i - 1) * L + j)] = parts[i][j]
    BY <1>9, <1>10, <2>2, Zenon
  <2>4. 0 + 1 + (i - 1) * L + j = 1 + ((i - 1) * L + j)
    BY <2>1
  <2>5. 1 + ((i - 1) * L + j) \in 1 .. 1 + made[m] * L
    BY <1>11, <2>1, <2>2
  <2> QED
    BY <1>11, <2>3, <2>4, <2>5, Zenon
<1>14. 1 \in 1 .. L /\ 2 \in 1 .. L /\ \A d \in 1 .. Dims : 2 + d \in 1 .. L
  BY <1>1
<1>15. ASSUME NEW i \in 1 .. made[m], NEW d \in 1 .. Dims
       PROVE  0 + 1 + (i - 1) * L + 2 + d = 0 + 1 + (i - 1) * L + (2 + d)
  BY <1>1
<1>16. ASSUME NEW i \in 1 .. made[m]
       PROVE  LET k == 0 + 1 + (i - 1) * L
              IN  /\ k + 1 \in DOMAIN w /\ w[k + 1] = <<"uint64", flag>>
                  /\ k + 2 \in DOMAIN w /\ w[k + 2] = <<"double", LogDensity(m, i)>>
                  /\ \A d \in 1 .. Dims : /\ k + 2 + d \in DOMAIN w
                                         /\ w[k + 2 + d] = <<"double", Position(trace[m][i])[d]>>
  <2> HIDE DEF flag
  <2> QED
    BY <1>5, <1>13, <1>14, <1>15, ZenonT(60)
<1>17. SectionAt(w, 0, m, flag)
  BY <1>12, <1>16 DEF SectionAt, L
<1> QED
  BY <1>9, <1>10, <1>17 DEF w, L

\* The reader's recursion, against the places it should reach.
LEMMA SectionStartUnfolds ==
  ASSUME NEW words, NEW s \in Nat \ {0}, NEW e, e[1] = 3,
         \A k \in 2 .. s : e[k] = e[k - 1] + 1 + words[e[k - 1]][2] * (2 + words[2][2])
  PROVE  SectionStart(words, s) = e[s]
<1> DEFINE Row(h, k) == h[k - 1] + 1 + words[h[k - 1]][2] * (2 + words[2][2])
           Equation(h) == h = [k \in 1 .. s |-> IF k = 1 THEN 3 ELSE
                                 h[k - 1] + 1 + words[h[k - 1]][2] * (2 + words[2][2])]
           start == CHOOSE h : Equation(h)
           g == [k \in 1 .. s |-> e[k]]
           Agree(n) == n + 1 <= s => start[n + 1] = e[n + 1]
<1>1. SectionStart(words, s) = start[s]
  BY DEF SectionStart
<1>2. Equation(g)
  <2>1. ASSUME NEW k \in 1 .. s
        PROVE  e[k] = IF k = 1 THEN 3 ELSE
                        g[k - 1] + 1 + words[g[k - 1]][2] * (2 + words[2][2])
    <3>1. CASE k = 1
      BY <3>1
    <3>2. CASE k # 1
      <4>1. k \in 2 .. s /\ k - 1 \in 1 .. s
        BY <3>2
      <4>2. g[k - 1] = e[k - 1]
        BY <4>1
      <4> HIDE DEF g
      <4> QED
        BY <3>2, <4>1, <4>2, Zenon
    <3> QED
      BY <3>1, <3>2
  <2> QED
    BY <2>1, Zenon
<1>3. Equation(start)
  <2> HIDE DEF Equation, g
  <2> QED
    BY <1>2, Zenon
<1> HIDE DEF start
<1>4. \A k \in 1 .. s : start[k] = IF k = 1 THEN 3 ELSE Row(start, k)
  BY <1>3, Zenon
<1>5. Agree(0)
  <2>1. 1 \in 1 .. s /\ 0 + 1 = 1
    OBVIOUS
  <2> QED
    BY <1>4, <2>1, Zenon
<1>6. ASSUME NEW n \in Nat, Agree(n) PROVE Agree(n + 1)
  <2> SUFFICES ASSUME n + 1 + 1 <= s PROVE start[n + 1 + 1] = e[n + 1 + 1]
    OBVIOUS
  <2>1. start[n + 1] = e[n + 1]
    BY <1>6
  <2>2. PICK k \in 2 .. s : k = n + 1 + 1 /\ k - 1 = n + 1 /\ k # 1 /\ k \in 1 .. s
    OBVIOUS
  <2>3. start[k] = Row(start, k) /\ e[k] = Row(e, k)
    BY <1>4, <2>2, Zenon
  <2> QED
    BY <2>1, <2>2, <2>3, Zenon
<1>7. \A n \in Nat : Agree(n)
  <2> DEFINE T == {n \in Nat : Agree(n)}
  <2> HIDE DEF Agree
  <2>1. 0 \in T /\ \A n \in Nat : n \in T => n + 1 \in T
    BY <1>5, <1>6
  <2>2. Nat \subseteq T
    <3> HIDE DEF T
    <3> QED
      BY <2>1, Induction
  <2> QED
    BY <2>2
<1>8. start[s] = e[s]
  <2>1. s - 1 \in Nat /\ s - 1 + 1 = s /\ s <= s
    OBVIOUS
  <2> QED
    BY <1>7, <2>1, Zenon
<1> QED
  BY <1>1, <1>8

\* A section is the same wherever its words are.
LEMMA SectionMoved ==
  ASSUME NEW u \in Seq(Word), NEW w \in Seq(Word), NEW b \in Nat,
         \A j \in 1 .. Len(u) : b + j \in DOMAIN w /\ w[b + j] = u[j],
         NEW m \in Chains, StoreTyped, NEW flag, SectionAt(u, 0, m, flag)
  PROVE  SectionAt(w, b, m, flag)
<1> DEFINE L == DrawLength
<1>1. L \in Nat /\ made[m] \in Nat /\ DOMAIN u = 1 .. Len(u) /\ Len(u) \in Nat /\ Dims \in Nat
  BY StoreAssumption DEF StoreTyped, DrawLength
<1> HIDE DEF L
<1>2. \A j \in DOMAIN u : b + j \in DOMAIN w /\ w[b + j] = u[j]
  BY <1>1
<1>3. b + 1 \in DOMAIN w /\ w[b + 1] = <<"uint64", made[m]>>
  <2>1. 0 + 1 = 1
    OBVIOUS
  <2> QED
    BY <1>2, <2>1, Zenon DEF SectionAt
<1>4. ASSUME NEW i \in 1 .. made[m]
      PROVE  LET k == b + 1 + (i - 1) * L
             IN  /\ k + 1 \in DOMAIN w /\ w[k + 1] = <<"uint64", flag>>
                 /\ k + 2 \in DOMAIN w /\ w[k + 2] = <<"double", LogDensity(m, i)>>
                 /\ \A d \in 1 .. Dims : /\ k + 2 + d \in DOMAIN w
                                        /\ w[k + 2 + d] = <<"double", Position(trace[m][i])[d]>>
  <2> DEFINE k == 0 + 1 + (i - 1) * L
             n == b + 1 + (i - 1) * L
  <2>1. k \in Nat /\ n = b + k
    <3> DEFINE q == (i - 1) * L
    <3>1. q \in Nat
      <4>1. \A x, y \in Nat : x * y \in Nat
        OBVIOUS
      <4>2. i - 1 \in Nat
        BY <1>1
      <4> QED
        BY <1>1, <4>1, <4>2, Zenon
    <3> HIDE DEF q
    <3>2. 0 + 1 + q \in Nat /\ b + 1 + q = b + (0 + 1 + q)
      BY <3>1
    <3> QED
      BY <3>2 DEF q
  <2>2. /\ k + 1 \in DOMAIN u /\ u[k + 1] = <<"uint64", flag>>
        /\ k + 2 \in DOMAIN u /\ u[k + 2] = <<"double", LogDensity(m, i)>>
        /\ \A d \in 1 .. Dims : /\ k + 2 + d \in DOMAIN u
                               /\ u[k + 2 + d] = <<"double", Position(trace[m][i])[d]>>
    BY Zenon DEF SectionAt, L
  <2> HIDE DEF k, n
  <2>3. /\ n + 1 = b + (k + 1) /\ n + 2 = b + (k + 2)
        /\ \A d \in 1 .. Dims : n + 2 + d = b + (k + 2 + d)
    BY <1>1, <2>1
  <2>4. n + 1 \in DOMAIN w /\ w[n + 1] = <<"uint64", flag>>
    BY <1>2, <2>2, <2>3, Zenon
  <2>5. n + 2 \in DOMAIN w /\ w[n + 2] = <<"double", LogDensity(m, i)>>
    BY <1>2, <2>2, <2>3, Zenon
  <2>6. ASSUME NEW d \in 1 .. Dims
        PROVE  /\ n + 2 + d \in DOMAIN w
               /\ w[n + 2 + d] = <<"double", Position(trace[m][i])[d]>>
    BY <1>2, <2>2, <2>3, Zenon
  <2> QED
    BY <2>4, <2>5, <2>6 DEF n
<1> QED
  BY <1>3, <1>4 DEF SectionAt, L

\* A section is read as the draws it was written from.
LEMMA ReadBack ==
  ASSUME StoreTyped, NEW m \in Chains, HoldsDraws(m), NEW w, NEW s, NEW b \in Nat, NEW flag,
         w[2][2] = Dims, SectionStart(w, s) = b + 1, SectionAt(w, b, m, flag)
  PROVE  Section(w, s) = Made(m, flag)
<1>1. made[m] \in Nat /\ Dims \in Nat /\ Dims >= 1 /\ m \in Int /\ trace[m] \in Seq(Int)
  BY StoreAssumption, SMTT(60) DEF StoreTyped, Chains
<1>2. w[b + 1] = <<"uint64", made[m]>> /\ w[b + 1][2] = made[m]
  BY DEF SectionAt
<1> DEFINE At(i) == b + 1 + 1 + (i - 1) * (2 + Dims)
           Read(i) == [is_sampling |-> w[At(i)][2], lp |-> RealsAt(w, At(i) + 1, 1)[1],
                       draw |-> RealsAt(w, At(i) + 2, Dims)]
<1>3. Section(w, s) = [i \in 1 .. made[m] |-> Read(i)]
  BY <1>2 DEF Section
<1>4. ASSUME NEW i \in 1 .. made[m]
      PROVE  Read(i) = [is_sampling |-> flag, lp |-> LogDensity(m, i),
                        draw |-> Position(trace[m][i])]
  <2> DEFINE k == b + 1 + (i - 1) * DrawLength
  <2>1. /\ k + 1 \in DOMAIN w /\ w[k + 1] = <<"uint64", flag>>
        /\ k + 2 \in DOMAIN w /\ w[k + 2] = <<"double", LogDensity(m, i)>>
        /\ \A d \in 1 .. Dims : /\ k + 2 + d \in DOMAIN w
                               /\ w[k + 2 + d] = <<"double", Position(trace[m][i])[d]>>
    BY Zenon DEF SectionAt
  <2>2. k \in Nat /\ At(i) = k + 1
    <3> DEFINE q == (i - 1) * (2 + Dims)
    <3>1. q \in Nat
      <4>1. \A x, y \in Nat : x * y \in Nat
        OBVIOUS
      <4>2. i - 1 \in Nat /\ 2 + Dims \in Nat
        BY <1>1
      <4> QED
        BY <4>1, <4>2, Zenon
    <3> HIDE DEF q
    <3>2. b + 1 + q \in Nat /\ b + 1 + 1 + q = b + 1 + q + 1
      BY <3>1
    <3> QED
      BY <3>2 DEF q, DrawLength
  <2> DEFINE p == At(i)
  <2>3. p = k + 1
    BY <2>2
  <2> HIDE DEF k, p
  <2>4. /\ p + 1 + 1 - 1 = k + 2
        /\ \A d \in 1 .. Dims : p + 2 + d - 1 = k + 2 + d
    BY <1>1, <2>2, <2>3
  <2>5. w[p][2] = flag
    BY <2>1, <2>3
  <2>6. RealsAt(w, p + 1, 1)[1] = LogDensity(m, i)
    <3>1. IsWord(w, p + 1 + 1 - 1, "double") /\ w[p + 1 + 1 - 1][2] = LogDensity(m, i)
      BY <2>1, <2>4 DEF IsWord
    <3>2. 1 \in 1 .. 1
      OBVIOUS
    <3> QED
      BY <3>1, <3>2, Zenon DEF RealsAt
  <2>7. RealsAt(w, p + 2, Dims) = Position(trace[m][i])
    <3>1. ASSUME NEW d \in 1 .. Dims
          PROVE  /\ IsWord(w, p + 2 + d - 1, "double")
                 /\ w[p + 2 + d - 1][2] = Position(trace[m][i])[d]
      <4>1. k + 2 + d \in DOMAIN w /\ w[k + 2 + d] = <<"double", Position(trace[m][i])[d]>>
        BY <2>1, Zenon
      <4>2. p + 2 + d - 1 = k + 2 + d
        BY <2>4
      <4> QED
        BY <4>1, <4>2 DEF IsWord
    <3>2. Position(trace[m][i]) = [d \in 1 .. Dims |-> Position(trace[m][i])[d]]
      BY DEF Position
    <3> QED
      BY <3>1, <3>2, Zenon DEF RealsAt
  <2> QED
    BY <2>5, <2>6, <2>7 DEF p
<1> QED
  BY <1>3, <1>4 DEF Made

LEMMA WordEntries ==
  \A ws \in Seq(Seq(Word)) : \A starts :
    StartsOf(ws, starts) =>
      /\ FlattenSeq(ws) \in Seq(Word)
      /\ Len(FlattenSeq(ws)) = starts[Len(ws)]
      /\ \A i \in 1 .. Len(ws), j \in Nat :
           j \in 1 .. Len(ws[i]) =>
             /\ starts[i - 1] + j \in 1 .. starts[Len(ws)]
             /\ FlattenSeq(ws)[starts[i - 1] + j] = ws[i][j]
BY FlattenEntries

LEMMA WordStarts == \A ws \in Seq(Seq(Word)) : \E starts : StartsOf(ws, starts)
BY StartsExist

\* All chains' sections, in either mode at the same places.
Sections(is) == [m \in Chains |-> Words(m, is)]
SectionLength(m) == 1 + made[m] * DrawLength

SectionStarts(starts) ==
  /\ starts \in [0 .. NumChains -> Nat] /\ starts[0] = 0
  /\ \A m \in Chains : starts[m] = starts[m - 1] + SectionLength(m)

LEMMA SectionsListed ==
  ASSUME StoreInv, NEW is \in BOOLEAN
  PROVE  /\ Sections(is) \in Seq(Seq(Word)) /\ Len(Sections(is)) = NumChains
         /\ \A m \in Chains : /\ Sections(is)[m] = Words(m, is)
                              /\ Len(Sections(is)[m]) = SectionLength(m)
<1>1. NumChains \in Nat /\ Chains = 1 .. NumChains
  BY StoreAssumption DEF Chains
<1>2. \A m \in Chains : Words(m, is) \in Seq(Word) /\ Len(Words(m, is)) = SectionLength(m)
  BY WordsOfChain DEF StoreInv, SectionLength
<1>3. \A m \in Chains : Sections(is)[m] = Words(m, is)
  BY DEF Sections
<1>4. Sections(is) = [m \in 1 .. NumChains |-> Sections(is)[m]]
  BY <1>1 DEF Sections
<1>5. Sections(is) \in Seq(Seq(Word)) /\ Len(Sections(is)) = NumChains
  <2> DEFINE f == Sections(is)
  <2>1. f = [i \in 1 .. NumChains |-> f[i]] /\ \A i \in 1 .. NumChains : f[i] \in Seq(Word)
    BY <1>1, <1>2, <1>3, <1>4
  <2> HIDE DEF f
  <2>2. f \in Seq(Seq(Word)) /\ Len(f) = NumChains
    BY <1>1, <2>1, WordsListed, Zenon
  <2> QED
    BY <2>2 DEF f
<1> QED
  BY <1>2, <1>3, <1>5

LEMMA SectionsAt ==
  ASSUME StoreInv
  PROVE  \E starts :
           /\ SectionStarts(starts)
           /\ \A is \in BOOLEAN :
                /\ FlattenSeq(Sections(is)) \in Seq(Word)
                /\ Len(FlattenSeq(Sections(is))) = starts[NumChains]
                /\ \A m \in Chains, j \in Nat :
                     j \in 1 .. SectionLength(m) =>
                       /\ starts[m - 1] + j \in 1 .. starts[NumChains]
                       /\ FlattenSeq(Sections(is))[starts[m - 1] + j] = Words(m, is)[j]
<1>1. PICK starts : StartsOf(Sections(FALSE), starts)
  BY SectionsListed, WordStarts
<1>2. Chains = 1 .. NumChains
  BY DEF Chains
<1>3. SectionStarts(starts)
  BY <1>1, <1>2, SectionsListed DEF StartsOf, SectionStarts
<1>4. ASSUME NEW is \in BOOLEAN
      PROVE  /\ FlattenSeq(Sections(is)) \in Seq(Word)
             /\ Len(FlattenSeq(Sections(is))) = starts[NumChains]
             /\ \A m \in Chains, j \in Nat :
                  j \in 1 .. SectionLength(m) =>
                    /\ starts[m - 1] + j \in 1 .. starts[NumChains]
                    /\ FlattenSeq(Sections(is))[starts[m - 1] + j] = Words(m, is)[j]
  <2> DEFINE ws == Sections(is)
  <2>1. /\ ws \in Seq(Seq(Word)) /\ Len(ws) = NumChains
        /\ \A m \in Chains : ws[m] = Words(m, is) /\ Len(ws[m]) = SectionLength(m)
    BY SectionsListed
  <2> HIDE DEF ws
  <2>2. StartsOf(ws, starts)
    BY <1>2, <1>3, <2>1 DEF StartsOf, SectionStarts
  <2>3. /\ FlattenSeq(ws) \in Seq(Word)
        /\ Len(FlattenSeq(ws)) = starts[Len(ws)]
        /\ \A i \in 1 .. Len(ws), j \in Nat :
             j \in 1 .. Len(ws[i]) =>
               /\ starts[i - 1] + j \in 1 .. starts[Len(ws)]
               /\ FlattenSeq(ws)[starts[i - 1] + j] = ws[i][j]
    <3>1. /\ FlattenSeq(ws) \in Seq(Word)
          /\ Len(FlattenSeq(ws)) = starts[Len(ws)]
      BY <2>1, <2>2, WordEntries
    <3>2. ASSUME NEW i \in 1 .. Len(ws), NEW j \in Nat, j \in 1 .. Len(ws[i])
          PROVE  /\ starts[i - 1] + j \in 1 .. starts[Len(ws)]
                 /\ FlattenSeq(ws)[starts[i - 1] + j] = ws[i][j]
      BY <2>1, <2>2, <3>2, WordEntries, Zenon
    <3> QED
      BY <3>1, <3>2
  <2>4. /\ FlattenSeq(ws) \in Seq(Word)
        /\ Len(FlattenSeq(ws)) = starts[NumChains]
        /\ \A m \in Chains, j \in Nat :
             j \in 1 .. SectionLength(m) =>
               /\ starts[m - 1] + j \in 1 .. starts[NumChains]
               /\ FlattenSeq(ws)[starts[m - 1] + j] = Words(m, is)[j]
    <3>1. ASSUME NEW m \in Chains, NEW j \in Nat, j \in 1 .. SectionLength(m)
          PROVE  /\ starts[m - 1] + j \in 1 .. starts[NumChains]
                 /\ FlattenSeq(ws)[starts[m - 1] + j] = Words(m, is)[j]
      <4>1. m \in 1 .. Len(ws) /\ j \in 1 .. Len(ws[m]) /\ ws[m] = Words(m, is)
        BY <1>2, <2>1, <3>1
      <4> QED
        BY <2>1, <2>3, <4>1, Zenon
    <3> QED
      BY <2>1, <2>3, <3>1, Zenon
  <2> QED
    BY <2>4 DEF ws
<1> QED
  BY <1>3, <1>4

\* A sample file: its header, then section after section to its end, each
\* with the draws of its chain.
ChainOf(s, first) == IF s > first THEN s - first ELSE s

SectionsOf(w, first) ==
  \E base :
    /\ \A s \in 1 .. first + NumChains : base[s] \in Nat
    /\ base[1] = 2
    /\ \A s \in 2 .. first + NumChains :
         base[s] = base[s - 1] + SectionLength(ChainOf(s - 1, first))
    /\ base[first + NumChains] + SectionLength(NumChains) = Len(w)
    /\ \A s \in 1 .. first + NumChains :
         SectionAt(w, base[s], ChainOf(s, first), IF s > first THEN 1 ELSE 0)

LEMMA SampleWordsUnfold ==
  ASSUME StoreInv, NEW include \in BOOLEAN
  PROVE  \/ SampleWords(include) = <<>> /\ \A m \in Chains : made[m] = 0
         \/ SampleWords(include) = (Uint(NumChains) \o Uint(Dims))
              \o (IF include THEN FlattenSeq(Sections(FALSE)) ELSE <<>>)
              \o FlattenSeq(Sections(TRUE))
<1> DEFINE drawn == {m \in Chains : handlers[m].draws # <<>> \/ WarmupDraws(handlers[m]) # <<>>}
<1>1. CASE drawn = {}
  <2>1. \A m \in Chains : made[m] = 0
    <3>1. \A m \in Chains : handlers[m].draws = <<>> /\ Len(handlers[m].draws) = made[m]
      BY <1>1 DEF StoreInv, HoldsDraws
    <3> QED
      BY <3>1
  <2> QED
    BY <1>1, <2>1 DEF SampleWords
<1>2. CASE drawn # {}
  <2>1. /\ PerChain(LAMBDA h : write_draws(FALSE, WarmupDraws(h), WarmupLogProbs(h)))
             = FlattenSeq(Sections(FALSE))
        /\ PerChain(LAMBDA h : write_draws(TRUE, h.draws, h.lps)) = FlattenSeq(Sections(TRUE))
    BY DEF PerChain, Sections, Words, WarmupDraws, WarmupLogProbs
  <2> HIDE DEF drawn
  <2> QED
    BY <1>2, <2>1, Zenon DEF SampleWords, drawn
<1> QED
  BY <1>1, <1>2

LEMMA SampleSections ==
  ASSUME StoreInv, NEW include \in BOOLEAN, SampleWords(include) # <<>>
  PROVE  /\ SampleWords(include)[1][2] = NumChains /\ SampleWords(include)[2][2] = Dims
         /\ SectionsOf(SampleWords(include), IF include THEN NumChains ELSE 0)
<1> DEFINE a == Uint(NumChains) \o Uint(Dims)
           x == IF include THEN FlattenSeq(Sections(FALSE)) ELSE <<>>
           y == FlattenSeq(Sections(TRUE))
           w == (a \o x) \o y
           first == IF include THEN NumChains ELSE 0
           N == NumChains
<1>1. SampleWords(include) = w
  BY SampleWordsUnfold, Zenon
<1>2. N \in Nat /\ N >= 1 /\ Chains = 1 .. N /\ Dims \in Nat /\ first \in Nat
  BY StoreAssumption DEF Chains
<1>3. StoreTyped /\ \A m \in Chains : HoldsDraws(m)
  BY DEF StoreInv
<1>4. \A m \in Chains : SectionLength(m) \in Nat /\ SectionLength(m) >= 1
  <2>1. \A m \in Chains : made[m] \in Nat /\ DrawLength \in Nat
    BY <1>2, <1>3 DEF StoreTyped, DrawLength
  <2>2. \A p, q \in Nat : 1 + p * q \in Nat /\ 1 + p * q >= 1
    BY SMT
  <2> QED
    BY <2>1, <2>2, Zenon DEF SectionLength
<1>5. a \in Seq(Word) /\ Len(a) = 2 /\ a[1] = <<"uint64", N>> /\ a[2] = <<"uint64", Dims>>
  <2> DEFINE p == Uint(N)
             q == Uint(Dims)
  <2>1. /\ p \in Seq(Word) /\ Len(p) = 1 /\ p[1] = <<"uint64", N>>
        /\ q \in Seq(Word) /\ Len(q) = 1 /\ q[1] = <<"uint64", Dims>>
    BY <1>2, WordTypes
  <2> HIDE DEF p, q
  <2>2. /\ p \o q \in Seq(Word) /\ Len(p \o q) = Len(p) + Len(q)
        /\ \A j \in 1 .. Len(p) : (p \o q)[j] = p[j]
        /\ \A j \in 1 .. Len(q) : (p \o q)[Len(p) + j] = q[j]
    BY <2>1, WordConcat, Zenon
  <2>3. 1 \in 1 .. 1 /\ 1 + 1 = 2
    OBVIOUS
  <2>4. /\ p \o q \in Seq(Word) /\ Len(p \o q) = 2
        /\ (p \o q)[1] = p[1] /\ (p \o q)[2] = q[1]
    BY <2>1, <2>2, <2>3
  <2> QED
    BY <2>1, <2>4 DEF p, q
<1>6. PICK starts :
        /\ SectionStarts(starts)
        /\ \A is \in BOOLEAN :
             /\ FlattenSeq(Sections(is)) \in Seq(Word)
             /\ Len(FlattenSeq(Sections(is))) = starts[NumChains]
             /\ \A m \in Chains, j \in Nat :
                  j \in 1 .. SectionLength(m) =>
                    /\ starts[m - 1] + j \in 1 .. starts[NumChains]
                    /\ FlattenSeq(Sections(is))[starts[m - 1] + j] = Words(m, is)[j]
  BY SectionsAt, Zenon
<1> DEFINE Rest == starts[N]
           X == IF include THEN Rest ELSE 0
<1>7. Rest \in Nat /\ X \in Nat /\ starts[0] = 0 /\ \A m \in 0 .. N : starts[m] \in Nat
  BY <1>2, <1>6 DEF SectionStarts
<1>8. \A m \in Chains : starts[m] = starts[m - 1] + SectionLength(m)
  BY <1>6 DEF SectionStarts
<1>9. x \in Seq(Word) /\ Len(x) = X
  <2>1. FlattenSeq(Sections(FALSE)) \in Seq(Word) /\ Len(FlattenSeq(Sections(FALSE))) = Rest
    BY <1>6
  <2>2. <<>> \in Seq(Word) /\ Len(<<>>) = 0
    OBVIOUS
  <2>3. CASE include
    BY <2>1, <2>3
  <2>4. CASE ~include
    BY <2>2, <2>4
  <2> QED
    BY <2>3, <2>4
<1>10. y \in Seq(Word) /\ Len(y) = Rest
  BY <1>6
<1>11. ASSUME include, NEW m \in Chains, NEW j \in Nat, j \in 1 .. SectionLength(m)
       PROVE  starts[m - 1] + j \in 1 .. X /\ x[starts[m - 1] + j] = Words(m, FALSE)[j]
  BY <1>6, <1>11
<1>12. ASSUME NEW m \in Chains, NEW j \in Nat, j \in 1 .. SectionLength(m)
       PROVE  starts[m - 1] + j \in 1 .. Rest /\ y[starts[m - 1] + j] = Words(m, TRUE)[j]
  BY <1>6, <1>12
<1> HIDE DEF a, x, y, X, Rest
<1>13. /\ w \in Seq(Word) /\ Len(w) = 2 + X + Rest /\ DOMAIN w = 1 .. 2 + X + Rest
       /\ w[1] = a[1] /\ w[2] = a[2]
       /\ \A j \in 1 .. X : w[2 + j] = x[j]
       /\ \A j \in 1 .. Rest : w[2 + X + j] = y[j]
  <2> DEFINE c == a \o x
  <2>1. /\ c \in Seq(Word) /\ Len(c) = Len(a) + Len(x)
        /\ \A j \in 1 .. Len(a) : c[j] = a[j]
        /\ \A j \in 1 .. Len(x) : c[Len(a) + j] = x[j]
    BY <1>5, <1>9, WordConcat, Zenon
  <2> HIDE DEF c
  <2>2. /\ c \o y \in Seq(Word) /\ Len(c \o y) = Len(c) + Len(y)
        /\ \A j \in 1 .. Len(c) : (c \o y)[j] = c[j]
        /\ \A j \in 1 .. Len(y) : (c \o y)[Len(c) + j] = y[j]
    BY <1>10, <2>1, WordConcat, Zenon
  <2>3. /\ 2 + X \in Nat /\ 1 \in 1 .. 2 /\ 2 \in 1 .. 2 /\ 1 \in 1 .. 2 + X /\ 2 \in 1 .. 2 + X
        /\ \A j \in 1 .. X : 2 + j \in 1 .. 2 + X
    BY <1>7
  <2>4. Len(c) = 2 + X
    BY <1>5, <1>9, <2>1
  <2>5. c[1] = a[1] /\ c[2] = a[2]
    BY <1>5, <2>1, <2>3, Zenon
  <2>6. \A j \in 1 .. X : c[2 + j] = x[j]
    BY <1>5, <1>9, <2>1, Zenon
  <2>7. Len(c \o y) = 2 + X + Rest
    BY <1>10, <2>2, <2>4
  <2>8. DOMAIN (c \o y) = 1 .. 2 + X + Rest
    BY <2>2, <2>7
  <2>9. (c \o y)[1] = a[1] /\ (c \o y)[2] = a[2]
    BY <2>2, <2>3, <2>4, <2>5, Zenon
  <2>10. \A j \in 1 .. X : (c \o y)[2 + j] = x[j]
    BY <2>2, <2>3, <2>4, <2>6, Zenon
  <2>11. \A j \in 1 .. Rest : (c \o y)[2 + X + j] = y[j]
    BY <1>10, <2>2, <2>4, Zenon
  <2> QED
    BY <2>2, <2>7, <2>8, <2>9, <2>10, <2>11 DEF c
<1> HIDE DEF w
<1> DEFINE base == [s \in 1 .. first + N |->
                      IF s > first THEN 2 + X + starts[s - first - 1] ELSE 2 + starts[s - 1]]
<1>14. \A s \in 1 .. first + N :
         IF s > first
           THEN /\ s - first \in Chains /\ s - first - 1 \in 0 .. N
                /\ ChainOf(s, first) = s - first
           ELSE /\ s \in Chains /\ s - 1 \in 0 .. N /\ include /\ N = first
                /\ ChainOf(s, first) = s
  BY <1>2 DEF ChainOf
<1>15. \A s \in 1 .. first + N : base[s] \in Nat
  BY <1>7, <1>14
<1>16. base[1] = 2
  BY <1>2, <1>7, <1>14 DEF X
<1>17. ASSUME NEW s \in 2 .. first + N
       PROVE  base[s] = base[s - 1] + SectionLength(ChainOf(s - 1, first))
  <2>1. s - 1 \in 1 .. first + N /\ s \in 1 .. first + N
    BY <1>2
  <2>2. CASE s - 1 > first
    <3>1. /\ s - 1 - first \in Chains /\ ChainOf(s - 1, first) = s - 1 - first
          /\ s - 1 - first = s - first - 1 /\ s > first /\ s - 1 - first - 1 \in 0 .. N
      BY <1>2, <1>14, <2>1, <2>2
    <3>2. starts[s - first - 1] = starts[s - 1 - first - 1] + SectionLength(s - 1 - first)
      BY <1>8, <3>1
    <3> QED
      BY <1>4, <1>7, <2>1, <2>2, <3>1, <3>2
  <2>3. CASE s - 1 = first
    <3>1. /\ s - first - 1 = 0 /\ s > first /\ ~(s - 1 > first) /\ s - 1 = N /\ include
          /\ s - 1 \in Chains /\ ChainOf(s - 1, first) = N /\ s - 1 - 1 \in 0 .. N
      BY <1>2, <1>14, <2>1, <2>3
    <3>2. starts[N] = starts[s - 1 - 1] + SectionLength(N) /\ X = starts[N]
      BY <1>8, <3>1 DEF X, Rest
    <3> QED
      BY <1>4, <1>7, <2>1, <3>1, <3>2, SMTT(60)
  <2>4. CASE s <= first
    <3>1. /\ s - 1 \in Chains /\ ChainOf(s - 1, first) = s - 1
          /\ ~(s > first) /\ ~(s - 1 > first) /\ s - 1 - 1 \in 0 .. N
      BY <1>2, <1>14, <2>1, <2>4
    <3>2. starts[s - 1] = starts[s - 1 - 1] + SectionLength(s - 1)
      BY <1>8, <3>1
    <3> QED
      BY <1>4, <1>7, <2>1, <3>1, <3>2
  <2> QED
    BY <1>2, <2>2, <2>3, <2>4
<1>18. base[first + N] + SectionLength(N) = Len(w)
  <2>1. /\ first + N \in 1 .. first + N /\ first + N > first /\ first + N - first - 1 = N - 1
        /\ N \in Chains /\ N - 1 \in 0 .. N
    BY <1>2
  <2>2. starts[N] = starts[N - 1] + SectionLength(N)
    BY <1>8, <2>1
  <2>3. base[first + N] = 2 + X + starts[N - 1]
    <3>1. \A s \in 1 .. first + N : s > first => base[s] = 2 + X + starts[s - first - 1]
      OBVIOUS
    <3> HIDE DEF base, first
    <3>2. PICK s \in 1 .. first + N : s = first + N /\ s > first /\ s - first - 1 = N - 1
      BY <1>2, <2>1, SMT
    <3> QED
      BY <3>1, <3>2, Zenon
  <2> QED
    BY <1>4, <1>7, <1>13, <2>1, <2>2, <2>3 DEF Rest
<1>19. ASSUME NEW s \in 1 .. first + N
       PROVE  SectionAt(w, base[s], ChainOf(s, first), IF s > first THEN 1 ELSE 0)
  <2>1. CASE s > first
    <3> DEFINE m == ChainOf(s, first)
               u == Words(m, TRUE)
               b == base[s]
    <3>1. m \in Chains /\ m - 1 \in 0 .. N /\ b = 2 + X + starts[m - 1]
      BY <1>14, <2>1
    <3> HIDE DEF m, b
    <3>2. u \in Seq(Word) /\ Len(u) = SectionLength(m) /\ SectionAt(u, 0, m, 1)
      BY <1>3, <3>1, WordsOfChain DEF SectionLength
    <3>3. \A j \in 1 .. Len(u) : b + j \in DOMAIN w /\ w[b + j] = u[j]
      <4> SUFFICES ASSUME NEW j \in 1 .. SectionLength(m)
                   PROVE  b + j \in DOMAIN w /\ w[b + j] = u[j]
        BY <3>2
      <4>1. j \in Nat
        BY <1>4, <3>1
      <4>2. starts[m - 1] + j \in 1 .. Rest /\ y[starts[m - 1] + j] = u[j]
        BY <1>12, <3>1, <4>1
      <4>3. b + j = 2 + X + (starts[m - 1] + j) /\ b + j \in 1 .. 2 + X + Rest
        <5>1. \A p, q, c, d \in Nat :
                p + q \in 1 .. d => /\ 2 + c + p + q = 2 + c + (p + q)
                                    /\ 2 + c + p + q \in 1 .. 2 + c + d
          OBVIOUS
        <5>2. starts[m - 1] \in Nat
          BY <1>7, <3>1
        <5> QED
          BY <1>7, <3>1, <4>1, <4>2, <5>1, <5>2, ZenonT(60)
      <4>4. w[2 + X + (starts[m - 1] + j)] = u[j]
        BY <1>13, <4>2, Zenon
      <4> QED
        BY <1>13, <4>3, <4>4, Zenon
    <3>4. b \in Nat
      BY <1>7, <3>1
    <3>5. SectionAt(w, b, m, 1)
      <4> HIDE DEF u
      <4> QED
        BY <1>3, <1>13, <3>1, <3>2, <3>3, <3>4, SectionMoved, ZenonT(60)
    <3> QED
      BY <2>1, <3>5 DEF m, b
  <2>2. CASE ~(s > first)
    <3> DEFINE m == ChainOf(s, first)
               u == Words(m, FALSE)
               b == base[s]
    <3>1. m \in Chains /\ m - 1 \in 0 .. N /\ b = 2 + starts[m - 1] /\ include
      BY <1>14, <2>2
    <3> HIDE DEF m, b
    <3>2. u \in Seq(Word) /\ Len(u) = SectionLength(m) /\ SectionAt(u, 0, m, 0)
      BY <1>3, <3>1, WordsOfChain DEF SectionLength
    <3>3. \A j \in 1 .. Len(u) : b + j \in DOMAIN w /\ w[b + j] = u[j]
      <4> SUFFICES ASSUME NEW j \in 1 .. SectionLength(m)
                   PROVE  b + j \in DOMAIN w /\ w[b + j] = u[j]
        BY <3>2
      <4>1. j \in Nat
        BY <1>4, <3>1
      <4>2. starts[m - 1] + j \in 1 .. X /\ x[starts[m - 1] + j] = u[j]
        BY <1>11, <3>1, <4>1, Zenon
      <4>3. b + j = 2 + (starts[m - 1] + j) /\ b + j \in 1 .. 2 + X + Rest
        <5>1. \A p, q, c, d \in Nat :
                p + q \in 1 .. c => 2 + p + q = 2 + (p + q) /\ 2 + p + q \in 1 .. 2 + c + d
          OBVIOUS
        <5>2. starts[m - 1] \in Nat
          BY <1>7, <3>1
        <5> QED
          BY <1>7, <3>1, <4>1, <4>2, <5>1, <5>2, Zenon
      <4>4. w[2 + (starts[m - 1] + j)] = u[j]
        BY <1>13, <4>2, Zenon
      <4> QED
        BY <1>13, <4>3, <4>4, Zenon
    <3>4. b \in Nat
      BY <1>7, <3>1
    <3>5. SectionAt(w, b, m, 0)
      <4> HIDE DEF u
      <4> QED
        BY <1>3, <1>13, <3>1, <3>2, <3>3, <3>4, SectionMoved
    <3> QED
      BY <2>2, <3>5 DEF m, b
  <2> QED
    BY <2>1, <2>2
<1>20. SectionsOf(w, first)
  <2> HIDE DEF base, first
  <2> QED
    BY <1>15, <1>16, <1>17, <1>18, <1>19, Zenon DEF SectionsOf
<1>21. w[1][2] = N /\ w[2][2] = Dims
  BY <1>5, <1>13
<1> QED
  BY <1>1, <1>20, <1>21

\* What the sections of a file are read as.
LEMMA SectionsRead ==
  ASSUME StoreInv, NEW w, NEW first \in {0, NumChains}, w[2][2] = Dims, SectionsOf(w, first)
  PROVE  /\ \A m \in Chains : Section(w, first + m) = Made(m, 1)
         /\ \A s \in 1 .. first : Section(w, s) = Made(s, 0)
         /\ SectionStart(w, first + NumChains) + made[NumChains] * (2 + Dims) = Len(w)
<1> DEFINE N == NumChains
<1>1. N \in Nat /\ N >= 1 /\ Chains = 1 .. N /\ Dims \in Nat /\ first \in Nat
      /\ \A m \in Chains : made[m] \in Nat
  BY StoreAssumption DEF Chains, StoreInv, StoreTyped
<1>2. StoreTyped /\ \A m \in Chains : HoldsDraws(m)
  BY DEF StoreInv
<1>3. PICK base :
        /\ \A s \in 1 .. first + N : base[s] \in Nat
        /\ base[1] = 2
        /\ \A s \in 2 .. first + N : base[s] = base[s - 1] + SectionLength(ChainOf(s - 1, first))
        /\ base[first + N] + SectionLength(N) = Len(w)
        /\ \A s \in 1 .. first + N :
             SectionAt(w, base[s], ChainOf(s, first), IF s > first THEN 1 ELSE 0)
  BY DEF SectionsOf
<1>4. \A s \in 1 .. first + N : ChainOf(s, first) \in Chains
  BY <1>1 DEF ChainOf
<1>5. \A m \in Chains : SectionLength(m) = 1 + made[m] * (2 + Dims)
  BY DEF SectionLength, DrawLength
<1> DEFINE e == [s \in 1 .. first + N |-> base[s] + 1]
<1>6. \A s \in 1 .. first + N : e[s] = base[s] + 1
  OBVIOUS
<1> HIDE DEF e
<1>7. e[1] = 3
  BY <1>1, <1>3, <1>6
<1>8. ASSUME NEW k \in 2 .. first + N
      PROVE  e[k] = e[k - 1] + 1 + w[e[k - 1]][2] * (2 + w[2][2])
  <2>1. k \in 1 .. first + N /\ k - 1 \in 1 .. first + N
    BY <1>1
  <2> DEFINE m == ChainOf(k - 1, first)
  <2>2. m \in Chains
    BY <1>4, <2>1
  <2>3. w[base[k - 1] + 1][2] = made[m]
    <3>1. SectionAt(w, base[k - 1], m, IF k - 1 > first THEN 1 ELSE 0)
      BY <1>3, <2>1
    <3> HIDE DEF m
    <3>2. w[base[k - 1] + 1] = <<"uint64", made[m]>>
      BY <3>1 DEF SectionAt
    <3> QED
      BY <3>2
  <2>4. base[k] = base[k - 1] + (1 + made[m] * (2 + Dims))
    <3>1. base[k] = base[k - 1] + SectionLength(m)
      BY <1>3
    <3> HIDE DEF m
    <3> QED
      BY <1>5, <2>2, <3>1, Zenon
  <2> DEFINE q == made[m] * (2 + Dims)
  <2>5. q \in Nat
    <3>1. \A x, y \in Nat : x * y \in Nat
      OBVIOUS
    <3>2. 2 + Dims \in Nat
      BY <1>1
    <3> HIDE DEF m
    <3> QED
      BY <1>1, <2>2, <3>1, <3>2, Zenon
  <2>6. base[k - 1] \in Nat
    BY <1>3, <2>1
  <2>7. e[k] = e[k - 1] + 1 + q
    <3> HIDE DEF q, m
    <3>1. base[k] = base[k - 1] + (1 + q)
      BY <2>4 DEF q
    <3> QED
      BY <1>6, <2>1, <2>5, <2>6, <3>1
  <2>8. w[e[k - 1]][2] = made[m]
    BY <1>6, <2>1, <2>3
  <2> HIDE DEF m
  <2> QED
    BY <2>7, <2>8 DEF q
<1>9. \A s \in 1 .. first + N : SectionStart(w, s) = base[s] + 1
  <2> SUFFICES ASSUME NEW s \in 1 .. first + N PROVE SectionStart(w, s) = base[s] + 1
    OBVIOUS
  <2>1. s \in Nat \ {0} /\ \A k \in 2 .. s : k \in 2 .. first + N
    BY <1>1
  <2>2. SectionStart(w, s) = e[s]
    BY <1>7, <1>8, <2>1, SectionStartUnfolds
  <2> QED
    BY <1>6, <2>2
<1>10. ASSUME NEW s \in 1 .. first + N
       PROVE  Section(w, s) = Made(ChainOf(s, first), IF s > first THEN 1 ELSE 0)
  <2> DEFINE m == ChainOf(s, first)
             flag == IF s > first THEN 1 ELSE 0
             b == base[s]
  <2>1. /\ m \in Chains /\ HoldsDraws(m) /\ b \in Nat
        /\ SectionStart(w, s) = b + 1 /\ SectionAt(w, b, m, flag)
    BY <1>2, <1>3, <1>4, <1>9
  <2> HIDE DEF m, flag, b
  <2>2. Section(w, s) = Made(m, flag)
    BY <1>2, <2>1, ReadBack
  <2> QED
    BY <2>2 DEF m, flag
<1>11. ASSUME NEW m \in Chains PROVE Section(w, first + m) = Made(m, 1)
  <2>1. PICK s \in 1 .. first + N : s = first + m /\ s > first /\ s - first = m
    BY <1>1
  <2>2. ChainOf(s, first) = m
    BY <2>1 DEF ChainOf
  <2> QED
    BY <1>10, <2>1, <2>2
<1>12. ASSUME NEW s \in 1 .. first PROVE Section(w, s) = Made(s, 0)
  <2>1. s \in 1 .. first + N /\ ~(s > first)
    BY <1>1
  <2>2. ChainOf(s, first) = s
    BY <2>1 DEF ChainOf
  <2> QED
    BY <1>10, <2>1, <2>2
<1>13. SectionStart(w, first + N) + made[N] * (2 + Dims) = Len(w)
  <2> DEFINE q == made[N] * (2 + Dims)
  <2>1. N \in Chains /\ first + N \in 1 .. first + N
    BY <1>1
  <2>2. q \in Nat
    <3>1. \A x, y \in Nat : x * y \in Nat
      OBVIOUS
    <3>2. 2 + Dims \in Nat
      BY <1>1
    <3> QED
      BY <1>1, <2>1, <3>1, <3>2, Zenon
  <2>3. base[first + N] \in Nat /\ SectionStart(w, first + N) = base[first + N] + 1
    BY <1>3, <1>9, <2>1
  <2>4. base[first + N] + (1 + q) = Len(w)
    BY <1>3, <1>5, <2>1
  <2> HIDE DEF q
  <2>5. SectionStart(w, first + N) + q = Len(w)
    BY <2>2, <2>3, <2>4
  <2> QED
    BY <2>5 DEF q
<1> QED
  BY <1>11, <1>12, <1>13

\* Step sizes are the words after the count.
LEMMA StepSizesRead ==
  ASSUME StoreInv, complete = Chains
  PROVE  RealsAt(StepSizeWords, 2, StepSizeWords[1][2]) = [m \in Chains |-> StepSize(m, warmups[m])]
<1> DEFINE N == NumChains
           step == [m \in 1 .. N |-> StepSize(m, warmups[m])]
           ws == [m \in 1 .. N |-> Real(step[m])]
           a == Uint(N)
           flat == FlattenSeq(ws)
           w == a \o flat
<1>1. N \in Nat /\ Chains = 1 .. N /\ \A m \in 1 .. N : warmups[m] \in Int /\ m \in Int
  BY StoreAssumption DEF Chains, StoreInv, StoreTyped
<1>2. \A m \in 1 .. N : step[m] \in Number
  BY <1>1, ValueTypes
<1>3. \A m \in Chains : handlers[m].stepsize = StepSize(m, warmups[m])
  BY DEF StoreInv, HoldsAdapted
<1>4. StepSizeWords = w
  <2>1. PerChain(LAMBDA h : Real(h.stepsize)) = FlattenSeq([m \in Chains |-> Real(handlers[m].stepsize)])
    BY DEF PerChain
  <2>2. [m \in Chains |-> Real(handlers[m].stepsize)] = ws
    BY <1>1, <1>3
  <2> QED
    BY <2>1, <2>2 DEF StepSizeWords
<1>5. a \in Seq(Word) /\ Len(a) = 1 /\ a[1] = <<"uint64", N>>
  BY <1>1, WordTypes
<1>6. \A m \in 1 .. N : ws[m] \in Seq(Word) /\ Len(ws[m]) = 1 /\ ws[m][1] = <<"double", step[m]>>
  <2> HIDE DEF step
  <2> QED
    BY <1>2, WordTypes
<1>7. ws = [m \in 1 .. N |-> ws[m]]
  OBVIOUS
<1> HIDE DEF ws, step, a
<1>8. ws \in Seq(Seq(Word)) /\ Len(ws) = N
  BY <1>1, <1>6, <1>7, WordsListed, Zenon
<1>9. /\ flat \in Seq(Word) /\ Len(flat) = N
      /\ \A m \in 1 .. N : flat[m] = <<"double", step[m]>>
  <2>1. 1 \in Nat /\ 1 \in 1 .. 1 /\ \A m \in 1 .. N : (m - 1) * 1 + 1 = m
    BY <1>1
  <2>2. /\ flat \in Seq(Word)
        /\ Len(flat) = Len(ws) * 1
        /\ \A i \in 1 .. Len(ws), j \in 1 .. 1 :
             /\ (i - 1) * 1 + j \in 1 .. Len(ws) * 1
             /\ flat[(i - 1) * 1 + j] = ws[i][j]
    BY <1>6, <1>8, <2>1, WordFlatten, Zenon
  <2> HIDE DEF flat
  <2>3. \A m \in 1 .. N : flat[m] = ws[m][1]
    BY <1>8, <2>1, <2>2
  <2> QED
    BY <1>1, <1>6, <1>8, <2>2, <2>3
<1> HIDE DEF flat
<1>10. /\ w \in Seq(Word) /\ Len(w) = 1 + N /\ w[1] = a[1]
       /\ \A m \in 1 .. N : w[1 + m] = flat[m]
  <2>1. /\ w \in Seq(Word) /\ Len(w) = Len(a) + Len(flat)
        /\ \A j \in 1 .. Len(a) : w[j] = a[j]
        /\ \A j \in 1 .. Len(flat) : w[Len(a) + j] = flat[j]
    BY <1>5, <1>9, WordConcat, Zenon
  <2> HIDE DEF w
  <2> QED
    BY <1>5, <1>9, <2>1
<1> HIDE DEF w
<1>11. w[1][2] = N
  BY <1>5, <1>10
<1>12. \A m \in 1 .. N : 2 + m - 1 = 1 + m /\ 1 + m \in 1 .. 1 + N
  BY <1>1
<1>13. ASSUME NEW m \in 1 .. N
       PROVE  IsWord(w, 2 + m - 1, "double") /\ w[2 + m - 1][2] = step[m]
  <2>1. w[2 + m - 1] = <<"double", step[m]>> /\ 2 + m - 1 \in DOMAIN w
    BY <1>9, <1>10, <1>12
  <2> QED
    BY <2>1 DEF IsWord
<1>14. RealsAt(w, 2, N) = step
  BY <1>13, Zenon DEF RealsAt, step
<1> QED
  BY <1>1, <1>4, <1>11, <1>14 DEF step

\* Masses are the words after the two counts, chain after chain.
LEMMA MassesRead ==
  ASSUME StoreInv, complete = Chains, NEW m \in Chains
  PROVE  RealsAt(MassWords, 3 + (m - 1) * MassWords[2][2], MassWords[2][2]) = InvMass(m, warmups[m])
<1> DEFINE N == NumChains
           mass == [c \in 1 .. N |-> InvMass(c, warmups[c])]
           ws == [c \in 1 .. N |-> Vector(mass[c])]
           a == Uint(N)
           b == Uint(Dims)
           flat == FlattenSeq(ws)
           w == (a \o b) \o flat
<1>1. /\ N \in Nat /\ N >= 1 /\ Dims \in Nat /\ Dims >= 1 /\ Chains = 1 .. N
      /\ \A c \in 1 .. N : warmups[c] \in Int /\ c \in Int
  BY StoreAssumption DEF Chains, StoreInv, StoreTyped
<1>2. \A c \in 1 .. N : mass[c] \in Seq(Number) /\ Len(mass[c]) = Dims
  BY <1>1, ValueTypes
<1>3. \A c \in Chains : handlers[c].diag_inv_mass = InvMass(c, warmups[c])
  BY DEF StoreInv, HoldsAdapted
<1>4. MassWords = w
  <2>1. PerChain(LAMBDA h : Vector(h.diag_inv_mass)) = FlattenSeq([c \in Chains |-> Vector(handlers[c].diag_inv_mass)])
    BY DEF PerChain
  <2>2. [c \in Chains |-> Vector(handlers[c].diag_inv_mass)] = ws
    BY <1>1, <1>3
  <2>3. Len(handlers[1].diag_inv_mass) = Dims
    <3>1. 1 \in Chains /\ 1 \in 1 .. N
      BY <1>1
    <3>2. handlers[1].diag_inv_mass = mass[1]
      BY <1>3, <3>1
    <3> HIDE DEF mass
    <3> QED
      BY <1>2, <3>1, <3>2
  <2> HIDE DEF ws
  <2> QED
    <3>1. Dims # 0
      BY <1>1
    <3> QED
      BY <2>1, <2>2, <2>3, <3>1, Zenon DEF MassWords
<1>5. /\ a \in Seq(Word) /\ Len(a) = 1 /\ a[1] = <<"uint64", N>>
      /\ b \in Seq(Word) /\ Len(b) = 1 /\ b[1] = <<"uint64", Dims>>
  BY <1>1, WordTypes
<1>6. \A c \in 1 .. N : /\ ws[c] \in Seq(Word) /\ Len(ws[c]) = Dims
                        /\ \A d \in 1 .. Dims : ws[c][d] = <<"double", mass[c][d]>>
  <2> HIDE DEF mass
  <2> QED
    BY <1>2, WordTypes
<1>7. ws = [c \in 1 .. N |-> ws[c]]
  OBVIOUS
<1> HIDE DEF ws, mass, a, b
<1>8. ws \in Seq(Seq(Word)) /\ Len(ws) = N
  BY <1>1, <1>6, <1>7, WordsListed, Zenon
<1>9. /\ flat \in Seq(Word) /\ Len(flat) = N * Dims
      /\ \A c \in 1 .. N, d \in 1 .. Dims :
           /\ (c - 1) * Dims + d \in 1 .. N * Dims
           /\ flat[(c - 1) * Dims + d] = <<"double", mass[c][d]>>
  <2>1. \A i \in 1 .. Len(ws) : Len(ws[i]) = Dims
    BY <1>6, <1>8, Zenon
  <2>2. /\ flat \in Seq(Word) /\ Len(flat) = Len(ws) * Dims
        /\ \A c \in 1 .. Len(ws), d \in 1 .. Dims :
             /\ (c - 1) * Dims + d \in 1 .. Len(ws) * Dims
             /\ flat[(c - 1) * Dims + d] = ws[c][d]
    BY <1>1, <1>8, <2>1, WordFlatten, Zenon
  <2> HIDE DEF flat
  <2>3. ASSUME NEW c \in 1 .. N, NEW d \in 1 .. Dims
        PROVE  /\ (c - 1) * Dims + d \in 1 .. N * Dims
               /\ flat[(c - 1) * Dims + d] = <<"double", mass[c][d]>>
    <3>1. ws[c][d] = <<"double", mass[c][d]>>
      BY <1>6
    <3>2. /\ (c - 1) * Dims + d \in 1 .. N * Dims
          /\ flat[(c - 1) * Dims + d] = ws[c][d]
      BY <1>8, <2>2, Zenon
    <3> QED
      BY <3>1, <3>2, Zenon
  <2> QED
    BY <1>8, <2>2, <2>3
<1> HIDE DEF flat
<1> DEFINE Rest == N * Dims
<1>10. Rest \in Nat
  <2>1. \A x, y \in Nat : x * y \in Nat
    OBVIOUS
  <2> QED
    BY <1>1, <2>1, Zenon
<1> HIDE DEF Rest
<1>11. /\ w \in Seq(Word) /\ DOMAIN w = 1 .. 2 + Rest /\ w[1] = a[1] /\ w[2] = b[1]
       /\ \A j \in 1 .. Rest : w[2 + j] = flat[j]
  <2> DEFINE c == a \o b
  <2>1. /\ c \in Seq(Word) /\ Len(c) = Len(a) + Len(b)
        /\ \A j \in 1 .. Len(a) : c[j] = a[j]
        /\ \A j \in 1 .. Len(b) : c[Len(a) + j] = b[j]
    BY <1>5, WordConcat, Zenon
  <2>2. 1 \in 1 .. 1 /\ 1 + 1 = 2 /\ 1 \in 1 .. 2 /\ 2 \in 1 .. 2
    OBVIOUS
  <2> HIDE DEF c
  <2>3. Len(c) = 2 /\ c[1] = a[1] /\ c[2] = b[1]
    BY <1>5, <2>1, <2>2
  <2>4. /\ c \o flat \in Seq(Word) /\ Len(c \o flat) = Len(c) + Len(flat)
        /\ \A j \in 1 .. Len(c) : (c \o flat)[j] = c[j]
        /\ \A j \in 1 .. Len(flat) : (c \o flat)[Len(c) + j] = flat[j]
    BY <1>9, <2>1, WordConcat, Zenon
  <2>5. /\ Len(c \o flat) = 2 + Rest
        /\ \A j \in 1 .. 2 : (c \o flat)[j] = c[j]
        /\ \A j \in 1 .. Rest : (c \o flat)[2 + j] = flat[j]
    BY <1>9, <2>3, <2>4, Zenon DEF Rest
  <2>6. DOMAIN (c \o flat) = 1 .. 2 + Rest
    BY <2>4, <2>5
  <2>7. (c \o flat)[1] = a[1] /\ (c \o flat)[2] = b[1]
    BY <2>2, <2>3, <2>5, Zenon
  <2> QED
    BY <2>4, <2>5, <2>6, <2>7 DEF c
<1> HIDE DEF w
<1>12. w[2][2] = Dims
  BY <1>5, <1>11
<1> DEFINE p == (m - 1) * Dims
<1>13. p \in Nat
  <2>1. \A x, y \in Nat : x * y \in Nat
    OBVIOUS
  <2>2. m - 1 \in Nat
    BY <1>1
  <2> QED
    BY <1>1, <2>1, <2>2, Zenon
<1>14. \A d \in 1 .. Dims : p + d \in 1 .. Rest /\ flat[p + d] = <<"double", mass[m][d]>>
  BY <1>1, <1>9, Zenon DEF Rest
<1> HIDE DEF p
<1>15. ASSUME NEW d \in 1 .. Dims
       PROVE  IsWord(w, 3 + p + d - 1, "double") /\ w[3 + p + d - 1][2] = mass[m][d]
  <2>1. PICK j \in 1 .. Rest : j = p + d
    BY <1>14
  <2>2. w[2 + j] = <<"double", mass[m][d]>>
    BY <1>11, <1>14, <2>1, Zenon
  <2>3. 2 + j \in 1 .. 2 + Rest /\ 3 + p + d - 1 = 2 + j
    BY <1>1, <1>10, <1>13, <2>1
  <2> QED
    BY <1>11, <2>2, <2>3 DEF IsWord
<1>16. mass[m] = [d \in 1 .. Dims |-> mass[m][d]]
  <2>1. mass[m] \in Seq(Number) /\ Len(mass[m]) = Dims
    BY <1>1, <1>2
  <2> QED
    BY <2>1
<1>17. RealsAt(w, 3 + p, Dims) = mass[m]
  BY <1>15, <1>16, Zenon DEF RealsAt
<1>18. mass[m] = InvMass(m, warmups[m])
  BY <1>1 DEF mass
<1> QED
  BY <1>4, <1>12, <1>17, <1>18 DEF p

LEMMA StoreInvRoundTrip == StoreInv => RoundTrip
<1> SUFFICES ASSUME StoreInv PROVE RoundTrip
  OBVIOUS
<1> DEFINE w == file.words
           content == file.content
<1>1. w = CASE content = "step_size" -> StepSizeWords
            [] content = "mass_matrix" -> MassWords
            [] content = "sample" -> SampleWords(FALSE)
            [] content = "warmup_and_sample" -> SampleWords(TRUE)
            [] OTHER -> <<>>
  <2> DEFINE words == CASE content = "step_size" -> StepSizeWords
                        [] content = "mass_matrix" -> MassWords
                        [] content = "sample" -> SampleWords(FALSE)
                        [] content = "warmup_and_sample" -> SampleWords(TRUE)
                        [] OTHER -> <<>>
  <2>1. file = [content |-> content, words |-> words]
    BY DEF StoreInv, FileFresh
  <2> HIDE DEF content, words
  <2>2. file.words = words
    BY <2>1
  <2> QED
    BY <2>2 DEF content, words
<1>2. /\ content = "step_size" => w = StepSizeWords
      /\ content = "mass_matrix" => w = MassWords
      /\ content = "sample" => w = SampleWords(FALSE)
      /\ content = "warmup_and_sample" => w = SampleWords(TRUE)
  BY <1>1
<1>3. ASSUME content \in {"sample", "warmup_and_sample"}, w # <<>>
      PROVE  LET first == IF content = "sample" THEN 0 ELSE NumChains
             IN  /\ w[1][2] = NumChains /\ w[2][2] = Dims
                 /\ \A m \in Chains : Section(w, first + m) = Made(m, 1)
                 /\ \A s \in 1 .. first : \A i \in DOMAIN Section(w, s) :
                      Section(w, s)[i].is_sampling = 0
                 /\ SectionStart(w, first + NumChains)
                      + made[NumChains] * (2 + Dims) = Len(w)
  <2> DEFINE first == IF content = "sample" THEN 0 ELSE NumChains
  <2>1. w[1][2] = NumChains /\ w[2][2] = Dims /\ SectionsOf(w, first)
    <3>1. CASE content = "sample"
      <4>1. w = SampleWords(FALSE) /\ SampleWords(FALSE) # <<>>
        BY <1>2, <1>3, <3>1
      <4> HIDE DEF w
      <4>2. /\ SampleWords(FALSE)[1][2] = NumChains /\ SampleWords(FALSE)[2][2] = Dims
            /\ SectionsOf(SampleWords(FALSE), 0)
        BY <4>1, SampleSections
      <4> QED
        BY <3>1, <4>1, <4>2
    <3>2. CASE content = "warmup_and_sample"
      <4>1. w = SampleWords(TRUE) /\ SampleWords(TRUE) # <<>>
        BY <1>2, <1>3, <3>2
      <4> HIDE DEF w
      <4>2. /\ SampleWords(TRUE)[1][2] = NumChains /\ SampleWords(TRUE)[2][2] = Dims
            /\ SectionsOf(SampleWords(TRUE), NumChains)
        BY <4>1, SampleSections
      <4> QED
        BY <3>2, <4>1, <4>2
    <3> QED
      BY <1>3, <3>1, <3>2
  <2>2. first \in {0, NumChains}
    OBVIOUS
  <2> HIDE DEF w, first
  <2>3. /\ \A m \in Chains : Section(w, first + m) = Made(m, 1)
        /\ \A s \in 1 .. first : Section(w, s) = Made(s, 0)
        /\ SectionStart(w, first + NumChains) + made[NumChains] * (2 + Dims) = Len(w)
    BY <2>1, <2>2, SectionsRead
  <2>4. \A s \in 1 .. first : \A i \in DOMAIN Section(w, s) : Section(w, s)[i].is_sampling = 0
    <3> TAKE s \in 1 .. first
    <3>1. \A i \in DOMAIN Made(s, 0) : Made(s, 0)[i].is_sampling = 0
      BY DEF Made
    <3> QED
      BY <2>3, <3>1
  <2> QED
    BY <2>1, <2>3, <2>4 DEF first
<1>4. ASSUME content = "sample", w = <<>> PROVE \A m \in Chains : made[m] = 0
  <2>1. SampleWords(FALSE) = <<>>
    BY <1>2, <1>4
  <2>2. CASE \A m \in Chains : made[m] = 0
    BY <2>2
  <2>3. CASE SampleWords(FALSE) = (Uint(NumChains) \o Uint(Dims)) \o <<>> \o FlattenSeq(Sections(TRUE))
    <3> DEFINE a == Uint(NumChains)
               b == Uint(Dims)
               c == a \o b
               f == FlattenSeq(Sections(TRUE))
    <3>1. a \in Seq(Word) /\ Len(a) = 1 /\ b \in Seq(Word) /\ Len(b) = 1
      BY StoreAssumption, WordTypes
    <3>2. f \in Seq(Word)
      BY SectionsAt, Zenon
    <3> HIDE DEF a, b, f
    <3>3. c \in Seq(Word) /\ Len(c) = 2
      BY <3>1, WordConcat
    <3> HIDE DEF c
    <3>4. c \o <<>> = c
      BY <3>3, ConcatEmptySeq
    <3>5. Len(c \o f) # 0
      BY <3>2, <3>3, WordConcat
    <3>6. SampleWords(FALSE) = c \o f
      BY <2>3, <3>4 DEF c, f, a, b
    <3>7. Len(<<>>) = 0
      OBVIOUS
    <3> QED
      BY <2>1, <3>5, <3>6, <3>7, Zenon
  <2> QED
    BY <2>2, <2>3, SampleWordsUnfold
<1>5. ASSUME content = "step_size", complete = Chains
      PROVE  RealsAt(w, 2, w[1][2]) = [m \in Chains |-> StepSize(m, warmups[m])]
  BY <1>2, <1>5, StepSizesRead
<1>6. ASSUME content = "mass_matrix", complete = Chains
      PROVE  \A m \in Chains : RealsAt(w, 3 + (m - 1) * w[2][2], w[2][2]) = InvMass(m, warmups[m])
  BY <1>2, <1>6, MassesRead
<1> HIDE DEF w, content
<1> QED
  BY <1>3, <1>4, <1>5, <1>6, Zenon DEF RoundTrip, w, content

LEMMA StoreInvStep == StoreInv /\ [SampleNext]_sampleVars => StoreInv'
<1> SUFFICES ASSUME StoreInv, [SampleNext]_sampleVars PROVE StoreInv'
  OBVIOUS
<1>1. CASE Storing
  BY <1>1, StoreStep DEF Storing
<1>2. CASE BeginSummary
  <2>1. /\ handlers' = [m \in Chains |-> NewStore(FALSE)]
        /\ warmups' = [m \in Chains |-> 0] /\ made' = [m \in Chains |-> 0]
        /\ complete' = {} /\ trace' = [m \in Chains |-> <<>>] /\ file' = NoFile
    BY <1>2 DEF BeginSummary
  <2>2. StoreTyped'
    <3>1. NewStore(FALSE) \in Store
      BY NewStoreTyped, Zenon
    <3>2. <<>> \in Seq(Int)
      OBVIOUS
    <3> QED
      BY <2>1, <3>1, <3>2 DEF StoreTyped
  <2>3. \A m \in Chains : HoldsDraws(m)' /\ HoldsAdapted(m)'
    BY <2>1 DEF HoldsDraws, HoldsAdapted, NewStore
  <2>4. FileFresh'
    BY <2>1 DEF FileFresh, NoFile
  <2> QED
    BY <2>2, <2>3, <2>4 DEF StoreInv
<1>3. CASE UNCHANGED storeVars
  <2>1. FileFresh'
    BY <1>3, WordsKept DEF storeVars, StoreInv, FileFresh
  <2> QED
    BY <1>3, <2>1 DEF storeVars, StoreInv, StoreTyped, HoldsDraws, HoldsAdapted
<1> QED
  BY <1>1, <1>2, <1>3 DEF SampleNext, EffectiveSampleSize, sampleVars

\* Every file that is written reads back as the draws of sampling, step sizes and
\* masses it was written from, with every entry of a warm-up section flagged as
\* such, for every number of chains, dimensions and draws.
THEOREM RoundTripHolds == SampleSpec => []RoundTrip
<1>1. SampleInit => StoreInv
  BY StoreInitInv DEF SampleInit
<1> QED
  BY <1>1, StoreInvStep, StoreInvRoundTrip, PTL DEF SampleSpec

(***************************************************************************)
(* The effective sample size.                                              *)
(***************************************************************************)
\* The pairs so far do not grow, and what comes after is still zero.
Loop ==
  /\ rho_hat_t \in [0 .. MinLen - 1 -> Int]
  /\ t \in Nat /\ t % 2 = 1 /\ t < MinLen /\ (t = 1 \/ t + 2 < MinLen)
  /\ rho_hat_even \in Int /\ rho_hat_odd \in Int
  /\ rho_hat_even + rho_hat_odd > 0 => rho_hat_t[t - 1] + rho_hat_t[t] > 0
  /\ (rho_hat_t[t - 1] + rho_hat_t[t]) % 2 = 0
  /\ \A k \in 0 .. MinLen - 1 : k > t => rho_hat_t[k] = 0
  /\ \A k \in 1 .. t : k % 2 = 1 /\ k + 2 <= t =>
       /\ rho_hat_t[k + 1] + rho_hat_t[k + 2] >= 0
       /\ rho_hat_t[k + 1] + rho_hat_t[k + 2] <= rho_hat_t[k - 1] + rho_hat_t[k]
  /\ t = 1 => rho_hat_t[0] = Unit /\ rho_hat_even = Unit
  /\ lags \subseteq 1 .. t

Done ==
  /\ MinLen >= 3 /\ \A lag \in lags : lag \in 1 .. MinLen - 1
  /\ tau > 0
  /\ MinLen <= 5 => tau = Greater(2 * Unit, TauFloor(SizesSum(sizes)))

EssInv ==
  /\ phase \in {"idle", "begin", "loop", "done", "threw", "undefined"}
  /\ phase # "idle" => sizes \in Seq(Nat) /\ sizes # <<>>
  /\ phase \in {"idle", "begin"} => NoRun
  /\ phase = "threw" => lags = {}
  /\ phase = "loop" => Loop
  /\ phase = "done" => Done
  /\ phase = "undefined" => MinLen < 3

\* The length of the shortest chain.
LEMMA MinLenIs ==
  ASSUME sizes \in Seq(Nat), sizes # <<>>
  PROVE  /\ MinLen \in Nat
         /\ \A m \in DOMAIN sizes : sizes[m] \in Nat /\ MinLen <= sizes[m]
         /\ \E m \in DOMAIN sizes : MinLen = sizes[m]
<1> DEFINE S == {sizes[m] : m \in DOMAIN sizes}
<1>1. S \subseteq Nat /\ S # {} /\ \A m \in DOMAIN sizes : sizes[m] \in Nat
  <2>1. 1 \in DOMAIN sizes /\ \A m \in DOMAIN sizes : sizes[m] \in Nat
    OBVIOUS
  <2> QED
    BY <2>1
<1>2. PICK n \in S : \A k \in S : n <= k
  BY <1>1, SmallestNumber
<1>3. \A m \in DOMAIN sizes : n <= sizes[m]
  BY <1>2
<1>4. MinLen \in S /\ \A m \in DOMAIN sizes : MinLen <= sizes[m]
  BY <1>2, <1>3 DEF MinLen
<1> QED
  BY <1>1, <1>4

\* The safety floor is a positive number.
LEMMA TauFloorIs == \A n : TauFloor(n) \in Int /\ TauFloor(n) > 0
<1> SUFFICES ASSUME NEW n PROVE TauFloor(n) \in Int /\ TauFloor(n) > 0
  OBVIOUS
<1> DEFINE power == CHOOSE g : g = [f \in 0 .. 3 * Unit |->
                      IF f = 0 THEN 1
                      ELSE IF g[f - 1] < 10 ^ Unit THEN n * g[f - 1] ELSE g[f - 1]]
           below == {f \in 1 .. 3 * Unit : power[f] < 10 ^ Unit}
<1>1. TauFloor(n) = 1 + Cardinality(below)
  BY Zenon DEF TauFloor
<1> HIDE DEF power
<1>2. IsFiniteSet(1 .. 3 * Unit) /\ below \subseteq 1 .. 3 * Unit
  <2>1. 1 \in Int /\ 3 * Unit \in Int
    BY RhoAssumption
  <2> QED
    BY <2>1, FS_Interval
<1> HIDE DEF below
<1>3. Cardinality(below) \in Nat
  BY <1>2, FS_Subset, FS_CardinalityType
<1> QED
  BY <1>1, <1>3

\* The larger of two numbers, of which the second is positive, is positive.
LEMMA GreaterIs == \A x \in Int : \A y \in Int : y > 0 => Greater(x, y) > 0
BY DEF Greater

LEMMA MinLenKept == sizes' = sizes => MinLen' = MinLen
BY DEF MinLen

\* The loop cuts a pair down to the one before it, or leaves it.
LEMMA MonotoneIs ==
  ASSUME NEW n \in Nat, NEW rho \in [0 .. n -> Int], NEW k \in 1 .. n, k + 2 <= n,
         rho[k - 1] + rho[k] > 0, (rho[k - 1] + rho[k]) % 2 = 0,
         rho[k + 1] + rho[k + 2] >= 0, (rho[k + 1] + rho[k + 2]) % 2 = 0
  PROVE  /\ Monotone(rho, k) \in [0 .. n -> Int]
         /\ \A j \in 0 .. n : j \notin {k + 1, k + 2} => Monotone(rho, k)[j] = rho[j]
         /\ Monotone(rho, k)[k + 1] + Monotone(rho, k)[k + 2] >= 0
         /\ Monotone(rho, k)[k + 1] + Monotone(rho, k)[k + 2] <= rho[k - 1] + rho[k]
         /\ (Monotone(rho, k)[k + 1] + Monotone(rho, k)[k + 2]) % 2 = 0
         /\ rho[k + 1] + rho[k + 2] > 0 => Monotone(rho, k)[k + 1] + Monotone(rho, k)[k + 2] > 0
<1> DEFINE half == (rho[k - 1] + rho[k]) \div 2
<1>1. /\ k - 1 \in 0 .. n /\ k \in 0 .. n /\ k + 1 \in 0 .. n /\ k + 2 \in 0 .. n /\ k + 1 # k + 2
      /\ rho[k - 1] \in Int /\ rho[k] \in Int /\ rho[k + 1] \in Int /\ rho[k + 2] \in Int
  OBVIOUS
<1>2. half \in Int /\ half + half = rho[k - 1] + rho[k]
  <2> DEFINE s == rho[k - 1] + rho[k]
  <2>1. s \in Int /\ s % 2 = 0
    BY <1>1
  <2> HIDE DEF s
  <2>2. s \div 2 \in Int /\ s \div 2 + s \div 2 = s
    BY <2>1, SMTT(60)
  <2> QED
    BY <2>2 DEF s
<1> HIDE DEF half
<1>3. CASE rho[k + 1] + rho[k + 2] > rho[k - 1] + rho[k]
  <2>1. Monotone(rho, k) = [rho EXCEPT ![k + 1] = half, ![k + 2] = half]
    BY <1>3 DEF Monotone, half
  <2>2. /\ Monotone(rho, k) \in [0 .. n -> Int]
        /\ \A j \in 0 .. n : j \notin {k + 1, k + 2} => Monotone(rho, k)[j] = rho[j]
        /\ Monotone(rho, k)[k + 1] = half /\ Monotone(rho, k)[k + 2] = half
    BY <1>1, <1>2, <2>1
  <2>3. /\ (half + half) % 2 = 0 /\ half + half >= 0 /\ half + half > 0
        /\ half + half <= rho[k - 1] + rho[k]
    <3>1. half + half <= rho[k - 1] + rho[k]
      BY <1>1, <1>2
    <3>2. half + half > 0 /\ (half + half) % 2 = 0
      BY <1>2, Zenon
    <3> QED
      BY <1>2, <3>1, <3>2
  <2> DEFINE M == Monotone(rho, k)
  <2>4. M[k + 1] + M[k + 2] = half + half
    BY <2>2
  <2> QED
    BY <2>2, <2>3, <2>4, Zenon
<1>4. CASE ~(rho[k + 1] + rho[k + 2] > rho[k - 1] + rho[k])
  <2>1. Monotone(rho, k) = rho
    BY <1>4 DEF Monotone
  <2>2. rho[k + 1] + rho[k + 2] <= rho[k - 1] + rho[k]
    BY <1>1, <1>4, SMTT(60)
  <2> QED
    BY <2>1, <2>2
<1> QED
  BY <1>3, <1>4

LEMMA FirstPairInv == EssInv /\ FirstPair => EssInv'
<1> SUFFICES ASSUME EssInv, FirstPair PROVE EssInv'
  OBVIOUS
<1>1. phase = "begin" /\ sizes \in Seq(Nat) /\ sizes # <<>> /\ sizes' = sizes /\ MinLen' = MinLen
  BY MinLenKept DEF EssInv, FirstPair
<1>2. MinLen \in Nat
  BY <1>1, MinLenIs
<1>3. CASE phase' \in {"threw", "undefined"}
  <2>1. phase' = "undefined" => MinLen < 3
    <3>1. phase' = "undefined" => MinLen < 2
      BY DEF FirstPair
    <3> QED
      BY <1>2, <3>1
  <2>2. phase' # "idle" /\ phase' # "begin" /\ phase' # "loop" /\ phase' # "done"
    BY <1>3
  <2>3. phase' = "threw" => lags' = {}
    BY DEF EssInv, FirstPair, NoRun
  <2> QED
    BY <1>1, <1>3, <2>1, <2>2, <2>3 DEF EssInv
<1>4. CASE phase' \notin {"threw", "undefined"}
  <2>1. PICK rho \in Rhos :
          /\ phase' = "loop" /\ t' = 1 /\ MinLen >= 2
          /\ rho_hat_even' = Unit /\ rho_hat_odd' = rho
          /\ rho_hat_t' = [Zeros EXCEPT ![0] = Unit, ![1] = rho]
          /\ lags' = {1}
    BY <1>2, <1>4 DEF FirstPair
  <2>2. Unit \in Int /\ Unit % 2 = 0 /\ rho \in Int /\ rho % 2 = 0
    BY RhoAssumption
  <2>3. /\ rho_hat_t' \in [0 .. MinLen - 1 -> Int]
        /\ rho_hat_t'[0] = Unit /\ rho_hat_t'[1] = rho
        /\ \A k \in 0 .. MinLen - 1 : k > 1 => rho_hat_t'[k] = 0
    <3>1. 0 \in 0 .. MinLen - 1 /\ 1 \in 0 .. MinLen - 1
      BY <1>2, <2>1
    <3>2. Zeros \in [0 .. MinLen - 1 -> Int] /\ \A k \in 0 .. MinLen - 1 : Zeros[k] = 0
      BY DEF Zeros
    <3>3. \A k \in 0 .. MinLen - 1 : k > 1 => k # 0 /\ k # 1
      OBVIOUS
    <3>4. rho_hat_t' = [Zeros EXCEPT ![0] = Unit, ![1] = rho]
      BY <2>1
    <3> HIDE DEF Zeros
    <3> QED
      BY <2>2, <3>1, <3>2, <3>3, <3>4
  <2>4. (Unit + rho) % 2 = 0
    BY <2>2
  <2>5. Loop'
    BY <1>1, <1>2, <2>1, <2>2, <2>3, <2>4, SMTT(60) DEF Loop
  <2> QED
    BY <1>1, <2>1, <2>5 DEF EssInv
<1> QED
  BY <1>3, <1>4

LEMMA NextPairInv == EssInv /\ NextPair => EssInv'
<1> SUFFICES ASSUME EssInv, NextPair PROVE EssInv'
  OBVIOUS
<1>1. /\ phase = "loop" /\ MoreLags /\ Loop /\ sizes \in Seq(Nat) /\ sizes # <<>>
      /\ sizes' = sizes /\ MinLen' = MinLen
  BY MinLenKept DEF EssInv, NextPair
<1> DEFINE n == MinLen - 1
<1>2. MinLen \in Nat /\ t < MinLen - 4 /\ t \in Nat /\ t >= 1 /\ t % 2 = 1
  <2>1. MinLen \in Nat
    BY <1>1, MinLenIs, Zenon
  <2> QED
    BY <1>1, <2>1 DEF Loop, MoreLags
<1>3. n \in Nat /\ t \in 1 .. n /\ t + 2 \in 0 .. n /\ t + 4 <= n
  BY <1>2
<1>4. rho_hat_t \in [0 .. n -> Int]
  BY <1>1 DEF Loop
<1>5. PICK even \in Rhos, odd \in Rhos :
        /\ rho_hat_even' = even /\ rho_hat_odd' = odd
        /\ rho_hat_t' = Monotone(IF even + odd >= 0
                                   THEN [rho_hat_t EXCEPT ![t + 1] = even, ![t + 2] = odd]
                                   ELSE rho_hat_t, t)
        /\ phase' = phase
  <2>1. t + 2 \in DOMAIN rho_hat_t
    BY <1>3, <1>4
  <2> QED
    BY <2>1 DEF NextPair
<1>6. even \in Int /\ odd \in Int /\ (even + odd) % 2 = 0
  <2>1. even \in Int /\ even % 2 = 0 /\ odd \in Int /\ odd % 2 = 0
    BY RhoAssumption
  <2> QED
    BY <2>1
<1> DEFINE rho == IF even + odd >= 0
                    THEN [rho_hat_t EXCEPT ![t + 1] = even, ![t + 2] = odd]
                    ELSE rho_hat_t
<1>7. /\ t - 1 \in 0 .. n /\ t \in 0 .. n /\ t + 1 \in 0 .. n /\ t + 1 # t + 2
      /\ t - 1 # t + 1 /\ t - 1 # t + 2 /\ t # t + 1 /\ t # t + 2
  BY <1>3
<1>8. /\ rho \in [0 .. n -> Int]
      /\ \A k \in 0 .. n : k \notin {t + 1, t + 2} => rho[k] = rho_hat_t[k]
      /\ even + odd >= 0 => rho[t + 1] = even /\ rho[t + 2] = odd
      /\ even + odd < 0 => rho[t + 1] = 0 /\ rho[t + 2] = 0
  <2>1. rho_hat_t[t + 1] = 0 /\ rho_hat_t[t + 2] = 0
    BY <1>1, <1>3, <1>7 DEF Loop
  <2> QED
    BY <1>3, <1>4, <1>6, <1>7, <2>1
<1>9. rho_hat_t' = Monotone(rho, t)
  BY <1>5
<1> HIDE DEF rho
<1>10. /\ rho[t - 1] + rho[t] > 0 /\ (rho[t - 1] + rho[t]) % 2 = 0
       /\ rho[t + 1] + rho[t + 2] >= 0 /\ (rho[t + 1] + rho[t + 2]) % 2 = 0
       /\ even + odd > 0 => rho[t + 1] + rho[t + 2] > 0
  <2>1. rho_hat_t[t - 1] + rho_hat_t[t] > 0 /\ (rho_hat_t[t - 1] + rho_hat_t[t]) % 2 = 0
    BY <1>1 DEF Loop, MoreLags
  <2>2. rho[t - 1] = rho_hat_t[t - 1] /\ rho[t] = rho_hat_t[t]
    BY <1>7, <1>8
  <2>3. 0 % 2 = 0
    OBVIOUS
  <2> QED
    BY <1>6, <1>8, <2>1, <2>2, <2>3
<1> DEFINE new == rho_hat_t'
<1>11. /\ new \in [0 .. n -> Int]
       /\ \A j \in 0 .. n : j \notin {t + 1, t + 2} => new[j] = rho[j]
       /\ new[t + 1] + new[t + 2] >= 0
       /\ new[t + 1] + new[t + 2] <= rho[t - 1] + rho[t]
       /\ (new[t + 1] + new[t + 2]) % 2 = 0
       /\ rho[t + 1] + rho[t + 2] > 0 => new[t + 1] + new[t + 2] > 0
  <2>1. t + 2 <= n
    BY <1>3
  <2> HIDE DEF n
  <2> QED
    BY <1>3, <1>8, <1>9, <1>10, <2>1, MonotoneIs
<1> HIDE DEF new
<1>12. \A k \in 0 .. n : k \notin {t + 1, t + 2} => new[k] = rho_hat_t[k]
  BY <1>8, <1>11
<1>13. t' = t + 2 /\ t' - 1 = t + 1 /\ t' \in Nat /\ t' % 2 = 1 /\ t' + 2 < MinLen /\ t' < MinLen /\ t' # 1
  BY <1>2 DEF NextPair
<1>14. \A k \in 0 .. n : k > t' => new[k] = 0
  <2>1. \A k \in 0 .. n : k > t' => k > t /\ k \notin {t + 1, t + 2}
    BY <1>2, <1>13
  <2> QED
    BY <1>1, <1>12, <2>1 DEF Loop
<1>15. ASSUME NEW k \in 1 .. t', k % 2 = 1, k + 2 <= t'
       PROVE  /\ new[k + 1] + new[k + 2] >= 0
              /\ new[k + 1] + new[k + 2] <= new[k - 1] + new[k]
  <2>1. CASE k = t
    <3>1. new[t - 1] = rho[t - 1] /\ new[t] = rho[t]
      BY <1>7, <1>11
    <3> QED
      BY <1>11, <2>1, <3>1
  <2>2. CASE k # t
    <3>1. k \in 1 .. t /\ k + 2 <= t
      BY <1>2, <1>13, <1>15, <2>2
    <3>2. /\ k - 1 \in 0 .. n /\ k \in 0 .. n /\ k + 1 \in 0 .. n /\ k + 2 \in 0 .. n
          /\ k - 1 \notin {t + 1, t + 2} /\ k \notin {t + 1, t + 2}
          /\ k + 1 \notin {t + 1, t + 2} /\ k + 2 \notin {t + 1, t + 2}
      BY <1>3, <3>1
    <3>3. /\ rho_hat_t[k + 1] + rho_hat_t[k + 2] >= 0
          /\ rho_hat_t[k + 1] + rho_hat_t[k + 2] <= rho_hat_t[k - 1] + rho_hat_t[k]
      BY <1>1, <1>15, <3>1 DEF Loop
    <3> QED
      BY <1>12, <3>2, <3>3
  <2> QED
    BY <2>1, <2>2
<1>16. lags' \subseteq 1 .. t'
  <2>1. lags \subseteq 1 .. t /\ lags' = lags \cup {t + 1, t + 2}
    BY <1>1 DEF Loop, NextPair
  <2> QED
    BY <1>2, <1>13, <2>1
<1>17. rho_hat_even' + rho_hat_odd' > 0 => new[t' - 1] + new[t'] > 0
  BY <1>5, <1>10, <1>11, <1>13
<1>18. (new[t' - 1] + new[t']) % 2 = 0
  BY <1>11, <1>13
<1>19. Loop'
  BY <1>1, <1>5, <1>6, <1>11, <1>13, <1>14, <1>15, <1>16, <1>17, <1>18 DEF Loop, new
<1> QED
  BY <1>1, <1>5, <1>19 DEF EssInv

LEMMA FinishTailInv == EssInv /\ FinishTail => EssInv'
<1> SUFFICES ASSUME EssInv, FinishTail PROVE EssInv'
  OBVIOUS
<1>1. /\ phase = "loop" /\ Loop /\ sizes \in Seq(Nat) /\ sizes # <<>>
      /\ sizes' = sizes /\ MinLen' = MinLen /\ lags' = lags
  BY MinLenKept DEF EssInv, FinishTail
<1>2. /\ MinLen \in Nat /\ t \in Nat /\ t >= 1 /\ t < MinLen /\ (t = 1 \/ t + 2 < MinLen)
      /\ lags \subseteq 1 .. t /\ t % 2 = 1 /\ rho_hat_t \in [0 .. MinLen - 1 -> Int]
  <2>1. MinLen \in Nat
    BY <1>1, MinLenIs, Zenon
  <2> QED
    <3>1. /\ t \in Nat /\ t < MinLen /\ (t = 1 \/ t + 2 < MinLen) /\ t % 2 = 1
          /\ lags \subseteq 1 .. t /\ rho_hat_t \in [0 .. MinLen - 1 -> Int]
      BY <1>1, Zenon DEF Loop
    <3>2. t >= 1
      BY <3>1
    <3> QED
      BY <2>1, <3>1, <3>2, Zenon
<1>3. CASE t + 1 \notin DOMAIN rho_hat_t
  <2>1. phase' = "undefined"
    BY <1>3 DEF FinishTail
  <2>2. MinLen < 3
    BY <1>2, <1>3
  <2> QED
    BY <1>1, <2>1, <2>2 DEF EssInv
<1>4. CASE t + 1 \in DOMAIN rho_hat_t
  <2> DEFINE head == [k \in 1 .. t |-> rho_hat_t[k - 1]]
             sum == FoldLeft(LAMBDA a, b : a + b, 0, head)
             least == TauFloor(SizesSum(sizes))
             raw == -Unit + 2 * sum + rho_hat_t'[t + 1]
  <2>1. /\ phase' = "done"
        /\ rho_hat_t' = IF rho_hat_even > 0 THEN [rho_hat_t EXCEPT ![t + 1] = rho_hat_even]
                                            ELSE rho_hat_t
        /\ tau' = Greater(raw, least)
    BY <1>4 DEF FinishTail, TauHat
  <2>2. MinLen >= 3 /\ \A lag \in lags : lag \in 1 .. MinLen - 1
    BY <1>2, <1>4
  <2>5. sum \in Int
    <3>1. head \in Seq(Int) /\ Len(head) = t
      <4>1. \A k \in 1 .. t : k - 1 \in 0 .. MinLen - 1
        BY <1>2
      <4> QED
        BY <1>2, <4>1
    <3> HIDE DEF head
    <3>2. PICK f \in [0 .. Len(head) -> Int] : sum = f[Len(head)]
      BY <3>1, SumUnfolds, Zenon
    <3> HIDE DEF sum
    <3> QED
      BY <1>2, <3>1, <3>2
  <2>6. tau' > 0
    <3>1. rho_hat_t'[t + 1] \in Int
      BY <1>1, <1>2, <1>4, <2>1 DEF Loop
    <3> HIDE DEF sum
    <3>2. raw \in Int
      BY <2>5, <3>1, RhoAssumption
    <3> HIDE DEF raw
    <3> QED
      BY <2>1, <3>2, TauFloorIs, GreaterIs
  <2>3. ASSUME MinLen <= 5 PROVE raw = 2 * Unit
    <3>1. t = 1
      BY <1>2, <2>3
    <3>2. rho_hat_t[0] = Unit /\ rho_hat_even = Unit /\ rho_hat_t[2] = 0 /\ Unit \in Nat
      <4>1. 2 \in 0 .. MinLen - 1
        BY <1>2, <2>2
      <4> QED
        BY <1>1, <3>1, <4>1, RhoAssumption DEF Loop
    <3>3. head \in Seq(Int) /\ Len(head) = 1 /\ head[1] = Unit
      BY <3>1, <3>2
    <3> HIDE DEF head
    <3>4. FoldLeft(LAMBDA a, b : a + b, 0, head) = Unit
      <4>1. PICK f \in [0 .. Len(head) -> Int] :
              /\ f[0] = 0
              /\ \A i \in 1 .. Len(head) : f[i] = f[i - 1] + head[i]
              /\ FoldLeft(LAMBDA a, b : a + b, 0, head) = f[Len(head)]
        BY <3>3, SumUnfolds, Zenon
      <4>2. f[1] = f[0] + head[1]
        <5>1. 1 \in 1 .. 1 /\ 1 - 1 = 0
          OBVIOUS
        <5> QED
          BY <3>3, <4>1, <5>1, Zenon
      <4>3. 0 + Unit = Unit
        BY <3>2
      <4> QED
        BY <3>3, <4>1, <4>2, <4>3, Zenon
    <3>5. rho_hat_t'[2] = Unit
      <4>1. t + 1 = 2 /\ 2 \in DOMAIN rho_hat_t
        BY <1>4, <3>1
      <4>2. CASE rho_hat_even > 0
        BY <1>2, <2>1, <3>2, <4>1, <4>2
      <4>3. CASE ~(rho_hat_even > 0)
        <5>1. Unit = 0
          BY <3>2, <4>3
        <5> QED
          BY <2>1, <3>2, <4>3, <5>1, Zenon
      <4> QED
        BY <4>2, <4>3
    <3>6. t + 1 = 2 /\ -Unit + 2 * Unit + Unit = 2 * Unit
      BY <3>1, <3>2
    <3> QED
      BY <3>4, <3>5, <3>6, Zenon DEF head
  <2> HIDE DEF raw
  <2>4. Done'
    BY <1>1, <2>1, <2>2, <2>3, <2>6 DEF Done
  <2> QED
    BY <1>1, <2>1, <2>4 DEF EssInv
<1> QED
  BY <1>3, <1>4

LEMMA EssInvHolds == SampleSpec => [](StoreInv /\ EssInv)
<1>1. SampleInit => StoreInv /\ EssInv
  BY StoreInitInv DEF SampleInit, EssInit, EssInv
<1>2. StoreInv /\ EssInv /\ [SampleNext]_sampleVars => EssInv'
  <2> SUFFICES ASSUME StoreInv, EssInv, [SampleNext]_sampleVars PROVE EssInv'
    OBVIOUS
  <2>1. CASE UNCHANGED essVars
    BY <2>1, MinLenKept DEF essVars, EssInv, Loop, Done, NoRun
  <2>2. CASE BeginSummary
    <3>1. sizes' \in Seq(Nat) /\ sizes' # <<>>
      <4>4. \A m \in Chains : Len(handlers[m].draws) \in Nat
        BY DEF StoreInv, StoreTyped, Store
      <4>1. PICK M \in Chains : sizes' = [m \in 1 .. M |-> Len([k \in 1 .. M |-> handlers[k].draws][m])]
        BY <2>2 DEF BeginSummary
      <4>2. M \in Nat /\ M >= 1 /\ 1 .. M \subseteq Chains
        BY StoreAssumption DEF Chains
      <4>3. sizes' = [m \in 1 .. M |-> Len(handlers[m].draws)]
        BY <4>1
      <4>5. \A m \in 1 .. M : Len(handlers[m].draws) \in Nat
        BY <4>2, <4>4
      <4>6. 1 \in 1 .. M
        BY <4>2
      <4> QED
        BY <4>2, <4>3, <4>5, <4>6
    <3> QED
      BY <2>2, <3>1 DEF BeginSummary, EssInv, NoRun
  <2>3. CASE EffectiveSampleSize
    BY <2>3, FirstPairInv, NextPairInv, FinishTailInv DEF EffectiveSampleSize, EssNext
  <2> QED
    BY <2>1, <2>2, <2>3 DEF SampleNext, Storing, sampleVars
<1> QED
  BY <1>1, <1>2, StoreInvStep, PTL DEF SampleSpec

\* summary.hpp:703: for any number of chains of three draws or more, of any
\* lengths, and all autocorrelations, no lag is read that the shortest chain does
\* not have, every entry used exists, and the result is positive.
THEOREM LagsStayWithinChain == SampleSpec => []LagsWithinChain
<1>1. EssInv => LagsWithinChain
  <2> SUFFICES ASSUME EssInv, \A m \in DOMAIN sizes : sizes[m] >= 3
               PROVE  /\ \A lag \in lags, m \in DOMAIN sizes : lag < sizes[m]
                      /\ phase # "undefined"
                      /\ phase = "loop" => t + 1 < MinLen
                      /\ phase = "done" => tau > 0
                      /\ phase = "done" /\ MinLen <= 5 =>
                           tau = Greater(2 * Unit, TauFloor(SizesSum(sizes)))
    BY DEF LagsWithinChain
  <2>1. CASE phase \in {"idle", "begin", "threw"}
    BY <2>1 DEF EssInv, NoRun
  <2>2. CASE phase \in {"loop", "done", "undefined"}
    <3>1. /\ MinLen \in Nat /\ MinLen >= 3
          /\ \A m \in DOMAIN sizes : sizes[m] \in Nat /\ MinLen <= sizes[m]
      BY <2>2, MinLenIs DEF EssInv
    <3>2. \A lag \in lags : lag \in 1 .. MinLen - 1
      BY <2>2, <3>1 DEF EssInv, Loop, Done
    <3>3. \A lag \in lags, m \in DOMAIN sizes : lag < sizes[m]
      BY <3>1, <3>2
    <3> QED
      <4>1. CASE phase = "loop"
        <5>1. t + 1 < MinLen
          <6>1. t \in Nat /\ (t = 1 \/ t + 2 < MinLen)
            BY <4>1, Zenon DEF EssInv, Loop
          <6> QED
            BY <3>1, <6>1
        <5> QED
          BY <3>3, <4>1, <5>1
      <4>2. CASE phase = "done"
        BY <3>3, <4>2 DEF EssInv, Done
      <4>3. CASE phase = "undefined"
        BY <3>1, <4>3 DEF EssInv
      <4> QED
        BY <2>2, <4>1, <4>2, <4>3
  <2> QED
    BY <2>1, <2>2 DEF EssInv
<1> QED
  BY <1>1, EssInvHolds, PTL

\* The pairs kept are not negative and never grow, for all autocorrelations.
THEOREM PairsAreMonotone == SampleSpec => []GeyerMonotone
<1>1. EssInv => GeyerMonotone
  BY DEF EssInv, Loop, GeyerMonotone
<1> QED
  BY <1>1, EssInvHolds, PTL

-------------------------------------------------------------------------------
(***************************************************************************)
(* Sums over parts, and of combinations (Summary).                         *)
(***************************************************************************)

\* After its first lo entries, xs goes on with ys.
GoesOn(xs, lo, ys) ==
  /\ xs \in Seq(Rationals) /\ ys \in Seq(Rationals)
  /\ lo \in Nat /\ lo + Len(ys) <= Len(xs)
  /\ \A j \in 1 .. Len(ys) : xs[lo + j] = ys[j]

Continued(f, lo, ys) == f[lo + Len(ys)] = Plus(f[lo], SumOf(ys))

\* The totals of a sequence go on from any place with those of what is there.
LEMMA TotalsGoOn ==
  \A xs, lo, ys, f : GoesOn(xs, lo, ys) /\ Totals(f, xs) => Continued(f, lo, ys)
<1> SUFFICES ASSUME NEW xs, NEW lo, NEW ys, NEW f, GoesOn(xs, lo, ys), Totals(f, xs)
             PROVE  Continued(f, lo, ys)
  BY Zenon
<1>given. /\ xs \in Seq(Rationals) /\ ys \in Seq(Rationals)
      /\ lo \in Nat /\ lo + Len(ys) <= Len(xs)
      /\ \A j \in 1 .. Len(ys) : xs[lo + j] = ys[j]
  BY Zenon DEF GoesOn
<1>totals. PICK g : Totals(g, ys)
  BY <1>given, TotalsExist
<1> DEFINE N == Len(xs)
           L == Len(ys)
           T == {j \in Nat : j <= L => f[lo + j] = Plus(f[lo], g[j])}
<1>1. N \in Nat /\ L \in Nat /\ lo + L <= N /\ lo \in Nat
  BY <1>given
<1>2. /\ f \in [0 .. N -> Rationals] /\ \A i \in 1 .. N : f[i] = Plus(f[i - 1], xs[i])
      /\ g \in [0 .. L -> Rationals] /\ g[0] = Zero /\ SumOf(ys) = g[L]
      /\ \A i \in 1 .. L : g[i] = Plus(g[i - 1], ys[i])
  BY <1>totals, Zenon DEF Totals
<1>3. \A j \in 1 .. L : ys[j] \in Rationals /\ xs[lo + j] = ys[j]
  BY <1>given
<1> HIDE DEF N, L
<1>4. f[lo] \in Rationals /\ lo + 0 = lo
  BY <1>1, <1>2
<1>5. 0 \in T
  BY <1>2, <1>4, Units
<1>6. ASSUME NEW j \in Nat, j \in T PROVE j + 1 \in T
  <2> SUFFICES ASSUME j + 1 <= L PROVE f[lo + (j + 1)] = Plus(f[lo], g[j + 1])
    OBVIOUS
  <2>1. PICK i \in 1 .. L : i = j + 1 /\ i - 1 = j
    BY <1>1
  <2>2. PICK p \in 1 .. N : p = lo + i /\ p - 1 = lo + j
    BY <1>1, <2>1
  <2>3. f[p] = Plus(f[lo + j], ys[i]) /\ g[i] = Plus(g[j], ys[i])
    BY <1>2, <1>3, <2>1, <2>2, Zenon
  <2>4. f[lo + j] = Plus(f[lo], g[j])
    BY <1>1, <1>6, <2>1
  <2>5. g[j] \in Rationals /\ ys[i] \in Rationals
    BY <1>1, <1>2, <1>3, <2>1
  <2>6. Plus(Plus(f[lo], g[j]), ys[i]) = Plus(f[lo], Plus(g[j], ys[i]))
    BY <1>4, <2>5, PlusAssociates
  <2> QED
    BY <2>1, <2>2, <2>3, <2>4, <2>6, Zenon
<1>7. L \in T
  <2> HIDE DEF T
  <2>1. Nat \subseteq T
    BY <1>5, <1>6, Induction
  <2> QED
    BY <1>1, <2>1
<1> QED
  BY <1>1, <1>2, <1>7 DEF L, Continued

\* xs is its parts one after the other.
Parted(xs, parts, starts) ==
  parts \in Seq(Seq(Rationals)) /\ StartsOf(parts, starts) /\ FlatAt(Rationals, xs, parts, starts)

\* The sums of the parts add up to the sum of the whole.
LEMMA PartSums ==
  \A xs, parts, starts : Parted(xs, parts, starts) =>
    SumOf([m \in DOMAIN parts |-> SumOf(parts[m])]) = SumOf(xs)
<1> SUFFICES ASSUME NEW xs, NEW parts, NEW starts, Parted(xs, parts, starts)
             PROVE  SumOf([m \in DOMAIN parts |-> SumOf(parts[m])]) = SumOf(xs)
  OBVIOUS
<1> DEFINE M == Len(parts)
           sums == [m \in DOMAIN parts |-> SumOf(parts[m])]
<1>1. parts \in Seq(Seq(Rationals)) /\ StartsOf(parts, starts) /\ FlatAt(Rationals, xs, parts, starts)
  BY DEF Parted
<1>2. M \in Nat /\ DOMAIN parts = 1 .. M /\ \A m \in 1 .. M : parts[m] \in Seq(Rationals)
  BY <1>1
<1>3. /\ starts \in [0 .. M -> Nat] /\ starts[0] = 0
      /\ \A m \in 1 .. M : starts[m] = starts[m - 1] + Len(parts[m])
  BY <1>1, Zenon DEF StartsOf
<1>4. /\ xs \in Seq(Rationals) /\ Len(xs) = starts[M]
      /\ \A m \in 1 .. M, j \in Nat : j \in 1 .. Len(parts[m]) =>
           starts[m - 1] + j \in 1 .. Len(xs) /\ xs[starts[m - 1] + j] = parts[m][j]
  BY <1>1, Zenon DEF FlatAt
<1>5. \A m \in 0 .. M : starts[m] \in Nat /\ starts[m] <= Len(xs)
  <2>1. \A m \in 0 .. M, k \in 0 .. M : m <= k => starts[m] <= starts[k]
    BY <1>1, StartsGrow
  <2> HIDE DEF M
  <2>2. M \in 0 .. M /\ \A m \in 0 .. M : m <= M
    BY <1>2
  <2> QED
    BY <1>3, <1>4, <2>1, <2>2
<1>6. sums \in Seq(Rationals) /\ Len(sums) = M /\ \A m \in 1 .. M : sums[m] = SumOf(parts[m])
  <2>1. sums = [m \in 1 .. M |-> sums[m]] /\ \A m \in 1 .. M : sums[m] = SumOf(parts[m])
    BY <1>2
  <2>2. \A m \in 1 .. M : sums[m] \in Rationals
    BY <1>2, <2>1, SumIn
  <2> HIDE DEF sums, M
  <2> QED
    BY <1>2, <2>1, <2>2, Listed, Zenon
<1> HIDE DEF sums, M
<1>7. PICK f : Totals(f, xs)
  BY <1>4, TotalsExist
<1>8. PICK g : Totals(g, sums)
  BY <1>6, TotalsExist
<1>9. /\ f[0] = Zero /\ SumOf(xs) = f[starts[M]]
      /\ g[0] = Zero /\ SumOf(sums) = g[M] /\ \A m \in 1 .. M : g[m] = Plus(g[m - 1], sums[m])
  BY <1>4, <1>6, <1>7, <1>8, Zenon DEF Totals
<1> DEFINE T == {m \in Nat : m <= M => g[m] = f[starts[m]]}
<1>10. 0 \in T
  BY <1>3, <1>9
<1>11. ASSUME NEW n \in Nat, n \in T PROVE n + 1 \in T
  <2> SUFFICES ASSUME n + 1 <= M PROVE g[n + 1] = f[starts[n + 1]]
    OBVIOUS
  <2>1. PICK m \in 1 .. M : m = n + 1 /\ m - 1 = n
    BY <1>2
  <2>2. n \in 0 .. M /\ m \in 0 .. M /\ n <= M
    BY <1>2, <2>1
  <2>3. parts[m] \in Seq(Rationals) /\ Len(parts[m]) \in Nat
    BY <1>2
  <2>4. starts[m] = starts[n] + Len(parts[m]) /\ starts[n] \in Nat
        /\ starts[n] + Len(parts[m]) <= Len(xs)
    BY <1>3, <1>5, <2>1, <2>2, Zenon
  <2>5. \A j \in 1 .. Len(parts[m]) : xs[starts[n] + j] = parts[m][j]
    <3> TAKE j \in 1 .. Len(parts[m])
    <3>1. j \in Nat
      BY <2>3
    <3> QED
      BY <1>4, <2>1, <3>1, Zenon
  <2>6. GoesOn(xs, starts[n], parts[m])
    BY <1>4, <2>3, <2>4, <2>5, Zenon DEF GoesOn
  <2>7. f[starts[n] + Len(parts[m])] = Plus(f[starts[n]], SumOf(parts[m]))
    <3>1. Continued(f, starts[n], parts[m])
      BY <1>7, <2>6, TotalsGoOn, Zenon
    <3> QED
      BY <3>1 DEF Continued
  <2>8. g[n] = f[starts[n]]
    BY <1>11, <2>2
  <2> QED
    BY <1>6, <1>9, <2>1, <2>4, <2>7, <2>8, Zenon
<1>12. M \in T
  <2> HIDE DEF T
  <2>1. Nat \subseteq T
    BY <1>10, <1>11, Induction
  <2> QED
    BY <1>2, <2>1
<1> QED
  BY <1>2, <1>9, <1>12 DEF sums

\* cs is k times as plus bs, entry by entry.
Combined(k, as, bs, cs) ==
  /\ k \in Rationals /\ as \in Seq(Rationals) /\ bs \in Seq(Rationals) /\ cs \in Seq(Rationals)
  /\ Len(as) = Len(cs) /\ Len(bs) = Len(cs)
  /\ \A i \in 1 .. Len(cs) : cs[i] = Plus(Times(k, as[i]), bs[i])

\* The sum of a combination is that combination of the sums.
LEMMA CombinedSum ==
  \A k, as, bs, cs : Combined(k, as, bs, cs) =>
    SumOf(cs) = Plus(Times(k, SumOf(as)), SumOf(bs))
<1> SUFFICES ASSUME NEW k, NEW as, NEW bs, NEW cs, Combined(k, as, bs, cs)
             PROVE  SumOf(cs) = Plus(Times(k, SumOf(as)), SumOf(bs))
  OBVIOUS
<1> DEFINE N == Len(cs)
<1>1. /\ k \in Rationals /\ N \in Nat /\ Len(as) = N /\ Len(bs) = N
      /\ as \in Seq(Rationals) /\ bs \in Seq(Rationals) /\ cs \in Seq(Rationals)
      /\ \A i \in 1 .. N : cs[i] = Plus(Times(k, as[i]), bs[i])
  <2>1. cs \in Seq(Rationals)
    BY Zenon DEF Combined
  <2>2. N \in Nat
    BY <2>1
  <2> QED
    BY <2>2, Zenon DEF Combined
<1>2. \A i \in 1 .. N : as[i] \in Rationals /\ bs[i] \in Rationals
  BY <1>1, EntriesIn, Zenon
<1> HIDE DEF N
<1>3. PICK f : Totals(f, as)
  BY <1>1, TotalsExist
<1>4. PICK g : Totals(g, bs)
  BY <1>1, TotalsExist
<1>5. PICK h : Totals(h, cs)
  BY <1>1, TotalsExist
<1>6. /\ f \in [0 .. N -> Rationals] /\ f[0] = Zero /\ SumOf(as) = f[N]
      /\ \A i \in 1 .. N : f[i] = Plus(f[i - 1], as[i])
  BY <1>1, <1>3, Zenon DEF Totals
<1>7. /\ g \in [0 .. N -> Rationals] /\ g[0] = Zero /\ SumOf(bs) = g[N]
      /\ \A i \in 1 .. N : g[i] = Plus(g[i - 1], bs[i])
  BY <1>1, <1>4, Zenon DEF Totals
<1>8. /\ h[0] = Zero /\ SumOf(cs) = h[N]
      /\ \A i \in 1 .. N : h[i] = Plus(h[i - 1], cs[i])
  BY <1>5, Zenon DEF Totals, N
<1> DEFINE T == {n \in Nat : n <= N => h[n] = Plus(Times(k, f[n]), g[n])}
<1>9. 0 \in T
  <2>1. Plus(Times(k, Zero), Zero) = Zero
    BY <1>1, ZeroOne, Units
  <2> QED
    BY <1>6, <1>7, <1>8, <2>1
<1>10. ASSUME NEW n \in Nat, n \in T PROVE n + 1 \in T
  <2> SUFFICES ASSUME n + 1 <= N PROVE h[n + 1] = Plus(Times(k, f[n + 1]), g[n + 1])
    OBVIOUS
  <2>1. PICK i \in 1 .. N : i = n + 1 /\ i - 1 = n /\ n \in 0 .. N /\ n <= N
    BY <1>1
  <2>2. h[n] = Plus(Times(k, f[n]), g[n]) /\ f[n] \in Rationals /\ g[n] \in Rationals
    BY <1>6, <1>7, <1>10, <2>1
  <2>3. as[i] \in Rationals /\ bs[i] \in Rationals
    BY <1>2
  <2>4. f[i] = Plus(f[n], as[i]) /\ g[i] = Plus(g[n], bs[i])
        /\ h[i] = Plus(h[n], Plus(Times(k, as[i]), bs[i]))
    BY <1>1, <1>6, <1>7, <1>8, <2>1, Zenon
  <2>5. Times(k, Plus(f[n], as[i])) = Plus(Times(k, f[n]), Times(k, as[i]))
    BY <1>1, <2>2, <2>3, TimesDistributes
  <2>6. Times(k, f[n]) \in Rationals /\ Times(k, as[i]) \in Rationals
    BY <1>1, <2>2, <2>3, Closed
  <2>7. Plus(Plus(Times(k, f[n]), g[n]), Plus(Times(k, as[i]), bs[i]))
          = Plus(Plus(Times(k, f[n]), Times(k, as[i])), Plus(g[n], bs[i]))
    <3> DEFINE a == Times(k, f[n])
               b == g[n]
               c == Times(k, as[i])
               d == bs[i]
    <3>1. a \in Rationals /\ b \in Rationals /\ c \in Rationals /\ d \in Rationals
      BY <2>2, <2>3, <2>6, Zenon
    <3> HIDE DEF a, b, c, d
    <3>2. Plus(Plus(a, b), Plus(c, d)) = Plus(Plus(a, c), Plus(b, d))
      BY <3>1, Exchange
    <3> QED
      BY <3>2 DEF a, b, c, d
  <2> QED
    BY <2>1, <2>2, <2>4, <2>5, <2>7, Zenon
<1>11. N \in T
  <2> HIDE DEF T
  <2>1. Nat \subseteq T
    BY <1>9, <1>10, Induction
  <2> QED
    BY <1>1, <2>1
<1> QED
  BY <1>1, <1>6, <1>7, <1>8, <1>11

\* Deviations from the mean cancel.
LEMMA DeviationsCancel ==
  \A xs \in Seq(Rationals) : xs # <<>> =>
    SumOf([i \in 1 .. Len(xs) |-> Minus(xs[i], ColMean(xs))]) = Zero
<1> SUFFICES ASSUME NEW xs \in Seq(Rationals), xs # <<>>
             PROVE  SumOf([i \in 1 .. Len(xs) |-> Minus(xs[i], ColMean(xs))]) = Zero
  OBVIOUS
<1> DEFINE n == Len(xs)
           mu == ColMean(xs)
           ds == [i \in 1 .. n |-> Minus(xs[i], mu)]
           ms == [i \in 1 .. n |-> mu]
<1>1. n \in Nat /\ \A i \in 1 .. n : xs[i] \in Rationals
  OBVIOUS
<1>2. mu \in Rationals /\ Times(Count(n), mu) = SumOf(xs)
  BY MeanIs DEF MeanOf
<1> HIDE DEF n, mu
<1>3. ds \in Seq(Rationals) /\ Len(ds) = n /\ \A i \in 1 .. n : ds[i] = Minus(xs[i], mu)
  <2>1. ds = [i \in 1 .. n |-> ds[i]] /\ \A i \in 1 .. n : ds[i] = Minus(xs[i], mu)
    OBVIOUS
  <2>2. \A i \in 1 .. n : ds[i] \in Rationals
    BY <1>1, <1>2, <2>1, Closed
  <2> HIDE DEF ds
  <2> QED
    BY <1>1, <2>1, <2>2, Listed, Zenon
<1>4. ms \in Seq(Rationals) /\ Len(ms) = n /\ \A i \in 1 .. n : ms[i] = mu
  BY <1>1, <1>2
<1> HIDE DEF ds, ms
<1>5. Combined(One, ds, ms, xs)
  <2>1. \A i \in 1 .. n : xs[i] = Plus(Times(One, ds[i]), ms[i])
    <3> TAKE i \in 1 .. n
    <3>1. ds[i] = Minus(xs[i], mu) /\ ms[i] = mu /\ xs[i] \in Rationals /\ Minus(xs[i], mu) \in Rationals
      BY <1>1, <1>2, <1>3, <1>4, Closed
    <3>2. Times(One, ds[i]) = ds[i]
      BY <3>1, ZeroOne, Units, TimesCommutes
    <3>3. Plus(mu, Minus(xs[i], mu)) = xs[i] /\ Plus(mu, ds[i]) = Plus(ds[i], mu)
      BY <1>2, <3>1, MinusPlus, PlusCommutes
    <3> QED
      BY <3>1, <3>2, <3>3
  <2> QED
    BY <1>3, <1>4, <2>1, ZeroOne, Zenon DEF Combined, n
<1>6. SumOf(xs) = Plus(Times(One, SumOf(ds)), SumOf(ms))
  BY <1>5, CombinedSum
<1>7. SumOf(ms) = Times(Count(n), mu)
  <2>1. AllAre(mu, ms)
    BY <1>2, <1>4 DEF AllAre
  <2> QED
    BY <1>4, <2>1, ConstantSum, Zenon
<1> DEFINE D == SumOf(ds)
           B == SumOf(xs)
<1>8. D \in Rationals /\ B \in Rationals
  BY <1>3, SumIn
<1> HIDE DEF D, B
<1>9. B = Plus(Times(One, D), B)
  BY <1>2, <1>6, <1>7 DEF D, B
<1>10. Times(One, D) = D
  BY <1>8, ZeroOne, Units, TimesCommutes
<1>11. Plus(B, D) = B
  BY <1>8, <1>9, <1>10, PlusCommutes
<1>12. D = Minus(B, B)
  BY <1>8, <1>11, MinusPlus
<1>13. D = Zero
  BY <1>8, <1>12, Units
<1> QED
  BY <1>13 DEF D, ds, n, mu

\* (u - v)^2 = -2u v + v^2 + u^2
LEMMA SquareOfDifference ==
  \A u, v \in Rationals :
    /\ Square(Minus(u, v)) = Plus(Times(Minus(Zero, Plus(u, u)), v), Plus(Square(v), Square(u)))
    /\ Square(Minus(u, v)) = Square(Minus(v, u))
<1> SUFFICES ASSUME NEW u \in Rationals, NEW v \in Rationals
             PROVE  /\ Square(Minus(u, v)) = Plus(Times(Minus(Zero, Plus(u, u)), v), Plus(Square(v), Square(u)))
                    /\ Square(Minus(u, v)) = Square(Minus(v, u))
  OBVIOUS
<1>1. PICK a \in Int, b \in Int, d \in Nat \ {0} : u = Frac(a, d) /\ v = Frac(b, d)
  BY Common2
<1> DEFINE e == d * d
<1>2. e \in Nat \ {0}
  BY ProductPositive
<1>3. \A i, j \in Int : Times(Frac(i, d), Frac(j, d)) = Frac(i * j, e)
  BY FracTimes
<1> HIDE DEF e
<1>4. \A i, j \in Int : /\ Plus(Frac(i, d), Frac(j, d)) = Frac(i + j, d)
                        /\ Minus(Frac(i, d), Frac(j, d)) = Frac(i - j, d)
                        /\ Plus(Frac(i, e), Frac(j, e)) = Frac(i + j, e)
  BY <1>2, SameParts
<1>5. Zero = Frac(0, d)
  <2>1. 0 = d * 0
    BY <1>1
  <2>2. Minus(u, u) = Frac(a - a, d) /\ a - a = 0
    BY <1>1, <1>4
  <2> QED
    BY <2>2, Units
<1>6. /\ Minus(u, v) = Frac(a - b, d) /\ Minus(v, u) = Frac(b - a, d)
      /\ Plus(u, u) = Frac(a + a, d)
  BY <1>1, <1>4, Zenon
<1>7. Minus(Zero, Plus(u, u)) = Frac(0 - (a + a), d)
  <2>1. a + a \in Int /\ 0 \in Int
    OBVIOUS
  <2> QED
    BY <1>4, <1>5, <1>6, <2>1, Zenon
<1>8. /\ Square(Minus(u, v)) = Frac((a - b) * (a - b), e) /\ Square(Minus(v, u)) = Frac((b - a) * (b - a), e)
      /\ Square(u) = Frac(a * a, e) /\ Square(v) = Frac(b * b, e)
      /\ Times(Minus(Zero, Plus(u, u)), v) = Frac((0 - (a + a)) * b, e)
  <2>1. a - b \in Int /\ b - a \in Int /\ 0 - (a + a) \in Int
    OBVIOUS
  <2> QED
    BY <1>1, <1>3, <1>6, <1>7, <2>1, Zenon DEF Square
<1>9. (a - b) * (a - b) = (b - a) * (b - a)
      /\ (a - b) * (a - b) = (0 - (a + a)) * b + (b * b + a * a)
  OBVIOUS
<1>10. Plus(Square(v), Square(u)) = Frac(b * b + a * a, e)
  <2>1. a * a \in Int /\ b * b \in Int
    OBVIOUS
  <2> QED
    BY <1>4, <1>8, <2>1, Zenon
<1>11. Plus(Times(Minus(Zero, Plus(u, u)), v), Plus(Square(v), Square(u)))
         = Frac((0 - (a + a)) * b + (b * b + a * a), e)
  <2>1. b * b + a * a \in Int /\ (0 - (a + a)) * b \in Int
    OBVIOUS
  <2> QED
    BY <1>4, <1>8, <1>10, <2>1, Zenon
<1> QED
  BY <1>8, <1>9, <1>11

\* Two numbers differ as they do after the same is taken from both.
LEMMA SameShift ==
  \A x, y, z \in Rationals : Minus(Minus(x, z), Minus(y, z)) = Minus(x, y)
<1> SUFFICES ASSUME NEW x \in Rationals, NEW y \in Rationals, NEW z \in Rationals
             PROVE  Minus(Minus(x, z), Minus(y, z)) = Minus(x, y)
  OBVIOUS
<1>1. PICK a \in Int, b \in Int, c \in Int, d \in Nat \ {0} :
             x = Frac(a, d) /\ y = Frac(b, d) /\ z = Frac(c, d)
  BY Common3
<1>2. \A p, q \in Int : Minus(Frac(p, d), Frac(q, d)) = Frac(p - q, d)
  BY SameParts
<1>3. Minus(x, z) = Frac(a - c, d) /\ Minus(y, z) = Frac(b - c, d) /\ Minus(x, y) = Frac(a - b, d)
  BY <1>1, <1>2, Zenon
<1>4. Minus(Minus(x, z), Minus(y, z)) = Frac((a - c) - (b - c), d)
  <2>1. a - c \in Int /\ b - c \in Int
    BY <1>1
  <2> QED
    BY <1>2, <1>3, <2>1, Zenon
<1>5. (a - c) - (b - c) = a - b
  BY <1>1
<1> QED
  BY <1>3, <1>4, <1>5

\* Squares about any number, by those about the mean.
LEMMA SquaresMove ==
  \A xs \in Seq(Rationals), x \in Rationals : xs # <<>> =>
    SquaresAbout(xs, x)
      = Plus(Times(Count(Len(xs)), Square(Minus(x, ColMean(xs)))), SquaresAbout(xs, ColMean(xs)))
<1> SUFFICES ASSUME NEW xs \in Seq(Rationals), NEW x \in Rationals, xs # <<>>
             PROVE  SquaresAbout(xs, x)
                      = Plus(Times(Count(Len(xs)), Square(Minus(x, ColMean(xs)))), SquaresAbout(xs, ColMean(xs)))
  OBVIOUS
<1> DEFINE n == Len(xs)
           mu == ColMean(xs)
           u == Minus(x, mu)
           k == Minus(Zero, Plus(u, u))
           vs == [i \in 1 .. n |-> Minus(xs[i], mu)]
           sq == [i \in 1 .. n |-> Square(Minus(xs[i], mu))]
           us == [i \in 1 .. n |-> Square(u)]
           bs == [i \in 1 .. n |-> Plus(sq[i], us[i])]
           cs == [i \in 1 .. n |-> Square(Minus(xs[i], x))]
<1>1. n \in Nat /\ DOMAIN xs = 1 .. n /\ \A i \in 1 .. n : xs[i] \in Rationals
  OBVIOUS
<1>2. mu \in Rationals
  BY MeanIs DEF MeanOf
<1>20. SumOf(vs) = Zero
  BY DeviationsCancel, Zenon
<1>21. SquaresAbout(xs, x) = SumOf(cs) /\ SquaresAbout(xs, mu) = SumOf(sq)
  BY <1>1, Zenon DEF SquaresAbout
<1> HIDE DEF n, mu
<1>3. u \in Rationals /\ k \in Rationals /\ Square(u) \in Rationals
  <2>1. u \in Rationals
    BY <1>2, Closed
  <2> HIDE DEF u
  <2> QED
    BY <2>1, ZeroOne, Closed, SquareIs
<1> HIDE DEF u, k
<1>4. /\ \A i \in 1 .. n : vs[i] = Minus(xs[i], mu) /\ sq[i] = Square(Minus(xs[i], mu))
      /\ \A i \in 1 .. n : us[i] = Square(u) /\ bs[i] = Plus(sq[i], us[i])
      /\ \A i \in 1 .. n : cs[i] = Square(Minus(xs[i], x))
      /\ vs = [i \in 1 .. n |-> vs[i]] /\ sq = [i \in 1 .. n |-> sq[i]] /\ us = [i \in 1 .. n |-> us[i]]
      /\ bs = [i \in 1 .. n |-> bs[i]] /\ cs = [i \in 1 .. n |-> cs[i]]
  OBVIOUS
<1> HIDE DEF vs, sq, us, bs, cs
<1>5. ASSUME NEW i \in 1 .. n
      PROVE  /\ vs[i] \in Rationals /\ sq[i] \in Rationals /\ us[i] \in Rationals
             /\ bs[i] \in Rationals /\ cs[i] \in Rationals
             /\ cs[i] = Plus(Times(k, vs[i]), bs[i])
  <2>1. xs[i] \in Rationals
    BY <1>1
  <2>2. vs[i] \in Rationals /\ Minus(xs[i], x) \in Rationals
    BY <1>2, <1>4, <2>1, Closed
  <2>3. sq[i] = Square(vs[i]) /\ sq[i] \in Rationals /\ us[i] = Square(u) /\ cs[i] \in Rationals
    BY <1>4, <2>2, SquareIs
  <2>4. bs[i] = Plus(Square(vs[i]), Square(u)) /\ bs[i] \in Rationals
    BY <1>3, <1>4, <2>3, Closed
  <2>5. cs[i] = Square(Minus(u, vs[i]))
    <3>1. Minus(Minus(x, mu), Minus(xs[i], mu)) = Minus(x, xs[i])
      BY <1>2, <2>1, SameShift
    <3>2. Minus(u, vs[i]) = Minus(x, xs[i])
      BY <1>4, <3>1 DEF u
    <3> QED
      BY <1>4, <2>1, <3>2, SquareOfDifference
  <2>6. Square(Minus(u, vs[i])) = Plus(Times(k, vs[i]), Plus(Square(vs[i]), Square(u)))
    BY <1>3, <2>2, SquareOfDifference DEF k
  <2> QED
    BY <1>3, <2>2, <2>3, <2>4, <2>5, <2>6
<1>6. /\ vs \in Seq(Rationals) /\ Len(vs) = n /\ sq \in Seq(Rationals) /\ Len(sq) = n
      /\ us \in Seq(Rationals) /\ Len(us) = n /\ bs \in Seq(Rationals) /\ Len(bs) = n
      /\ cs \in Seq(Rationals) /\ Len(cs) = n
  <2>1. vs \in Seq(Rationals) /\ Len(vs) = n
    BY <1>1, <1>4, <1>5, Listed, Zenon
  <2>2. sq \in Seq(Rationals) /\ Len(sq) = n
    BY <1>1, <1>4, <1>5, Listed, Zenon
  <2>3. us \in Seq(Rationals) /\ Len(us) = n
    BY <1>1, <1>4, <1>5, Listed, Zenon
  <2>4. bs \in Seq(Rationals) /\ Len(bs) = n
    BY <1>1, <1>4, <1>5, Listed, Zenon
  <2>5. cs \in Seq(Rationals) /\ Len(cs) = n
    BY <1>1, <1>4, <1>5, Listed, Zenon
  <2> QED
    BY <2>1, <2>2, <2>3, <2>4, <2>5
<1>7. SumOf(cs) = Plus(Times(k, SumOf(vs)), SumOf(bs))
  <2>1. Combined(k, vs, bs, cs)
    BY <1>3, <1>5, <1>6, Zenon DEF Combined
  <2> QED
    BY <2>1, CombinedSum
<1>8. SumOf(bs) = Plus(SumOf(sq), SumOf(us))
  <2>1. Combined(One, sq, us, bs)
    <3>1. \A i \in 1 .. n : bs[i] = Plus(Times(One, sq[i]), us[i])
      <4> TAKE i \in 1 .. n
      <4>1. Times(One, sq[i]) = sq[i]
        BY <1>5, ZeroOne, Units, TimesCommutes
      <4> QED
        BY <1>4, <4>1
    <3> QED
      BY <1>6, <3>1, ZeroOne, Zenon DEF Combined
  <2>2. SumOf(bs) = Plus(Times(One, SumOf(sq)), SumOf(us))
    BY <2>1, CombinedSum
  <2>3. Times(One, SumOf(sq)) = SumOf(sq)
    <3>1. SumOf(sq) \in Rationals
      BY <1>6, SumIn
    <3> QED
      BY <3>1, ZeroOne, Units, TimesCommutes
  <2> QED
    BY <2>2, <2>3
<1>9. SumOf(us) = Times(Count(n), Square(u))
  <2>1. AllAre(Square(u), us)
    BY <1>3, <1>4, <1>6 DEF AllAre
  <2> QED
    BY <1>6, <2>1, ConstantSum, Zenon
<1>10. SumOf(sq) \in Rationals /\ SumOf(us) \in Rationals /\ SumOf(bs) \in Rationals
  BY <1>6, SumIn
<1>11. SumOf(cs) = Plus(SumOf(us), SumOf(sq))
  <2>1. Times(k, Zero) = Zero /\ Plus(Zero, SumOf(bs)) = SumOf(bs)
    BY <1>3, <1>10, ZeroOne, Units, PlusCommutes
  <2> QED
    BY <1>7, <1>8, <1>10, <1>20, <2>1, PlusCommutes
<1> QED
  BY <1>9, <1>11, <1>21 DEF n, mu, u

\* A fraction is reduced by a common factor.
LEMMA OverScales ==
  \A k, x, y \in Rationals : k # Zero /\ y # Zero => Over(Times(k, x), Times(k, y)) = Over(x, y)
<1> SUFFICES ASSUME NEW k \in Rationals, NEW x \in Rationals, NEW y \in Rationals, k # Zero, y # Zero
             PROVE  Over(Times(k, x), Times(k, y)) = Over(x, y)
  OBVIOUS
<1> DEFINE q == Over(x, y)
           z == Times(k, y)
<1>1. q \in Rationals /\ Times(y, q) = x
  BY Closed, OverCancels
<1> HIDE DEF q
<1>2. z \in Rationals /\ Times(z, q) = Times(k, x)
  <2>1. Times(Times(k, y), q) = Times(k, Times(y, q))
    BY <1>1, TimesAssociates
  <2> QED
    BY <1>1, <2>1, Closed
<1>3. z # Zero
  <2> SUFFICES ASSUME z = Zero PROVE FALSE
    OBVIOUS
  <2>1. Over(Times(k, y), k) = y
    <3>1. Times(k, y) = Times(y, k) /\ Over(Times(k, y), k) = y
      BY TimesCommutes, OverCancels
    <3> QED
      BY <3>1
  <2>2. Times(k, Zero) = Zero /\ Over(Times(k, Zero), k) = Zero /\ Zero \in Rationals
    BY Units, OverCancels, ZeroOne
  <2> QED
    BY <2>1, <2>2
<1> HIDE DEF z
<1>4. Over(Times(z, q), z) = q
  BY <1>1, <1>2, <1>3, OverCancels
<1> QED
  BY <1>2, <1>4 DEF z, q

\* Products of counts.
LEMMA CountTimes == \A m, n \in Int : Times(Count(m), Count(n)) = Count(m * n)
<1> TAKE m, n \in Int
<1>1. Times(Frac(m, 1), Frac(n, 1)) = Frac(m * n, 1 * 1)
  BY FracTimes
<1>2. 1 * 1 = 1
  OBVIOUS
<1> QED
  BY <1>1, <1>2 DEF Count

\* The list of all pairs' squares, a row of them for each draw.
PairSquares(xs, n) ==
  [k \in 1 .. n * n |-> Square(Minus(xs[((k - 1) \div n) + 1], xs[((k - 1) % n) + 1]))]

PairRows(xs, n) == [a \in 1 .. n |-> [b \in 1 .. n |-> Square(Minus(xs[a], xs[b]))]]

\* The squared differences of all pairs, row by row.
LEMMA PairsParted ==
  \A xs \in Seq(Rationals), n \in Nat \ {0} : Len(xs) = n =>
    Parted(PairSquares(xs, n), PairRows(xs, n), [a \in 0 .. n |-> a * n])
<1> SUFFICES ASSUME NEW xs \in Seq(Rationals), NEW n \in Nat \ {0}, Len(xs) = n
             PROVE  Parted(PairSquares(xs, n), PairRows(xs, n), [a \in 0 .. n |-> a * n])
  OBVIOUS
<1> DEFINE ps == PairSquares(xs, n)
           rows == PairRows(xs, n)
           starts == [a \in 0 .. n |-> a * n]
<1>1. \A a \in 1 .. n : xs[a] \in Rationals
  BY EntriesIn
<1>2. \A a, b \in 1 .. n : Square(Minus(xs[a], xs[b])) \in Rationals
  BY <1>1, Closed, SquareIs
<1>3. n * n \in Nat
  BY ProductGrows
<1>4. \A k \in 1 .. n * n : (k - 1) \div n \in 0 .. n - 1 /\ (k - 1) % n \in 0 .. n - 1
  <2> TAKE k \in 1 .. n * n
  <2>1. k - 1 \in Nat /\ k - 1 < n * n
    BY <1>3
  <2> DEFINE q == (k - 1) \div n
             r == (k - 1) % n
  <2>2. q \in Int /\ r \in 0 .. n - 1 /\ k - 1 = n * q + r
    BY <2>1
  <2> HIDE DEF q, r
  <2>3. q >= 0
    <3> SUFFICES ASSUME q <= 0 - 1 PROVE FALSE
      BY <2>2
    <3>1. n * (0 - 1 - q) >= 0
      BY <2>2
    <3>2. n * (0 - 1 - q) = 0 - n - n * q
      BY <2>2
    <3> QED
      BY <2>1, <2>2, <3>1, <3>2
  <2>4. q <= n - 1
    <3> SUFFICES ASSUME q >= n PROVE FALSE
      BY <2>2
    <3>1. n * (q - n) >= 0
      BY <2>2
    <3>2. n * (q - n) = n * q - n * n
      BY <2>2
    <3> QED
      BY <2>1, <2>2, <3>1, <3>2
  <2> QED
    BY <2>2, <2>3, <2>4 DEF q, r
<1>5. ps \in Seq(Rationals) /\ Len(ps) = n * n
  <2> DEFINE F(k) == Square(Minus(xs[((k - 1) \div n) + 1], xs[((k - 1) % n) + 1]))
  <2>1. \A k \in 1 .. n * n : F(k) \in Rationals
    <3> TAKE k \in 1 .. n * n
    <3>1. ((k - 1) \div n) + 1 \in 1 .. n /\ ((k - 1) % n) + 1 \in 1 .. n
      BY <1>4
    <3> QED
      BY <1>2, <3>1, Zenon
  <2>2. ps = [k \in 1 .. n * n |-> F(k)]
    BY Zenon DEF PairSquares
  <2> HIDE DEF ps, F
  <2> QED
    BY <1>3, <2>1, <2>2
<1>6. rows \in Seq(Seq(Rationals)) /\ Len(rows) = n /\ \A a \in 1 .. n : Len(rows[a]) = n
  <2>1. ASSUME NEW a \in 1 .. n PROVE rows[a] \in Seq(Rationals) /\ Len(rows[a]) = n
    <3>1. rows[a] = [b \in 1 .. n |-> Square(Minus(xs[a], xs[b]))]
      BY DEF PairRows
    <3> QED
      BY <1>2, <3>1
  <2>2. rows = [a \in 1 .. n |-> rows[a]]
    BY DEF PairRows
  <2>3. n \in Nat
    BY <1>2
  <2>4. \A a \in 1 .. n : rows[a] \in Seq(Rationals)
    BY <2>1
  <2> HIDE DEF rows
  <2>5. rows \in Seq(Seq(Rationals)) /\ Len(rows) = n
    BY ONLY <2>2, <2>3, <2>4, Listed, Zenon
  <2> QED
    BY <2>1, <2>5
<1>7. /\ starts \in [0 .. n -> Nat] /\ starts[0] = 0 /\ starts[n] = n * n
      /\ \A a \in 1 .. n : starts[a - 1] = (a - 1) * n /\ starts[a] = starts[a - 1] + n
  <2>1. \A a \in 0 .. n : a * n \in Nat
    BY ProductGrows
  <2>2. \A a \in 1 .. n : a - 1 \in 0 .. n /\ a \in 0 .. n /\ a * n = (a - 1) * n + n
    OBVIOUS
  <2>3. 0 * n = 0 /\ 0 \in 0 .. n /\ n \in 0 .. n
    OBVIOUS
  <2> QED
    BY <2>1, <2>2, <2>3
<1>8. ASSUME NEW a \in 1 .. n, NEW b \in 1 .. n
      PROVE  (a - 1) * n + b \in 1 .. n * n /\ ps[(a - 1) * n + b] = rows[a][b]
  <2> DEFINE k == (a - 1) * n + b
  <2>1. k \in 1 .. n * n
    BY ArrayPlace
  <2>2. k - 1 = n * (a - 1) + (b - 1) /\ a - 1 \in Nat /\ b - 1 \in 0 .. n - 1
    OBVIOUS
  <2>3. (k - 1) \div n = a - 1 /\ (k - 1) % n = b - 1
    <3>1. (n * (a - 1) + (b - 1)) \div n = a - 1 /\ (n * (a - 1) + (b - 1)) % n = b - 1
      BY <2>2, Quotient, Zenon
    <3> HIDE DEF k
    <3> QED
      BY <2>2, <3>1, Zenon
  <2>4. (a - 1) + 1 = a /\ (b - 1) + 1 = b
    OBVIOUS
  <2> HIDE DEF k
  <2>5. ps[k] = Square(Minus(xs[((k - 1) \div n) + 1], xs[((k - 1) % n) + 1]))
    BY <2>1, Zenon DEF PairSquares
  <2>6. rows[a][b] = Square(Minus(xs[a], xs[b]))
    BY DEF PairRows
  <2> QED
    BY <2>1, <2>3, <2>4, <2>5, <2>6 DEF k
<1> HIDE DEF ps, rows, starts
<1>9. StartsOf(rows, starts)
  BY <1>6, <1>7, Zenon DEF StartsOf
<1>10. FlatAt(Rationals, ps, rows, starts)
  <2>1. ASSUME NEW a \in 1 .. n, NEW b \in Nat, b \in 1 .. Len(rows[a])
        PROVE  starts[a - 1] + b \in 1 .. Len(ps) /\ ps[starts[a - 1] + b] = rows[a][b]
    <3>1. b \in 1 .. n /\ starts[a - 1] = (a - 1) * n
      BY <1>6, <1>7, <2>1, Zenon
    <3>2. (a - 1) * n + b \in 1 .. n * n /\ ps[(a - 1) * n + b] = rows[a][b]
      BY <1>8, <3>1, Zenon
    <3> QED
      BY <1>5, <3>1, <3>2, Zenon
  <2>2. ps \in Seq(Rationals) /\ Len(ps) = starts[n] /\ Len(rows) = n
    BY <1>5, <1>6, <1>7, Zenon
  <2> QED
    BY <2>1, <2>2, Zenon DEF FlatAt
<1>11. Parted(ps, rows, starts)
  BY <1>6, <1>9, <1>10 DEF Parted
<1> QED
  BY <1>11 DEF ps, rows, starts

\* The pairs' variance is the squares about the mean over one less than their number.
LEMMA PairsAre ==
  \A xs \in Seq(Rationals) : Len(xs) >= 2 => PairsVariance(xs) = ColVariance(xs, ColMean(xs))
<1> SUFFICES ASSUME NEW xs \in Seq(Rationals), Len(xs) >= 2
             PROVE  PairsVariance(xs) = ColVariance(xs, ColMean(xs))
  OBVIOUS
<1> DEFINE n == Len(xs)
           mu == ColMean(xs)
           S == SquaresAbout(xs, mu)
           ps == PairSquares(xs, n)
           rows == PairRows(xs, n)
           sq == [a \in 1 .. n |-> Square(Minus(xs[a], mu))]
           ss == [a \in 1 .. n |-> S]
           sums == [a \in 1 .. n |-> SumOf(rows[a])]
<1>1. n \in Nat \ {0} /\ n \in Nat /\ n >= 2 /\ DOMAIN xs = 1 .. n /\ xs # <<>>
  OBVIOUS
<1>2. \A a \in 1 .. n : xs[a] \in Rationals
  BY EntriesIn
<1>3. mu \in Rationals
  BY <1>1, MeanIs DEF MeanOf
<1>4. S \in Rationals
  BY <1>3, SquaresIs DEF Spreads
<1>5. S = SumOf(sq)
  BY <1>1, Zenon DEF SquaresAbout
<1>6. Parted(ps, rows, [a \in 0 .. n |-> a * n])
  BY <1>1, PairsParted
<1>7. SumOf(ps) = SumOf(sums)
  <2>1. DOMAIN rows = 1 .. n
    BY DEF PairRows
  <2>2. SumOf([a \in DOMAIN rows |-> SumOf(rows[a])]) = SumOf(ps)
    BY <1>6, PartSums
  <2> QED
    BY <2>1, <2>2, Zenon
<1>8. PairsVariance(xs) = Over(SumOf(ps), Count(2 * n * (n - 1)))
  BY Zenon DEF PairsVariance, PairSquares
<1>9. ASSUME NEW a \in 1 .. n
      PROVE  SumOf(rows[a]) = Plus(Times(Count(n), Square(Minus(xs[a], mu))), S)
  <2>1. SquaresAbout(xs, xs[a]) = Plus(Times(Count(n), Square(Minus(xs[a], mu))), S)
    BY <1>1, <1>2, SquaresMove
  <2> DEFINE cs == [b \in 1 .. n |-> Square(Minus(xs[b], xs[a]))]
  <2>2. SquaresAbout(xs, xs[a]) = SumOf(cs)
    BY <1>1, Zenon DEF SquaresAbout
  <2>3. rows[a] = cs
    <3>1. rows[a] = [b \in 1 .. n |-> Square(Minus(xs[a], xs[b]))]
      BY DEF PairRows
    <3>2. \A b \in 1 .. n : Square(Minus(xs[a], xs[b])) = Square(Minus(xs[b], xs[a]))
      BY <1>2, SquareOfDifference
    <3> QED
      BY <3>1, <3>2, Zenon
  <2> QED
    BY <2>1, <2>2, <2>3
<1> HIDE DEF n, mu, S, ps, rows
<1>10. Count(n) \in Rationals /\ Count(n) # Zero
  BY <1>1, CountIs
<1>11. ASSUME NEW a \in 1 .. n
       PROVE  /\ sq[a] \in Rationals /\ ss[a] = S /\ sums[a] \in Rationals
              /\ sums[a] = Plus(Times(Count(n), sq[a]), ss[a])
  <2>1. sq[a] = Square(Minus(xs[a], mu)) /\ sums[a] = SumOf(rows[a]) /\ ss[a] = S
    OBVIOUS
  <2>2. sq[a] \in Rationals
    BY <1>2, <1>3, <2>1, Closed, SquareIs
  <2>3. sums[a] = Plus(Times(Count(n), sq[a]), S)
    BY <1>9, <2>1
  <2>4. sums[a] \in Rationals
    BY <1>4, <1>10, <2>2, <2>3, Closed
  <2> QED
    BY <2>1, <2>2, <2>3, <2>4
<1>12. /\ sq = [a \in 1 .. n |-> sq[a]] /\ ss = [a \in 1 .. n |-> ss[a]]
       /\ sums = [a \in 1 .. n |-> sums[a]]
  OBVIOUS
<1> HIDE DEF sq, ss, sums
<1>13. /\ sq \in Seq(Rationals) /\ Len(sq) = n /\ ss \in Seq(Rationals) /\ Len(ss) = n
       /\ sums \in Seq(Rationals) /\ Len(sums) = n
  <2>1. sq \in Seq(Rationals) /\ Len(sq) = n
    BY <1>1, <1>11, <1>12, Listed, Zenon
  <2>2. ss \in Seq(Rationals) /\ Len(ss) = n
    <3>1. \A a \in 1 .. n : ss[a] \in Rationals
      BY <1>4, <1>11
    <3> QED
      BY <1>1, <1>12, <3>1, Listed, Zenon
  <2>3. sums \in Seq(Rationals) /\ Len(sums) = n
    BY <1>1, <1>11, <1>12, Listed, Zenon
  <2> QED
    BY <2>1, <2>2, <2>3
<1>14. SumOf(sums) = Plus(Times(Count(n), S), Times(Count(n), S))
  <2>1. Combined(Count(n), sq, ss, sums)
    BY <1>10, <1>11, <1>13, Zenon DEF Combined
  <2>2. SumOf(sums) = Plus(Times(Count(n), SumOf(sq)), SumOf(ss))
    BY <2>1, CombinedSum
  <2>3. SumOf(ss) = Times(Count(n), S)
    <3>1. AllAre(S, ss)
      BY <1>4, <1>11, <1>13 DEF AllAre
    <3> QED
      BY <1>13, <3>1, ConstantSum, Zenon
  <2> QED
    BY <1>5, <2>2, <2>3
<1> DEFINE k == Count(2 * n)
           y == Count(n - 1)
<1>15. k \in Rationals /\ k # Zero /\ y \in Rationals /\ y # Zero
       /\ k = Plus(Count(n), Count(n)) /\ Times(k, y) = Count(2 * n * (n - 1))
  <2>1. 2 * n \in Nat \ {0} /\ n - 1 \in Nat \ {0} /\ n + n = 2 * n /\ n \in Int /\ 2 * n \in Int /\ n - 1 \in Int
    BY <1>1
  <2>2. k \in Rationals /\ k # Zero /\ y \in Rationals /\ y # Zero
    BY <2>1, CountIs
  <2>3. Plus(Count(n), Count(n)) = Count(n + n)
    BY <2>1, CountIs
  <2>4. Times(k, y) = Count(2 * n * (n - 1))
    BY <2>1, CountTimes
  <2> QED
    BY <2>1, <2>2, <2>3, <2>4
<1> HIDE DEF k, y
<1>16. SumOf(sums) = Times(k, S)
  <2>1. Times(S, Plus(Count(n), Count(n))) = Plus(Times(S, Count(n)), Times(S, Count(n)))
    BY <1>4, <1>10, TimesDistributes
  <2>2. Times(S, Count(n)) = Times(Count(n), S) /\ Times(S, k) = Times(k, S)
    BY <1>4, <1>10, <1>15, TimesCommutes
  <2> QED
    BY <1>14, <1>15, <2>1, <2>2
<1>17. Over(Times(k, S), Times(k, y)) = Over(S, y)
  BY <1>4, <1>15, OverScales
<1>18. PairsVariance(xs) = Over(S, y)
  BY <1>7, <1>8, <1>15, <1>16, <1>17
<1> QED
  BY <1>18 DEF ColVariance, S, mu, n, y

(***************************************************************************)
(* The containers of chains.                                               *)
(***************************************************************************)
\* What lies where is determined.
LEMMA FlatAtOnce ==
  \A S, a, b, s, starts :
    s \in Seq(Seq(S)) /\ StartsOf(s, starts) /\ FlatAt(S, a, s, starts) /\ FlatAt(S, b, s, starts) => a = b
<1> SUFFICES ASSUME NEW S, NEW a, NEW b, NEW s, NEW starts, s \in Seq(Seq(S)), StartsOf(s, starts),
                    FlatAt(S, a, s, starts), FlatAt(S, b, s, starts)
             PROVE  a = b
  BY Zenon
<1>1. StartsCover(s, starts)
  BY FlattenCovers
<1>2. a \in Seq(S) /\ b \in Seq(S) /\ Len(a) = starts[Len(s)] /\ Len(b) = starts[Len(s)]
  BY Zenon DEF FlatAt
<1>3. \A i \in 1 .. Len(a) : a[i] = b[i]
  <2> TAKE p \in 1 .. Len(a)
  <2>1. PICK i \in 1 .. Len(s) : \E j \in 1 .. Len(s[i]) : p = starts[i - 1] + j
    BY <1>1, <1>2, Zenon DEF StartsCover
  <2>2. PICK j \in 1 .. Len(s[i]) : p = starts[i - 1] + j
    BY <2>1
  <2>3. j \in Nat
    <3>1. s[i] \in Seq(S)
      BY EntriesIn, <2>1
    <3>2. Len(s[i]) \in Nat
      BY <3>1
    <3> QED
      BY <3>2
  <2>4. a[starts[i - 1] + j] = s[i][j] /\ b[starts[i - 1] + j] = s[i][j]
    BY <2>3, Zenon DEF FlatAt
  <2> QED
    BY <2>2, <2>4, Zenon
<1> QED
  BY <1>2, <1>3, SameList, Zenon

\* Chains of rows of D numbers, and what column d of each holds.
Row(D) == [1 .. D -> Rationals]

Stacked(chs, starts, D) == chs \in Seq(Seq(Row(D))) /\ StartsOf(chs, starts)

Columns(chs, d) == [m \in DOMAIN chs |-> Column(chs[m], d)]

\* A column is a list of numbers, one of each row.
LEMMA ColumnListed ==
  \A D \in Nat : \A rows \in Seq(Row(D)) : \A d \in 1 .. D :
    /\ Column(rows, d) \in Seq(Rationals) /\ Len(Column(rows, d)) = Len(rows)
    /\ \A i \in 1 .. Len(rows) : Column(rows, d)[i] = rows[i][d]
<1> SUFFICES ASSUME NEW D \in Nat, NEW rows \in Seq(Row(D)), NEW d \in 1 .. D
             PROVE  /\ Column(rows, d) \in Seq(Rationals) /\ Len(Column(rows, d)) = Len(rows)
                    /\ \A i \in 1 .. Len(rows) : Column(rows, d)[i] = rows[i][d]
  OBVIOUS
<1> DEFINE n == Len(rows)
           col == Column(rows, d)
<1>1. n \in Nat /\ DOMAIN rows = 1 .. n
  OBVIOUS
<1>2. \A i \in 1 .. n : rows[i][d] \in Rationals
  <2> TAKE i \in 1 .. n
  <2>1. rows[i] \in Row(D)
    BY EntriesIn
  <2> QED
    BY <2>1 DEF Row
<1>3. col = [i \in 1 .. n |-> rows[i][d]]
  BY <1>1, Zenon DEF Column
<1>4. col = [i \in 1 .. n |-> col[i]] /\ \A i \in 1 .. n : col[i] = rows[i][d]
  BY <1>3
<1> HIDE DEF n, col
<1>5. col \in Seq(Rationals) /\ Len(col) = n
  <2>1. \A i \in 1 .. n : col[i] \in Rationals
    BY <1>2, <1>4
  <2> QED
    BY <1>1, <1>4, <2>1, Listed, Zenon
<1> QED
  BY <1>4, <1>5 DEF n, col

\* The draws of one dimension of a chain.
LEMMA DrawsListed ==
  \A rows \in Seq(Row(Dims)) : \A d \in 1 .. Dims :
    Column(rows, d) \in Seq(Rationals) /\ Len(Column(rows, d)) = Len(rows)
<1>1. Dims \in Nat
  BY StoreAssumption
<1> QED
  BY <1>1, ColumnListed, Zenon

\* A column of all rows is the columns of the chains, one after the other:
\* draws(d) of either container.
LEMMA ColumnsParted ==
  \A D \in Nat : \A chs, starts : \A d \in 1 .. D : Stacked(chs, starts, D) =>
    /\ Parted(Column(FlattenSeq(chs), d), Columns(chs, d), starts)
    /\ FlattenSeq(Columns(chs, d)) = Column(FlattenSeq(chs), d)
    /\ Len(Column(FlattenSeq(chs), d)) = Len(FlattenSeq(chs))
<1> SUFFICES ASSUME NEW D \in Nat, NEW chs, NEW starts, NEW d \in 1 .. D, Stacked(chs, starts, D)
             PROVE  /\ Parted(Column(FlattenSeq(chs), d), Columns(chs, d), starts)
                    /\ FlattenSeq(Columns(chs, d)) = Column(FlattenSeq(chs), d)
                    /\ Len(Column(FlattenSeq(chs), d)) = Len(FlattenSeq(chs))
  BY Zenon
<1> DEFINE M == Len(chs)
           flat == FlattenSeq(chs)
           all == Column(flat, d)
           cols == Columns(chs, d)
<1>1. chs \in Seq(Seq(Row(D))) /\ StartsOf(chs, starts)
  BY DEF Stacked
<1>2. FlatAt(Row(D), flat, chs, starts)
  BY <1>1, Flattened
<1>3. M \in Nat /\ DOMAIN chs = 1 .. M
  BY <1>1
<1>4. ASSUME NEW m \in 1 .. M
      PROVE  /\ chs[m] \in Seq(Row(D)) /\ Column(chs[m], d) \in Seq(Rationals)
             /\ Len(Column(chs[m], d)) = Len(chs[m])
             /\ \A i \in 1 .. Len(chs[m]) : Column(chs[m], d)[i] = chs[m][i][d]
  <2>1. chs[m] \in Seq(Row(D))
    BY <1>1, EntriesIn
  <2> QED
    BY <2>1, ColumnListed, Zenon
<1>5. cols \in Seq(Seq(Rationals)) /\ Len(cols) = M /\ \A m \in 1 .. M : cols[m] = Column(chs[m], d)
  <2>1. cols = [m \in 1 .. M |-> cols[m]] /\ \A m \in 1 .. M : cols[m] = Column(chs[m], d)
    BY <1>3 DEF Columns
  <2>2. \A m \in 1 .. M : cols[m] \in Seq(Rationals)
    BY <1>4, <2>1
  <2> HIDE DEF cols, M
  <2> QED
    BY <1>3, <2>1, <2>2, Listed, Zenon
<1>6. /\ flat \in Seq(Row(D)) /\ Len(flat) = starts[M]
      /\ \A m \in 1 .. M, j \in Nat : j \in 1 .. Len(chs[m]) =>
           starts[m - 1] + j \in 1 .. Len(flat) /\ flat[starts[m - 1] + j] = chs[m][j]
  BY <1>2, Zenon DEF FlatAt
<1>7. /\ all \in Seq(Rationals) /\ Len(all) = Len(flat)
      /\ \A i \in 1 .. Len(flat) : all[i] = flat[i][d]
  BY <1>6, ColumnListed, Zenon
<1>8. StartsOf(cols, starts)
  <2>1. /\ starts \in [0 .. M -> Nat] /\ starts[0] = 0
        /\ \A i \in 1 .. M : starts[i] = starts[i - 1] + Len(chs[i])
    BY <1>1, Zenon DEF StartsOf
  <2>2. \A i \in 1 .. M : Len(cols[i]) = Len(chs[i])
    BY <1>4, <1>5, Zenon
  <2> HIDE DEF cols, M
  <2> QED
    BY <1>5, <2>1, <2>2, Zenon DEF StartsOf
<1> HIDE DEF cols, M, flat, all
<1>9. FlatAt(Rationals, all, cols, starts)
  <2>1. ASSUME NEW m \in 1 .. M, NEW j \in Nat, j \in 1 .. Len(cols[m])
        PROVE  starts[m - 1] + j \in 1 .. Len(all) /\ all[starts[m - 1] + j] = cols[m][j]
    <3>1. j \in 1 .. Len(chs[m]) /\ cols[m][j] = chs[m][j][d]
      BY <1>4, <1>5, <2>1, Zenon
    <3>2. starts[m - 1] + j \in 1 .. Len(flat) /\ flat[starts[m - 1] + j] = chs[m][j]
      BY <1>6, <3>1, Zenon
    <3> QED
      BY <1>7, <3>1, <3>2, Zenon
  <2> QED
    BY <1>5, <1>6, <1>7, <2>1, Zenon DEF FlatAt
<1>10. Parted(all, cols, starts)
  BY <1>5, <1>8, <1>9, Zenon DEF Parted
<1>11. FlattenSeq(cols) = all
  <2>1. FlatAt(Rationals, FlattenSeq(cols), cols, starts)
    BY <1>5, <1>8, Flattened
  <2> QED
    BY <1>5, <1>8, <1>9, <2>1, FlatAtOnce, Zenon
<1> QED
  BY <1>7, <1>10, <1>11 DEF cols, flat, all

\* The squares about a number, part by part.
SquaresOf(col, x) == [i \in DOMAIN col |-> Square(Minus(col[i], x))]

\* The squares about a number are a list of numbers.
LEMMA SquaresListed ==
  \A xs \in Seq(Rationals), x \in Rationals :
    /\ SquaresOf(xs, x) \in Seq(Rationals) /\ Len(SquaresOf(xs, x)) = Len(xs)
    /\ \A i \in 1 .. Len(xs) : SquaresOf(xs, x)[i] = Square(Minus(xs[i], x))
<1> SUFFICES ASSUME NEW xs \in Seq(Rationals), NEW x \in Rationals
             PROVE  /\ SquaresOf(xs, x) \in Seq(Rationals) /\ Len(SquaresOf(xs, x)) = Len(xs)
                    /\ \A i \in 1 .. Len(xs) : SquaresOf(xs, x)[i] = Square(Minus(xs[i], x))
  OBVIOUS
<1> DEFINE n == Len(xs)
           sq == SquaresOf(xs, x)
<1>1. n \in Nat /\ DOMAIN xs = 1 .. n
  OBVIOUS
<1>2. \A i \in 1 .. n : Square(Minus(xs[i], x)) \in Rationals
  <2> TAKE i \in 1 .. n
  <2>1. xs[i] \in Rationals
    BY EntriesIn
  <2> QED
    BY <2>1, Closed, SquareIs
<1>3. sq = [i \in 1 .. n |-> sq[i]] /\ \A i \in 1 .. n : sq[i] = Square(Minus(xs[i], x))
  BY <1>1 DEF SquaresOf
<1> HIDE DEF n, sq
<1>4. sq \in Seq(Rationals) /\ Len(sq) = n
  <2>1. \A i \in 1 .. n : sq[i] \in Rationals
    BY <1>2, <1>3
  <2> QED
    BY <1>1, <1>3, <2>1, Listed, Zenon
<1> QED
  BY <1>3, <1>4 DEF n, sq

\* The squares about a number of the whole are those of the parts.
LEMMA SquaresParted ==
  \A xs, parts, starts : \A x \in Rationals : Parted(xs, parts, starts) =>
    Parted(SquaresOf(xs, x), [m \in DOMAIN parts |-> SquaresOf(parts[m], x)], starts)
<1> SUFFICES ASSUME NEW xs, NEW parts, NEW starts, NEW x \in Rationals, Parted(xs, parts, starts)
             PROVE  Parted(SquaresOf(xs, x), [m \in DOMAIN parts |-> SquaresOf(parts[m], x)], starts)
  BY Zenon
<1> DEFINE M == Len(parts)
           sq == SquaresOf(xs, x)
           sqs == [m \in DOMAIN parts |-> SquaresOf(parts[m], x)]
<1>1. parts \in Seq(Seq(Rationals)) /\ StartsOf(parts, starts) /\ FlatAt(Rationals, xs, parts, starts)
  BY DEF Parted
<1>2. M \in Nat /\ DOMAIN parts = 1 .. M /\ \A m \in 1 .. M : parts[m] \in Seq(Rationals)
  BY <1>1
<1>3. /\ starts \in [0 .. M -> Nat] /\ starts[0] = 0
      /\ \A m \in 1 .. M : starts[m] = starts[m - 1] + Len(parts[m])
  BY <1>1, Zenon DEF StartsOf
<1>4. /\ xs \in Seq(Rationals) /\ Len(xs) = starts[M]
      /\ \A m \in 1 .. M, j \in Nat : j \in 1 .. Len(parts[m]) =>
           starts[m - 1] + j \in 1 .. Len(xs) /\ xs[starts[m - 1] + j] = parts[m][j]
  BY <1>1, Zenon DEF FlatAt
<1>5. /\ sq \in Seq(Rationals) /\ Len(sq) = Len(xs)
      /\ \A i \in 1 .. Len(xs) : sq[i] = Square(Minus(xs[i], x))
  BY <1>4, SquaresListed, Zenon
<1>6. ASSUME NEW m \in 1 .. M
      PROVE  /\ sqs[m] \in Seq(Rationals) /\ Len(sqs[m]) = Len(parts[m])
             /\ \A i \in 1 .. Len(parts[m]) : sqs[m][i] = Square(Minus(parts[m][i], x))
  <2>1. sqs[m] = SquaresOf(parts[m], x)
    BY <1>2
  <2> QED
    BY <1>2, <2>1, SquaresListed, Zenon
<1>7. sqs = [m \in 1 .. M |-> sqs[m]]
  BY <1>2
<1> HIDE DEF M, sq, sqs
<1>8. sqs \in Seq(Seq(Rationals)) /\ Len(sqs) = M
  BY <1>2, <1>6, <1>7, Listed, Zenon
<1>9. StartsOf(sqs, starts)
  <2>1. \A m \in 1 .. M : starts[m] = starts[m - 1] + Len(sqs[m])
    BY <1>3, <1>6, Zenon
  <2> QED
    BY <1>3, <1>8, <2>1, Zenon DEF StartsOf
<1>10. FlatAt(Rationals, sq, sqs, starts)
  <2>1. ASSUME NEW m \in 1 .. M, NEW j \in Nat, j \in 1 .. Len(sqs[m])
        PROVE  starts[m - 1] + j \in 1 .. Len(sq) /\ sq[starts[m - 1] + j] = sqs[m][j]
    <3>1. j \in 1 .. Len(parts[m]) /\ sqs[m][j] = Square(Minus(parts[m][j], x))
      BY <1>6, <2>1, Zenon
    <3>2. starts[m - 1] + j \in 1 .. Len(xs) /\ xs[starts[m - 1] + j] = parts[m][j]
      BY <1>4, <3>1, Zenon
    <3> QED
      BY <1>5, <3>1, <3>2, Zenon
  <2> QED
    BY <1>4, <1>5, <1>8, <2>1, Zenon DEF FlatAt
<1>11. Parted(sq, sqs, starts)
  BY <1>8, <1>9, <1>10, Zenon DEF Parted
<1> QED
  BY <1>11 DEF sq, sqs

\* What both containers of chains offer.
Holds(mc, chs, D) ==
  /\ mc.view = chs
  /\ mc.num_draws = Len(FlattenSeq(chs))
  /\ \A d \in 1 .. D : mc.draws[d] = Column(FlattenSeq(chs), d)

Held(mc, chs, D) == chs \in Seq(Seq(Row(D))) /\ FlattenSeq(chs) # <<>> /\ Holds(mc, chs, D)

\* All draws of dimension d.
DrawsAt(chs, d) == Column(FlattenSeq(chs), d)

\* All draws of a dimension, which the columns of the chains part.
LEMMA AllListed ==
  \A D \in Nat : \A mc, chs : \A d \in 1 .. D : Held(mc, chs, D) =>
    /\ DrawsAt(chs, d) \in Seq(Rationals) /\ DrawsAt(chs, d) # <<>>
    /\ Len(DrawsAt(chs, d)) = mc.num_draws
    /\ \E starts : Parted(DrawsAt(chs, d), Columns(chs, d), starts)
    /\ FlattenSeq(Columns(chs, d)) = DrawsAt(chs, d)
<1> SUFFICES ASSUME NEW D \in Nat, NEW mc, NEW chs, NEW d \in 1 .. D, Held(mc, chs, D)
             PROVE  /\ DrawsAt(chs, d) \in Seq(Rationals) /\ DrawsAt(chs, d) # <<>>
                    /\ Len(DrawsAt(chs, d)) = mc.num_draws
                    /\ \E starts : Parted(DrawsAt(chs, d), Columns(chs, d), starts)
                    /\ FlattenSeq(Columns(chs, d)) = DrawsAt(chs, d)
  BY Zenon
<1>1. chs \in Seq(Seq(Row(D))) /\ FlattenSeq(chs) # <<>> /\ mc.num_draws = Len(FlattenSeq(chs))
  BY Zenon DEF Held, Holds
<1>2. PICK starts : StartsOf(chs, starts)
  BY <1>1, StartsExist
<1>3. Stacked(chs, starts, D)
  BY <1>1, <1>2 DEF Stacked
<1>4. /\ Parted(DrawsAt(chs, d), Columns(chs, d), starts)
      /\ FlattenSeq(Columns(chs, d)) = DrawsAt(chs, d)
      /\ Len(DrawsAt(chs, d)) = Len(FlattenSeq(chs))
  BY <1>3, ColumnsParted, Zenon DEF DrawsAt
<1>5. DrawsAt(chs, d) \in Seq(Rationals)
  BY <1>4, Zenon DEF Parted, FlatAt
<1>6. DrawsAt(chs, d) # <<>>
  <2>1. FlattenSeq(chs) \in Seq(Row(D))
    BY <1>1, <1>2, Flattened DEF FlatAt
  <2>2. Len(FlattenSeq(chs)) # 0
    BY <1>1, <2>1
  <2>3. DrawsAt(chs, d) = <<>> => Len(DrawsAt(chs, d)) = 0
    OBVIOUS
  <2> QED
    BY <1>4, <2>2, <2>3
<1> QED
  BY <1>1, <1>4, <1>5, <1>6

\* summary.hpp: the mean and the variance over all chains are those of the
\* draws behind one another.
LEMMA MeanExact ==
  \A D \in Nat : \A mc, chs : \A d \in 1 .. D : Held(mc, chs, D) =>
    mean(mc, d) = ColMean(DrawsAt(chs, d))
<1> SUFFICES ASSUME NEW D \in Nat, NEW mc, NEW chs, NEW d \in 1 .. D, Held(mc, chs, D)
             PROVE  mean(mc, d) = ColMean(DrawsAt(chs, d))
  BY Zenon
<1>1. mc.view = chs
  BY Zenon DEF Held, Holds
<1>2. /\ Len(DrawsAt(chs, d)) = mc.num_draws
      /\ \E starts : Parted(DrawsAt(chs, d), Columns(chs, d), starts)
  BY AllListed, Zenon
<1>3. SumOf([m \in DOMAIN Columns(chs, d) |-> SumOf(Columns(chs, d)[m])]) = SumOf(DrawsAt(chs, d))
  BY <1>2, PartSums, Zenon
<1>4. [m \in DOMAIN Columns(chs, d) |-> SumOf(Columns(chs, d)[m])]
        = [m \in DOMAIN mc.view |-> SumOf(Column(mc.view[m], d))]
  BY <1>1 DEF Columns
<1> QED
  BY <1>2, <1>3, <1>4, Zenon DEF mean, ColMean

\* The variance over all chains is that of all draws about their mean.
LEMMA VarianceExact ==
  \A D \in Nat : \A mc, chs : \A d \in 1 .. D : Held(mc, chs, D) =>
    sample_variance(mc, d) = ColVariance(DrawsAt(chs, d), ColMean(DrawsAt(chs, d)))
<1> SUFFICES ASSUME NEW D \in Nat, NEW mc, NEW chs, NEW d \in 1 .. D, Held(mc, chs, D)
             PROVE  sample_variance(mc, d) = ColVariance(DrawsAt(chs, d), ColMean(DrawsAt(chs, d)))
  BY Zenon
<1> DEFINE xs == DrawsAt(chs, d)
           mu == ColMean(xs)
           cols == Columns(chs, d)
<1>1. mc.view = chs
  BY Zenon DEF Held, Holds
<1>2. /\ xs \in Seq(Rationals) /\ xs # <<>> /\ Len(xs) = mc.num_draws
      /\ \E starts : Parted(xs, cols, starts)
  BY AllListed, Zenon
<1>3. mean(mc, d) = mu
  BY MeanExact, Zenon
<1>4. mu \in Rationals
  BY <1>2, MeanIs, Zenon DEF MeanOf
<1>5. PICK starts : Parted(xs, cols, starts)
  BY <1>2
<1> DEFINE sqs == [m \in DOMAIN cols |-> SquaresOf(cols[m], mu)]
<1>6. Parted(SquaresOf(xs, mu), sqs, starts)
  <2> HIDE DEF xs, mu, cols
  <2> QED
    BY <1>4, <1>5, SquaresParted, Zenon
<1>7. SumOf([m \in DOMAIN sqs |-> SumOf(sqs[m])]) = SumOf(SquaresOf(xs, mu))
  <2> HIDE DEF xs, mu, cols, sqs
  <2> QED
    BY <1>6, PartSums, Zenon
<1>8. [m \in DOMAIN sqs |-> SumOf(sqs[m])]
        = [m \in DOMAIN mc.view |-> SquaresAbout(Column(mc.view[m], d), mu)]
  <2>1. DOMAIN sqs = DOMAIN chs /\ DOMAIN cols = DOMAIN chs
    BY DEF Columns
  <2>2. \A m \in DOMAIN chs : SumOf(sqs[m]) = SquaresAbout(Column(chs[m], d), mu)
    <3> TAKE m \in DOMAIN chs
    <3>1. cols[m] = Column(chs[m], d)
      BY DEF Columns
    <3>2. sqs[m] = SquaresOf(cols[m], mu)
      BY <2>1
    <3> HIDE DEF cols, sqs, mu
    <3> QED
      BY <3>1, <3>2, Zenon DEF SquaresAbout, SquaresOf
  <2> HIDE DEF cols, sqs, mu
  <2> QED
    BY <1>1, <2>1, <2>2
<1>9. SquaresAbout(xs, mu) = SumOf(SquaresOf(xs, mu))
  BY Zenon DEF SquaresAbout, SquaresOf
<1>10. sample_variance(mc, d)
         = Over(SumOf([m \in DOMAIN mc.view |-> SquaresAbout(Column(mc.view[m], d), mu)]), Count(Len(xs) - 1))
  <2>1. sample_variance(mc, d)
         = Over(SumOf([m \in DOMAIN mc.view |-> SquaresAbout(Column(mc.view[m], d), mean(mc, d))]),
                Count(mc.num_draws - 1))
    BY DEF sample_variance
  <2> HIDE DEF xs, mu, cols, sqs
  <2> QED
    BY <1>2, <1>3, <2>1
<1>11. sample_variance(mc, d) = ColVariance(xs, mu)
  <2> HIDE DEF xs, mu, cols, sqs
  <2> QED
    BY <1>7, <1>8, <1>9, <1>10, Zenon DEF ColVariance
<1> QED
  BY <1>11

\* Dividing by zero.
LEMMA OverZero ==
  /\ Over(Zero, Zero) = NaN
  /\ \A x \in Rationals : Less(Zero, x) => Over(x, Zero) = Inf
  /\ Plus(One, NaN) = NaN /\ Plus(One, Inf) = Inf /\ NaN # Inf
<1>1. \A x : Over(x, Zero) = Times(x, <<1, 0>>)
  <2> TAKE x
  <2>1. Zero = <<0, 1>> /\ Zero[1] = 0 /\ Zero[2] = 1
    BY ZeroOne
  <2> QED
    BY <2>1 DEF Over
<1>2. \A x \in Rationals : Times(x, <<1, 0>>) = Frac(x[1] * 1, x[2] * 0)
  <2> TAKE x \in Rationals
  <2>1. ~IsFinite(<<1, 0>>)
    BY DEF IsFinite
  <2> QED
    BY <2>1 DEF Times
<1>3. \A n : Frac(n, 0) = <<Sign(n), 0>>
  BY DEF Frac
<1>4. Over(Zero, Zero) = NaN
  <2>1. Zero \in Rationals /\ Zero[1] = 0 /\ Zero[2] = 1
    BY ZeroOne
  <2>2. 0 * 1 = 0 /\ 1 * 0 = 0
    OBVIOUS
  <2>3. Over(Zero, Zero) = Frac(0 * 1, 1 * 0)
    BY <1>1, <1>2, <2>1, Zenon
  <2> QED
    BY <2>2, <2>3 DEF NaN
<1>5. ASSUME NEW x \in Rationals, Less(Zero, x) PROVE Over(x, Zero) = Inf
  <2>1. x[1] > 0 /\ x[1] \in Int /\ x[2] \in Int
    BY <1>5, Signs, RationalParts
  <2>2. x[1] * 1 = x[1] /\ x[2] * 0 = 0
    BY <2>1
  <2>3. Over(x, Zero) = Frac(x[1], 0)
    BY <1>1, <1>2, <2>2, Zenon
  <2>4. Sign(x[1]) = 1 /\ Sign(1) = 1
    BY <2>1 DEF Sign
  <2> QED
    BY <1>3, <2>3, <2>4 DEF Inf
<1>6. Plus(One, NaN) = NaN
  BY ZeroOne, NaNSpreads
<1>7. Plus(One, Inf) = Inf
  <2>1. One = <<1, 1>> /\ Inf = <<1, 0>>
    BY ZeroOne, DoublesFinite
  <2>2. IsFinite(One) /\ ~IsFinite(Inf)
    BY <2>1 DEF IsFinite
  <2> DEFINE g == gcd[<<1, 0>>]
  <2>3. g = 1
    BY GcdUnfolds
  <2>4. Plus(One, Inf) = Frac(1 * (0 \div g) + 1 * (1 \div g), (1 \div g) * 0)
    BY <2>1, <2>2 DEF Plus
  <2>5. 1 * (0 \div 1) + 1 * (1 \div 1) = 1 /\ (1 \div 1) * 0 = 0
    OBVIOUS
  <2>6. Plus(One, Inf) = Frac(1, 0)
    BY <2>3, <2>4, <2>5
  <2> QED
    BY <2>6 DEF Inf
<1> QED
  BY <1>4, <1>5, <1>6, <1>7, DoublesFinite

\* The mean is where the deviations cancel, and the variance is half the mean
\* squared difference of two draws.
LEMMA CenterHolds ==
  ASSUME NEW mc, Held(mc, chains, Dims), NEW d \in 1 .. Dims
  PROVE  CenterExact(mc, d)
<1> DEFINE xs == AllDraws(d)
           N == Len(xs)
           mu == ColMean(xs)
<1>1. Dims \in Nat
  BY StoreAssumption
<1>2. xs = DrawsAt(chains, d)
  BY DEF AllDraws, DrawsAt
<1>3. xs \in Seq(Rationals) /\ xs # <<>> /\ N = mc.num_draws
  <2>1. /\ DrawsAt(chains, d) \in Seq(Rationals) /\ DrawsAt(chains, d) # <<>>
        /\ Len(DrawsAt(chains, d)) = mc.num_draws
    BY <1>1, AllListed, Zenon
  <2> QED
    BY <1>2, <2>1, Zenon
<1>4. mean(mc, d) = mu
  BY <1>1, <1>2, MeanExact, Zenon
<1>5. sample_variance(mc, d) = ColVariance(xs, mu)
  BY <1>1, <1>2, VarianceExact, Zenon
<1>6. N \in Nat \ {0}
  BY <1>3
<1>7. SumOf([i \in 1 .. N |-> Minus(xs[i], mean(mc, d))]) = Zero
  BY <1>3, <1>4, DeviationsCancel, Zenon
<1>8. N > 1 => sample_variance(mc, d) = PairsVariance(xs)
  <2>1. N > 1 => N >= 2
    BY <1>6
  <2> QED
    BY <1>3, <1>5, <2>1, PairsAre, Zenon
<1>9. N = 1 => sample_variance(mc, d) = NaN
  <2> SUFFICES ASSUME N = 1 PROVE sample_variance(mc, d) = NaN
    OBVIOUS
  <2>1. mu = xs[1] /\ mu \in Rationals
    <3>1. MeanOf(mu, xs)
      BY <1>3, MeanIs
    <3>2. \A i \in 1 .. N : xs[i] = xs[1]
      OBVIOUS
    <3> QED
      BY <3>1, <3>2, Zenon DEF MeanOf
  <2>2. SquaresAbout(xs, mu) = Zero
    <3>1. Spreads(SquaresAbout(xs, mu), xs, mu)
      BY <1>3, <2>1, SquaresIs
    <3>2. \A i \in 1 .. N : xs[i] = mu
      BY <2>1
    <3> QED
      BY <3>1, <3>2, Zenon DEF Spreads
  <2>3. Count(N - 1) = Zero
    <3>1. N - 1 = 0
      OBVIOUS
    <3> QED
      BY <3>1, CountIs
  <2> QED
    BY <1>5, <2>2, <2>3, OverZero, Zenon DEF ColVariance
<1> QED
  BY <1>3, <1>7, <1>8, <1>9, Zenon DEF CenterExact

\* A ratio plus one: at least one, and one only without a numerator.
RatioIs(r, x, y) ==
  /\ y = Zero => r = IF x = Zero THEN NaN ELSE Inf
  /\ y # Zero => AtMost(One, r) /\ (r = One <=> x = Zero)

\* One and a ratio of numbers that are not negative.
LEMMA RatioOverOne ==
  \A x, y \in Rationals : AtMost(Zero, x) /\ AtMost(Zero, y) => RatioIs(Plus(One, Over(x, y)), x, y)
<1> SUFFICES ASSUME NEW x \in Rationals, NEW y \in Rationals, AtMost(Zero, x), AtMost(Zero, y)
             PROVE  RatioIs(Plus(One, Over(x, y)), x, y)
  OBVIOUS
<1>1. CASE y = Zero
  <2>1. CASE x = Zero
    BY <1>1, <2>1, OverZero DEF RatioIs
  <2>2. CASE x # Zero
    <3>1. Less(Zero, x)
      BY <2>2, ZeroOne, LessIs
    <3>2. Over(x, y) = Inf
      BY <1>1, <3>1, OverZero, Zenon
    <3>3. Plus(One, Over(x, y)) = Inf
      BY <3>2, OverZero, Zenon
    <3> QED
      BY <1>1, <2>2, <3>3 DEF RatioIs
  <2> QED
    BY <2>1, <2>2
<1>2. CASE y # Zero
  <2>1. Less(Zero, y)
    BY <1>2, ZeroOne, LessIs
  <2> DEFINE q == Over(x, y)
  <2>2. q \in Rationals /\ AtMost(Zero, q) /\ (q = Zero <=> x = Zero)
    BY <2>1, ZeroOver
  <2> HIDE DEF q
  <2>3. AtMost(One, Plus(One, q))
    <3>1. AtMost(One, One) /\ Plus(One, Zero) = One
      BY ZeroOne, LessIs, Units
    <3>2. AtMost(Plus(One, Zero), Plus(One, q))
      BY <2>2, <3>1, ZeroOne, PlusMonotone
    <3> QED
      BY <3>1, <3>2
  <2>4. Plus(One, q) = One <=> q = Zero
    <3>1. q = Zero => Plus(One, q) = One
      BY ZeroOne, Units
    <3>2. Minus(Plus(One, q), One) = q /\ Minus(One, One) = Zero
      BY <2>2, ZeroOne, MinusPlus, Units
    <3> QED
      BY <3>1, <3>2
  <2> QED
    BY <1>2, <2>2, <2>3, <2>4 DEF RatioIs, q
<1> QED
  BY <1>1, <1>2

\* R-hat is one exactly if the chains' means agree, and infinite or undefined
\* if no chain moves.
LEMMA RHatHolds ==
  ASSUME NEW mc, Held(mc, chains, Dims), RHatAccepts(mc), NEW d \in 1 .. Dims
  PROVE  RHatExact(mc, d)
<1> DEFINE M == Len(chains)
           mu == [m \in DOMAIN chains |-> ColMean(DrawsOf(m, d))]
           vs == [m \in DOMAIN chains |-> ColVariance(DrawsOf(m, d), mu[m])]
           equal == \A m \in DOMAIN chains : mu[m] = mu[1]
           constant == \A m \in DOMAIN chains : \A i \in DOMAIN chains[m] : DrawsOf(m, d)[i] = DrawsOf(m, d)[1]
           x == ColVariance(mu, ColMean(mu))
           y == ColMean(vs)
           r == r_hat_squared(mc, d)
<1>1. /\ mc.view = chains /\ chains \in Seq(Seq(Row(Dims))) /\ M \in Nat \ {0} /\ Dims \in Nat
      /\ M >= 2 /\ DOMAIN chains = 1 .. M
  <2>1. mc.view = chains /\ chains \in Seq(Seq(Row(Dims)))
    BY Zenon DEF Held, Holds
  <2>2. Len(mc.view) >= 2
    BY Zenon DEF RHatAccepts
  <2> QED
    BY <2>1, <2>2, StoreAssumption
<1>2. ASSUME NEW m \in 1 .. M
      PROVE  /\ DrawsOf(m, d) \in Seq(Rationals) /\ Len(DrawsOf(m, d)) = Len(chains[m])
             /\ DrawsOf(m, d) # <<>> /\ Len(chains[m]) >= 3
             /\ DOMAIN chains[m] = 1 .. Len(DrawsOf(m, d))
  <2>1. chains[m] \in Seq(Row(Dims))
    BY <1>1, EntriesIn
  <2>2. DrawsOf(m, d) \in Seq(Rationals) /\ Len(DrawsOf(m, d)) = Len(chains[m])
    <3>1. DrawsOf(m, d) = Column(chains[m], d)
      BY DEF DrawsOf
    <3> QED
      BY ONLY <2>1, <3>1, d \in 1 .. Dims, DrawsListed, Zenon
  <2>3. Len(chains[m]) >= 3
    BY <1>1, Zenon DEF RHatAccepts
  <2> QED
    BY <2>1, <2>2, <2>3
<1>3. r = Plus(One, Over(x, y))
  <2>1. /\ [m \in DOMAIN mc.view |-> ColMean(Column(mc.view[m], d))] = mu
        /\ [m \in DOMAIN mc.view |-> ColVariance(Column(mc.view[m], d), mu[m])] = vs
    BY <1>1 DEF DrawsOf
  <2> HIDE DEF mu, vs
  <2> QED
    BY <2>1, Zenon DEF r_hat_squared
<1>4. \A m \in 1 .. M : mu[m] = ColMean(DrawsOf(m, d)) /\ vs[m] = ColVariance(DrawsOf(m, d), ColMean(DrawsOf(m, d)))
  BY <1>1
<1>5. mu = [m \in 1 .. M |-> mu[m]] /\ vs = [m \in 1 .. M |-> vs[m]]
  BY <1>1
<1>6. RHatExact(mc, d) <=> IF constant THEN r = IF equal THEN NaN ELSE Inf
                                       ELSE AtMost(One, r) /\ (r = One <=> equal)
  BY Zenon DEF RHatExact
<1> HIDE DEF mu, vs
<1>7. ASSUME NEW m \in 1 .. M
      PROVE  /\ mu[m] \in Rationals /\ vs[m] \in Rationals /\ AtMost(Zero, vs[m])
             /\ vs[m] = Zero <=> \A i \in DOMAIN chains[m] : DrawsOf(m, d)[i] = DrawsOf(m, d)[1]
  <2>1. MeanOf(mu[m], DrawsOf(m, d))
    BY <1>2, <1>4, MeanIs
  <2>2. Varies(vs[m], DrawsOf(m, d))
    <3>1. Len(DrawsOf(m, d)) >= 2
      BY <1>2
    <3> QED
      BY <1>2, <1>4, <3>1, VarianceAboutMean
  <2> QED
    BY <1>2, <2>1, <2>2, Zenon DEF MeanOf, Varies
<1>8. mu \in Seq(Rationals) /\ Len(mu) = M /\ vs \in Seq(Rationals) /\ Len(vs) = M
  <2> HIDE DEF M
  <2>0. M \in Nat
    BY <1>1
  <2>1. mu \in Seq(Rationals) /\ Len(mu) = M
    BY <1>5, <1>7, <2>0, Listed, Zenon
  <2>2. vs \in Seq(Rationals) /\ Len(vs) = M
    BY <1>5, <1>7, <2>0, Listed, Zenon
  <2> QED
    BY <2>1, <2>2
<1>9. x \in Rationals /\ AtMost(Zero, x) /\ (x = Zero <=> equal)
  <2>1. Varies(x, mu)
    BY <1>1, <1>8, VarianceAboutMean
  <2> QED
    BY <1>1, <1>8, <2>1, Zenon DEF Varies
<1>10. y \in Rationals /\ AtMost(Zero, y) /\ (y = Zero <=> constant)
  <2>1. ZeroIffZeros(SumOf(vs), vs)
    <3>1. NonNegatives(vs)
      BY <1>7, <1>8 DEF NonNegatives
    <3> QED
      BY <3>1, NonNegativeSum, Zenon
  <2>2. SumOf(vs) \in Rationals /\ AtMost(Zero, SumOf(vs)) /\ (SumOf(vs) = Zero <=> constant)
    BY <1>1, <1>7, <1>8, <2>1, Zenon DEF ZeroIffZeros
  <2>3. Count(M) \in Rationals /\ Less(Zero, Count(M))
    BY <1>1, CountIs
  <2>4. y = Over(SumOf(vs), Count(M))
    BY <1>8, Zenon DEF ColMean
  <2> HIDE DEF constant, y
  <2> QED
    BY <2>2, <2>3, <2>4, ZeroOver, Zenon
<1> HIDE DEF x, y, equal, constant, r
<1>11. RatioIs(r, x, y)
  BY <1>3, <1>9, <1>10, RatioOverOne, Zenon
<1>12. /\ constant => r = IF equal THEN NaN ELSE Inf
       /\ ~constant => AtMost(One, r) /\ (r = One <=> equal)
  BY <1>9, <1>10, <1>11 DEF RatioIs
<1> QED
  BY <1>6, <1>12

(***************************************************************************)
(* Sizes of the transform (Summary).                                       *)
(***************************************************************************)
\* A factor is stripped as often as it divides.
LEMMA StripUnfolds ==
  \A m \in Nat \ {0}, c \in {2, 3, 5} :
    Stripped(m, c) = IF m % c = 0 THEN Stripped(m \div c, c) ELSE m
<1> DEFINE P == Nat \ {0}
           C == {2, 3, 5}
           Once(h, m, c) == IF m % c = 0 THEN h[<<m \div c, c>>] ELSE m
           Solves(h, n) == \A m \in 1 .. n, c \in C : h[<<m, c>>] = Once(h, m, c)
           Good(n) == \E h : Solves(h, n)
           Same(n) == \A g, h : Solves(g, n) /\ Solves(h, n) =>
                         \A m \in 1 .. n, c \in C : g[<<m, c>>] = h[<<m, c>>]
<1>1. \A m \in P, c \in C : m % c = 0 => m \div c \in 1 .. m - 1
  <2> SUFFICES ASSUME NEW m \in P, NEW c \in C, m % c = 0 PROVE m \div c \in 1 .. m - 1
    OBVIOUS
  <2> CASE c = 2
    OBVIOUS
  <2> CASE c = 3
    OBVIOUS
  <2> CASE c = 5
    OBVIOUS
  <2> QED
    OBVIOUS
<1>2. Good(0) /\ Same(0)
  OBVIOUS
<1>3. ASSUME NEW n \in Nat, Good(n), Same(n) PROVE Good(n + 1) /\ Same(n + 1)
  <2>1. PICK h : Solves(h, n)
    BY <1>3
  <2> DEFINE g == [mc \in (1 .. n + 1) \X C |-> Once(h, mc[1], mc[2])]
  <2>2. \A m \in 1 .. n + 1, c \in C : g[<<m, c>>] = Once(h, m, c)
    OBVIOUS
  <2>3. \A m \in 1 .. n + 1, c \in C : m % c = 0 => m \div c \in 1 .. n
    <3> TAKE m \in 1 .. n + 1, c \in C
    <3>1. m \in P
      OBVIOUS
    <3>2. m % c = 0 => m \div c \in 1 .. m - 1
      BY <1>1, <3>1
    <3>3. \A k \in 1 .. m - 1 : k \in 1 .. n
      OBVIOUS
    <3> HIDE DEF C
    <3> QED
      BY <3>2, <3>3
  <2>4. \A m \in 1 .. n, c \in C : g[<<m, c>>] = h[<<m, c>>]
    <3>1. \A m \in 1 .. n : m \in 1 .. n + 1
      OBVIOUS
    <3> HIDE DEF g, Once
    <3> QED
      BY <2>1, <2>2, <3>1
  <2> HIDE DEF g, C
  <2>5. Solves(g, n + 1)
    BY <2>2, <2>3, <2>4, ZenonT(60)
  <2>6. ASSUME NEW p, NEW q, Solves(p, n + 1), Solves(q, n + 1),
               NEW m \in 1 .. n + 1, NEW c \in C
        PROVE  p[<<m, c>>] = q[<<m, c>>]
    <3>1. Solves(p, n) /\ Solves(q, n)
      BY <2>6
    <3>2. \A k \in 1 .. n, d \in C : p[<<k, d>>] = q[<<k, d>>]
      <4> HIDE DEF Solves
      <4> QED
        BY <1>3, <3>1, ZenonT(60)
    <3> QED
      <4>1. p[<<m, c>>] = Once(p, m, c) /\ q[<<m, c>>] = Once(q, m, c)
        BY <2>6
      <4>2. m % c = 0 => p[<<m \div c, c>>] = q[<<m \div c, c>>]
        BY <2>3, <3>2
      <4> QED
        BY <4>1, <4>2
  <2> QED
    <3> HIDE DEF Solves
    <3> QED
      BY <2>5, <2>6
<1>4. \A n \in Nat : Good(n) /\ Same(n)
  <2> DEFINE T == {n \in Nat : Good(n) /\ Same(n)}
  <2> HIDE DEF Good, Same
  <2>1. 0 \in T /\ \A n \in Nat : n \in T => n + 1 \in T
    BY <1>2, <1>3
  <2>2. Nat \subseteq T
    <3> HIDE DEF T
    <3> QED
      BY <2>1, Induction
  <2> QED
    BY <2>2
<1> DEFINE table == [n \in Nat |-> CHOOSE h : Solves(h, n)]
           f == [mc \in P \X C |-> table[mc[1]][mc]]
<1>5. \A n \in Nat : Solves(table[n], n)
  <2> HIDE DEF Solves
  <2> QED
    BY <1>4
<1>6. \A m \in P, c \in C : f[<<m, c>>] = table[m][<<m, c>>]
  OBVIOUS
<1> HIDE DEF table, f, C
<1>7. ASSUME NEW m \in P, NEW c \in C PROVE f[<<m, c>>] = Once(f, m, c)
  <2>1. table[m][<<m, c>>] = Once(table[m], m, c)
    <3>1. m \in Nat /\ m \in 1 .. m
      OBVIOUS
    <3> QED
      BY <1>5, <3>1
  <2>2. CASE m % c # 0
    BY <1>6, <2>1, <2>2
  <2>3. CASE m % c = 0
    <3> DEFINE k == m \div c
    <3>1. k \in 1 .. m - 1
      BY <1>1, <2>3
    <3> HIDE DEF k
    <3>2. k \in P /\ k \in Nat /\ m \in Nat /\ k \in 1 .. k /\ \A i \in 1 .. k : i \in 1 .. m
      BY <3>1
    <3>3. Solves(table[m], k) /\ Solves(table[k], k)
      BY <1>5, <3>2
    <3>4. table[m][<<k, c>>] = table[k][<<k, c>>]
      <4> HIDE DEF Solves
      <4> QED
        BY <1>4, <3>2, <3>3
    <3>5. table[m][<<m, c>>] = table[m][<<k, c>>]
      BY <2>1, <2>3 DEF k
    <3>6. f[<<m, c>>] = f[<<k, c>>]
      BY <1>6, <3>2, <3>4, <3>5
    <3> QED
      BY <2>3, <3>6 DEF k
  <2> QED
    BY <2>2, <2>3
<1> DEFINE Equation(g) ==
             g = [mf \in P \X {2, 3, 5} |-> IF mf[1] % mf[2] = 0 THEN g[<<mf[1] \div mf[2], mf[2]>>] ELSE mf[1]]
<1>8. Equation(f)
  <2>1. \A mc \in P \X C : mc = <<mc[1], mc[2]>> /\ mc[1] \in P /\ mc[2] \in C
    OBVIOUS
  <2>2. \A mc \in P \X C : f[mc] = Once(f, mc[1], mc[2])
    <3> HIDE DEF Once, P
    <3> QED
      BY <1>7, <2>1
  <2>3. f = [mc \in P \X C |-> f[mc]]
    BY DEF f
  <2>4. f = [mc \in P \X C |-> Once(f, mc[1], mc[2])]
    <3> HIDE DEF Once, P
    <3> QED
      BY <2>2, <2>3, Zenon
  <2> QED
    BY <2>4 DEF C
<1>9. StripFactor = CHOOSE g : Equation(g)
  BY DEF StripFactor
<1>10. Equation(StripFactor)
  <2> HIDE DEF Equation, f
  <2> QED
    BY <1>8, <1>9, Zenon
<1> QED
  BY <1>10 DEF Stripped

\* A power of two has no factor but 2, 3 and 5.
LEMMA PowersGood == \A k \in Nat : GoodSize(Powers[k])
<1>1. /\ Powers \in [Nat -> Nat \ {0}] /\ Powers[0] = 1
      /\ \A n \in Nat : Powers[n + 1] = 2 * Powers[n]
  BY PowersExist, Zenon DEF IsPowers
<1>2. \A c \in {2, 3, 5} : Stripped(1, c) = 1
  <2> TAKE c \in {2, 3, 5}
  <2>1. 1 \in Nat \ {0} /\ 1 % c # 0
    OBVIOUS
  <2> QED
    BY <2>1, StripUnfolds
<1> DEFINE T == {k \in Nat : Stripped(Powers[k], 2) = 1}
<1>3. 0 \in T
  BY <1>1, <1>2
<1>4. ASSUME NEW k \in Nat, k \in T PROVE k + 1 \in T
  <2>1. Powers[k] \in Nat \ {0} /\ Powers[k + 1] = 2 * Powers[k] /\ k + 1 \in Nat
    BY <1>1
  <2>2. (2 * Powers[k]) % 2 = 0 /\ (2 * Powers[k]) \div 2 = Powers[k] /\ 2 * Powers[k] \in Nat \ {0}
    BY <2>1
  <2>3. Stripped(2 * Powers[k], 2) = Stripped((2 * Powers[k]) \div 2, 2)
    BY <2>2, StripUnfolds, Zenon
  <2> QED
    BY <1>4, <2>1, <2>2, <2>3, Zenon
<1>5. Nat \subseteq T
  <2> HIDE DEF T
  <2> QED
    BY <1>3, <1>4, Induction
<1> QED
  <2> TAKE k \in Nat
  <2>1. Stripped(Powers[k], 2) = 1
    BY <1>5
  <2>2. Stripped(Stripped(Stripped(Powers[k], 2), 3), 5) = 1
    BY <1>2, <2>1
  <2> QED
    BY <2>2 DEF GoodSize

\* Between a number and its double there is a power of two.
LEMMA PowerNear == \A n \in Nat \ {0} : \E k \in Nat : Powers[k] \in n .. 2 * n
<1>1. /\ Powers \in [Nat -> Nat \ {0}] /\ Powers[0] = 1
      /\ \A n \in Nat : Powers[n + 1] = 2 * Powers[n]
  BY PowersExist, Zenon DEF IsPowers
<1> DEFINE T == {n \in Nat : \E k \in Nat : Powers[k] \in n + 1 .. 2 * (n + 1)}
<1>2. 0 \in T
  BY <1>1
<1>3. ASSUME NEW n \in Nat, n \in T PROVE n + 1 \in T
  <2>1. PICK k \in Nat : Powers[k] \in n + 1 .. 2 * (n + 1)
    BY <1>3
  <2>2. Powers[k + 1] = 2 * Powers[k] /\ k + 1 \in Nat
    BY <1>1
  <2>3. CASE Powers[k] = n + 1
    <3>1. Powers[k + 1] \in (n + 1) + 1 .. 2 * ((n + 1) + 1)
      BY <2>2, <2>3
    <3> QED
      BY <2>2, <3>1
  <2>4. CASE Powers[k] # n + 1
    <3>1. Powers[k] \in (n + 1) + 1 .. 2 * ((n + 1) + 1)
      BY <2>1, <2>4
    <3> QED
      BY <3>1
  <2> QED
    BY <2>3, <2>4
<1>4. Nat \subseteq T
  <2> HIDE DEF T
  <2> QED
    BY <1>2, <1>3, Induction
<1> QED
  <2> TAKE n \in Nat \ {0}
  <2>1. PICK p \in Nat : n = p + 1
    <3>1. n - 1 \in Nat /\ n = (n - 1) + 1
      OBVIOUS
    <3> QED
      BY <3>1
  <2>2. p \in T
    BY <1>4
  <2> QED
    BY <2>1, <2>2

\* There is room for the lags.
LEMMA PaddedIs == \A n \in Nat \ {0} : PaddedSize(n) \in Nat /\ PaddedSize(n) >= 2 * n
<1> SUFFICES ASSUME NEW n \in Nat \ {0} PROVE PaddedSize(n) \in Nat /\ PaddedSize(n) >= 2 * n
  OBVIOUS
<1> DEFINE g == fft_next_good_size(n)
<1>1. CASE n <= 2
  <2>1. g = 2
    BY <1>1 DEF fft_next_good_size
  <2> HIDE DEF g
  <2>2. PaddedSize(n) = 2 * g
    BY DEF PaddedSize, g
  <2> QED
    BY <1>1, <2>1, <2>2
<1>2. CASE n > 2
  <2> DEFINE Q == {k \in n .. 2 * n : GoodSize(k)}
  <2>1. Q # {} /\ Q \subseteq Nat
    <3>1. PICK k \in Nat : Powers[k] \in n .. 2 * n
      BY PowerNear
    <3>2. Powers[k] \in Q
      BY <3>1, PowersGood
    <3> QED
      BY <3>2
  <2>2. PICK k \in Q : \A j \in Q : k <= j
    <3> HIDE DEF Q
    <3> QED
      BY <2>1, SmallestNumber
  <2>3. k \in n .. 2 * n /\ GoodSize(k) /\ \A j \in n .. k - 1 : ~GoodSize(j)
    <3>1. k \in n .. 2 * n /\ GoodSize(k)
      OBVIOUS
    <3>2. ASSUME NEW j \in n .. k - 1, GoodSize(j) PROVE FALSE
      <4>1. j \in n .. 2 * n /\ ~(k <= j)
        BY <3>1
      <4> QED
        BY <2>2, <3>2, <4>1
    <3> QED
      BY <3>1, <3>2
  <2>4. g = CHOOSE i \in n .. 2 * n : GoodSize(i) /\ \A j \in n .. i - 1 : ~GoodSize(j)
    BY <1>2 DEF fft_next_good_size
  <2>5. g \in n .. 2 * n
    <3> HIDE DEF g
    <3> QED
      BY <2>3, <2>4, Zenon
  <2> HIDE DEF g
  <2>6. PaddedSize(n) = 2 * g
    BY DEF PaddedSize, g
  <2> QED
    BY <2>5, <2>6
<1> QED
  BY <1>1, <1>2

\* Zeros at the end add nothing.
ZerosAfter(xs, ys) ==
  /\ xs \in Seq(Rationals) /\ ys \in Seq(Rationals) /\ Len(ys) <= Len(xs)
  /\ \A i \in 1 .. Len(ys) : xs[i] = ys[i]
  /\ \A i \in Len(ys) + 1 .. Len(xs) : xs[i] = Zero

\* What zero padding adds to a sum.
LEMMA ZerosAddNothing == \A xs, ys : ZerosAfter(xs, ys) => SumOf(xs) = SumOf(ys)
<1> SUFFICES ASSUME NEW xs, NEW ys, ZerosAfter(xs, ys) PROVE SumOf(xs) = SumOf(ys)
  OBVIOUS
<1> DEFINE N == Len(xs)
           L == Len(ys)
<1>1. /\ xs \in Seq(Rationals) /\ ys \in Seq(Rationals) /\ N \in Nat /\ L \in Nat /\ L <= N
      /\ \A i \in 1 .. L : xs[i] = ys[i]
      /\ \A i \in L + 1 .. N : xs[i] = Zero
  <2>1. xs \in Seq(Rationals) /\ ys \in Seq(Rationals)
    BY Zenon DEF ZerosAfter
  <2>2. N \in Nat /\ L \in Nat
    BY <2>1
  <2> QED
    BY <2>1, <2>2, Zenon DEF ZerosAfter
<1>2. PICK f : Totals(f, xs)
  BY <1>1, TotalsExist
<1>4. /\ f \in [0 .. N -> Rationals] /\ f[0] = Zero /\ SumOf(xs) = f[N]
      /\ \A i \in 1 .. N : f[i] = Plus(f[i - 1], xs[i])
  BY <1>2, Zenon DEF Totals
<1>5. f[L] = SumOf(ys)
  <2>1. 0 \in Nat /\ 0 + L <= N /\ \A j \in 1 .. L : xs[0 + j] = ys[j]
    <3>1. \A j \in 1 .. L : 0 + j = j
      BY <1>1
    <3> QED
      BY <1>1, <3>1
  <2>2. f[0 + L] = Plus(f[0], SumOf(ys))
    <3>1. GoesOn(xs, 0, ys)
      BY <1>1, <2>1 DEF GoesOn
    <3> QED
      <4>1. Continued(f, 0, ys)
        BY <1>2, <3>1, TotalsGoOn, Zenon
      <4> QED
        BY <4>1 DEF Continued
  <2>3. SumOf(ys) \in Rationals /\ 0 + L = L
    BY <1>1, SumIn
  <2>4. Plus(Zero, SumOf(ys)) = SumOf(ys)
    BY <2>3, ZeroOne, PlusCommutes, Units
  <2> QED
    BY <1>4, <2>2, <2>3, <2>4
<1> HIDE DEF N, L
<1> DEFINE T == {n \in Nat : L + n <= N => f[L + n] = f[L]}
<1>6. 0 \in T
  <2>1. L + 0 = L
    BY <1>1
  <2> QED
    BY <2>1
<1>7. ASSUME NEW n \in Nat, n \in T PROVE n + 1 \in T
  <2> SUFFICES ASSUME L + (n + 1) <= N PROVE f[L + (n + 1)] = f[L]
    OBVIOUS
  <2>1. PICK i \in 1 .. N : i = L + (n + 1) /\ i - 1 = L + n /\ i \in L + 1 .. N /\ L + n \in 0 .. N
    BY <1>1
  <2>2. f[L + n] = f[L]
    BY <1>1, <1>7, <2>1
  <2>3. f[i] = Plus(f[L + n], Zero) /\ f[L + n] \in Rationals
    <3>1. f[i] = Plus(f[i - 1], xs[i]) /\ xs[i] = Zero
      BY <1>1, <1>4, <2>1, Zenon
    <3>2. f[L + n] \in Rationals
      BY <1>4, <2>1
    <3> QED
      BY <2>1, <3>1, <3>2, Zenon
  <2> QED
    BY <2>1, <2>2, <2>3, Units
<1>8. f[N] = f[L]
  <2> HIDE DEF T
  <2>1. Nat \subseteq T
    BY <1>6, <1>7, Induction
  <2>2. N - L \in T
    BY <1>1, <2>1
  <2>3. L + (N - L) = N
    BY <1>1
  <2> QED
    BY <1>1, <2>2, <2>3 DEF T
<1> QED
  BY <1>4, <1>5, <1>8

\* The padding keeps the lags of one chain apart from each other: what wraps
\* around is zero.
LEMMA CircularIs ==
  \A ys \in Seq(Rationals), lag \in Nat : lag < Len(ys) =>
    /\ autocovariance_col(ys, lag) = LagCovariance(ys, lag)
    /\ autocovariance_col(ys, lag) \in Rationals
<1> SUFFICES ASSUME NEW ys \in Seq(Rationals), NEW lag \in Nat, lag < Len(ys)
             PROVE  /\ autocovariance_col(ys, lag) = LagCovariance(ys, lag)
                    /\ autocovariance_col(ys, lag) \in Rationals
  OBVIOUS
<1> DEFINE n == Len(ys)
           mu == ColMean(ys)
           P == PaddedSize(n)
           zs == [i \in 1 .. n |-> Minus(ys[i], mu)]
           padded == [i \in 1 .. P |-> IF i <= n THEN Minus(ys[i], mu) ELSE Zero]
           ws == [i \in 1 .. P |-> Times(padded[i], padded[((i - 1 + lag) % P) + 1])]
           ls == [i \in 1 .. n - lag |-> Times(Minus(ys[i], mu), Minus(ys[i + lag], mu))]
<1>1. n \in Nat \ {0} /\ lag < n /\ ys # <<>>
  OBVIOUS
<1>2. P \in Nat /\ P >= 2 * n
  BY <1>1, PaddedIs
<1>3. mu \in Rationals
  BY <1>1, MeanIs, Zenon DEF MeanOf
<1>4. \A i \in 1 .. n : ys[i] \in Rationals
  BY EntriesIn
<1>5. autocovariance_col(ys, lag) = Over(SumOf(ws), Count(n))
  <2>1. Len(padded) = P
    <3> HIDE DEF P
    <3> QED
      BY <1>2
  <2>2. Circular(padded, lag) = SumOf(ws)
    <3> HIDE DEF padded, P
    <3> QED
      BY <2>1, Zenon DEF Circular
  <2>3. autocovariance_col(ys, lag) = Over(Circular(padded, lag), Count(n))
    BY Zenon DEF autocovariance_col
  <2> QED
    BY <2>2, <2>3, Zenon
<1>6. LagCovariance(ys, lag) = Over(SumOf(ls), Count(n))
  BY Zenon DEF LagCovariance, ColMean
<1> HIDE DEF n, mu, P
<1>7. \A i \in 1 .. n : Minus(ys[i], mu) \in Rationals
  BY <1>3, <1>4, Closed
<1>8. \A i \in 1 .. P : /\ padded[i] \in Rationals
                        /\ i <= n => padded[i] = Minus(ys[i], mu)
                        /\ i > n => padded[i] = Zero
  <2> TAKE i \in 1 .. P
  <2>1. padded[i] = IF i <= n THEN Minus(ys[i], mu) ELSE Zero
    OBVIOUS
  <2>2. i <= n => i \in 1 .. n
    OBVIOUS
  <2>3. n \in Nat
    BY <1>1
  <2> HIDE DEF padded
  <2>4. CASE i <= n
    BY <1>7, <2>1, <2>2, <2>3, <2>4
  <2>5. CASE ~(i <= n)
    BY <2>1, <2>3, <2>5, ZeroOne
  <2> QED
    BY <2>4, <2>5
<1>9. \A i \in 1 .. P : ws[i] = Times(padded[i], padded[((i - 1 + lag) % P) + 1])
  OBVIOUS
<1>10. \A i \in 1 .. n - lag : ls[i] = Times(Minus(ys[i], mu), Minus(ys[i + lag], mu))
  OBVIOUS
<1>11. ws = [i \in 1 .. P |-> ws[i]] /\ ls = [i \in 1 .. n - lag |-> ls[i]]
  OBVIOUS
<1> HIDE DEF padded, ws, ls
<1>12. \A i \in 1 .. P : ((i - 1 + lag) % P) + 1 \in 1 .. P
  BY <1>1, <1>2
<1>13. \A i \in 1 .. P : ws[i] \in Rationals
  <2> TAKE i \in 1 .. P
  <2>1. padded[i] \in Rationals /\ padded[((i - 1 + lag) % P) + 1] \in Rationals
    BY <1>8, <1>12
  <2> QED
    BY <1>9, <2>1, Closed
<1>14. ASSUME NEW i \in 1 .. n PROVE ((i - 1 + lag) % P) + 1 = i + lag /\ i + lag \in 1 .. P
  <2>1. i - 1 + lag \in 0 .. P - 1
    BY <1>1, <1>2
  <2>2. P \in Nat \ {0} /\ 0 \in Nat /\ P * 0 + (i - 1 + lag) = i - 1 + lag
    BY <1>1, <1>2
  <2>3. (P * 0 + (i - 1 + lag)) % P = i - 1 + lag
    BY <2>1, <2>2, Quotient, Zenon
  <2>4. (i - 1 + lag) % P = i - 1 + lag
    BY <2>2, <2>3, Zenon
  <2>5. ((i - 1 + lag) % P) + 1 = (i - 1 + lag) + 1
    BY <2>4, Zenon
  <2> QED
    BY <1>1, <1>2, <2>5
<1>15. ASSUME NEW i \in 1 .. n - lag PROVE ls[i] = ws[i] /\ ls[i] \in Rationals
  <2>1. i \in 1 .. n /\ i + lag \in 1 .. n /\ i \in 1 .. P
    BY <1>1, <1>2
  <2>2. ws[i] = Times(padded[i], padded[i + lag]) /\ i + lag \in 1 .. P
    BY <1>9, <1>14, <2>1
  <2>3. padded[i] = Minus(ys[i], mu) /\ padded[i + lag] = Minus(ys[i + lag], mu)
    <3>1. i <= n /\ i + lag <= n
      BY <2>1
    <3> QED
      BY <1>8, <2>1, <2>2, <3>1
  <2> QED
    BY <1>10, <1>13, <2>1, <2>2, <2>3
<1>16. ASSUME NEW i \in n - lag + 1 .. P PROVE ws[i] = Zero
  <2>1. i \in 1 .. P
    BY <1>1, <1>2
  <2>2. padded[i] \in Rationals /\ padded[((i - 1 + lag) % P) + 1] \in Rationals
    BY <1>8, <1>12, <2>1
  <2>3. CASE i <= n
    <3>1. i \in 1 .. n
      BY <2>1, <2>3
    <3>2. ((i - 1 + lag) % P) + 1 = i + lag /\ i + lag \in 1 .. P
      BY <1>14, <3>1
    <3>3. i + lag > n
      BY <1>1
    <3>4. padded[i + lag] = Zero
      BY <1>8, <3>2, <3>3
    <3> QED
      BY <1>9, <2>1, <2>2, <3>2, <3>4, Units
  <2>4. CASE i > n
    <3>1. padded[i] = Zero
      BY <1>8, <2>1, <2>4
    <3> DEFINE x == padded[((i - 1 + lag) % P) + 1]
    <3>2. x \in Rationals /\ ws[i] = Times(Zero, x)
      BY <1>9, <2>1, <2>2, <3>1
    <3> HIDE DEF x
    <3> QED
      BY <3>2, ZeroOne, TimesCommutes, Units
  <2> QED
    BY <1>1, <2>1, <2>3, <2>4
<1>17. ZerosAfter(ws, ls)
  <2>1. n - lag \in Nat /\ n - lag <= P
    BY <1>1, <1>2
  <2>2. ws \in Seq(Rationals) /\ Len(ws) = P
    BY <1>2, <1>11, <1>13, Listed, Zenon
  <2>3. ls \in Seq(Rationals) /\ Len(ls) = n - lag
    <3> DEFINE k == n - lag
    <3>1. k \in Nat /\ ls = [i \in 1 .. k |-> ls[i]] /\ \A i \in 1 .. k : ls[i] \in Rationals
      BY <1>11, <1>15, <2>1
    <3> HIDE DEF k
    <3>2. ls \in Seq(Rationals) /\ Len(ls) = k
      BY <3>1, Listed, Zenon
    <3> QED
      BY <3>2 DEF k
  <2> QED
    BY <1>15, <1>16, <2>1, <2>2, <2>3 DEF ZerosAfter
<1>18. SumOf(ws) = SumOf(ls)
  BY <1>17, ZerosAddNothing
<1>19. autocovariance_col(ys, lag) \in Rationals
  <2>1. SumOf(ws) \in Rationals
    BY <1>17, SumIn DEF ZerosAfter
  <2>2. Count(n) \in Rationals /\ Count(n) # Zero
    <3>1. n \in Int /\ n \in Nat \ {0}
      BY <1>1
    <3> QED
      BY <3>1, CountIs, Zenon
  <2> QED
    BY <1>5, <2>1, <2>2, Closed
<1> QED
  BY <1>5, <1>6, <1>18, <1>19

\* Where the chains begin, from their sizes.
LengthsOf(chs) == [m \in 1 .. Len(chs) |-> Len(chs[m])]

\* The sizes of the chains add up to where the last one ends, and a chain
\* starts where the one before it ends.
LEMMA SizesAdd ==
  \A S : \A chs \in Seq(Seq(S)) : \A starts : StartsOf(chs, starts) =>
    /\ SizesSum(LengthsOf(chs)) = starts[Len(chs)]
    /\ \A m \in 1 .. Len(chs) : ChainStarts(LengthsOf(chs))[m] = starts[m - 1]
<1> SUFFICES ASSUME NEW S, NEW chs \in Seq(Seq(S)), NEW starts, StartsOf(chs, starts)
             PROVE  /\ SizesSum(LengthsOf(chs)) = starts[Len(chs)]
                    /\ \A m \in 1 .. Len(chs) : ChainStarts(LengthsOf(chs))[m] = starts[m - 1]
  OBVIOUS
<1> DEFINE M == Len(chs)
<1>1. \A s \in Seq(Seq(S)) : \A st : StartsOf(s, st) => SizesSum(LengthsOf(s)) = st[Len(s)]
  BY TotalLength, Zenon DEF SizesSum, LengthsOf
<1>2. SizesSum(LengthsOf(chs)) = starts[M]
  BY <1>1
<1>3. M \in Nat /\ DOMAIN LengthsOf(chs) = 1 .. M /\ LengthsOf(chs) \in Seq(Nat) /\ Len(LengthsOf(chs)) = M
      /\ \A i \in 1 .. M : LengthsOf(chs)[i] = Len(chs[i])
  BY DEF LengthsOf
<1>4. /\ starts \in [0 .. M -> Nat] /\ starts[0] = 0
      /\ \A i \in 1 .. M : starts[i] = starts[i - 1] + Len(chs[i])
  BY Zenon DEF StartsOf
<1>5. ASSUME NEW m \in 1 .. M PROVE ChainStarts(LengthsOf(chs))[m] = starts[m - 1]
  <2> DEFINE k == m - 1
             s == SubSeq(chs, 1, k)
             st == [i \in 0 .. k |-> starts[i]]
  <2>1. k \in Nat /\ k <= M
    BY <1>3
  <2>2. s \in Seq(Seq(S)) /\ Len(s) = k /\ \A i \in 1 .. k : s[i] = chs[i]
    BY <2>1
  <2>3. SubSeq(LengthsOf(chs), 1, k) = LengthsOf(s)
    <3> DEFINE ls == LengthsOf(chs)
               a == SubSeq(ls, 1, k)
               b == LengthsOf(s)
    <3>1. a \in Seq(Nat) /\ Len(a) = k /\ \A i \in 1 .. k : a[i] = ls[i]
      <4> HIDE DEF ls
      <4> QED
        BY <1>3, <2>1 DEF ls
    <3>2. b \in Seq(Nat) /\ Len(b) = k /\ \A i \in 1 .. k : b[i] = Len(s[i])
      <4>1. \A i \in 1 .. k : Len(s[i]) \in Nat
        BY <2>2
      <4> HIDE DEF s, k
      <4> QED
        BY <2>1, <2>2, <4>1 DEF LengthsOf
    <3>3. \A i \in 1 .. k : a[i] = b[i]
      <4>1. \A i \in 1 .. k : i \in 1 .. M
        BY <2>1
      <4> HIDE DEF a, b, s, k
      <4> QED
        BY <1>3, <2>2, <3>1, <3>2, <4>1
    <3> HIDE DEF a, b
    <3>4. a = b
      BY <3>1, <3>2, <3>3, SameList, Zenon
    <3> QED
      BY <3>4 DEF a, b
  <2>4. StartsOf(s, st)
    <3>1. st \in [0 .. k -> Nat] /\ st[0] = 0
      <4>1. \A i \in 0 .. k : i \in 0 .. M
        BY <1>3, <2>1
      <4>2. \A i \in 0 .. k : starts[i] \in Nat
        <5> HIDE DEF M, k
        <5> QED
          BY <1>4, <4>1
      <4>3. 0 \in 0 .. k
        BY <2>1
      <4> HIDE DEF k
      <4> QED
        BY <1>4, <4>2, <4>3
    <3>2. ASSUME NEW i \in 1 .. k PROVE st[i] = st[i - 1] + Len(s[i])
      <4>1. i \in 1 .. M /\ i \in 0 .. k /\ i - 1 \in 0 .. k
        BY <2>1
      <4>2. starts[i] = starts[i - 1] + Len(chs[i])
        BY <1>4, <4>1
      <4> HIDE DEF s, k
      <4> QED
        BY <2>2, <4>1, <4>2
    <3> HIDE DEF s, st, k
    <3> QED
      BY <2>2, <3>1, <3>2, Zenon DEF StartsOf
  <2>5. SizesSum(LengthsOf(s)) = st[k]
    <3> HIDE DEF s, st, k
    <3> QED
      BY <1>1, <2>2, <2>4, Zenon
  <2>6. st[k] = starts[k]
    BY <2>1
  <2>7. ChainStarts(LengthsOf(chs))[m] = SizesSum(SubSeq(LengthsOf(chs), 1, m - 1))
    BY <1>3, Zenon DEF ChainStarts
  <2> HIDE DEF s, st
  <2> QED
    BY <2>3, <2>5, <2>6, <2>7, Zenon
<1> QED
  BY <1>2, <1>5

\* The lags of one chain.
LagsOf(ys) == [k \in 1 .. Len(ys) |-> autocovariance_col(ys, k - 1)]

\* The autocovariances of one chain are, lag by lag, those of its draws.
LEMMA LagsListed ==
  \A ys \in Seq(Rationals) :
    /\ LagsOf(ys) \in Seq(Rationals) /\ Len(LagsOf(ys)) = Len(ys)
    /\ \A lag \in 0 .. Len(ys) - 1 : LagsOf(ys)[lag + 1] = LagCovariance(ys, lag)
<1> SUFFICES ASSUME NEW ys \in Seq(Rationals)
             PROVE  /\ LagsOf(ys) \in Seq(Rationals) /\ Len(LagsOf(ys)) = Len(ys)
                    /\ \A lag \in 0 .. Len(ys) - 1 : LagsOf(ys)[lag + 1] = LagCovariance(ys, lag)
  OBVIOUS
<1> DEFINE n == Len(ys)
           ls == LagsOf(ys)
<1>1. n \in Nat
  OBVIOUS
<1>2. \A k \in 0 .. n - 1 : /\ autocovariance_col(ys, k) = LagCovariance(ys, k)
                            /\ autocovariance_col(ys, k) \in Rationals
  BY CircularIs
<1>3. ls = [k \in 1 .. n |-> ls[k]] /\ \A k \in 1 .. n : ls[k] = autocovariance_col(ys, k - 1)
  BY DEF LagsOf
<1> HIDE DEF n, ls
<1>4. \A k \in 1 .. n : ls[k] \in Rationals
  <2> TAKE k \in 1 .. n
  <2>1. k - 1 \in 0 .. n - 1
    BY <1>1
  <2> QED
    BY <1>2, <1>3, <2>1
<1>5. ls \in Seq(Rationals) /\ Len(ls) = n
  BY <1>1, <1>3, <1>4, Listed, Zenon
<1>6. \A lag \in 0 .. n - 1 : ls[lag + 1] = LagCovariance(ys, lag)
  <2> TAKE lag \in 0 .. n - 1
  <2>1. PICK k \in 1 .. n : k = lag + 1 /\ k - 1 = lag
    BY <1>1
  <2> QED
    BY <1>2, <1>3, <2>1
<1> QED
  BY <1>5, <1>6 DEF n, ls

\* The autocovariances of a chain stand where its rows do.
LEMMA AutocovarianceHolds ==
  ASSUME NEW mc, Held(mc, chains, Dims), sizes = LengthsOf(chains), NEW d \in 1 .. Dims
  PROVE  AutocovarianceExact(mc, d)
<1> DEFINE M == Len(chains)
           parts == [m \in DOMAIN mc.view |-> LagsOf(Column(mc.view[m], d))]
           acov == autocovariance(mc, d)
<1>1. /\ mc.view = chains /\ chains \in Seq(Seq(Row(Dims))) /\ Dims \in Nat
      /\ mc.num_draws = Len(FlattenSeq(chains))
  BY StoreAssumption, Zenon DEF Held, Holds
<1>2. M \in Nat /\ DOMAIN mc.view = 1 .. M
  BY <1>1
<1>3. PICK starts : StartsOf(chains, starts)
  BY <1>1, StartsExist
<1>4. ASSUME NEW m \in 1 .. M
      PROVE  /\ parts[m] \in Seq(Rationals) /\ Len(parts[m]) = Len(chains[m]) /\ Len(chains[m]) \in Nat
             /\ \A lag \in 0 .. Len(chains[m]) - 1 :
                  parts[m][lag + 1] = LagCovariance(DrawsOf(m, d), lag)
  <2>1. chains[m] \in Seq(Row(Dims))
    BY <1>1, EntriesIn
  <2>2. DrawsOf(m, d) \in Seq(Rationals) /\ Len(DrawsOf(m, d)) = Len(chains[m])
    <3>1. DrawsOf(m, d) = Column(chains[m], d)
      BY DEF DrawsOf
    <3> QED
      BY ONLY <2>1, <3>1, d \in 1 .. Dims, DrawsListed, Zenon
  <2>3. parts[m] = LagsOf(DrawsOf(m, d))
    BY <1>1, <1>2 DEF DrawsOf
  <2>4. Len(chains[m]) \in Nat
    BY <2>1
  <2> HIDE DEF parts
  <2> QED
    BY <2>2, <2>3, <2>4, LagsListed, Zenon
<1>5. parts = [m \in 1 .. M |-> parts[m]]
  BY <1>2
<1>6. acov = FlattenSeq(parts)
  BY Zenon DEF autocovariance, LagsOf
<1>7. Len(FlattenSeq(chains)) = starts[M]
  <2>1. FlatAt(Row(Dims), FlattenSeq(chains), chains, starts)
    BY <1>1, <1>3, Flattened
  <2> QED
    BY <2>1, Zenon DEF FlatAt
<1>8. \A m \in 1 .. M : ChainStarts(sizes)[m] = starts[m - 1]
  <2>1. \A m \in 1 .. M : ChainStarts(LengthsOf(chains))[m] = starts[m - 1]
    <3>1. \A s \in Seq(Seq(Row(Dims))) : \A st : StartsOf(s, st) =>
            \A m \in 1 .. Len(s) : ChainStarts(LengthsOf(s))[m] = st[m - 1]
      BY ONLY SizesAdd, Zenon
    <3> QED
      BY ONLY <1>1, <1>3, <3>1, Zenon
  <2> QED
    BY <2>1
<1>9. /\ starts \in [0 .. M -> Nat] /\ starts[0] = 0
      /\ \A m \in 1 .. M : starts[m] = starts[m - 1] + Len(chains[m])
  BY <1>3, Zenon DEF StartsOf
<1> HIDE DEF M, parts, acov
<1>10. parts \in Seq(Seq(Rationals)) /\ Len(parts) = M
  BY <1>2, <1>4, <1>5, Listed, Zenon
<1>11. StartsOf(parts, starts)
  <2>1. \A m \in 1 .. M : starts[m] = starts[m - 1] + Len(parts[m])
    BY <1>4, <1>9, Zenon
  <2> QED
    BY <1>9, <1>10, <2>1, Zenon DEF StartsOf
<1>12. FlatAt(Rationals, acov, parts, starts)
  BY <1>6, <1>10, <1>11, Flattened, Zenon
<1>13. Len(acov) = mc.num_draws
  BY <1>1, <1>7, <1>10, <1>12, Zenon DEF FlatAt
<1>14. ASSUME NEW m \in 1 .. M, NEW lag \in 0 .. Len(chains[m]) - 1
       PROVE  acov[ChainStarts(sizes)[m] + lag + 1] = LagCovariance(DrawsOf(m, d), lag)
  <2>1. lag + 1 \in Nat /\ lag + 1 \in 1 .. Len(parts[m])
    BY <1>4
  <2>2. acov[starts[m - 1] + (lag + 1)] = parts[m][lag + 1]
    BY <1>10, <1>12, <2>1, Zenon DEF FlatAt
  <2>3. starts[m - 1] + (lag + 1) = starts[m - 1] + lag + 1
    <3>1. m - 1 \in 0 .. M
      BY <1>2
    <3>2. starts[m - 1] \in Nat
      BY <1>9, <3>1
    <3> QED
      BY <3>2
  <2> QED
    BY <1>4, <1>8, <2>2, <2>3
<1> QED
  BY <1>2, <1>13, <1>14, Zenon DEF AutocovarianceExact, acov

(***************************************************************************)
(* Quantiles (Summary).                                                    *)
(***************************************************************************)
\* The entries below a number, not above it, and not below it.
Under(xs, x)   == {i \in DOMAIN xs : Less(xs[i], x)}
UpTo(xs, x)    == {i \in DOMAIN xs : AtMost(xs[i], x)}
AtLeast(xs, x) == {i \in DOMAIN xs : AtMost(x, xs[i])}

\* Fewer than k entries are below x, an entry, and at least k not above it.
OrderStatistic(x, xs, k) ==
  /\ \E i \in 1 .. Len(xs) : x = xs[i]
  /\ Cardinality(Under(xs, x)) < k /\ Cardinality(UpTo(xs, x)) >= k

\* Less orders the numbers.
LEMMA NumbersOrdered == IsOrder(Rationals, {p \in Rationals \X Rationals : Less(p[1], p[2])})
<1> DEFINE B == {p \in Rationals \X Rationals : Less(p[1], p[2])}
<1>1. \A x, y \in Rationals : <<x, y>> \in B <=> Less(x, y)
  OBVIOUS
<1> HIDE DEF B
<1>2. \A x, y \in Rationals : Less(x, y) => ~Less(y, x)
  BY LessIs
<1>3. \A x, y, z \in Rationals : Less(x, y) /\ Less(y, z) => Less(x, z)
  BY LessIs, AtMostTransitive
<1>4. \A x, y \in Rationals : x = y \/ Less(x, y) \/ Less(y, x)
  BY LessIs
<1>5. IsOrder(Rationals, B)
  BY <1>1, <1>2, <1>3, <1>4 DEF IsOrder
<1> QED
  BY <1>5 DEF B

\* What the sorted draws have at k is the k-th order statistic.
LEMMA SortedNumbers ==
  \A xs \in Seq(Rationals) : \A k \in 1 .. Len(xs) : OrderStatistic(Sorted(xs, Less)[k], xs, k)
<1> SUFFICES ASSUME NEW xs \in Seq(Rationals), NEW k \in 1 .. Len(xs)
             PROVE  OrderStatistic(Sorted(xs, Less)[k], xs, k)
  OBVIOUS
<1> DEFINE B == {p \in Rationals \X Rationals : Less(p[1], p[2])}
           N == Len(xs)
           Placed(x) == /\ Cardinality({i \in DOMAIN xs : Less(xs[i], x)}) < k
                        /\ Cardinality({i \in DOMAIN xs : ~Less(x, xs[i])}) >= k
<1>1. IsOrder(Rationals, B)
  BY NumbersOrdered
<1>2. N \in Nat /\ DOMAIN xs = 1 .. N /\ xs \in [1 .. N -> Rationals] /\ \A i \in 1 .. N : xs[i] \in Rationals
  OBVIOUS
<1>3. PICK x : Kth(B, xs, N, k, x)
  <2> HIDE DEF B, N
  <2>1. k \in 1 .. N
    BY DEF N
  <2> QED
    BY <1>1, <1>2, <2>1, KthExists
<1>4. x \in ToSet(xs) /\ x \in Rationals
  BY <1>2, <1>3 DEF Kth, ToSet
<1>5. Placed(x)
  <2>0. \A i \in 1 .. N : /\ <<xs[i], x>> \in B <=> Less(xs[i], x)
                          /\ <<x, xs[i]>> \in B <=> Less(x, xs[i])
    BY <1>2, <1>4
  <2> HIDE DEF B
  <2>1. {i \in 1 .. N : <<xs[i], x>> \in B} = {i \in DOMAIN xs : Less(xs[i], x)}
    BY <1>2, <2>0
  <2>2. {i \in 1 .. N : <<x, xs[i]>> \notin B} = {i \in DOMAIN xs : ~Less(x, xs[i])}
    BY <1>2, <2>0
  <2> QED
    BY <1>3, <2>1, <2>2 DEF Kth
<1> DEFINE s == Sorted(xs, Less)[k]
<1>6. s = CHOOSE y \in ToSet(xs) : Placed(y)
  BY <1>2 DEF Sorted
<1>7. s \in ToSet(xs) /\ Placed(s)
  <2> HIDE DEF Placed, s
  <2> QED
    BY <1>4, <1>5, <1>6, Zenon
<1> HIDE DEF s
<1>8. \E i \in 1 .. N : s = xs[i]
  BY <1>2, <1>7 DEF ToSet
<1>9. s \in Rationals
  BY <1>2, <1>8
<1>10. \A i \in DOMAIN xs : ~Less(s, xs[i]) <=> AtMost(xs[i], s)
  BY <1>2, <1>9, LessIs
<1>11. {i \in DOMAIN xs : ~Less(s, xs[i])} = UpTo(xs, s)
  BY <1>10 DEF UpTo
<1> QED
  BY <1>7, <1>8, <1>11 DEF OrderStatistic, Under, s

\* Counting entries, and what counts grow with.
LEMMA CountsOf ==
  \A xs \in Seq(Rationals), x \in Rationals :
    /\ Cardinality(Under(xs, x)) \in 0 .. Len(xs) /\ Cardinality(UpTo(xs, x)) \in 0 .. Len(xs)
    /\ Cardinality(AtLeast(xs, x)) = Len(xs) - Cardinality(Under(xs, x))
    /\ Len(xs) <= Cardinality(UpTo(xs, x)) + Cardinality(AtLeast(xs, x))
<1> SUFFICES ASSUME NEW xs \in Seq(Rationals), NEW x \in Rationals
             PROVE  /\ Cardinality(Under(xs, x)) \in 0 .. Len(xs) /\ Cardinality(UpTo(xs, x)) \in 0 .. Len(xs)
                    /\ Cardinality(AtLeast(xs, x)) = Len(xs) - Cardinality(Under(xs, x))
                    /\ Len(xs) <= Cardinality(UpTo(xs, x)) + Cardinality(AtLeast(xs, x))
  OBVIOUS
<1> DEFINE N == Len(xs)
           U == Under(xs, x)
           V == UpTo(xs, x)
           W == AtLeast(xs, x)
<1>1. N \in Nat /\ DOMAIN xs = 1 .. N /\ \A i \in 1 .. N : xs[i] \in Rationals
  OBVIOUS
<1>2. U \in SUBSET (1 .. N) /\ V \in SUBSET (1 .. N) /\ W \in SUBSET (1 .. N)
  BY <1>1 DEF Under, UpTo, AtLeast
<1>3. U \cap W = {} /\ U \cup W = 1 .. N /\ U \subseteq V
  <2>1. \A i \in 1 .. N : (Less(xs[i], x) <=> ~AtMost(x, xs[i])) /\ (Less(xs[i], x) => AtMost(xs[i], x))
    BY <1>1, LessIs
  <2> QED
    BY <1>1, <2>1 DEF Under, UpTo, AtLeast
<1> HIDE DEF N, U, V, W
<1>4. Sizes(N, U) /\ Sizes(N, V) /\ Sizes(N, W)
  BY <1>1, <1>2, PositionSets, Zenon
<1>5. Cardinality(U) <= Cardinality(V)
  BY <1>1, <1>2, <1>3, PositionSets, Zenon
<1>6. Cardinality(U \cup W) = Cardinality(U) + Cardinality(W)
  <2>1. N \in Nat /\ U \in SUBSET (1 .. N) /\ W \in SUBSET (1 .. N) /\ U \cap W = {}
    BY <1>1, <1>2, <1>3
  <2> QED
    BY ONLY <2>1, PositionSets, Zenon
<1>7. Cardinality(1 .. N) = N
  BY <1>1, FS_Interval
<1>8. Cardinality(U) \in 0 .. N /\ Cardinality(V) \in 0 .. N /\ Cardinality(W) \in 0 .. N
  BY <1>4, Zenon DEF Sizes
<1>9. Cardinality(U) + Cardinality(W) = N
  BY <1>3, <1>6, <1>7, Zenon
<1> QED
  <2>1. /\ Cardinality(U) \in 0 .. N /\ Cardinality(V) \in 0 .. N
        /\ Cardinality(W) = N - Cardinality(U) /\ N <= Cardinality(V) + Cardinality(W)
    BY ONLY <1>1, <1>5, <1>8, <1>9
  <2> QED
    BY <2>1 DEF N, U, V, W

\* More draws are not above a larger number, fewer not below it.
LEMMA CountsGrow ==
  \A xs \in Seq(Rationals), x, y \in Rationals :
    /\ AtMost(x, y) => /\ Cardinality(UpTo(xs, x)) <= Cardinality(UpTo(xs, y))
                       /\ Cardinality(AtLeast(xs, y)) <= Cardinality(AtLeast(xs, x))
    /\ Less(x, y) => Cardinality(UpTo(xs, x)) <= Cardinality(Under(xs, y))
<1> SUFFICES ASSUME NEW xs \in Seq(Rationals), NEW x \in Rationals, NEW y \in Rationals
             PROVE  /\ AtMost(x, y) => /\ Cardinality(UpTo(xs, x)) <= Cardinality(UpTo(xs, y))
                                       /\ Cardinality(AtLeast(xs, y)) <= Cardinality(AtLeast(xs, x))
                    /\ Less(x, y) => Cardinality(UpTo(xs, x)) <= Cardinality(Under(xs, y))
  OBVIOUS
<1> DEFINE N == Len(xs)
<1>1. N \in Nat /\ DOMAIN xs = 1 .. N /\ \A i \in 1 .. N : xs[i] \in Rationals
  OBVIOUS
<1> HIDE DEF N
<1>2. \A z : /\ Under(xs, z) \in SUBSET (1 .. N) /\ UpTo(xs, z) \in SUBSET (1 .. N)
             /\ AtLeast(xs, z) \in SUBSET (1 .. N)
  BY <1>1 DEF Under, UpTo, AtLeast
<1>3. \A I, J \in SUBSET (1 .. N) : I \subseteq J => Cardinality(I) <= Cardinality(J)
  BY <1>1, PositionSets, Zenon
<1>4. ASSUME AtMost(x, y) PROVE UpTo(xs, x) \subseteq UpTo(xs, y) /\ AtLeast(xs, y) \subseteq AtLeast(xs, x)
  <2>1. \A i \in 1 .. N : /\ AtMost(xs[i], x) => AtMost(xs[i], y)
                          /\ AtMost(y, xs[i]) => AtMost(x, xs[i])
    BY <1>1, <1>4, AtMostTransitive
  <2> QED
    BY <1>1, <2>1 DEF UpTo, AtLeast
<1>5. ASSUME Less(x, y) PROVE UpTo(xs, x) \subseteq Under(xs, y)
  <2>1. \A i \in 1 .. N : AtMost(xs[i], x) => Less(xs[i], y)
    BY <1>1, <1>5, AtMostTransitive
  <2> QED
    BY <1>1, <2>1 DEF UpTo, Under
<1> QED
  BY <1>2, <1>3, <1>4, <1>5

\* Sorted is in order.
LEMMA StatisticsOrdered ==
  \A xs \in Seq(Rationals) : \A k, l \in 1 .. Len(xs) : \A x, y :
    OrderStatistic(x, xs, k) /\ OrderStatistic(y, xs, l) /\ k <= l =>
      x \in Rationals /\ y \in Rationals /\ AtMost(x, y)
<1> SUFFICES ASSUME NEW xs \in Seq(Rationals), NEW k \in 1 .. Len(xs), NEW l \in 1 .. Len(xs), NEW x, NEW y,
                    OrderStatistic(x, xs, k), OrderStatistic(y, xs, l), k <= l
             PROVE  x \in Rationals /\ y \in Rationals /\ AtMost(x, y)
  OBVIOUS
<1>1. x \in Rationals /\ y \in Rationals
  <2>1. \A i \in 1 .. Len(xs) : xs[i] \in Rationals
    OBVIOUS
  <2> QED
    BY <2>1, Zenon DEF OrderStatistic
<1>2. ASSUME Less(y, x) PROVE FALSE
  <2> DEFINE a == Cardinality(Under(xs, x))
             b == Cardinality(UpTo(xs, y))
  <2>1. a < k /\ b >= l
    BY Zenon DEF OrderStatistic
  <2>2. b <= a
    BY <1>1, <1>2, CountsGrow
  <2>3. a \in Int /\ b \in Int /\ k \in Int /\ l \in Int
    <3>1. a \in 0 .. Len(xs) /\ b \in 0 .. Len(xs)
      BY <1>1, CountsOf, Zenon
    <3> HIDE DEF a, b
    <3> QED
      BY <3>1
  <2> HIDE DEF a, b
  <2> QED
    BY <2>1, <2>2, <2>3
<1> QED
  BY <1>1, <1>2, LessIs

\* The whole part of a number that is not negative.
FloorOf(f, x, n) ==
  /\ f \in 0 .. n /\ AtMost(Count(f), x) /\ Less(x, Count(f + 1))

\* The index a quantile starts from.
LEMMA FloorIs ==
  \A x \in Rationals, n \in Nat : AtMost(Zero, x) /\ AtMost(x, Count(n)) => FloorOf(Floor(x), x, n)
<1> SUFFICES ASSUME NEW x \in Rationals, NEW n \in Nat, AtMost(Zero, x), AtMost(x, Count(n))
             PROVE  FloorOf(Floor(x), x, n)
  OBVIOUS
<1> DEFINE a == x[1]
           e == x[2]
           f == a \div e
<1>1. a \in Int /\ e \in Nat \ {0} /\ x = Frac(a, e) /\ Floor(x) = f
  BY RationalParts DEF Floor
<1> HIDE DEF a, e
<1>2. \A m \in Int : /\ Less(Frac(m, 1), Frac(a, e)) <=> m * e < a * 1
                     /\ AtMost(Frac(m, 1), Frac(a, e)) <=> m * e <= a * 1
                     /\ Less(Frac(a, e), Frac(m, 1)) <=> a * 1 < m * e
                     /\ AtMost(Frac(a, e), Frac(m, 1)) <=> a * 1 <= m * e
  <2> TAKE m \in Int
  <2>1. 1 \in Nat \ {0}
    OBVIOUS
  <2> QED
    BY <1>1, <2>1, FracLess, Zenon
<1>3. 0 * e <= a * 1 /\ a * 1 <= n * e
  <2>1. Zero = Frac(0, 1) /\ 0 \in Int /\ n \in Int
    BY DEF Zero
  <2> QED
    BY <1>1, <1>2, <2>1, Zenon DEF Count
<1>4. a >= 0 /\ a <= n * e
  BY <1>1, <1>3
<1>5. f \in Int /\ e * f <= a /\ a < e * f + e
  BY <1>1
<1> HIDE DEF f
<1>6. f >= 0
  <2> SUFFICES ASSUME f <= 0 - 1 PROVE FALSE
    BY <1>5
  <2>1. e * (0 - 1 - f) >= 0
    BY <1>1, <1>5
  <2>2. e * (0 - 1 - f) = 0 - e - e * f
    BY <1>1, <1>5
  <2> QED
    BY <1>1, <1>4, <1>5, <2>1, <2>2
<1>7. f <= n
  <2> SUFFICES ASSUME f >= n + 1 PROVE FALSE
    BY <1>5
  <2>1. e * (f - n - 1) >= 0
    BY <1>1, <1>5
  <2>2. e * (f - n - 1) = e * f - n * e - e
    BY <1>1, <1>5
  <2> QED
    BY <1>1, <1>4, <1>5, <2>1, <2>2
<1>8. f * e <= a * 1 /\ a * 1 < (f + 1) * e
  BY <1>1, <1>5
<1>9. AtMost(Count(f), x) /\ Less(x, Count(f + 1))
  <2>1. f \in Int /\ f + 1 \in Int
    BY <1>5
  <2> QED
    BY <1>1, <1>2, <1>8, <2>1, Zenon DEF Count
<1> QED
  BY <1>1, <1>5, <1>6, <1>7, <1>9 DEF FloorOf

\* Subtracting more leaves less.
LEMMA MinusAntitone ==
  \A x, y, z \in Rationals : AtMost(x, y) => AtMost(Minus(z, y), Minus(z, x))
<1> SUFFICES ASSUME NEW x \in Rationals, NEW y \in Rationals, NEW z \in Rationals, AtMost(x, y)
             PROVE  AtMost(Minus(z, y), Minus(z, x))
  OBVIOUS
<1>1. PICK a \in Int, b \in Int, c \in Int, e \in Nat \ {0} :
             x = Frac(a, e) /\ y = Frac(b, e) /\ z = Frac(c, e)
  BY Common3
<1>2. a <= b
  BY <1>1, SameParts
<1>3. Minus(z, y) = Frac(c - b, e) /\ Minus(z, x) = Frac(c - a, e)
  BY <1>1, SameParts
<1>4. c - b \in Int /\ c - a \in Int /\ c - b <= c - a
  BY <1>2
<1>5. AtMost(Frac(c - b, e), Frac(c - a, e))
  BY <1>4, SameParts, Zenon
<1> QED
  BY <1>3, <1>5

\* Interpolating stays between.
LEMMA Interpolated ==
  \A a, b, w \in Rationals : AtMost(a, b) /\ AtMost(Zero, w) /\ AtMost(w, One) =>
    /\ Plus(a, Times(w, Minus(b, a))) \in Rationals
    /\ AtMost(a, Plus(a, Times(w, Minus(b, a)))) /\ AtMost(Plus(a, Times(w, Minus(b, a))), b)
<1> SUFFICES ASSUME NEW a \in Rationals, NEW b \in Rationals, NEW w \in Rationals,
                    AtMost(a, b), AtMost(Zero, w), AtMost(w, One)
             PROVE  /\ Plus(a, Times(w, Minus(b, a))) \in Rationals
                    /\ AtMost(a, Plus(a, Times(w, Minus(b, a)))) /\ AtMost(Plus(a, Times(w, Minus(b, a))), b)
  OBVIOUS
<1> DEFINE g == Minus(b, a)
           part == Times(w, g)
<1>1. g \in Rationals /\ AtMost(Zero, g) /\ Plus(a, g) = b
  BY Closed, LessIs, MinusPlus
<1> HIDE DEF g
<1>2. part \in Rationals /\ part = Times(g, w)
  BY <1>1, Closed, TimesCommutes
<1>3. AtMost(Zero, part) /\ AtMost(part, g)
  <2>1. Times(g, Zero) = Zero /\ Times(g, One) = g
    BY <1>1, Units
  <2>2. AtMost(Times(g, Zero), Times(g, w)) /\ AtMost(Times(g, w), Times(g, One))
    BY <1>1, ZeroOne, TimesMonotone
  <2> QED
    BY <1>2, <2>1, <2>2
<1> HIDE DEF part
<1>4. AtMost(a, a) /\ Plus(a, Zero) = a
  BY LessIs, Units
<1>5. AtMost(Plus(a, Zero), Plus(a, part)) /\ AtMost(Plus(a, part), Plus(a, g)) /\ Plus(a, part) \in Rationals
  BY <1>1, <1>2, <1>3, <1>4, ZeroOne, PlusMonotone, Closed
<1> QED
  BY <1>1, <1>4, <1>5 DEF part, g

\* Where the quantile lies: between the order statistics around it.
Between(q, h, xs, lo, hi) ==
  /\ q \in Rationals
  /\ \E a : OrderStatistic(a, xs, lo + 1) /\ a \in Rationals /\ AtMost(a, q) /\ (h = Count(lo) => q = a)
  /\ \E b : OrderStatistic(b, xs, hi + 1) /\ b \in Rationals /\ AtMost(q, b)

\* A quantile is between two neighbouring order statistics.
LEMMA QuantileBetween ==
  ASSUME NEW D \in Nat, NEW mc, NEW chs, NEW d \in 1 .. D, Held(mc, chs, D),
         NEW p \in Rationals, AtMost(Zero, p), AtMost(p, One)
  PROVE  LET n == mc.num_draws - 1
             h == Times(p, Count(n))
             lo == Floor(h)
             hi == IF lo + 1 < n THEN lo + 1 ELSE n
         IN  /\ n \in Nat /\ h \in Rationals /\ FloorOf(lo, h, n)
             /\ Between(quantile(mc, d, p), h, DrawsAt(chs, d), lo, hi)
<1> DEFINE xs == DrawsAt(chs, d)
           n == mc.num_draws - 1
           h == Times(p, Count(n))
           lo == Floor(h)
           hi == IF lo + 1 < n THEN lo + 1 ELSE n
           a == Sorted(xs, Less)[lo + 1]
           b == Sorted(xs, Less)[hi + 1]
           w == Minus(h, Count(lo))
           q == quantile(mc, d, p)
<1>1. xs \in Seq(Rationals) /\ xs # <<>> /\ Len(xs) = mc.num_draws
  BY AllListed, Zenon
<1>2. mc.draws[d] = xs
  BY Zenon DEF Held, Holds, DrawsAt
<1>3. q = Plus(a, Times(w, Minus(b, a)))
  <2> HIDE DEF xs
  <2> QED
    BY <1>2 DEF quantile
<1>4. n \in Nat /\ Len(xs) = n + 1
  <2> HIDE DEF xs
  <2> QED
    BY <1>1
<1> HIDE DEF n
<1>5. h \in Rationals /\ AtMost(Zero, h) /\ AtMost(h, Count(n))
  <2> DEFINE c == Count(n)
  <2>1. c \in Rationals /\ AtMost(Zero, c)
    <3>1. c \in Rationals /\ Zero = Count(0) /\ n \in Int /\ 0 \in Int /\ 0 <= n
      BY <1>4, CountIs
    <3>2. AtMost(Count(0), Count(n))
      BY <3>1, CountIs
    <3> QED
      BY <3>1, <3>2
  <2> HIDE DEF c
  <2>2. h = Times(c, p) /\ h \in Rationals
    BY <2>1, Closed, TimesCommutes DEF c
  <2>3. Times(c, Zero) = Zero /\ Times(c, One) = c
    BY <2>1, Units
  <2>4. AtMost(Times(c, Zero), Times(c, p)) /\ AtMost(Times(c, p), Times(c, One))
    BY <2>1, ZeroOne, TimesMonotone
  <2> QED
    BY <2>2, <2>3, <2>4 DEF c
<1> HIDE DEF h
<1>6. FloorOf(lo, h, n)
  BY <1>4, <1>5, FloorIs
<1>7. lo \in 0 .. n /\ AtMost(Count(lo), h) /\ Less(h, Count(lo + 1))
  BY <1>6, Zenon DEF FloorOf
<1> HIDE DEF lo
<1>8. hi \in 0 .. n /\ lo <= hi
  BY <1>4, <1>7
<1> HIDE DEF hi
<1>9. OrderStatistic(a, xs, lo + 1) /\ OrderStatistic(b, xs, hi + 1)
  <2>1. lo + 1 \in 1 .. Len(xs) /\ hi + 1 \in 1 .. Len(xs)
    BY <1>4, <1>7, <1>8
  <2> HIDE DEF xs
  <2> QED
    BY <1>1, <2>1, SortedNumbers
<1> HIDE DEF a, b
<1>10. a \in Rationals /\ b \in Rationals /\ AtMost(a, b)
  <2>1. lo + 1 \in 1 .. Len(xs) /\ hi + 1 \in 1 .. Len(xs) /\ lo + 1 <= hi + 1
    BY <1>4, <1>7, <1>8
  <2> HIDE DEF xs
  <2> QED
    BY <1>1, <1>9, <2>1, StatisticsOrdered
<1>11. w \in Rationals /\ AtMost(Zero, w) /\ AtMost(w, One) /\ (h = Count(lo) => w = Zero)
  <2>1. lo \in Int /\ lo + 1 \in Int /\ 1 \in Int
    BY <1>7
  <2>2. Count(lo) \in Rationals /\ Count(lo + 1) \in Rationals /\ One = Count(1)
    BY <2>1, CountIs
  <2>3. Plus(Count(lo), Count(1)) = Count(lo + 1)
    BY <2>1, CountIs
  <2> DEFINE c == Count(lo)
             e == Count(lo + 1)
  <2>4. /\ c \in Rationals /\ e \in Rationals /\ Plus(c, One) = e /\ AtMost(c, h) /\ Less(h, e)
        /\ w = Minus(h, c)
    BY <1>7, <2>2, <2>3
  <2> HIDE DEF c, e, w
  <2>5. w \in Rationals /\ AtMost(Zero, w) /\ Plus(c, w) = h
    BY <1>5, <2>4, Closed, LessIs, MinusPlus
  <2>6. AtMost(w, One)
    <3> SUFFICES ASSUME Less(One, w) PROVE FALSE
      BY <2>5, ZeroOne, LessIs
    <3>1. Less(Plus(One, c), Plus(w, c))
      BY <2>4, <2>5, ZeroOne, LessIs, PlusMonotone
    <3>2. Plus(One, c) = e /\ Plus(w, c) = h
      BY <2>4, <2>5, ZeroOne, PlusCommutes
    <3> QED
      BY <1>5, <2>4, <3>1, <3>2, LessIs
  <2>7. h = c => w = Zero
    BY <2>4, Units
  <2> QED
    BY <2>5, <2>6, <2>7 DEF c
<1> HIDE DEF w, q
<1>12. q \in Rationals /\ AtMost(a, q) /\ AtMost(q, b)
  BY <1>3, <1>10, <1>11, Interpolated
<1>13. h = Count(lo) => q = a
  <2> SUFFICES ASSUME w = Zero PROVE q = a
    BY <1>11
  <2>1. Minus(b, a) \in Rationals
    BY <1>10, Closed
  <2>2. Times(Zero, Minus(b, a)) = Zero
    BY <2>1, ZeroOne, TimesCommutes, Units
  <2> QED
    BY <1>3, <1>10, <2>2, Units
<1>14. Between(q, h, xs, lo, hi)
  BY <1>9, <1>10, <1>12, <1>13, Zenon DEF Between
<1> QED
  BY <1>4, <1>5, <1>6, <1>14 DEF n, h, lo, hi, q, xs

\* Enough draws are on either side of a quantile, and none lies between the
\* two order statistics it is between.
LEMMA QuantileHolds ==
  ASSUME NEW mc, Held(mc, chains, Dims), NEW d \in 1 .. Dims,
         NEW p \in Rationals, AtMost(Zero, p), AtMost(p, One)
  PROVE  QuantileExact(mc, d, p)
<1> DEFINE xs == AllDraws(d)
           n == mc.num_draws - 1
           h == Times(p, Count(n))
           lo == Floor(h)
           hi == IF lo + 1 < n THEN lo + 1 ELSE n
           q == quantile(mc, d, p)
           below == Cardinality(UpTo(xs, q))
           above == Cardinality(AtLeast(xs, q))
<1>1. Dims \in Nat /\ xs = DrawsAt(chains, d)
  BY StoreAssumption DEF AllDraws, DrawsAt
<1>2. n \in Nat /\ h \in Rationals /\ FloorOf(lo, h, n) /\ Between(q, h, xs, lo, hi)
  <2>1. n \in Nat /\ h \in Rationals /\ FloorOf(lo, h, n) /\ Between(q, h, DrawsAt(chains, d), lo, hi)
    BY <1>1, QuantileBetween
  <2> HIDE DEF n, h, lo, hi, q, xs
  <2> QED
    BY <1>1, <2>1
<1>3. xs \in Seq(Rationals) /\ Len(xs) = n + 1
  <2>1. DrawsAt(chains, d) \in Seq(Rationals) /\ Len(DrawsAt(chains, d)) = mc.num_draws
    BY <1>1, AllListed, Zenon
  <2>2. xs \in Seq(Rationals) /\ Len(xs) = mc.num_draws
    BY <1>1, <2>1, Zenon
  <2> HIDE DEF xs
  <2> QED
    BY <2>2
<1>4. hi \in 0 .. n /\ hi <= lo + 1 /\ lo \in 0 .. n
  <2>1. lo \in 0 .. n
    BY <1>2, Zenon DEF FloorOf
  <2> HIDE DEF lo, n
  <2> QED
    BY <1>2, <2>1
<1>5. QuantileExact(mc, d, p)
        <=> /\ AtMost(Times(p, Count(Len(xs) - 1)), Count(below))
            /\ AtMost(Times(Minus(One, p), Count(Len(xs) - 1)), Count(above))
            /\ p \in {Zero, One} => \E i \in DOMAIN xs : q = xs[i]
            /\ AtMost(Count(Len(xs)), Plus(Count(below), Count(above)))
  BY Zenon DEF QuantileExact, UpTo, AtLeast
<1>6. Len(xs) - 1 = n
  <2> HIDE DEF xs, n
  <2> QED
    BY <1>2, <1>3
<1> HIDE DEF xs, n, lo, hi, q
<1>7. q \in Rationals
  BY <1>2, Zenon DEF Between
<1>8. below \in 0 .. n + 1 /\ above \in 0 .. n + 1 /\ n + 1 <= below + above
  <2>1. /\ Cardinality(Under(xs, q)) \in 0 .. Len(xs) /\ below \in 0 .. Len(xs)
        /\ above = Len(xs) - Cardinality(Under(xs, q))
        /\ Len(xs) <= below + above
    BY <1>3, <1>7, CountsOf, Zenon
  <2> HIDE DEF below, above
  <2> QED
    BY <1>2, <1>3, <2>1
<1>9. lo + 1 <= below
  <2>1. PICK a : OrderStatistic(a, xs, lo + 1) /\ a \in Rationals /\ AtMost(a, q)
    BY <1>2, Zenon DEF Between
  <2>2. Cardinality(UpTo(xs, a)) >= lo + 1
    BY <2>1, Zenon DEF OrderStatistic
  <2>3. Cardinality(UpTo(xs, a)) <= below
    BY <1>3, <1>7, <2>1, CountsGrow
  <2>4. Cardinality(UpTo(xs, a)) \in 0 .. Len(xs)
    BY <1>3, <2>1, CountsOf, Zenon
  <2> HIDE DEF below
  <2> QED
    BY <1>2, <1>3, <1>4, <1>8, <2>2, <2>3, <2>4
<1>10. n - lo <= above
  <2>1. PICK b : OrderStatistic(b, xs, hi + 1) /\ b \in Rationals /\ AtMost(q, b)
    BY <1>2, Zenon DEF Between
  <2> DEFINE u == Cardinality(Under(xs, b))
             v == Cardinality(AtLeast(xs, b))
  <2>2. u < hi + 1
    BY <2>1, Zenon DEF OrderStatistic
  <2>3. v <= above
    BY <1>3, <1>7, <2>1, CountsGrow
  <2>4. u \in 0 .. Len(xs) /\ v = Len(xs) - u
    BY <1>3, <2>1, CountsOf, Zenon
  <2> HIDE DEF above, u, v
  <2> QED
    BY <1>2, <1>3, <1>4, <1>8, <2>2, <2>3, <2>4
<1> HIDE DEF below, above
<1>11. AtMost(Count(lo), h) /\ Less(h, Count(lo + 1))
  BY <1>2, Zenon DEF FloorOf
<1>12. /\ Count(n) \in Rationals /\ Count(lo) \in Rationals /\ Count(lo + 1) \in Rationals
       /\ Count(below) \in Rationals /\ Count(above) \in Rationals
  <2>1. n \in Int /\ lo \in Int /\ lo + 1 \in Int /\ below \in Int /\ above \in Int
    BY <1>2, <1>4, <1>8
  <2> QED
    BY <2>1, CountIs
<1>13. AtMost(h, Count(below))
  <2>1. AtMost(Count(lo + 1), Count(below))
    <3>1. lo + 1 \in Int /\ below \in Int
      BY <1>4, <1>8
    <3> QED
      BY <1>9, <3>1, CountIs
  <2>2. Less(h, Count(below))
    BY <1>2, <1>11, <1>12, <2>1, AtMostTransitive
  <2> QED
    BY <1>2, <1>12, <2>2, LessIs
<1>14. AtMost(Times(Minus(One, p), Count(n)), Count(above))
  <2> DEFINE c == Count(n)
  <2>0. c \in Rationals
    BY <1>12
  <2>1. Times(Minus(One, p), c) = Minus(c, h)
    <3> HIDE DEF c
    <3>1. Times(c, Minus(One, p)) = Minus(Times(c, One), Times(c, p))
      BY <2>0, ZeroOne, TimesDistributes
    <3>2. Times(c, One) = c /\ Minus(One, p) \in Rationals
      BY <2>0, ZeroOne, Units, Closed
    <3>3. Times(c, Minus(One, p)) = Times(Minus(One, p), c) /\ Times(c, p) = Times(p, c)
      BY <2>0, <3>2, TimesCommutes
    <3>4. h = Times(p, c)
      BY DEF c
    <3> QED
      BY <3>1, <3>2, <3>3, <3>4
  <2>2. AtMost(Minus(c, h), Minus(c, Count(lo)))
    BY <1>2, <1>11, <1>12, MinusAntitone
  <2>3. Minus(c, Count(lo)) = Count(n - lo) /\ AtMost(Count(n - lo), Count(above)) /\ Count(n - lo) \in Rationals
    <3>1. n \in Int /\ lo \in Int /\ n - lo \in Int /\ above \in Int
      BY <1>2, <1>4, <1>8
    <3> QED
      BY <1>10, <3>1, CountIs
  <2>4. Minus(c, h) \in Rationals
    BY <1>2, <1>12, Closed
  <2> HIDE DEF c, h
  <2>5. AtMost(Minus(c, h), Count(above))
    BY <1>12, <2>2, <2>3, <2>4, AtMostTransitive
  <2> QED
    BY <2>1, <2>5 DEF c
<1>15. ASSUME p \in {Zero, One} PROVE \E i \in DOMAIN xs : q = xs[i]
  <2>1. h = Count(lo)
    <3>1. CASE p = Zero
      <4>1. h = Zero
        BY <1>12, <3>1, ZeroOne, TimesCommutes, Units
      <4>2. lo = 0
        <5>1. AtMost(Count(lo), Count(0))
          BY <1>11, <4>1, CountIs
        <5>2. lo \in Int /\ 0 \in Int
          BY <1>4
        <5>3. lo <= 0
          BY <5>1, <5>2, CountIs
        <5> QED
          BY <1>4, <5>3
      <4> QED
        BY <4>1, <4>2, CountIs
    <3>2. CASE p = One
      <4>1. h = Count(n)
        BY <1>12, <3>2, ZeroOne, TimesCommutes, Units
      <4>2. lo = n
        <5>1. Less(Count(n), Count(lo + 1))
          BY <1>11, <4>1, Zenon
        <5>2. lo + 1 \in Int /\ n \in Int
          BY <1>2, <1>4
        <5>3. n < lo + 1
          BY <5>1, <5>2, CountIs
        <5> QED
          BY <1>2, <1>4, <5>3
      <4> QED
        BY <4>1, <4>2
    <3> QED
      BY <1>15, <3>1, <3>2
  <2>2. PICK a : OrderStatistic(a, xs, lo + 1) /\ q = a
    BY <1>2, <2>1, Zenon DEF Between
  <2>3. DOMAIN xs = 1 .. Len(xs)
    BY <1>3
  <2> QED
    BY <2>2, <2>3, Zenon DEF OrderStatistic
<1>16. AtMost(Count(Len(xs)), Plus(Count(below), Count(above)))
  <2>1. below \in Int /\ above \in Int /\ below + above \in Int /\ n + 1 \in Int
    BY <1>2, <1>8
  <2>2. Plus(Count(below), Count(above)) = Count(below + above)
    BY <2>1, CountIs
  <2>3. AtMost(Count(n + 1), Count(below + above))
    BY <1>8, <2>1, CountIs
  <2> QED
    BY <1>3, <2>2, <2>3
<1> QED
  BY <1>5, <1>6, <1>13, <1>14, <1>15, <1>16

(***************************************************************************)
(* The matrices that are handed over, in either container (Sample).        *)
(***************************************************************************)
\* The number of draws in all chains.
Total(chs) == FoldLeft(LAMBDA n, c : n + Len(c), 0, chs)

\* It is where the last chain ends.
LEMMA TotalIs ==
  \A S : \A chs \in Seq(Seq(S)) : \A starts : StartsOf(chs, starts) => Total(chs) = starts[Len(chs)]
<1> SUFFICES ASSUME NEW S, NEW chs \in Seq(Seq(S)), NEW starts, StartsOf(chs, starts)
             PROVE  Total(chs) = starts[Len(chs)]
  OBVIOUS
<1> DEFINE M == Len(chs)
           Longer(h, s) == IF s = {} THEN 0 ELSE h[s \ {Max(s)}] + Len(chs[Max(s)])
           Equation(e) == e = [s \in SUBSET (1 .. M) |-> Longer(e, s)]
           table == CHOOSE e : Equation(e)
<1>1. M \in Nat /\ DOMAIN chs = 1 .. M /\ \A i \in 1 .. M : chs[i] \in Seq(S) /\ Len(chs[i]) \in Nat
  OBVIOUS
<1>2. \E e : Equation(e)
  <2> DEFINE F == [x \in Nat |-> [y \in Seq(S) |-> x + Len(y)]]
  <2>1. F \in [Nat -> [Seq(S) -> Nat]]
    OBVIOUS
  <2>2. \A x \in Nat, y \in Seq(S) : F[x][y] = x + Len(y)
    OBVIOUS
  <2> HIDE DEF F
  <2>3. PICK h \in [SUBSET (1 .. M) -> Nat] : \A s \in SUBSET (1 .. M) :
                h[s] = IF s = {} THEN 0 ELSE F[h[s \ {Max(s)}]][chs[Max(s)]]
    <3>1. 0 \in Nat
      OBVIOUS
    <3>2. Tabled(Nat, F, 0, chs)
      BY <2>1, <3>1, AllTabled, Zenon
    <3> QED
      BY <3>2 DEF Tabled
  <2> HIDE DEF M
  <2>4. ASSUME NEW s \in SUBSET (1 .. M) PROVE h[s] = Longer(h, s)
    <3>1. CASE s = {}
      BY <2>3, <3>1
    <3>2. CASE s # {}
      <4>1. Max(s) \in 1 .. M /\ s \ {Max(s)} \in SUBSET (1 .. M)
        <5>1. Max(s) \in s
          BY <1>1, <3>2, LargestNumber
        <5> QED
          BY <5>1
      <4>2. h[s \ {Max(s)}] \in Nat /\ chs[Max(s)] \in Seq(S)
        BY <1>1, <4>1
      <4> QED
        BY <2>2, <2>3, <3>2, <4>2, Zenon
    <3> QED
      BY <3>1, <3>2
  <2>5. h = [s \in SUBSET (1 .. M) |-> Longer(h, s)]
    <3> HIDE DEF Longer
    <3> QED
      BY <2>4
  <2> QED
    BY <2>5
<1>3. Equation(table)
  <2> HIDE DEF Equation
  <2> QED
    BY <1>2, Zenon
<1>4. Total(chs) = table[1 .. M]
  BY <1>1, Zenon DEF Total, FoldLeft, MapThenFoldSet
<1> HIDE DEF table
<1>5. \A s \in SUBSET (1 .. M) : table[s] = Longer(table, s)
  <2> HIDE DEF Longer, M
  <2> QED
    BY <1>3
<1>6. /\ starts[0] = 0
      /\ \A i \in 1 .. M : starts[i] = starts[i - 1] + Len(chs[i])
  BY Zenon DEF StartsOf
<1> HIDE DEF M, Equation
<1> DEFINE Reached(k) == k <= M => table[1 .. k] = starts[k]
<1>7. Reached(0)
  <2>1. 1 .. 0 = {} /\ {} \in SUBSET (1 .. M)
    BY <1>1
  <2>2. table[{}] = 0
    BY <1>5, <2>1
  <2> QED
    BY <1>6, <2>1, <2>2
<1>8. ASSUME NEW k \in Nat, Reached(k) PROVE Reached(k + 1)
  <2> SUFFICES ASSUME k + 1 <= M PROVE table[1 .. k + 1] = starts[k + 1]
    OBVIOUS
  <2>1. PICK i \in 1 .. M : i = k + 1 /\ i - 1 = k
    BY <1>1
  <2>2. 1 .. i \in SUBSET (1 .. M) /\ 1 .. i # {} /\ Max(1 .. i) = i /\ (1 .. i) \ {i} = 1 .. i - 1
    BY <1>1, PrefixSets, Zenon
  <2>3. table[1 .. i] = table[1 .. i - 1] + Len(chs[i])
    BY <1>5, <2>2, Zenon
  <2>4. k <= M
    BY <1>1
  <2>5. table[1 .. k] = starts[k]
    BY <1>8, <2>4, Zenon
  <2> QED
    BY <1>6, <2>1, <2>3, <2>5, Zenon
<1>9. \A k \in Nat : Reached(k)
  <2> DEFINE T == {k \in Nat : Reached(k)}
  <2> HIDE DEF Reached
  <2>1. 0 \in T /\ \A k \in Nat : k \in T => k + 1 \in T
    BY <1>7, <1>8
  <2>2. Nat \subseteq T
    <3> HIDE DEF T
    <3> QED
      BY <2>1, Induction
  <2> QED
    BY <2>2
<1>10. M <= M
  BY <1>1
<1>11. table[1 .. M] = starts[M]
  BY <1>1, <1>9, <1>10, Zenon
<1> QED
  BY <1>4, <1>11 DEF M

\* What is handed over: matrices of rows of Dims numbers, and their sizes.
Matrices ==
  /\ chains \in Seq(Seq(Row(Dims))) /\ Len(chains) \in Nat \ {0} /\ FlattenSeq(chains) # <<>>
  /\ sizes = LengthsOf(chains)

\* The matrices behind one another.
LEMMA RowsFlat ==
  ASSUME Matrices, NEW starts, StartsOf(chains, starts)
  PROVE  /\ FlatAt(Row(Dims), FlattenSeq(chains), chains, starts)
         /\ Len(FlattenSeq(chains)) = starts[Len(chains)]
         /\ FlattenSeq(chains) \in Seq(Row(Dims)) /\ Len(FlattenSeq(chains)) \in Nat \ {0}
         /\ Len(FlattenSeq(chains)[1]) = Dims
<1> DEFINE flat == FlattenSeq(chains)
<1>1. FlatAt(Row(Dims), flat, chains, starts)
  BY Flattened DEF Matrices
<1>2. flat \in Seq(Row(Dims)) /\ Len(flat) = starts[Len(chains)] /\ flat # <<>>
  BY <1>1, Zenon DEF FlatAt, Matrices
<1> HIDE DEF flat
<1>3. Len(flat) \in Nat \ {0}
  BY <1>2
<1>4. Len(flat[1]) = Dims
  <2>1. 1 \in 1 .. Len(flat)
    BY <1>3
  <2>2. flat[1] \in Row(Dims)
    BY <1>2, <2>1, EntriesIn, Zenon
  <2> QED
    BY <2>2, StoreAssumption DEF Row
<1> QED
  BY <1>1, <1>2, <1>3, <1>4 DEF flat

\* summary.hpp: the ranges of rows are the chains' matrices.
LEMMA UnifiedHeld ==
  ASSUME Matrices
  PROVE  /\ UnifiedAccepts(FlattenSeq(chains), sizes)
         /\ Unified(FlattenSeq(chains), sizes).view = chains
         /\ Held(Unified(FlattenSeq(chains), sizes), chains, Dims)
<1> DEFINE M == Len(chains)
           flat == FlattenSeq(chains)
           u == Unified(flat, sizes)
           view == [m \in DOMAIN sizes |->
                      SubSeq(flat, ChainStarts(sizes)[m] + 1, ChainStarts(sizes)[m] + sizes[m])]
<1>1. chains \in Seq(Seq(Row(Dims))) /\ flat # <<>> /\ sizes = LengthsOf(chains)
  BY Zenon DEF Matrices
<1>2. PICK starts : StartsOf(chains, starts)
  BY <1>1, StartsExist
<1>3. FlatAt(Row(Dims), flat, chains, starts) /\ Len(flat) = starts[M] /\ flat \in Seq(Row(Dims)) /\ Len(flat[1]) = Dims
  BY <1>2, RowsFlat, Zenon
<1>4. SizesSum(sizes) = starts[M] /\ \A m \in 1 .. M : ChainStarts(sizes)[m] = starts[m - 1]
  BY <1>1, <1>2, SizesAdd, Zenon
<1>5. /\ starts \in [0 .. M -> Nat] /\ starts[0] = 0
      /\ \A m \in 1 .. M : starts[m] = starts[m - 1] + Len(chains[m])
  BY <1>2, Zenon DEF StartsOf
<1>6. M \in Nat /\ DOMAIN sizes = 1 .. M /\ \A m \in 1 .. M : sizes[m] = Len(chains[m])
  BY <1>1 DEF LengthsOf
<1>7. u.view = view /\ u.num_draws = Len(flat) /\ u.draws = [d \in 1 .. Len(flat[1]) |-> Column(flat, d)]
  BY DEF Unified
<1>8. ASSUME NEW m \in 1 .. M PROVE view[m] = chains[m]
  <2> DEFINE a == starts[m - 1]
             c == chains[m]
             n == Len(c)
             part == SubSeq(flat, a + 1, a + n)
  <2>1. view[m] = part
    BY <1>4, <1>6
  <2>2. c \in Seq(Row(Dims))
    BY <1>1, EntriesIn, Zenon
  <2>3. n \in Nat /\ a \in Nat /\ a + n \in Nat
    <3>1. m - 1 \in 0 .. M
      BY <1>6
    <3>2. a \in Nat
      BY <1>5, <3>1
    <3>3. n \in Nat
      BY <2>2
    <3> QED
      BY <3>2, <3>3
  <2>4. \A j \in 1 .. n : a + j \in 1 .. Len(flat) /\ flat[a + j] = c[j]
    <3> TAKE j \in 1 .. n
    <3>1. j \in Nat /\ j \in 1 .. Len(chains[m])
      BY <2>3
    <3> QED
      BY <1>3, <3>1, Zenon DEF FlatAt
  <2>5. a + n <= Len(flat)
    <3>1. m \in 0 .. M /\ M \in 0 .. M /\ m <= M
      BY <1>6
    <3>2. starts[m] <= starts[M]
      BY <1>1, <1>2, <3>1, StartsGrow
    <3>3. starts[m] = a + n
      BY <1>5
    <3> QED
      BY <1>3, <3>2, <3>3
  <2> HIDE DEF a, c, n, flat
  <2>6. part \in Seq(Row(Dims)) /\ Len(part) = n /\ \A j \in 1 .. n : part[j] = flat[a + j]
    <3>0. flat \in Seq(Row(Dims)) /\ Len(flat) \in Nat
      BY <1>3
    <3>1. part = [j \in 1 .. n |-> part[j]] /\ \A j \in 1 .. n : part[j] = flat[a + j]
      BY ONLY <2>3, <2>5, <3>0
    <3>2. \A j \in 1 .. n : part[j] \in Row(Dims)
      BY <2>4, <3>0, <3>1, EntriesIn, Zenon
    <3> HIDE DEF part
    <3> QED
      BY <2>3, <3>1, <3>2, Listed, Zenon
  <2> HIDE DEF part
  <2>7. part = c
    BY <2>2, <2>4, <2>6, SameList, Zenon DEF n
  <2> QED
    BY <2>1, <2>7 DEF c
<1>9. view = chains
  <2>1. view = [m \in 1 .. M |-> view[m]]
    BY <1>6
  <2>2. chains = [m \in 1 .. M |-> chains[m]]
    BY <1>1
  <2> HIDE DEF view, M
  <2> QED
    BY <1>8, <2>1, <2>2
<1>10. \A d \in 1 .. Dims : u.draws[d] = Column(flat, d)
  <2> HIDE DEF u, flat
  <2> QED
    BY <1>3, <1>7
<1> HIDE DEF u, flat, view
<1>11. Holds(u, chains, Dims)
  BY <1>7, <1>9, <1>10, Zenon DEF Holds, flat
<1> QED
  BY <1>1, <1>3, <1>4, <1>7, <1>9, <1>11, Zenon DEF u, flat, Held, UnifiedAccepts

\* summary.hpp: the copied columns are those of the chains' matrices.
LEMMA SplitHeld ==
  ASSUME Matrices, SplitAccepts(chains)
  PROVE  /\ Held(Split(chains), chains, Dims)
         /\ \A m \in DOMAIN chains : MinChainSize(Split(chains)) <= sizes[m]
<1> DEFINE M == Len(chains)
           flat == FlattenSeq(chains)
           u == Split(chains)
<1>1. chains \in Seq(Seq(Row(Dims))) /\ flat # <<>> /\ sizes = LengthsOf(chains) /\ M \in Nat \ {0}
  BY Zenon DEF Matrices
<1>2. PICK starts : StartsOf(chains, starts)
  BY <1>1, StartsExist
<1>3. Len(flat) = starts[M]
  BY <1>2, RowsFlat, Zenon
<1>4. M \in Nat \ {0} /\ DOMAIN chains = 1 .. M
  BY <1>1
<1>5. \A m \in 1 .. M : chains[m] \in Seq(Row(Dims)) /\ Len(chains[m]) \in Nat
  <2> TAKE m \in 1 .. M
  <2>1. chains[m] \in Seq(Row(Dims))
    BY <1>1, EntriesIn
  <2> QED
    BY <2>1
<1>6. Len(chains[1][1]) = Dims
  <2>1. 1 \in 1 .. M
    BY <1>4
  <2>2. chains[1] \in Seq(Row(Dims)) /\ chains[1] # <<>>
    BY <1>4, <1>5, <2>1, Zenon DEF SplitAccepts
  <2>3. 1 \in 1 .. Len(chains[1])
    BY <2>2
  <2>4. chains[1][1] \in Row(Dims)
    BY <2>2, <2>3, EntriesIn, Zenon
  <2> QED
    BY <2>4, StoreAssumption DEF Row
<1>7. /\ u.view = chains /\ u.num_draws = Total(chains)
      /\ u.draws = [d \in 1 .. Len(chains[1][1]) |-> FlattenSeq(Columns(chains, d))]
  BY DEF Split, Total, Columns
<1>8. Total(chains) = Len(flat)
  BY <1>1, <1>2, <1>3, TotalIs, Zenon
<1>9. \A d \in 1 .. Dims : FlattenSeq(Columns(chains, d)) = Column(flat, d)
  <2>1. Dims \in Nat /\ Stacked(chains, starts, Dims)
    BY <1>1, <1>2, StoreAssumption DEF Stacked
  <2> QED
    BY <2>1, ColumnsParted, Zenon
<1>10. \A d \in 1 .. Dims : u.draws[d] = Column(flat, d)
  <2> HIDE DEF u, flat
  <2> QED
    BY <1>6, <1>7, <1>9
<1>11. Held(u, chains, Dims)
  <2> HIDE DEF u
  <2> QED
    BY <1>1, <1>7, <1>8, <1>10, Zenon DEF Held, Holds
<1>12. \A m \in DOMAIN chains : MinChainSize(u) <= sizes[m]
  <2> DEFINE S == {Len(chains[m]) : m \in 1 .. M}
             least == MinChainSize(u)
  <2>1. S \subseteq Nat /\ S # {}
    <3>1. 1 \in 1 .. M
      BY <1>4
    <3> HIDE DEF M
    <3> QED
      BY <1>5, <3>1
  <2>2. PICK n \in S : \A k \in S : n <= k
    BY <2>1, SmallestNumber
  <2>3. \A m \in 1 .. M : n <= Len(chains[m])
    BY <2>2
  <2>4. least = CHOOSE k \in S : \A m \in 1 .. M : k <= Len(chains[m])
    <3> HIDE DEF M, u
    <3> QED
      BY <1>4, <1>7 DEF MinChainSize
  <2>5. \A m \in 1 .. M : least <= Len(chains[m])
    <3> HIDE DEF S, least, M
    <3> QED
      BY <2>2, <2>3, <2>4
  <2>6. \A m \in 1 .. M : sizes[m] = Len(chains[m])
    BY <1>1 DEF LengthsOf
  <2> HIDE DEF least, M
  <2> QED
    BY <1>4, <2>5, <2>6 DEF least
<1> QED
  BY <1>11, <1>12

\* summary.hpp:54-73,360-545: every statistic of a container that offers the
\* matrices is the one its definition says.
LEMMA SummaryHolds ==
  ASSUME Matrices, NEW mc, Held(mc, chains, Dims)
  PROVE  SummaryExact(mc)
<1>1. \A p \in {Zero, Frac(1, 3), Frac(1, 2), One} : p \in Rationals /\ AtMost(Zero, p) /\ AtMost(p, One)
  <2>1. Zero = Frac(0, 1) /\ One = Frac(1, 1)
    BY DEF Zero, One
  <2>2. \A k, n \in Nat : n # 0 /\ k <= n => Frac(k, n) \in Rationals /\ AtMost(Frac(0, 1), Frac(k, n)) /\ AtMost(Frac(k, n), Frac(1, 1))
    <3> SUFFICES ASSUME NEW k \in Nat, NEW n \in Nat, n # 0, k <= n
                 PROVE  Frac(k, n) \in Rationals /\ AtMost(Frac(0, 1), Frac(k, n)) /\ AtMost(Frac(k, n), Frac(1, 1))
      OBVIOUS
    <3>1. 0 \in Int /\ 1 \in Int /\ k \in Int /\ n \in Nat \ {0} /\ 1 \in Nat \ {0}
      OBVIOUS
    <3>2. 0 * n <= k * 1 /\ k * 1 <= 1 * n
      OBVIOUS
    <3> QED
      BY <3>1, <3>2, FracValue, FracLess, Zenon
  <2>3. /\ 0 \in Nat /\ 1 \in Nat /\ 2 \in Nat /\ 3 \in Nat /\ 1 # 0 /\ 2 # 0 /\ 3 # 0
        /\ 0 <= 1 /\ 1 <= 1 /\ 1 <= 2 /\ 1 <= 3
    OBVIOUS
  <2> QED
    BY <2>1, <2>2, <2>3, Zenon
<1>2. \A d \in 1 .. Dims : CenterExact(mc, d)
  BY CenterHolds
<1>3. \A d \in 1 .. Dims : AutocovarianceExact(mc, d)
  BY AutocovarianceHolds DEF Matrices
<1>4. \A d \in 1 .. Dims : \A p \in {Zero, Frac(1, 3), Frac(1, 2), One} : QuantileExact(mc, d, p)
  BY <1>1, QuantileHolds
<1>5. RHatAccepts(mc) => \A d \in 1 .. Dims : RHatExact(mc, d)
  BY RHatHolds DEF Matrices
<1> QED
  BY <1>2, <1>3, <1>4, <1>5, Zenon DEF SummaryExact

\* Both containers of such matrices have exact statistics.
LEMMA MatricesExact == Matrices => SummariesExact
<1> SUFFICES ASSUME Matrices PROVE SummariesExact
  OBVIOUS
<1> DEFINE u == Unified(FlattenSeq(chains), sizes)
<1>1. UnifiedAccepts(FlattenSeq(chains), sizes) /\ u.view = chains /\ SummaryExact(u)
  BY UnifiedHeld, SummaryHolds, Zenon
<1>2. SplitAccepts(chains) => SummaryExact(Split(chains)) /\ \A m \in DOMAIN chains : MinChainSize(Split(chains)) <= sizes[m]
  BY SplitHeld, SummaryHolds, Zenon
<1> QED
  BY <1>1, <1>2, Zenon DEF SummariesExact

\* The handlers' draws are such matrices when they are handed over.
SummaryInv == phase = "begin" => Matrices

\* A draw has Dims numbers.
LEMMA PositionRow == \A v \in Int : Position(v) \in Row(Dims)
<1> SUFFICES ASSUME NEW v \in Int PROVE Position(v) \in Row(Dims)
  OBVIOUS
<1>1. \A d \in 1 .. Dims : v + d - 1 \in Int /\ 1 \in Nat \ {0}
  BY StoreAssumption
<1>2. \A d \in 1 .. Dims : Frac(v + d - 1, 1) \in Rationals
  BY <1>1, FracValue
<1> QED
  BY <1>2 DEF Position, Row

\* What the handlers hold is handed over whole, with its sizes.
LEMMA HandedOver == StoreInv /\ BeginSummary => Matrices'
<1> SUFFICES ASSUME StoreInv, BeginSummary PROVE Matrices'
  OBVIOUS
<1>1. PICK M \in Chains :
        LET matrices == [m \in 1 .. M |-> handlers[m].draws]
        IN  /\ FlattenSeq(matrices) # <<>> /\ chains' = matrices
            /\ sizes' = [m \in 1 .. M |-> Len(matrices[m])]
  BY DEF BeginSummary
<1> DEFINE matrices == [m \in 1 .. M |-> handlers[m].draws]
<1>2. M \in Nat \ {0} /\ \A m \in 1 .. M : m \in Chains
  BY StoreAssumption DEF Chains
<1>3. \A m \in 1 .. M : matrices[m] \in Seq(Row(Dims))
  <2> TAKE m \in 1 .. M
  <2> DEFINE ds == handlers[m].draws
  <2>1. ds \in Seq(Seq(Number)) /\ trace[m] \in Seq(Int) /\ Len(ds) <= Len(trace[m])
        /\ \A i \in 1 .. Len(ds) : ds[i] = Position(trace[m][i])
    BY <1>2 DEF StoreInv, StoreTyped, Store, HoldsDraws
  <2> HIDE DEF ds
  <2>2. Len(ds) \in Nat /\ Len(trace[m]) \in Nat /\ ds = [i \in 1 .. Len(ds) |-> ds[i]]
    BY <2>1
  <2>3. \A i \in 1 .. Len(ds) : ds[i] \in Row(Dims)
    <3> TAKE i \in 1 .. Len(ds)
    <3>1. i \in 1 .. Len(trace[m])
      BY <2>1, <2>2
    <3>2. trace[m][i] \in Int
      BY <2>1, <3>1, EntriesIn, Zenon
    <3> QED
      BY <2>1, <3>2, PositionRow, Zenon
  <2>4. ds \in Seq(Row(Dims))
    BY <2>2, <2>3, Listed, Zenon
  <2> QED
    BY <2>4 DEF ds
<1>4. /\ matrices = [m \in 1 .. M |-> matrices[m]]
      /\ chains' = matrices /\ FlattenSeq(matrices) # <<>>
      /\ sizes' = [m \in 1 .. M |-> Len(matrices[m])]
  BY <1>1
<1> HIDE DEF matrices
<1>5. matrices \in Seq(Seq(Row(Dims))) /\ Len(matrices) = M
  BY <1>2, <1>3, <1>4, Listed, Zenon
<1>6. sizes' = LengthsOf(matrices)
  BY <1>2, <1>4, <1>5 DEF LengthsOf
<1> QED
  BY <1>2, <1>4, <1>5, <1>6 DEF Matrices, LengthsOf

\* The matrices stay as they are until the summary is taken.
LEMMA SummaryInvStep == StoreInv /\ SummaryInv /\ [SampleNext]_sampleVars => SummaryInv'
<1> SUFFICES ASSUME StoreInv, SummaryInv, [SampleNext]_sampleVars PROVE SummaryInv'
  OBVIOUS
<1>1. CASE Storing \/ UNCHANGED sampleVars
  <2>1. phase' = phase /\ chains' = chains /\ sizes' = sizes
    BY <1>1 DEF Storing, sampleVars, essVars
  <2> QED
    BY <2>1 DEF SummaryInv, Matrices
<1>2. CASE BeginSummary
  BY <1>2, HandedOver DEF SummaryInv
<1>3. CASE EffectiveSampleSize
  <2>1. phase' # "begin"
    BY <1>3 DEF EffectiveSampleSize, EssNext, FirstPair, NextPair, FinishTail
  <2> QED
    BY <2>1 DEF SummaryInv
<1> QED
  BY <1>1, <1>2, <1>3 DEF SampleNext

\* summary.hpp:54-73,360-545: for every number of chains and of draws in each,
\* both containers give the mean, variance, quantiles, autocovariances and
\* R-hat of exactly the draws of each chain.
THEOREM SummariesAreExact == SampleSpec => []SummariesExact
<1>1. SampleInit => SummaryInv
  BY DEF SampleInit, EssInit, SummaryInv
<1>2. SummaryInv => SummariesExact
  BY MatricesExact DEF SummaryInv, SummariesExact
<1>3. SampleInit => StoreInv
  BY StoreInitInv DEF SampleInit
<1> QED
  BY <1>1, <1>2, <1>3, StoreInvStep, SummaryInvStep, PTL DEF SampleSpec
===============================================================================
