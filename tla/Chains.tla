-------------------------------- MODULE Chains --------------------------------
(***************************************************************************)
(* One call of irt_causal_bart() above the chains: choosing or checking    *)
(* the seeds (R/irt_causal_bart.R), running a chain per seed in this       *)
(* process or in forked ones, and refusing partial results (run_chains()   *)
(* in R/chains.R).  A chain is abstracted to what its seed determines: the *)
(* streams its item samplers are seeded with, and a result, which is the   *)
(* seed itself.                                                            *)
(*                                                                         *)
(* R integers keep their width: arithmetic that leaves -MaxInt .. MaxInt   *)
(* gives NA, which a C++ int sees as one particular number.                *)
(***************************************************************************)
EXTENDS Integers, Sequences, FiniteSets

CONSTANTS
  K,            \* n_traits: the banks, so the sampler streams, of each chain
  MaxInt,       \* .Machine$integer.max
  NA,           \* NA_integer_
  MaxChains,    \* bound on n_chains
  SeedChoices,  \* what 'seed' and the entries of 'seeds' are drawn from
  CoreChoices   \* validated values of n_cores

Int32 == -MaxInt .. MaxInt

ASSUME ChainsAssumption ==
  /\ K \in Nat \ {0} /\ MaxInt \in Nat /\ NA \notin Int
  /\ MaxChains \in Nat \ {0}
  /\ SeedChoices \subseteq Int32 \cup {NA}
  /\ CoreChoices \subseteq Nat \ {0}

VARIABLES
  given,      \* the caller supplied 'seeds'
  seeds,      \* one per chain
  n_cores,    \* capped at the number of chains
  unix,       \* .Platform$OS.type != "windows"
  pc,         \* how far the call has got
  status,     \* status[c]: what mclapply() or lapply() has for chain c
  streams     \* streams[c]: the seeds of the item samplers chain c has built

vars == <<given, seeds, n_cores, unix, pc, status, streams>>

Chain == DOMAIN seeds

Statuses == {"waiting", "running", "value", "try-error", "NULL"}
Places   == {"validate", "running", "refused", "returned", "failed", "crashed"}
Ended    == {"refused", "returned", "failed", "crashed"}

-------------------------------------------------------------------------------
(***************************************************************************)
(* Seeds.                                                                  *)
(***************************************************************************)

\* a + b in R integers, for a b that is not NA.
Add(a, b) == IF a # NA /\ a + b \in Int32 THEN a + b ELSE NA

DefaultSeeds(seed, n) == [c \in 1 .. n |-> Add(seed, (c - 1) * K)]

Missing   == \E c \in Chain : seeds[c] = NA
Duplicate == \E c, d \in Chain : c # d /\ seeds[c] = seeds[d]

TooCloseByOne == \E c, d \in Chain : \* mutant: <= n_traits - 2 apart
  seeds[c] < seeds[d] /\ seeds[d] - seeds[c] < K - 1

TooClose == \E c, d \in Chain :
  seeds[c] < seeds[d] /\ seeds[d] - seeds[c] < K

\* diff(sort(seeds)) overflows between neighbours: its minimum is then NA, which
\* if () refuses to test.
GapOverflows == \E c, d \in Chain :
  /\ seeds[d] - seeds[c] > MaxInt
  /\ \A e \in Chain : ~(seeds[c] < seeds[e] /\ seeds[e] < seeds[d])

Accepted ==
  given => /\ ~Missing
           /\ ~Duplicate
           /\ K > 1 /\ Cardinality(Chain) > 1 => ~GapOverflows /\ ~TooClose

Init ==
  /\ given \in BOOLEAN
  /\ \E n \in 1 .. MaxChains, cores \in CoreChoices :
       /\ IF given THEN seeds \in [1 .. n -> SeedChoices]
                   ELSE \E seed \in SeedChoices : seeds = DefaultSeeds(seed, n)
       /\ n_cores = IF cores < n THEN cores ELSE n
       /\ status = [c \in 1 .. n |-> "waiting"]
       /\ streams = [c \in 1 .. n |-> << >>]
  /\ unix \in BOOLEAN
  /\ pc = "validate"

Validate ==
  /\ pc = "validate"
  /\ pc' = IF Accepted THEN "running" ELSE "refused"
  /\ UNCHANGED <<given, seeds, n_cores, unix, status, streams>>

-------------------------------------------------------------------------------
(***************************************************************************)
(* Running the chains.                                                     *)
(***************************************************************************)

\* Chains run in forked processes; else one after another in this one.
Forkable == n_cores > 1 /\ unix

RunningOrDead == {c \in Chain : status[c] \in {"running", "NULL"}} \* mutant: a dead worker's slot is not freed

Running == {c \in Chain : status[c] = "running"}

InOrder(c) == \A d \in Chain : d < c => status[d] # "waiting"

MayStart(c) ==
  /\ status[c] = "waiting"
  /\ InOrder(c)
  /\ IF Forkable THEN Cardinality(Running) < n_cores ELSE Running = {}

Start(c) ==
  /\ pc = "running"
  /\ MayStart(c)
  /\ status' = [status EXCEPT ![c] = "running"]
  /\ UNCHANGED <<given, seeds, n_cores, unix, pc, streams>>

\* The chain builds its next item sampler, seeded seed + k - 1.  set.seed() has
\* refused an NA seed before the first one.
BuildSampler(c) ==
  /\ pc = "running"
  /\ status[c] = "running"
  /\ seeds[c] # NA
  /\ Len(streams[c]) < K
  /\ streams' = [streams EXCEPT ![c] = Append(@, Add(seeds[c], Len(@)))]
  /\ UNCHANGED <<given, seeds, n_cores, unix, pc, status>>

Return(c) ==
  /\ pc = "running"
  /\ status[c] = "running"
  /\ Len(streams[c]) = K
  /\ status' = [status EXCEPT ![c] = "value"]
  /\ UNCHANGED <<given, seeds, n_cores, unix, pc, streams>>

\* An R error inside a chain: caught by mclapply(), but not by lapply().
Raise(c) ==
  /\ pc = "running"
  /\ status[c] = "running"
  /\ status' = [status EXCEPT ![c] = "try-error"]
  /\ pc' = IF Forkable THEN pc ELSE "failed"
  /\ UNCHANGED <<given, seeds, n_cores, unix, streams>>

\* A segfault or an OOM kill inside a chain: the child's result is NULL, or the
\* session itself is gone.
Die(c) ==
  /\ pc = "running"
  /\ status[c] = "running"
  /\ status' = [status EXCEPT ![c] = "NULL"]
  /\ pc' = IF Forkable THEN pc ELSE "crashed"
  /\ UNCHANGED <<given, seeds, n_cores, unix, streams>>

FailedOnError == {c \in Chain : status[c] = "try-error"} \* mutant: NULL is not refused

Failed == {c \in Chain : status[c] \in {"try-error", "NULL"}}

\* Every chain has ended one way or another.
Collect ==
  /\ pc = "running"
  /\ \A c \in Chain : status[c] \notin {"waiting", "running"}
  /\ pc' = IF Failed = {} THEN "returned" ELSE "failed"
  /\ UNCHANGED <<given, seeds, n_cores, unix, status, streams>>

Step(c) == Start(c) \/ BuildSampler(c) \/ Return(c) \/ Raise(c) \/ Die(c)

Next == Validate \/ Collect \/ \E c \in Chain : Step(c)

Spec == Init /\ [][Next]_vars

(***************************************************************************)
(* A started chain goes on until it returns, raises or dies (GibbsChain    *)
(* shows that it does not stop of itself), and the loop that waits for the *)
(* children is not held up.                                                *)
(***************************************************************************)
FairSpec == Spec /\ WF_vars(Next)

-------------------------------------------------------------------------------

TypeOK ==
  /\ given \in BOOLEAN /\ unix \in BOOLEAN
  /\ \E n \in 1 .. MaxChains :
       /\ seeds \in [1 .. n -> Int32 \cup {NA}]
       /\ status \in [1 .. n -> Statuses]
       /\ streams \in [1 .. n -> Seq(Int32 \cup {NA})]
       /\ n_cores \in 1 .. n
  /\ pc \in Places

\* No two chains build samplers on one stream, whether the seeds were chosen or
\* given, and NA counts as a stream ("no two chains share a WALNUTS stream").
StreamsDisjoint ==
  \A c, d \in Chain : c # d =>
    \A a \in DOMAIN streams[c], b \in DOMAIN streams[d] :
      streams[c][a] # streams[d][b]

\* What the caller gets: the result of chain c is the one its seed determines.
Outcome ==
  CASE pc \in {"validate", "running"} -> [kind |-> "pending", fits |-> << >>]
    [] pc = "returned" ->
         [kind |-> "fit",
          fits |-> [c \in Chain |-> IF status[c] = "value" THEN seeds[c] ELSE NA]]
    [] OTHER -> [kind |-> "error", fits |-> << >>]

Promise == INSTANCE AllOrNothing WITH request <- seeds, outcome <- Outcome

\* However chains finish, fail or die, and on however many cores, the caller gets
\* every chain in the order of the seeds or an error: never a partial fit.
ImplementsAllOrNothing == Promise!Spec

\* A call ends, also when workers die: a dead one's slot is used again.
CallEnds == <>(pc \in Ended)
===============================================================================
