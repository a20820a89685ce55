------------------------------ MODULE WalnutsRun ------------------------------
(***************************************************************************)
(* walnuts::walnuts() of walnuts/api.hpp: every chain is adapted in a      *)
(* thread of its own (adapt.hpp), the adapters are turned into samplers,   *)
(* and the samplers are run in threads again (sampler.hpp).  In both       *)
(* phases a controller polls one SpscBuffer per chain, returns when the    *)
(* chains agree or have all run out, or throws on an interrupt; the        *)
(* threads are stopped and joined by the destructors on the way out.       *)
(*                                                                         *)
(* A buffer is what LatestValue says of it: a read yields the snapshot     *)
(* published last or the one read before.  A snapshot is the number of     *)
(* iterations it was taken after.  Whether chains agree, and whether a     *)
(* transition leaves a NaN in an adapter, is floating point: any outcome.  *)
(***************************************************************************)
EXTENDS Integers, Sequences

CONSTANTS
  M,               \* num_chains
  WarmupMin, WarmupMax, Stride,  \* min_iter, max_iter, publish_stride of warmup
  SamplingMin, SamplingMax,      \* min_iter, max_iter of sampling
  SpawnMayFail     \* starting a thread may throw std::system_error

Chain == 1 .. M

ASSUME RunAssumption ==
  /\ M \in Nat \ {0}
  /\ WarmupMin \in Nat /\ WarmupMax \in Nat /\ WarmupMin <= WarmupMax
  /\ SamplingMin \in Nat /\ SamplingMax \in Nat /\ SamplingMin <= SamplingMax
  /\ Stride \in Nat \ {0}
  /\ SpawnMayFail \in BOOLEAN

VARIABLES
  phase,      \* "adapt", "build" (of the samplers) or "sample"
  ctl,        \* what the calling thread does next
  m,          \* the chain its current loop is at
  leaving,    \* how the controller loop ended
  live,       \* how many locals of adapt() or sample() are not yet destroyed
  latch,      \* start_gate's counter
  worker,     \* where each chain's thread is
  done,       \* iterations each thread has carried out in this phase
  stop,       \* threads whose stop token was triggered
  published,  \* the snapshot published last
  seen,       \* the snapshot the controller holds
  num_draws,  \* the controller's sum over the chains polled so far
  poisoned,   \* chains whose adapted step size is NaN
  handler     \* the calls each chain's handler has had

pool == <<live, latch, worker, done, stop, published, seen>>
vars == <<phase, ctl, m, leaving, live, latch, worker, done, stop, published,
          seen, num_draws, poisoned, handler>>

Calls == [warmup : Nat, complete : BOOLEAN, sample : Nat]

MinIter == IF phase = "adapt" THEN WarmupMin ELSE SamplingMin
MaxIter == IF phase = "adapt" THEN WarmupMax ELSE SamplingMax

DeclaredGateLast == <<"buffers", "threads", "start_gate">> \* mutant

\* The locals of adapt() and of sample(), destroyed from last to first.
Declared == <<"buffers", "start_gate", "threads">>

Init ==
  /\ phase = "adapt"
  /\ ctl = "spawn" /\ m = 1 /\ leaving = "no"
  /\ live = Len(Declared)
  /\ latch = M + 1
  /\ worker = [c \in Chain |-> "none"]
  /\ done = [c \in Chain |-> 0]
  /\ stop = {}
  /\ published = [c \in Chain |-> 0]
  /\ seen = [c \in Chain |-> 0]
  /\ num_draws = 0
  /\ poisoned = {}
  /\ handler = [c \in Chain |-> [warmup |-> 0, complete |-> FALSE, sample |-> 0]]

-------------------------------------------------------------------------------
(***************************************************************************)
(* A chain's thread: AdaptWorker or ChainWorker.                           *)
(***************************************************************************)

MoveTo(c, place) == worker' = [worker EXCEPT ![c] = place]

Arrive(c) ==
  /\ worker[c] = "started"
  /\ latch' = latch - 1
  /\ MoveTo(c, "waiting")
  /\ UNCHANGED <<phase, ctl, m, leaving, live, done, stop, published, seen,
                 num_draws, poisoned, handler>>

\* Past the latch an AdaptWorker publishes the snapshot of 0 iterations, which is
\* what the buffer was constructed with.
Pass(c) ==
  /\ worker[c] = "waiting"
  /\ latch = 0
  /\ MoveTo(c, "check")
  /\ UNCHANGED <<phase, ctl, m, leaving, live, latch, done, stop, published,
                 seen, num_draws, poisoned, handler>>

\* The loop condition and the stop token.  An AdaptWorker publishes once more.
Check(c) ==
  /\ worker[c] = "check"
  /\ MoveTo(c, IF done[c] < MaxIter /\ c \notin stop THEN "iterate"
               ELSE IF phase = "adapt" THEN "last" ELSE "exited")
  /\ UNCHANGED <<phase, ctl, m, leaving, live, latch, done, stop, published,
                 seen, num_draws, poisoned, handler>>

PublishDue(n) == phase = "sample" \/ n % Stride = 0

\* One call of the adapter or the sampler, which calls the chain's handler.
Iterate(c) ==
  /\ worker[c] = "iterate"
  /\ done' = [done EXCEPT ![c] = @ + 1]
  /\ MoveTo(c, IF PublishDue(done[c] + 1) THEN "publish" ELSE "check")
  /\ IF phase = "sample"
       THEN /\ handler' = [handler EXCEPT ![c].sample = @ + 1]
            /\ UNCHANGED poisoned
       ELSE /\ handler' = [handler EXCEPT ![c].warmup = @ + 1]
            /\ poisoned' \in {poisoned, poisoned \cup {c}}
  /\ UNCHANGED <<phase, ctl, m, leaving, live, latch, stop, published, seen,
                 num_draws>>

PublishSnapshot(c) ==
  /\ worker[c] = "publish"
  /\ published' = [published EXCEPT ![c] = done[c]]
  /\ MoveTo(c, "check")
  /\ UNCHANGED <<phase, ctl, m, leaving, live, latch, done, stop, seen,
                 num_draws, poisoned, handler>>

PublishNoLast(c) == \* mutant: no publication after the loop
  /\ worker[c] = "last"
  /\ MoveTo(c, "exited")
  /\ UNCHANGED <<phase, ctl, m, leaving, live, latch, done, stop, published,
                 seen, num_draws, poisoned, handler>>

PublishLast(c) ==
  /\ worker[c] = "last"
  /\ published' = [published EXCEPT ![c] = done[c]]
  /\ MoveTo(c, "exited")
  /\ UNCHANGED <<phase, ctl, m, leaving, live, latch, done, stop, seen,
                 num_draws, poisoned, handler>>

-------------------------------------------------------------------------------
(***************************************************************************)
(* The calling thread: adapt() or sample() up to its controller loop.      *)
(***************************************************************************)

Spawn ==
  /\ ctl = "spawn"
  /\ MoveTo(m, "started")
  /\ IF m = M THEN ctl' = "arrive" /\ m' = 1 ELSE ctl' = ctl /\ m' = m + 1
  /\ UNCHANGED <<phase, leaving, live, latch, done, stop, published, seen,
                 num_draws, poisoned, handler>>

SpawnFails ==
  /\ SpawnMayFail
  /\ ctl = "spawn"
  /\ ctl' = "destroy" /\ m' = 1 /\ leaving' = "throw"
  /\ UNCHANGED <<phase, pool, num_draws, poisoned, handler>>

ArriveController ==
  /\ ctl = "arrive"
  /\ latch' = latch - 1
  /\ ctl' = "wait"
  /\ UNCHANGED <<phase, m, leaving, live, worker, done, stop, published, seen,
                 num_draws, poisoned, handler>>

PassController ==
  /\ ctl = "wait"
  /\ latch = 0
  /\ ctl' = "poll" /\ m' = 1 /\ num_draws' = 0
  /\ UNCHANGED <<phase, leaving, pool, poisoned, handler>>

PollLastChain == \* mutant: only the last chain's count decides
  /\ ctl = "poll"
  /\ \E v \in {seen[m], published[m]} :
       /\ seen' = [seen EXCEPT ![m] = v]
       /\ num_draws' = num_draws + v
       /\ IF m = M
            THEN ctl' = (IF v < MinIter THEN "interrupt" ELSE "judge") /\ m' = 1
            ELSE ctl' = ctl /\ m' = m + 1
  /\ UNCHANGED <<phase, leaving, live, latch, worker, done, stop, published,
                 poisoned, handler>>

\* Read the next chain's buffer; a chain short of min_iter ends the round.
Poll ==
  /\ ctl = "poll"
  /\ \E v \in {seen[m], published[m]} :
       /\ seen' = [seen EXCEPT ![m] = v]
       /\ num_draws' = num_draws + v
       /\ IF v < MinIter THEN ctl' = "interrupt" /\ m' = 1
          ELSE IF m = M  THEN ctl' = "judge" /\ m' = 1
                         ELSE ctl' = ctl /\ m' = m + 1
  /\ UNCHANGED <<phase, leaving, live, latch, worker, done, stop, published,
                 poisoned, handler>>

Judge ==
  /\ ctl = "judge"
  /\ \/ /\ leaving' = "converged"
        /\ ctl' = "destroy"
     \/ /\ num_draws = M * MaxIter
        /\ leaving' = "max_iter"
        /\ ctl' = "destroy"
     \/ /\ num_draws # M * MaxIter
        /\ ctl' = "interrupt"
        /\ UNCHANGED leaving
  /\ UNCHANGED <<phase, m, pool, num_draws, poisoned, handler>>

InterruptKeepsCount == \* mutant: num_draws is not reset
  /\ ctl = "interrupt"
  /\ \/ /\ leaving' = "throw"
        /\ ctl' = "destroy"
     \/ /\ UNCHANGED leaving
        /\ ctl' = "poll"
  /\ UNCHANGED <<phase, m, pool, num_draws, poisoned, handler>>

\* throw_if_interrupted(), then the next round.
Interrupt ==
  /\ ctl = "interrupt"
  /\ \/ /\ leaving' = "throw"
        /\ ctl' = "destroy"
     \/ /\ UNCHANGED leaving
        /\ ctl' = "poll"
  /\ num_draws' = 0
  /\ UNCHANGED <<phase, m, pool, poisoned, handler>>

-------------------------------------------------------------------------------
(***************************************************************************)
(* Leaving adapt() or sample(): the locals are destroyed from last to      *)
(* first.  Destroying the threads is, for one after the other, to request  *)
(* a stop and to join.                                                     *)
(***************************************************************************)

ThreadsNext == live > 0 /\ Declared[live] = "threads"

\* Destroying a latch or a buffer that a thread still uses is the code's to avoid.
Destroy ==
  /\ ctl = "destroy"
  /\ live > 0 /\ ~ThreadsNext
  /\ live' = live - 1
  /\ UNCHANGED <<phase, ctl, m, leaving, latch, worker, done, stop, published,
                 seen, num_draws, poisoned, handler>>

RequestStop ==
  /\ ctl = "destroy"
  /\ ThreadsNext
  /\ IF worker[m] = "none"
       THEN /\ live' = live - 1
            /\ m' = 1
            /\ UNCHANGED <<ctl, stop>>
       ELSE /\ stop' = stop \cup {m}
            /\ ctl' = "join"
            /\ UNCHANGED <<live, m>>
  /\ UNCHANGED <<phase, leaving, latch, worker, done, published, seen,
                 num_draws, poisoned, handler>>

JoinDetached == \* mutant: the thread is detached
  /\ ctl = "join"
  /\ ctl' = "destroy"
  /\ IF m = M THEN m' = 1 /\ live' = live - 1
              ELSE m' = m + 1 /\ UNCHANGED live
  /\ UNCHANGED <<phase, leaving, latch, worker, done, stop, published, seen,
                 num_draws, poisoned, handler>>

Join ==
  /\ ctl = "join"
  /\ worker[m] = "exited"
  /\ ctl' = "destroy"
  /\ IF m = M THEN m' = 1 /\ live' = live - 1
              ELSE m' = m + 1 /\ UNCHANGED live
  /\ UNCHANGED <<phase, leaving, latch, worker, done, stop, published, seen,
                 num_draws, poisoned, handler>>

Leave ==
  /\ ctl = "destroy"
  /\ live = 0
  /\ IF leaving # "throw" /\ phase = "adapt"
       THEN ctl' = "build" /\ phase' = "build"
       ELSE /\ ctl' = IF leaving = "throw" THEN "threw" ELSE "returned"
            /\ UNCHANGED phase
  /\ UNCHANGED <<m, leaving, pool, num_draws, poisoned, handler>>

BuildSamplerUnchecked == \* mutant: a NaN step size is not refused
  /\ ctl = "build"
  /\ handler' = [handler EXCEPT ![m].complete = TRUE]
  /\ IF m < M THEN m' = m + 1 /\ UNCHANGED ctl ELSE m' = 1 /\ ctl' = "begin"
  /\ UNCHANGED <<phase, leaving, pool, num_draws, poisoned>>

\* adapters[n].sampler(): the handler hears that warmup is complete, then the
\* constructor refuses a NaN step size.
BuildSampler ==
  /\ ctl = "build"
  /\ handler' = [handler EXCEPT ![m].complete = TRUE]
  /\ IF m \in poisoned THEN ctl' = "threw" /\ UNCHANGED m
     ELSE IF m < M THEN m' = m + 1 /\ UNCHANGED ctl
                   ELSE m' = 1 /\ ctl' = "begin"
  /\ UNCHANGED <<phase, leaving, pool, num_draws, poisoned>>

BeginSampling ==
  /\ ctl = "begin"
  /\ phase' = "sample" /\ ctl' = "spawn" /\ leaving' = "no"
  /\ live' = Len(Declared)
  /\ latch' = M + 1
  /\ worker' = [c \in Chain |-> "none"]
  /\ done' = [c \in Chain |-> 0]
  /\ stop' = {}
  /\ published' = [c \in Chain |-> 0]
  /\ seen' = [c \in Chain |-> 0]
  /\ UNCHANGED <<m, num_draws, poisoned, handler>>

-------------------------------------------------------------------------------

Thread(c) ==
  \/ Arrive(c) \/ Pass(c) \/ Check(c) \/ Iterate(c)
  \/ PublishSnapshot(c) \/ PublishLast(c)

Controller ==
  \/ Spawn \/ SpawnFails \/ ArriveController \/ PassController
  \/ Poll \/ Judge \/ Interrupt
  \/ Destroy \/ RequestStop \/ Join \/ Leave
  \/ BuildSampler \/ BeginSampling

Next == Controller \/ \E c \in Chain : Thread(c)

Spec == Init /\ [][Next]_vars

(***************************************************************************)
(* Every thread is scheduled.  A store to an atomic becomes visible in     *)
(* finite time, so a chain polled for ever is seen to have published.      *)
(***************************************************************************)
SeesPublication(c) == Poll /\ m = c /\ seen'[c] = published[c]

FairSpec ==
  /\ Spec
  /\ WF_vars(Controller)
  /\ \A c \in Chain : WF_vars(Thread(c)) /\ SF_vars(SeesPublication(c))

-------------------------------------------------------------------------------

Inside  == {"started", "waiting", "check", "iterate", "publish", "last"}
Places  == {"none", "exited"} \cup Inside

\* No thread outlives what it holds references to: the latch and the buffers of
\* adapt() and sample() are destroyed after the threads were joined.
NoDanglingAccess ==
  \A c \in Chain : worker[c] \in Inside =>
    {"buffers", "start_gate"} \subseteq {Declared[n] : n \in 1 .. live}

\* A handler, which is the caller's and not synchronised, hears warmup draws,
\* then once that warmup is complete, then kept draws, and it is only called from
\* the chain's thread or after it was joined.
HandlerOrder ==
  [][\A c \in Chain :
       LET h == handler[c]  g == handler'[c]
       IN  /\ g.warmup # h.warmup => ~h.complete /\ h.sample = 0
           /\ g.sample # h.sample => \A d \in Chain : handler[d].complete
           /\ g.complete # h.complete => worker[c] = "exited"]_vars

\* The controller judges snapshots, not threads, and they lag behind; still, when
\* it leaves, every chain has really done min_iter, and when it leaves because
\* the counts add up every chain has really done max_iter.
LeavesWhenEnough ==
  ctl = "destroy" =>
    /\ leaving \in {"converged", "max_iter"} => \A c \in Chain : done[c] >= MinIter
    /\ leaving = "max_iter" => \A c \in Chain : done[c] = MaxIter

\* What a caller of walnuts() may rely on when it returns.
ReturnsComplete ==
  ctl = "returned" =>
    /\ poisoned = {}
    /\ \A c \in Chain : /\ handler[c].complete
                        /\ handler[c].warmup >= WarmupMin
                        /\ handler[c].sample >= SamplingMin

\* A thread could not be started and those before it are left at the latch.
Stranded ==
  /\ leaving = "throw" /\ latch > 0
  /\ \E c \in Chain : worker[c] # "none"

\* Both phases end, whether or not chains ever agree, unless starting a thread
\* fails after another was started (StopIsObeyed below); in particular the counts
\* the controller waits for are all published in the end.
CallEnds == <>(ctl \in {"returned", "threw"} \/ Stranded)


-------------------------------------------------------------------------------

\* sampler.hpp:71 "The operator returns if a stop is requested", and
\* adapt.hpp:103 "Adaptation terminates when the maximum number of iterations is
\* hit or a stop is requested through the stop token".
StopIsObeyed == \A c \in Chain : c \in stop ~> worker[c] = "exited"
===============================================================================
