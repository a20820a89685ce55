---------------------------- MODULE Threads_proofs ----------------------------
(***************************************************************************)
(* What holds of the threads of walnuts() for every number of chains, and  *)
(* of the buffer they talk through for every width of its values.          *)
(*                                                                         *)
(* The triple buffer keeps its three slots apart, never tears a value and  *)
(* implements LatestValue.                                                 *)
(*                                                                         *)
(* walnuts() joins its threads before it destroys what they use, and calls *)
(* each handler in the order it documents, never from two threads at once. *)
(* Both follow from one fact about the calling thread: where it is tells   *)
(* which chains have a thread that may still be running.  The second part  *)
(* is about counts: a return comes after every chain has done enough.      *)
(***************************************************************************)
EXTENDS SpscBuffer, WalnutsRun, TLAPS

-------------------------------------------------------------------------------
(***************************************************************************)
(* The triple buffer.                                                      *)
(***************************************************************************)

\* What each owner's slot holds: the consumer's is whole and not from the
\* future, the one on offer is the latest, the producer's is the next in part.
SlotContents ==
  /\ \A w \in Word : slots[front][w] = slots[front][1]
  /\ slots[front][1] <= latest
  /\ is_dirty(middle) => \A w \in Word : slots[index_of(middle)][w] = latest
  /\ \A w \in Word \ toWrite : slots[back][w] = latest + 1
  /\ toWrite # Word => latest < MaxPublish

\* Only the consumer cleans the word, so the bit it saw is still there when it
\* exchanges; and its copy agrees with its slot.
ReaderKnows ==
  /\ reading = "exchange" => is_dirty(middle) /\ toCopy = Word
  /\ reading = "copy" => \A w \in Word \ toCopy : got[w] = slots[front][w]

SpscIInv == TypeOK /\ SlotsOwned /\ SlotContents /\ ReaderKnows

\* Packing an index and unpacking it again loses nothing, and the dirty bit
\* cannot be confused with an index.
LEMMA PackedWord ==
  \A b \in Slot : /\ ~is_dirty(b) /\ index_of(b) = b
                  /\ is_dirty(make_dirty(b)) /\ index_of(make_dirty(b)) = b
BY SpscAssumption DEF Slot, is_dirty, index_of, make_dirty

LEMMA OneIsAWord == 1 \in Word
BY SpscAssumption DEF Word

LEMMA InitSpscIInv == SpscInit => SpscIInv
BY SpscAssumption, PackedWord, OneIsAWord
   DEF SpscInit, SpscIInv, TypeOK, SlotsOwned, SlotContents, ReaderKnows, Slot, Word,
       is_dirty, index_of, make_dirty

LEMMA WriteWordStep ==
  ASSUME SpscIInv, NEW w \in Word, WriteWord(w) PROVE SpscIInv'
<1> USE SpscAssumption, OneIsAWord
    DEF SpscIInv, TypeOK, SlotsOwned, SlotContents, ReaderKnows, WriteWord
<1>1. slots' \in [Slot -> [Word -> Nat]]
  OBVIOUS
<1>2. \A b \in Slot : b # back => slots'[b] = slots[b]
  OBVIOUS
<1>3. \A v \in Word : slots'[back][v] = IF v = w THEN latest + 1 ELSE slots[back][v]
  OBVIOUS
<1>4. index_of(middle) \in Slot
  BY PackedWord
<1> QED
  BY <1>1, <1>2, <1>3, <1>4 DEF index_of, is_dirty, make_dirty

LEMMA PublishStep == ASSUME SpscIInv, Publish PROVE SpscIInv'
<1> USE SpscAssumption, OneIsAWord
    DEF SpscIInv, TypeOK, SlotsOwned, SlotContents, ReaderKnows, Publish
<1>1. index_of(middle) \in Slot
  BY PackedWord
<1>2. index_of(middle') = back /\ is_dirty(middle')
  BY PackedWord
<1>3. toWrite # Word
  OBVIOUS
<1>4. TypeOK'
  BY <1>1, <1>3
<1>5. SlotsOwned'
  BY <1>1, <1>2
<1>6. SlotContents'
  BY <1>2
<1>7. ReaderKnows'
  BY <1>2
<1> QED
  BY <1>4, <1>5, <1>6, <1>7

LEMMA ExchangeStep == ASSUME SpscIInv, Exchange PROVE SpscIInv'
<1> USE SpscAssumption, OneIsAWord
    DEF SpscIInv, TypeOK, SlotsOwned, SlotContents, ReaderKnows, Exchange
<1>1. index_of(middle) \in Slot /\ index_of(middle') = front /\ ~is_dirty(middle')
  BY PackedWord
<1>2. TypeOK'
  BY <1>1
<1>3. SlotsOwned'
  BY <1>1
<1>4. SlotContents'
  BY <1>1
<1>5. ReaderKnows'
  BY <1>1
<1> QED
  BY <1>2, <1>3, <1>4, <1>5

LEMMA NextSpscIInv == SpscIInv /\ [SpscNext]_spscVars => SpscIInv'
<1> SUFFICES ASSUME SpscIInv, [SpscNext]_spscVars PROVE SpscIInv'
  OBVIOUS
<1> USE DEF SpscIInv, TypeOK, SlotsOwned, SlotContents, ReaderKnows
<1>1. CASE \E w \in Word : WriteWord(w)
  BY <1>1, WriteWordStep
<1>2. CASE Publish
  BY <1>2, PublishStep
<1>3. CASE LoadDirty
  BY <1>3 DEF LoadDirty, is_dirty, index_of, make_dirty
<1>4. CASE LoadClean
  BY <1>4 DEF LoadClean, is_dirty, index_of, make_dirty
<1>5. CASE Exchange
  BY <1>5, ExchangeStep
<1>6. ASSUME NEW w \in Word, CopyWord(w) PROVE SpscIInv'
  BY <1>6 DEF CopyWord, is_dirty, index_of, make_dirty
<1>7. CASE EndRead
  BY <1>7 DEF EndRead, is_dirty, index_of, make_dirty
<1>8. CASE UNCHANGED spscVars
  BY <1>8 DEF spscVars, is_dirty, index_of, make_dirty
<1> QED
  BY <1>1, <1>2, <1>3, <1>4, <1>5, <1>6, <1>7, <1>8 DEF SpscNext, Producer, Consumer

THEOREM SpscInvHolds == SpscSpec => []SpscIInv
BY InitSpscIInv, NextSpscIInv, PTL DEF SpscSpec

-------------------------------------------------------------------------------

\* The buffer's state keeps its type.
THEOREM BufferTypeCorrect == SpscSpec => []TypeOK
<1>1. SpscIInv => TypeOK
  BY DEF SpscIInv
<1> QED
  BY <1>1, SpscInvHolds, PTL

\* Producer and consumer never own the same slot, nor the one on offer.
THEOREM SlotsStayOwned == SpscSpec => []SlotsOwned
<1>1. SpscIInv => SlotsOwned
  BY DEF SpscIInv
<1> QED
  BY <1>1, SpscInvHolds, PTL

\* What the consumer copied out is one published value, whole.
THEOREM NeverTorn == SpscSpec => []NoTornRead
<1>1. SpscIInv => NoTornRead
  <2> SUFFICES ASSUME SpscIInv, reading = "copy", toCopy = {}
               PROVE  \E v \in 0 .. latest : \A w \in Word : got[w] = v
    BY DEF NoTornRead
  <2>1. slots[front][1] \in 0 .. latest
    BY OneIsAWord DEF SpscIInv, TypeOK, SlotContents
  <2>2. \A w \in Word : got[w] = slots[front][1]
    BY DEF SpscIInv, SlotContents, ReaderKnows
  <2> QED
    BY <2>1, <2>2
<1> QED
  BY <1>1, SpscInvHolds, PTL

\* The triple buffer implements LatestValue: an exchange takes the value that was
\* published last, and no other step changes what the consumer holds.
THEOREM BufferIsLatestValue == SpscSpec => ImplementsLatestValue
<1>1. SpscInit => Buffer!Init
  BY OneIsAWord DEF SpscInit, Buffer!Init, Slot
<1>2. ASSUME SpscIInv, [SpscNext]_spscVars
      PROVE  [Buffer!Publish \/ Buffer!Take]_(Buffer!absVars)
  <2> USE OneIsAWord
      DEF Buffer!Publish, Buffer!Take, Buffer!absVars
  <2>1. ASSUME NEW w \in Word, WriteWord(w) PROVE UNCHANGED Buffer!absVars
    BY <1>2, <2>1 DEF WriteWord, SpscIInv, TypeOK, SlotsOwned
  <2>2. CASE Publish
    BY <2>2 DEF Publish
  <2>3. CASE Exchange
    <3>1. index_of(middle) \in Slot /\ is_dirty(middle)
      BY <1>2, <2>3, PackedWord DEF SpscIInv, TypeOK, ReaderKnows, Exchange
    <3>2. slots[index_of(middle)][1] = latest
      BY <1>2, <3>1 DEF SpscIInv, SlotContents
    <3> QED
      BY <2>3, <3>2 DEF Exchange
  <2>4. CASE LoadDirty \/ LoadClean \/ EndRead \/ \E w \in Word : CopyWord(w)
    BY <2>4 DEF LoadDirty, LoadClean, EndRead, CopyWord
  <2>5. CASE UNCHANGED spscVars
    BY <2>5 DEF spscVars
  <2> QED
    BY <1>2, <2>1, <2>2, <2>3, <2>4, <2>5 DEF SpscNext, Producer, Consumer
<1> QED
  BY <1>1, <1>2, SpscInvHolds, PTL DEF SpscSpec, ImplementsLatestValue, Buffer!Spec

-------------------------------------------------------------------------------
(***************************************************************************)
(* The threads.                                                            *)
(***************************************************************************)

Polling == {"arrive", "wait", "poll", "judge", "interrupt"}
Outside == {"build", "begin", "returned", "threw"}

\* The part of TypeOK the argument needs.
ControlTyped ==
  /\ phase \in {"adapt", "build", "sample"}
  /\ ctl \in {"spawn", "destroy", "join"} \cup Polling \cup Outside
  /\ m \in Chain
  /\ ctl \in {"judge", "interrupt", "begin"} => m = 1
  /\ leaving \in {"no", "converged", "max_iter", "throw"}
  /\ live \in 0 .. 3
  /\ worker \in [Chain -> Places]
  /\ handler \in [Chain -> Calls]

\* Threads are started in the order of the chains, so that the chains without one
\* are the last ones, and there are such chains only if starting one failed.
StartedInOrder ==
  /\ ctl = "spawn" => \A c \in Chain : worker[c] = "none" <=> c >= m
  /\ \A c, d \in Chain : worker[c] = "none" /\ c < d => worker[d] = "none"
  /\ ctl \in {"destroy", "join"} /\ leaving # "throw" =>
       \A c \in Chain : worker[c] # "none"
  /\ ctl \in Polling \cup {"build"} => \A c \in Chain : worker[c] # "none"
  /\ ctl = "join" => worker[m] # "none"

\* The locals are all there until the destructors run, and as long as the threads
\* are among them only the chains before m are known to have been joined.
JoinedBehind ==
  /\ ctl \in Polling \cup {"spawn", "join"} => live = 3
  /\ ctl = "destroy" /\ live = 3 =>
       \A c \in Chain : c < m => worker[c] \notin Inside
  /\ ctl = "join" => \A c \in Chain : c < m => worker[c] \notin Inside
  /\ live < 3 => \A c \in Chain : worker[c] \notin Inside
  /\ ctl \in Outside => live = 0
  /\ ctl = "destroy" /\ live < 3 => m = 1

\* Which handlers have heard that warmup is complete.
HandlersInPhase ==
  /\ phase = "adapt" => \A c \in Chain : ~handler[c].complete
  /\ \A c \in Chain : ~handler[c].complete => handler[c].sample = 0
  /\ ctl = "build" => \A c \in Chain : handler[c].complete <=> c < m
  /\ ctl = "begin" \/ phase = "sample" => \A c \in Chain : handler[c].complete
  /\ ctl \in {"build", "begin"} => leaving # "throw"
  /\ phase = "build" <=> ctl \in {"build", "begin"} \/
                         (ctl = "threw" /\ leaving # "throw")

IInv == ControlTyped /\ StartedInOrder /\ JoinedBehind /\ HandlersInPhase

-------------------------------------------------------------------------------

LEMMA InitIInv == Init => IInv
<1> SUFFICES ASSUME Init PROVE IInv
  OBVIOUS
<1> USE RunAssumption DEF Init
<1>1. ControlTyped
  BY DEF ControlTyped, Chain, Places, Calls, Declared
<1>2. StartedInOrder
  BY DEF StartedInOrder, Chain, Polling
<1>3. JoinedBehind
  BY DEF JoinedBehind, Chain, Polling, Outside, Inside, Declared
<1>4. HandlersInPhase
  BY DEF HandlersInPhase, Chain
<1> QED
  BY <1>1, <1>2, <1>3, <1>4 DEF IInv

\* What any step of a chain's thread does to the calling thread's picture of it:
\* a thread that was inside moves to a place that is not "none".
LEMMA ThreadMoves ==
  ASSUME NEW c \in Chain, Thread(c)
  PROVE  /\ worker[c] \in Inside
         /\ \E place \in Inside \cup {"exited"} :
              worker' = [worker EXCEPT ![c] = place]
         /\ UNCHANGED <<phase, ctl, m, leaving, live>>
<1> USE DEF MoveTo, Inside
<1>1. CASE Arrive(c)
  BY <1>1 DEF Arrive
<1>2. CASE Pass(c)
  BY <1>2 DEF Pass
<1>3. CASE Check(c)
  BY <1>3 DEF Check
<1>4. CASE Iterate(c)
  BY <1>4 DEF Iterate
<1>5. CASE PublishSnapshot(c)
  BY <1>5 DEF PublishSnapshot
<1>6. CASE PublishLast(c)
  BY <1>6 DEF PublishLast
<1> QED
  BY <1>1, <1>2, <1>3, <1>4, <1>5, <1>6 DEF Thread

\* Only Iterate calls a handler, and only its own chain's: a warmup draw before
\* sampling, a kept draw while sampling.
LEMMA ThreadCalls ==
  ASSUME NEW c \in Chain, Thread(c), ControlTyped
  PROVE  \/ handler' = handler
         \/ /\ phase = "sample"
            /\ handler' = [handler EXCEPT ![c].sample = @ + 1]
         \/ /\ phase # "sample"
            /\ handler' = [handler EXCEPT ![c].warmup = @ + 1]
BY DEF Thread, Arrive, Pass, Check, Iterate, PublishSnapshot, PublishLast

\* While a thread is inside, the calling thread is not building samplers.
LEMMA InsideMeansRunning ==
  ASSUME IInv, NEW c \in Chain, worker[c] \in Inside
  PROVE  live = 3 /\ ctl \notin Outside /\ phase # "build"
BY DEF IInv, ControlTyped, JoinedBehind, HandlersInPhase, Outside

LEMMA ThreadStep ==
  ASSUME IInv, NEW c \in Chain, Thread(c) PROVE IInv'
<1>1. PICK place \in Inside \cup {"exited"} :
        worker' = [worker EXCEPT ![c] = place]
  BY ThreadMoves
<1>2. worker[c] \in Inside /\ UNCHANGED <<phase, ctl, m, leaving, live>>
  BY ThreadMoves
<1>3. live = 3 /\ ctl \notin Outside /\ phase # "build"
  BY <1>2, InsideMeansRunning
<1>4. \A d \in Chain : worker'[d] = IF d = c THEN place ELSE worker[d]
  BY <1>1 DEF IInv, ControlTyped
<1>5. \A d \in Chain : worker'[d] = "none" <=> worker[d] = "none"
  BY <1>2, <1>4 DEF Inside
<1>6. \A d \in Chain : worker'[d] \in Inside => worker[d] \in Inside
  BY <1>2, <1>4
<1>7. \A d \in Chain : handler'[d].complete = handler[d].complete
  BY ThreadCalls DEF IInv, ControlTyped, Calls
<1>8. phase # "sample" => \A d \in Chain : handler'[d].sample = handler[d].sample
  BY ThreadCalls DEF IInv, ControlTyped, Calls
<1>9. ControlTyped'
  <2>1. handler' \in [Chain -> Calls]
    BY ThreadCalls DEF IInv, ControlTyped, Calls
  <2>2. worker' \in [Chain -> Places]
    BY <1>1 DEF IInv, ControlTyped, Places
  <2> QED
    BY <1>2, <2>1, <2>2 DEF IInv, ControlTyped
<1>10. StartedInOrder'
  <2>1. m \in Chain
    BY DEF IInv, ControlTyped
  <2> QED
    BY <1>2, <1>5, <2>1 DEF IInv, StartedInOrder
<1>11. JoinedBehind'
  BY <1>2, <1>3, <1>6 DEF IInv, JoinedBehind
<1>12. HandlersInPhase'
  BY <1>2, <1>3, <1>7, <1>8 DEF IInv, HandlersInPhase
<1> QED
  BY <1>9, <1>10, <1>11, <1>12 DEF IInv

-------------------------------------------------------------------------------

LEMMA SpawnStep == ASSUME IInv, Spawn PROVE IInv'
<1> USE RunAssumption DEF IInv, Spawn, MoveTo
<1>1. /\ ctl = "spawn" /\ phase # "build" /\ live = 3
      /\ m \in Chain /\ UNCHANGED <<phase, leaving, live, handler>>
  BY DEF ControlTyped, JoinedBehind, HandlersInPhase
<1>2. \A c \in Chain : worker'[c] = IF c = m THEN "started" ELSE worker[c]
  BY DEF ControlTyped
<1>3. \A c \in Chain : worker'[c] = "none" <=> c > m
  BY <1>1, <1>2 DEF StartedInOrder, Chain
<1>4. ControlTyped'
  BY <1>1 DEF ControlTyped, Chain, Places, Inside, Polling
<1>5. StartedInOrder'
  BY <1>1, <1>3 DEF StartedInOrder, Chain, Polling
<1>6. JoinedBehind'
  BY <1>1 DEF JoinedBehind, Polling, Outside
<1>7. HandlersInPhase'
  BY <1>1 DEF HandlersInPhase
<1> QED
  BY <1>4, <1>5, <1>6, <1>7

LEMMA SpawnFailsStep == ASSUME IInv, SpawnFails PROVE IInv'
<1> USE RunAssumption DEF IInv, SpawnFails, pool
<1>1. ControlTyped'
  BY DEF ControlTyped, Chain
<1>2. StartedInOrder'
  BY DEF ControlTyped, StartedInOrder, Polling
<1>3. JoinedBehind'
  BY DEF JoinedBehind, Polling, Outside, Chain
<1>4. HandlersInPhase'
  BY DEF HandlersInPhase
<1> QED
  BY <1>1, <1>2, <1>3, <1>4

\* The steps of the calling thread between the last spawn and the destructors
\* leave everything alone that the invariant is about.
LEMMA PollingStep ==
  ASSUME IInv, ArriveController \/ PassController \/ Poll \/ Judge \/ Interrupt
  PROVE  IInv'
<1> USE RunAssumption DEF IInv, Polling
<1>1. /\ ctl \in Polling /\ ctl' \in Polling \cup {"destroy"} /\ m' \in Chain
      /\ ctl' \in {"destroy", "judge", "interrupt"} => m' = 1
      /\ leaving' \in {"no", "converged", "max_iter", "throw"}
      /\ UNCHANGED <<phase, live, worker, handler>>
  <2>1. 1 \in Chain /\ m \in Chain /\ (m # M => m + 1 \in Chain)
    BY DEF ControlTyped, Chain
  <2>2. CASE ArriveController
    BY <2>1, <2>2 DEF ArriveController, ControlTyped
  <2>3. CASE PassController
    BY <2>1, <2>3 DEF PassController, ControlTyped, pool
  <2>4. CASE Poll
    BY <2>1, <2>4 DEF Poll, ControlTyped
  <2>5. CASE Judge
    BY <2>1, <2>5 DEF Judge, ControlTyped, pool
  <2>6. CASE Interrupt
    BY <2>1, <2>6 DEF Interrupt, ControlTyped, pool
  <2> QED
    BY <2>2, <2>3, <2>4, <2>5, <2>6
<1>2. ControlTyped'
  BY <1>1 DEF ControlTyped
<1>3. StartedInOrder'
  BY <1>1 DEF StartedInOrder
<1>4. JoinedBehind'
  BY <1>1 DEF JoinedBehind, Outside, Chain
<1>5. HandlersInPhase'
  BY <1>1 DEF HandlersInPhase
<1> QED
  BY <1>2, <1>3, <1>4, <1>5

\* Only the threads are destroyed while any of them may be running.
LEMMA ThreadsGoFirst ==
  ASSUME IInv
  PROVE  /\ ThreadsNext <=> live = 3
         /\ live < 3 => \A c \in Chain : worker[c] \notin Inside
BY DEF IInv, ControlTyped, JoinedBehind, ThreadsNext, Declared

LEMMA DestroyStep == ASSUME IInv, Destroy PROVE IInv'
<1> USE ThreadsGoFirst DEF IInv, Destroy
<1>1. live \in 0 .. 2 /\ live' \in 0 .. 2
  BY DEF ControlTyped
<1>2. ControlTyped'
  BY <1>1 DEF ControlTyped
<1>3. StartedInOrder'
  BY DEF StartedInOrder
<1>4. JoinedBehind'
  BY <1>1 DEF JoinedBehind, Polling, Outside
<1>5. HandlersInPhase'
  BY DEF HandlersInPhase
<1> QED
  BY <1>2, <1>3, <1>4, <1>5

LEMMA RequestStopStep == ASSUME IInv, RequestStop PROVE IInv'
<1> USE RunAssumption, ThreadsGoFirst DEF IInv, RequestStop
<1>1. live = 3 /\ m \in Chain
  BY DEF ControlTyped
<1>2. CASE worker[m] = "none"
  <2>1. \A c \in Chain : worker[c] \notin Inside
    <3> SUFFICES ASSUME NEW c \in Chain PROVE worker[c] \notin Inside
      OBVIOUS
    <3>1. c < m \/ c = m \/ m < c
      BY <1>1 DEF Chain
    <3>2. c >= m => worker[c] = "none"
      BY <1>1, <1>2 DEF StartedInOrder, Chain
    <3>3. c < m => worker[c] \notin Inside
      BY <1>1 DEF JoinedBehind
    <3> QED
      BY <1>1, <3>2, <3>3 DEF Inside, Chain
  <2>2. ControlTyped'
    BY <1>1, <1>2 DEF ControlTyped, Chain
  <2>3. StartedInOrder'
    BY <1>2 DEF StartedInOrder
  <2>4. JoinedBehind'
    BY <1>1, <1>2, <2>1 DEF JoinedBehind, Polling, Outside
  <2>5. HandlersInPhase'
    BY <1>2 DEF HandlersInPhase
  <2> QED
    BY <2>2, <2>3, <2>4, <2>5
<1>3. CASE worker[m] # "none"
  <2>1. ControlTyped'
    BY <1>1, <1>3 DEF ControlTyped
  <2>2. StartedInOrder'
    BY <1>3 DEF StartedInOrder, Polling
  <2>3. JoinedBehind'
    BY <1>1, <1>3 DEF JoinedBehind, Polling, Outside
  <2>4. HandlersInPhase'
    BY <1>3 DEF HandlersInPhase
  <2> QED
    BY <2>1, <2>2, <2>3, <2>4
<1> QED
  BY <1>2, <1>3

LEMMA JoinStep == ASSUME IInv, Join PROVE IInv'
<1> USE RunAssumption DEF IInv, Join
<1>1. /\ live = 3 /\ m \in Chain /\ UNCHANGED <<phase, leaving, worker, handler>>
      /\ \A c \in Chain : c <= m => worker[c] \notin Inside
  BY DEF ControlTyped, JoinedBehind, Chain, Inside
<1>2. ControlTyped'
  BY <1>1 DEF ControlTyped, Chain
<1>3. StartedInOrder'
  BY <1>1 DEF StartedInOrder, Polling
<1>4. JoinedBehind'
  BY <1>1 DEF JoinedBehind, Polling, Outside, Chain
<1>5. HandlersInPhase'
  BY <1>1 DEF HandlersInPhase
<1> QED
  BY <1>2, <1>3, <1>4, <1>5

LEMMA LeaveStep == ASSUME IInv, Leave PROVE IInv'
<1> USE RunAssumption DEF IInv, Leave, pool
<1>1. m = 1 /\ m \in Chain /\ live = 0 /\ phase \in {"adapt", "sample"}
  BY DEF ControlTyped, JoinedBehind, HandlersInPhase
<1>2. /\ ctl' \in {"threw", "returned", "build"}
      /\ ctl' = "build" <=> leaving # "throw" /\ phase = "adapt"
      /\ phase' = IF ctl' = "build" THEN "build" ELSE phase
      /\ ctl' = "threw" <=> leaving = "throw"
  BY <1>1
<1>3. ControlTyped'
  BY <1>1, <1>2 DEF ControlTyped, Outside
<1>4. StartedInOrder'
  BY <1>1, <1>2 DEF StartedInOrder, Polling
<1>5. JoinedBehind'
  BY <1>1, <1>2 DEF JoinedBehind, Polling
<1>6. HandlersInPhase'
  BY <1>1, <1>2 DEF HandlersInPhase, Chain
<1> QED
  BY <1>3, <1>4, <1>5, <1>6

LEMMA BuildSamplerStep == ASSUME IInv, BuildSampler PROVE IInv'
<1> USE RunAssumption DEF IInv, BuildSampler, pool
<1>1. /\ phase = "build" /\ leaving # "throw" /\ live = 0 /\ m \in Chain
      /\ \A c \in Chain : worker[c] # "none"
      /\ UNCHANGED <<phase, leaving, live, worker>>
  BY DEF ControlTyped, StartedInOrder, JoinedBehind, HandlersInPhase, Outside
<1>2. /\ ctl' \in {"threw", "build", "begin"} /\ m' \in Chain
      /\ ctl' = "build" => m' = m + 1
      /\ ctl' = "begin" => m = M
  BY <1>1 DEF Chain
<1>3. \A c \in Chain :
        /\ handler'[c].complete <=> (c = m \/ handler[c].complete)
        /\ handler'[c].sample = handler[c].sample
  BY <1>1 DEF ControlTyped, Calls
<1>4. ControlTyped'
  BY <1>1, <1>2 DEF ControlTyped, Calls, Outside
<1>5. StartedInOrder'
  BY <1>1, <1>2 DEF StartedInOrder, Polling
<1>6. JoinedBehind'
  BY <1>1, <1>2 DEF JoinedBehind, Polling, Outside
<1>7. HandlersInPhase'
  <2>1. ctl' = "build" => \A c \in Chain : handler'[c].complete <=> c < m'
    BY <1>1, <1>2, <1>3 DEF HandlersInPhase, Chain
  <2>2. ctl' = "begin" => \A c \in Chain : handler'[c].complete
    BY <1>1, <1>2, <1>3 DEF HandlersInPhase, Chain
  <2>3. \A c \in Chain : ~handler'[c].complete => handler'[c].sample = 0
    BY <1>3 DEF HandlersInPhase
  <2> QED
    BY <1>1, <1>2, <2>1, <2>2, <2>3 DEF HandlersInPhase
<1> QED
  BY <1>4, <1>5, <1>6, <1>7

LEMMA BeginSamplingStep == ASSUME IInv, BeginSampling PROVE IInv'
<1> USE RunAssumption DEF IInv, BeginSampling
<1>1. \A c \in Chain : handler[c].complete
  BY DEF HandlersInPhase
<1>2. m \in Chain
  BY DEF ControlTyped
<1>3. ControlTyped'
  BY <1>2 DEF ControlTyped, Places, Declared
<1>4. m = 1
  BY DEF ControlTyped
<1>5. StartedInOrder'
  BY <1>4 DEF StartedInOrder, Polling, Chain
<1>6. JoinedBehind'
  BY DEF JoinedBehind, Polling, Outside, Inside, Declared
<1>7. HandlersInPhase'
  BY <1>1 DEF HandlersInPhase
<1> QED
  BY <1>3, <1>5, <1>6, <1>7

LEMMA NextIInv == IInv /\ [Next]_vars => IInv'
<1> SUFFICES ASSUME IInv, [Next]_vars PROVE IInv'
  OBVIOUS
<1>1. CASE \E c \in Chain : Thread(c)
  BY <1>1, ThreadStep
<1>2. CASE Controller
  BY <1>2, SpawnStep, SpawnFailsStep, PollingStep, DestroyStep, RequestStopStep,
     JoinStep, LeaveStep, BuildSamplerStep, BeginSamplingStep DEF Controller
<1>3. CASE UNCHANGED vars
  BY <1>3 DEF vars, IInv, ControlTyped, StartedInOrder, JoinedBehind,
              HandlersInPhase
<1> QED
  BY <1>1, <1>2, <1>3 DEF Next

THEOREM InvHolds == Spec => []IInv
BY InitIInv, NextIInv, PTL DEF Spec

-------------------------------------------------------------------------------

\* No thread uses the latch or a buffer after it was destroyed, whether adapt() or
\* sample() returns, is interrupted, or fails to start a thread.
THEOREM NothingDangles == Spec => []NoDanglingAccess
<1>1. IInv => NoDanglingAccess
  <2> SUFFICES ASSUME IInv, NEW c \in Chain, worker[c] \in Inside
               PROVE  {"buffers", "start_gate"} \subseteq
                        {Declared[n] : n \in 1 .. live}
    BY DEF NoDanglingAccess
  <2>1. live = 3
    BY InsideMeansRunning
  <2>2. Declared[1] = "buffers" /\ Declared[2] = "start_gate"
    BY DEF Declared
  <2> QED
    BY <2>1, <2>2
<1> QED
  BY <1>1, InvHolds, PTL

\* Every handler hears warmup draws, then completion, then kept draws; completion
\* only after its thread has exited.
THEOREM HandlersHearInOrder == Spec => HandlerOrder
<1> DEFINE Order(c) ==
      LET h == handler[c]  g == handler'[c]
      IN  /\ g.warmup # h.warmup => ~h.complete /\ h.sample = 0
          /\ g.sample # h.sample => \A d \in Chain : handler[d].complete
          /\ g.complete # h.complete => worker[c] = "exited"
<1>1. ASSUME IInv, [Next]_vars PROVE \A c \in Chain : Order(c)
  <2> SUFFICES ASSUME NEW c \in Chain PROVE Order(c)
    OBVIOUS
  <2>1. CASE handler' = handler
    BY <2>1
  <2>2. ASSUME NEW d \in Chain, Thread(d) PROVE Order(c)
    <3>1. phase = "adapt" \/ phase = "sample"
      BY <1>1, <2>2, ThreadMoves, InsideMeansRunning DEF IInv, ControlTyped
    <3>2. CASE phase = "adapt"
      <4>1. ~handler[c].complete /\ handler[c].sample = 0
        BY <1>1, <3>2 DEF IInv, HandlersInPhase
      <4>2. handler'[c].sample = handler[c].sample
            /\ handler'[c].complete = handler[c].complete
        BY <1>1, <2>2, <3>2, ThreadCalls DEF IInv, ControlTyped, Calls
      <4> QED
        BY <4>1, <4>2
    <3>3. CASE phase = "sample"
      <4>1. \A e \in Chain : handler[e].complete
        BY <1>1, <3>3 DEF IInv, HandlersInPhase
      <4>2. handler'[c].warmup = handler[c].warmup
            /\ handler'[c].complete = handler[c].complete
        BY <1>1, <2>2, <3>3, ThreadCalls DEF IInv, ControlTyped, Calls
      <4> QED
        BY <4>1, <4>2
    <3> QED
      BY <3>1, <3>2, <3>3
  <2>3. CASE BuildSampler
    <3>1. worker[c] = "exited"
      BY <1>1, <2>3 DEF IInv, ControlTyped, StartedInOrder, JoinedBehind, Outside,
                        BuildSampler, Places
    <3>2. handler'[c].warmup = handler[c].warmup
          /\ handler'[c].sample = handler[c].sample
      BY <1>1, <2>3 DEF IInv, ControlTyped, Calls, BuildSampler
    <3> QED
      BY <3>1, <3>2
  <2>4. CASE Controller /\ ~BuildSampler
    BY <2>1, <2>4 DEF Controller, Spawn, SpawnFails, ArriveController,
       PassController, Poll, Judge, Interrupt, Destroy, RequestStop, Join, Leave,
       BeginSampling
  <2>5. CASE UNCHANGED vars
    BY <2>1, <2>5 DEF vars
  <2> QED
    BY <1>1, <2>2, <2>3, <2>4, <2>5 DEF Next
<1>2. IInv /\ [Next]_vars => [\A c \in Chain : Order(c)]_vars
  BY <1>1
<1> QED
  BY <1>2, InvHolds, PTL DEF Spec, HandlerOrder

-------------------------------------------------------------------------------
(***************************************************************************)
(* What a return of adapt(), sample() and walnuts() means.  The controller *)
(* only has snapshots, each of another moment; but a thread's count never  *)
(* shrinks and never passes the maximum, so what a snapshot shows is still *)
(* true, and counts that add up to the maximum of all are each at it.      *)
(***************************************************************************)

Counted ==
  /\ done \in [Chain -> Nat] /\ published \in [Chain -> Nat]
  /\ seen \in [Chain -> Nat] /\ num_draws \in Nat
  /\ poisoned \subseteq Chain

\* Snapshots lag behind what was published, and that behind the thread.
SnapshotsLag == phase # "build" =>
  \A c \in Chain :
    /\ seen[c] <= published[c] /\ published[c] <= done[c] /\ done[c] <= MaxIter
    /\ worker[c] = "iterate" => done[c] < MaxIter

EnoughSeen ==
  /\ ctl = "poll" => \A c \in Chain : c < m => seen[c] >= MinIter
  /\ ctl = "judge" => \A c \in Chain : seen[c] >= MinIter
  /\ leaving \in {"converged", "max_iter"} /\ phase # "build" =>
       \A c \in Chain : done[c] >= MinIter

\* The sum over the first n chains is at its maximum only if each of them is.
SumBounded(n) ==
  /\ num_draws <= n * MaxIter
  /\ num_draws = n * MaxIter => \A c \in Chain : c <= n => done[c] = MaxIter

CountsAddUp ==
  /\ ctl = "poll" => SumBounded(m - 1)
  /\ ctl = "judge" => SumBounded(M)
  /\ leaving = "max_iter" /\ phase # "build" => \A c \in Chain : done[c] = MaxIter

HandlersCounted ==
  /\ phase = "adapt" => \A c \in Chain : handler[c].warmup = done[c]
  /\ phase # "adapt" => \A c \in Chain : handler[c].warmup >= WarmupMin
  /\ phase = "sample" => \A c \in Chain : handler[c].sample = done[c]
  /\ phase # "sample" => \A c \in Chain : handler[c].sample = 0

LeavingKnown ==
  /\ ctl \in {"destroy", "join", "build", "begin", "returned"} => leaving # "no"
  /\ ctl = "returned" => phase = "sample" /\ leaving # "throw"

PoisonRefused ==
  /\ ctl = "build" => \A c \in Chain : c < m => c \notin poisoned
  /\ ctl = "begin" \/ phase = "sample" => poisoned = {}

CInv == /\ Counted /\ SnapshotsLag /\ EnoughSeen /\ CountsAddUp
        /\ HandlersCounted /\ LeavingKnown /\ PoisonRefused

LEMMA BoundsTyped == MinIter \in Nat /\ MaxIter \in Nat
BY RunAssumption DEF MinIter, MaxIter

LEMMA InitCInv == Init => CInv
<1> SUFFICES ASSUME Init PROVE CInv
  OBVIOUS
<1> USE BoundsTyped DEF Init
<1>1. Counted /\ SnapshotsLag /\ EnoughSeen /\ CountsAddUp
  BY DEF Counted, SnapshotsLag, EnoughSeen, CountsAddUp
<1>2. HandlersCounted /\ LeavingKnown /\ PoisonRefused
  BY DEF HandlersCounted, LeavingKnown, PoisonRefused
<1> QED
  BY <1>1, <1>2 DEF CInv

\* A thread's step counts at most one iteration of its own, below the maximum,
\* and publishes nothing but its count.
LEMMA ThreadCounts ==
  ASSUME IInv, CInv, NEW c \in Chain, Thread(c)
  PROVE  /\ UNCHANGED <<phase, ctl, m, leaving, seen, num_draws>>
         /\ worker'[c] = "iterate" => done'[c] < MaxIter
         /\ \A d \in Chain : d # c =>
              /\ worker'[d] = worker[d] /\ done'[d] = done[d]
              /\ published'[d] = published[d] /\ handler'[d] = handler[d]
         /\ done' \in [Chain -> Nat] /\ published' \in [Chain -> Nat]
         /\ published[c] <= published'[c] /\ published'[c] <= done'[c]
         /\ done[c] <= done'[c] /\ done'[c] <= MaxIter
         /\ poisoned' \subseteq Chain /\ (phase = "sample" => poisoned' = poisoned)
         /\ \/ done'[c] = done[c] /\ handler'[c] = handler[c]
            \/ /\ done'[c] = done[c] + 1 /\ phase = "sample"
               /\ handler'[c] = [handler[c] EXCEPT !.sample = @ + 1]
            \/ /\ done'[c] = done[c] + 1 /\ phase = "adapt"
               /\ handler'[c] = [handler[c] EXCEPT !.warmup = @ + 1]
<1>1. /\ phase \in {"adapt", "sample"}
      /\ worker \in [Chain -> Places] /\ handler \in [Chain -> Calls]
  BY ThreadMoves, InsideMeansRunning DEF IInv, ControlTyped
<1>2. /\ done \in [Chain -> Nat] /\ published \in [Chain -> Nat]
      /\ published[c] <= done[c] /\ done[c] <= MaxIter /\ poisoned \subseteq Chain
      /\ worker[c] = "iterate" => done[c] < MaxIter
  BY <1>1 DEF CInv, Counted, SnapshotsLag
<1> USE <1>1, <1>2, BoundsTyped DEF MoveTo
<1>3. CASE Arrive(c)
  BY <1>3 DEF Arrive
<1>4. CASE Pass(c)
  BY <1>4 DEF Pass
<1>5. CASE Check(c)
  BY <1>5 DEF Check
<1>6. CASE Iterate(c)
  BY <1>6 DEF Iterate
<1>7. CASE PublishSnapshot(c)
  BY <1>7 DEF PublishSnapshot
<1>8. CASE PublishLast(c)
  BY <1>8 DEF PublishLast
<1> QED
  BY <1>3, <1>4, <1>5, <1>6, <1>7, <1>8 DEF Thread

LEMMA ThreadCInv ==
  ASSUME IInv, CInv, NEW c \in Chain, Thread(c) PROVE CInv'
<1>counts.
      /\ published[c] <= published'[c] /\ published'[c] <= done'[c]
      /\ done[c] <= done'[c] /\ done'[c] <= MaxIter
      /\ worker'[c] = "iterate" => done'[c] < MaxIter
  BY ThreadCounts
<1>calls.
      \/ done'[c] = done[c] /\ handler'[c] = handler[c]
      \/ /\ done'[c] = done[c] + 1 /\ phase = "sample"
         /\ handler'[c] = [handler[c] EXCEPT !.sample = @ + 1]
      \/ /\ done'[c] = done[c] + 1 /\ phase = "adapt"
         /\ handler'[c] = [handler[c] EXCEPT !.warmup = @ + 1]
  BY ThreadCounts
<1> USE BoundsTyped DEF CInv
<1>1. /\ UNCHANGED <<phase, ctl, m, leaving, seen, num_draws>>
      /\ phase \in {"adapt", "sample"} /\ ctl \notin Outside
      /\ MinIter' = MinIter /\ MaxIter' = MaxIter
  BY ThreadCounts, ThreadMoves, InsideMeansRunning
     DEF IInv, ControlTyped, MinIter, MaxIter
<1>others. \A d \in Chain : d # c =>
        /\ worker'[d] = worker[d] /\ done'[d] = done[d]
        /\ published'[d] = published[d] /\ handler'[d] = handler[d]
  BY ThreadCounts
<1>2. \A d \in Chain : done[d] <= done'[d] /\ done'[d] <= MaxIter
  <2> SUFFICES ASSUME NEW d \in Chain
               PROVE  done[d] <= done'[d] /\ done'[d] <= MaxIter
    OBVIOUS
  <2>1. done[d] \in Nat /\ done[d] <= MaxIter
    BY <1>1 DEF SnapshotsLag, Counted
  <2>2. CASE d = c
    BY <2>2, <1>counts
  <2>3. CASE d # c
    BY <2>1, <2>3, <1>others
  <2> QED
    BY <2>2, <2>3
<1>3. Counted'
  BY <1>1, ThreadCounts DEF Counted
<1>4. SnapshotsLag'
  <2> SUFFICES ASSUME NEW d \in Chain
               PROVE  /\ seen'[d] <= published'[d] /\ published'[d] <= done'[d]
                      /\ done'[d] <= MaxIter
                      /\ worker'[d] = "iterate" => done'[d] < MaxIter
    BY <1>1 DEF SnapshotsLag
  <2>1. CASE d = c
    BY <1>1, <1>3, <1>counts, <2>1 DEF SnapshotsLag, Counted
  <2>2. CASE d # c
    BY <1>1, <2>2, <1>others DEF SnapshotsLag
  <2> QED
    BY <2>1, <2>2
<1>5. EnoughSeen'
  BY <1>1, <1>2, <1>3 DEF EnoughSeen, Counted
<1>6. CountsAddUp'
  BY <1>1, <1>2, <1>3 DEF CountsAddUp, SumBounded, Counted
<1>7. HandlersCounted'
  <2> SUFFICES ASSUME NEW d \in Chain
               PROVE  /\ phase = "adapt" => handler'[d].warmup = done'[d]
                      /\ phase # "adapt" => handler'[d].warmup >= WarmupMin
                      /\ phase = "sample" => handler'[d].sample = done'[d]
                      /\ phase # "sample" => handler'[d].sample = 0
    BY <1>1 DEF HandlersCounted
  <2>1. handler[d] \in Calls
    BY DEF IInv, ControlTyped
  <2>2. CASE d = c
    BY <1>1, <1>calls, <2>1, <2>2 DEF HandlersCounted, Counted, Calls
  <2>3. CASE d # c
    BY <1>1, <2>3, <1>others DEF HandlersCounted
  <2> QED
    BY <2>2, <2>3
<1>8. LeavingKnown' /\ PoisonRefused'
  BY <1>1, ThreadCounts DEF LeavingKnown, PoisonRefused, Outside
<1> QED
  BY <1>3, <1>4, <1>5, <1>6, <1>7, <1>8


-------------------------------------------------------------------------------
\* What the calling thread's steps up to the destructors do not touch.
LEMMA ControllerKeeps ==
  ASSUME UNCHANGED <<phase, done, published, handler, poisoned>>
  PROVE  /\ MinIter' = MinIter /\ MaxIter' = MaxIter
         /\ HandlersCounted => HandlersCounted'
         /\ SnapshotsLag /\ UNCHANGED <<seen, worker>> => SnapshotsLag'
         /\ Counted /\ UNCHANGED <<seen, num_draws>> => Counted'
BY DEF MinIter, MaxIter, HandlersCounted, SnapshotsLag, Counted

LEMMA SpawnCInv == ASSUME IInv, CInv, Spawn \/ SpawnFails PROVE CInv'
<1> USE DEF CInv
<1>1. /\ UNCHANGED <<phase, done, published, handler, poisoned, seen, num_draws>>
      /\ ctl' \in {"spawn", "arrive", "destroy"}
      /\ leaving' = leaving \/ leaving' = "throw"
      /\ ctl' = "destroy" => leaving' = "throw"
  BY DEF Spawn, SpawnFails, pool
<1>2. Counted' /\ HandlersCounted' /\ MinIter' = MinIter /\ MaxIter' = MaxIter
  BY <1>1, ControllerKeeps
<1>3. \A c \in Chain : worker'[c] = "iterate" => worker[c] = "iterate"
  BY DEF Spawn, SpawnFails, pool, MoveTo, IInv, ControlTyped
<1>4. SnapshotsLag'
  BY <1>1, <1>2, <1>3 DEF SnapshotsLag
<1>5. EnoughSeen' /\ CountsAddUp'
  BY <1>1, <1>2 DEF EnoughSeen, CountsAddUp
<1>6. LeavingKnown' /\ PoisonRefused'
  BY <1>1 DEF LeavingKnown, PoisonRefused
<1> QED
  BY <1>2, <1>4, <1>5, <1>6

LEMMA LatchCInv ==
  ASSUME IInv, CInv, ArriveController \/ PassController PROVE CInv'
<1> USE DEF CInv
<1>1. /\ UNCHANGED <<phase, done, published, handler, poisoned, seen, worker,
                     leaving>>
      /\ \/ ctl' = "wait" /\ num_draws' = num_draws
         \/ ctl' = "poll" /\ m' = 1 /\ num_draws' = 0
  BY DEF ArriveController, PassController, pool
<1>2. HandlersCounted' /\ SnapshotsLag' /\ MinIter' = MinIter /\ MaxIter' = MaxIter
  BY <1>1, ControllerKeeps
<1>3. Counted'
  BY <1>1 DEF Counted
<1>4. EnoughSeen'
  BY <1>1, <1>2 DEF EnoughSeen, Chain
<1>5. CountsAddUp'
  BY <1>1, <1>2, BoundsTyped DEF CountsAddUp, SumBounded, Chain
<1>6. LeavingKnown' /\ PoisonRefused'
  BY <1>1 DEF LeavingKnown, PoisonRefused
<1> QED
  BY <1>2, <1>3, <1>4, <1>5, <1>6

LEMMA InterruptCInv == ASSUME IInv, CInv, Interrupt PROVE CInv'
<1> USE DEF CInv
<1>1. /\ UNCHANGED <<phase, done, published, handler, poisoned, seen, worker>>
      /\ m = 1 /\ m' = 1 /\ num_draws' = 0
      /\ \/ ctl' = "destroy" /\ leaving' = "throw"
         \/ ctl' = "poll" /\ leaving' = leaving
  BY DEF Interrupt, pool, IInv, ControlTyped
<1>2. HandlersCounted' /\ SnapshotsLag' /\ MinIter' = MinIter /\ MaxIter' = MaxIter
  BY <1>1, ControllerKeeps
<1>3. Counted'
  BY <1>1 DEF Counted
<1>4. EnoughSeen'
  BY <1>1, <1>2 DEF EnoughSeen, Chain
<1>5. CountsAddUp'
  BY <1>1, <1>2, BoundsTyped DEF CountsAddUp, SumBounded, Chain
<1>6. LeavingKnown' /\ PoisonRefused'
  BY <1>1 DEF LeavingKnown, PoisonRefused
<1> QED
  BY <1>2, <1>3, <1>4, <1>5, <1>6

\* A sum of n bounded counts is at its bound only if the last count is, and the
\* sum before it was.
LEMMA OneMoreCount ==
  ASSUME NEW n \in Nat, NEW max \in Nat, NEW sum \in Nat, NEW v \in Nat,
         sum <= (n - 1) * max, v <= max
  PROVE  /\ sum + v <= n * max
         /\ sum + v = n * max => v = max /\ sum = (n - 1) * max
<1>1. n * max = (n - 1) * max + max
  OBVIOUS
<1>2. (n - 1) * max \in Int
  OBVIOUS
<1> QED
  BY <1>1, <1>2

LEMMA PollCInv == ASSUME IInv, CInv, Poll PROVE CInv'
<1> USE BoundsTyped DEF CInv
<1>1. PICK v \in {seen[m], published[m]} :
        /\ seen' = [seen EXCEPT ![m] = v]
        /\ num_draws' = num_draws + v
        /\ IF v < MinIter THEN ctl' = "interrupt" /\ m' = 1
           ELSE IF m = M  THEN ctl' = "judge" /\ m' = 1
                          ELSE ctl' = ctl /\ m' = m + 1
  BY DEF Poll
<1>2. /\ UNCHANGED <<phase, leaving, done, published, handler, poisoned, worker>>
      /\ ctl = "poll" /\ phase # "build" /\ m \in Chain
  BY DEF Poll, IInv, ControlTyped, HandlersInPhase
<1>3. HandlersCounted' /\ MinIter' = MinIter /\ MaxIter' = MaxIter
  BY <1>2, ControllerKeeps
<1>4. /\ v \in Nat /\ v <= published[m] /\ v <= done[m] /\ v <= MaxIter
      /\ done[m] \in Nat /\ done[m] <= MaxIter /\ num_draws \in Nat
  BY <1>2 DEF Counted, SnapshotsLag
<1>5. \A c \in Chain : seen'[c] = IF c = m THEN v ELSE seen[c]
  BY <1>1 DEF Counted
<1>6. Counted'
  BY <1>1, <1>2, <1>4 DEF Counted
<1>7. SnapshotsLag'
  BY <1>2, <1>3, <1>4, <1>5 DEF SnapshotsLag
<1>8. EnoughSeen'
  <2>1. ctl' \in {"poll", "judge"} =>
          /\ v >= MinIter /\ \A c \in Chain : c <= m => seen'[c] >= MinIter
    BY <1>1, <1>2, <1>4, <1>5 DEF EnoughSeen, Chain
  <2> QED
    BY <1>1, <1>2, <1>3, <2>1, RunAssumption DEF EnoughSeen, Chain
<1>9. CountsAddUp'
  <2>1. num_draws <= (m - 1) * MaxIter
    BY <1>2 DEF CountsAddUp, SumBounded
  <2>2. /\ num_draws' <= m * MaxIter
        /\ num_draws' = m * MaxIter => v = MaxIter /\ num_draws = (m - 1) * MaxIter
    BY <1>1, <1>2, <1>4, <2>1, OneMoreCount DEF Chain
  <2>3. num_draws' = m * MaxIter =>
          \A c \in Chain : c <= m => done'[c] = MaxIter
    BY <1>2, <1>4, <2>2 DEF CountsAddUp, SumBounded, Chain
  <2>4. ctl' = "poll" => m' = m + 1 /\ m' - 1 = m
    BY <1>1, <1>2 DEF Chain
  <2>5. ctl' = "judge" => m = M
    BY <1>1, <1>2
  <2> QED
    BY <1>2, <1>3, <2>2, <2>3, <2>4, <2>5 DEF CountsAddUp, SumBounded
<1>10. LeavingKnown' /\ PoisonRefused'
  BY <1>1, <1>2 DEF LeavingKnown, PoisonRefused
<1> QED
  BY <1>3, <1>6, <1>7, <1>8, <1>9, <1>10

LEMMA JudgeCInv == ASSUME IInv, CInv, Judge PROVE CInv'
<1> USE BoundsTyped DEF CInv
<1>1. /\ UNCHANGED <<phase, done, published, handler, poisoned, seen, worker,
                     num_draws, m>>
      /\ ctl = "judge" /\ phase # "build"
      /\ ctl' \in {"destroy", "interrupt"}
      /\ ctl' = "destroy" => leaving' \in {"converged", "max_iter"}
      /\ leaving' # leaving => leaving' \in {"converged", "max_iter"}
  BY DEF Judge, pool, IInv, ControlTyped, HandlersInPhase
<1>2. /\ HandlersCounted' /\ SnapshotsLag' /\ Counted'
      /\ MinIter' = MinIter /\ MaxIter' = MaxIter
  BY <1>1, ControllerKeeps
<1>3. \A c \in Chain : done[c] >= MinIter
  BY <1>1 DEF EnoughSeen, SnapshotsLag, Counted
<1>4. EnoughSeen'
  BY <1>1, <1>2, <1>3 DEF EnoughSeen
<1>5. leaving' = "max_iter" => leaving = "max_iter" \/ num_draws = M * MaxIter
  BY DEF Judge
<1>6. CountsAddUp'
  BY <1>1, <1>2, <1>5 DEF CountsAddUp, SumBounded, Chain
<1>7. LeavingKnown' /\ PoisonRefused'
  BY <1>1 DEF LeavingKnown, PoisonRefused
<1> QED
  BY <1>2, <1>4, <1>6, <1>7

LEMMA DestructorCInv ==
  ASSUME IInv, CInv, Destroy \/ RequestStop \/ Join PROVE CInv'
<1> USE DEF CInv
<1>1. /\ UNCHANGED <<phase, leaving, worker, done, published, seen, num_draws,
                     poisoned, handler>>
      /\ ctl \in {"destroy", "join"} /\ ctl' \in {"destroy", "join"}
  BY DEF Destroy, RequestStop, Join
<1>2. /\ HandlersCounted' /\ SnapshotsLag' /\ Counted'
      /\ MinIter' = MinIter /\ MaxIter' = MaxIter
  BY <1>1, ControllerKeeps
<1>3. EnoughSeen' /\ CountsAddUp'
  BY <1>1, <1>2 DEF EnoughSeen, CountsAddUp
<1>4. LeavingKnown' /\ PoisonRefused'
  BY <1>1 DEF LeavingKnown, PoisonRefused
<1> QED
  BY <1>2, <1>3, <1>4

LEMMA LeaveCInv == ASSUME IInv, CInv, Leave PROVE CInv'
<1> USE DEF CInv
<1>1. /\ UNCHANGED <<m, leaving, worker, done, published, seen, num_draws,
                     poisoned, handler>>
      /\ ctl = "destroy" /\ m = 1
      /\ phase \in {"adapt", "sample"} /\ leaving \in {"converged", "max_iter", "throw"}
  BY DEF Leave, pool, IInv, ControlTyped, JoinedBehind, HandlersInPhase, LeavingKnown
<1>2. Counted'
  BY <1>1 DEF Counted
<1>3. CASE leaving # "throw" /\ phase = "adapt"
  <2>1. phase' = "build" /\ ctl' = "build"
    BY <1>3 DEF Leave
  <2>2. \A c \in Chain : handler[c].warmup >= WarmupMin
    BY <1>1, <1>3 DEF EnoughSeen, HandlersCounted, MinIter
  <2>3. HandlersCounted'
    BY <1>1, <1>3, <2>1, <2>2 DEF HandlersCounted
  <2>4. SnapshotsLag' /\ EnoughSeen' /\ CountsAddUp'
    BY <2>1 DEF SnapshotsLag, EnoughSeen, CountsAddUp
  <2>5. LeavingKnown' /\ PoisonRefused'
    BY <1>1, <1>3, <2>1 DEF LeavingKnown, PoisonRefused, Chain
  <2> QED
    BY <1>2, <2>3, <2>4, <2>5
<1>4. CASE leaving = "throw" \/ phase = "sample"
  <2>1. /\ phase' = phase
        /\ ctl' = IF leaving = "throw" THEN "threw" ELSE "returned"
    BY <1>1, <1>4 DEF Leave
  <2>2. HandlersCounted' /\ SnapshotsLag' /\ MinIter' = MinIter /\ MaxIter' = MaxIter
    BY <1>1, <2>1, ControllerKeeps
  <2>3. EnoughSeen' /\ CountsAddUp'
    BY <1>1, <2>1, <2>2 DEF EnoughSeen, CountsAddUp
  <2>4. LeavingKnown' /\ PoisonRefused'
    BY <1>1, <1>4, <2>1 DEF LeavingKnown, PoisonRefused
  <2> QED
    BY <1>2, <2>2, <2>3, <2>4
<1> QED
  BY <1>1, <1>3, <1>4

LEMMA BuildSamplerCInv == ASSUME IInv, CInv, BuildSampler PROVE CInv'
<1> USE RunAssumption DEF CInv
<1>1. /\ UNCHANGED <<phase, leaving, done, published, seen, num_draws, poisoned>>
      /\ phase = "build" /\ ctl = "build" /\ m \in Chain
      /\ ctl' \in {"threw", "build", "begin"}
      /\ handler' = [handler EXCEPT ![m].complete = TRUE]
      /\ handler \in [Chain -> Calls]
  BY DEF BuildSampler, pool, IInv, ControlTyped, HandlersInPhase
<1>2. Counted'
  BY <1>1 DEF Counted
<1>3. SnapshotsLag' /\ EnoughSeen' /\ CountsAddUp'
  BY <1>1 DEF SnapshotsLag, EnoughSeen, CountsAddUp
<1>4. \A c \in Chain : /\ handler'[c].warmup = handler[c].warmup
                       /\ handler'[c].sample = handler[c].sample
  BY <1>1 DEF Calls
<1>5. HandlersCounted'
  BY <1>1, <1>4 DEF HandlersCounted
<1>6. LeavingKnown'
  BY <1>1 DEF LeavingKnown
<1>7. PoisonRefused'
  <2>1. ctl' # "threw" => \A c \in Chain : c <= m => c \notin poisoned
    BY <1>1 DEF BuildSampler, PoisonRefused, Chain
  <2>2. /\ ctl' = "build" => m' = m + 1
        /\ ctl' = "begin" => m = M
    BY <1>1 DEF BuildSampler, Chain
  <2>3. ctl' = "begin" => poisoned = {}
    BY <1>1, <2>1, <2>2 DEF Counted, Chain
  <2> QED
    BY <1>1, <2>1, <2>2, <2>3 DEF PoisonRefused, Chain
<1> QED
  BY <1>2, <1>3, <1>5, <1>6, <1>7

LEMMA BeginSamplingCInv == ASSUME IInv, CInv, BeginSampling PROVE CInv'
<1> USE RunAssumption DEF CInv
<1>1. /\ ctl = "begin" /\ ctl' = "spawn" /\ phase = "build" /\ phase' = "sample"
      /\ leaving' = "no" /\ UNCHANGED <<num_draws, poisoned, handler>>
      /\ worker' = [c \in Chain |-> "none"]
      /\ done' = [c \in Chain |-> 0] /\ published' = [c \in Chain |-> 0]
      /\ seen' = [c \in Chain |-> 0]
  BY DEF BeginSampling, IInv, HandlersInPhase
<1>2. MaxIter' \in Nat
  BY <1>1 DEF MaxIter
<1>3. Counted' /\ SnapshotsLag'
  BY <1>1, <1>2 DEF Counted, SnapshotsLag
<1>4. EnoughSeen' /\ CountsAddUp'
  BY <1>1 DEF EnoughSeen, CountsAddUp
<1>5. HandlersCounted'
  BY <1>1 DEF HandlersCounted
<1>6. LeavingKnown' /\ PoisonRefused'
  BY <1>1 DEF LeavingKnown, PoisonRefused
<1> QED
  BY <1>3, <1>4, <1>5, <1>6

LEMMA NextCInv == IInv /\ CInv /\ [Next]_vars => CInv'
<1> SUFFICES ASSUME IInv, CInv, [Next]_vars PROVE CInv'
  OBVIOUS
<1>1. CASE \E c \in Chain : Thread(c)
  BY <1>1, ThreadCInv
<1>2. CASE Controller
  BY <1>2, SpawnCInv, LatchCInv, PollCInv, JudgeCInv, InterruptCInv,
     DestructorCInv, LeaveCInv, BuildSamplerCInv, BeginSamplingCInv DEF Controller
<1>3. CASE UNCHANGED vars
  BY <1>3 DEF vars, CInv, Counted, SnapshotsLag, EnoughSeen, CountsAddUp, SumBounded,
              HandlersCounted, LeavingKnown, PoisonRefused, MinIter, MaxIter
<1> QED
  BY <1>1, <1>2, <1>3 DEF Next

THEOREM CountsHold == Spec => []CInv
BY InitCInv, NextCInv, InvHolds, PTL DEF Spec

-------------------------------------------------------------------------------

\* adapt.hpp:194-219 and its twin in sampler.hpp, for any number of chains, bounds
\* and stride: a controller that leaves because chains agree, or because the
\* counts add up, leaves after every chain has really done enough.
THEOREM NeverLeavesEarly == Spec => []LeavesWhenEnough
<1>1. IInv /\ CInv => LeavesWhenEnough
  BY DEF IInv, HandlersInPhase, CInv, EnoughSeen, CountsAddUp, LeavesWhenEnough
<1> QED
  BY <1>1, InvHolds, CountsHold, PTL

\* api.hpp:59-67: when walnuts() returns, every handler has heard its minimum of
\* warmup and of kept draws and that warmup is complete, and no chain was
\* sampled with a NaN step size.
THEOREM ReturnIsComplete == Spec => []ReturnsComplete
<1>1. IInv /\ CInv => ReturnsComplete
  <2> SUFFICES ASSUME IInv, CInv, ctl = "returned", NEW c \in Chain
               PROVE  /\ poisoned = {} /\ handler[c].complete
                      /\ handler[c].warmup >= WarmupMin
                      /\ handler[c].sample >= SamplingMin
    BY RunAssumption DEF ReturnsComplete, Chain, IInv, CInv, LeavingKnown, PoisonRefused
  <2>1. phase = "sample" /\ leaving \in {"converged", "max_iter"}
    BY DEF IInv, ControlTyped, CInv, LeavingKnown
  <2>2. poisoned = {} /\ handler[c].complete
    BY <2>1 DEF IInv, HandlersInPhase, CInv, PoisonRefused
  <2>3. handler[c].warmup >= WarmupMin /\ handler[c].sample >= SamplingMin
    BY <2>1 DEF CInv, HandlersCounted, EnoughSeen, MinIter
  <2> QED
    BY <2>2, <2>3
<1> QED
  BY <1>1, InvHolds, CountsHold, PTL

===============================================================================
