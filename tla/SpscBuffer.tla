------------------------------ MODULE SpscBuffer ------------------------------
(***************************************************************************)
(* The lock-free triple buffer through which a chain's thread hands its    *)
(* statistics to the controller (walnuts/spsc_buffer.hpp).  The producer   *)
(* owns slot back, the consumer slot front, and the third is in middle, a  *)
(* word that packs the slot's index with a dirty bit.                      *)
(*                                                                         *)
(* A value has Width words, which neither side reads or writes at once, so *)
(* that a slot owned by both would show as a torn value.  A value is its   *)
(* number: the producer writes latest + 1 next.  The exchanges are acq_rel *)
(* and atomic; the consumer's first look at middle is relaxed, so it need  *)
(* not notice a publication yet.                                           *)
(***************************************************************************)
EXTENDS Naturals

CONSTANTS
  DIRTY_BIT,    \* 1 << 31 in the code; only its being above 2 matters
  Width,        \* words of a value
  MaxPublish    \* bound on the number of publications

ASSUME SpscAssumption ==
  /\ DIRTY_BIT \in Nat /\ DIRTY_BIT > 2
  /\ Width \in Nat \ {0}
  /\ MaxPublish \in Nat

VARIABLES
  middle,     \* middle_: the packed word
  back,       \* back_: the producer's slot
  front,      \* front_: the consumer's slot
  slots,      \* buffers_: slots[b][w]
  latest,     \* the number of the value published last
  toWrite,    \* words of the next value the producer has not written
  reading,    \* where the consumer is
  toCopy,     \* words the consumer has not copied out
  got         \* the copy

spscVars == <<middle, back, front, slots, latest, toWrite, reading, toCopy, got>>

Slot == 0 .. 2
Word == 1 .. Width

make_dirty(b) == b + DIRTY_BIT
is_dirty(w)   == w >= DIRTY_BIT

index_of(w) == IF is_dirty(w) THEN w - DIRTY_BIT ELSE w

SpscInit ==
  /\ middle = 1 /\ back = 0 /\ front = 2
  /\ slots = [b \in Slot |-> [w \in Word |-> 0]]
  /\ latest = 0
  /\ toWrite = Word
  /\ reading = "idle"
  /\ toCopy = Word
  /\ got = [w \in Word |-> 0]

-------------------------------------------------------------------------------
(***************************************************************************)
(* The producer: write_buffer(), assignments through it, publish().        *)
(***************************************************************************)

WriteWord(w) ==
  /\ latest < MaxPublish
  /\ w \in toWrite
  /\ slots' = [slots EXCEPT ![back] = [@ EXCEPT ![w] = latest + 1]]
  /\ toWrite' = toWrite \ {w}
  /\ UNCHANGED <<middle, back, front, latest, reading, toCopy, got>>

PublishClean == \* mutant: make_dirty() forgotten
  /\ toWrite = {}
  /\ middle' = back
  /\ back' = index_of(middle)
  /\ latest' = latest + 1
  /\ toWrite' = Word
  /\ UNCHANGED <<front, slots, reading, toCopy, got>>

Publish ==
  /\ toWrite = {}
  /\ middle' = make_dirty(back)
  /\ back' = index_of(middle)
  /\ latest' = latest + 1
  /\ toWrite' = Word
  /\ UNCHANGED <<front, slots, reading, toCopy, got>>

-------------------------------------------------------------------------------
(***************************************************************************)
(* The consumer: read_latest() and the use of the reference it returns.    *)
(***************************************************************************)

LoadAlways == \* mutant: exchange without looking at the dirty bit
  /\ reading = "idle"
  /\ reading' = "exchange"
  /\ toCopy' = Word
  /\ UNCHANGED <<middle, back, front, slots, latest, toWrite, got>>

LoadDirty ==
  /\ reading = "idle"
  /\ is_dirty(middle)
  /\ reading' = "exchange"
  /\ toCopy' = Word
  /\ UNCHANGED <<middle, back, front, slots, latest, toWrite, got>>

\* The word is clean, or the relaxed load still returns the clean one that the
\* consumer's own last exchange left there.
LoadClean ==
  /\ reading = "idle"
  /\ reading' = "copy"
  /\ toCopy' = Word
  /\ UNCHANGED <<middle, back, front, slots, latest, toWrite, got>>

ExchangeKeepsSlot == \* mutant: the dirty bit is cleared but the slots are not swapped
  /\ reading = "exchange"
  /\ middle' = index_of(middle)
  /\ front' = index_of(middle)
  /\ reading' = "copy"
  /\ UNCHANGED <<back, slots, latest, toWrite, toCopy, got>>

Exchange ==
  /\ reading = "exchange"
  /\ middle' = front
  /\ front' = index_of(middle)
  /\ reading' = "copy"
  /\ UNCHANGED <<back, slots, latest, toWrite, toCopy, got>>

CopyWord(w) ==
  /\ reading = "copy"
  /\ w \in toCopy
  /\ got' = [got EXCEPT ![w] = slots[front][w]]
  /\ toCopy' = toCopy \ {w}
  /\ UNCHANGED <<middle, back, front, slots, latest, toWrite, reading>>

EndRead ==
  /\ reading = "copy"
  /\ toCopy = {}
  /\ reading' = "idle"
  /\ UNCHANGED <<middle, back, front, slots, latest, toWrite, toCopy, got>>

Producer == Publish \/ \E w \in Word : WriteWord(w)

Consumer ==
  LoadDirty \/ LoadClean \/ Exchange \/ EndRead \/ \E w \in Word : CopyWord(w)

SpscNext == Producer \/ Consumer

SpscSpec == SpscInit /\ [][SpscNext]_spscVars

(***************************************************************************)
(* Both threads go on; and a store to an atomic becomes visible in finite  *)
(* time, so that loads do not miss the dirty bit for ever.                 *)
(***************************************************************************)
SpscFairSpec == SpscSpec /\ WF_spscVars(Producer) /\ WF_spscVars(Consumer) /\ SF_spscVars(LoadDirty)

-------------------------------------------------------------------------------

TypeOK ==
  /\ middle \in Slot \cup {make_dirty(b) : b \in Slot}
  /\ back \in Slot /\ front \in Slot
  /\ slots \in [Slot -> [Word -> Nat]]
  /\ latest \in 0 .. MaxPublish
  /\ toWrite \subseteq Word
  /\ reading \in {"idle", "exchange", "copy"}
  /\ toCopy \subseteq Word
  /\ got \in [Word -> Nat]

\* Each slot has one owner: no word is written by one thread while the other may
\* be reading it.
SlotsOwned ==
  back # front /\ back # index_of(middle) /\ front # index_of(middle)

\* A value that was copied out is one that was published, whole: its words all
\* belong to the same publication.
NoTornRead ==
  reading = "copy" /\ toCopy = {} =>
    \E v \in 0 .. latest : \A w \in Word : got[w] = v

Buffer == INSTANCE LatestValue WITH delivered <- slots[front][1]

\* Every read takes the value published last, or keeps the one it had; none ever
\* goes back to an older one ("will always return the latest value published").
ImplementsLatestValue == Buffer!Spec

\* A consumer that goes on reading gets the last value there will be.
LastValueRead == <>[](\A w \in Word : got[w] = MaxPublish)
===============================================================================
