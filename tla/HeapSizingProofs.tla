-------------------------- MODULE HeapSizingProofs --------------------------
(***************************************************************************)
(* The safety of the sizing policy, for every initial size, page size and  *)
(* set of requests.                                                        *)
(***************************************************************************)
EXTENDS HeapSizing, TLAPS

(***************************************************************************)
(* Size arithmetic.                                                        *)
(***************************************************************************)

\* roundUp returns the size itself or less than one increment above it.
LEMMA RoundUpBounds ==
  ASSUME NEW size \in Nat, NEW increment \in Nat \ {0}
  PROVE  /\ RoundUp(size, increment) \in Nat
         /\ size <= RoundUp(size, increment)
         /\ RoundUp(size, increment) < size + increment
<1>1. size % increment \in 0 .. (increment - 1)
  OBVIOUS
<1>2. size % increment <= size
  OBVIOUS
<1> QED
  BY <1>1, <1>2 DEF RoundUp

\* Both computations of the room a request takes agree: the bytes needed by
\* gcCollectAndAllocate are the words try_mymalloc adds to heapPointer.
LEMMA NeededIsBlock ==
  ASSUME NEW bytes \in Nat
  PROVE  /\ BytesNeeded(bytes) = 8 * BlockWords(bytes)
         /\ BlockWords(bytes) \in Nat \ {0}
  BY DEF BytesNeeded, BlockWords, SizeInWords, RoundUp

\* The sizes of Expand: room for twice the live data and the request, and at
\* most what the doubling or the rounding adds.
LEMMA ExpandedBounds ==
  ASSUME TypeOK
  PROVE  /\ ExpandedSize \in Nat
         /\ ExpandedSize >= 2 * (used + BlockWords(request))
         /\ ExpandedSize >= 2 * otherSize
         /\ \/ ExpandedSize = 2 * otherSize
            \/ ExpandedSize <= 2 * (used + BlockWords(request)) + PageWords
<1> DEFINE needed == used + BlockWords(request)
<1> DEFINE rounded == RoundUp(MinimumSize, 8 * PageWords)
<1>1. BlockWords(request) \in Nat /\ used \in Nat /\ otherSize \in Nat
  BY NeededIsBlock DEF TypeOK
<1>2. MinimumSize = 16 * needed
  BY <1>1, NeededIsBlock DEF MinimumSize, TypeOK
<1>3. 8 * PageWords \in Nat \ {0} /\ PageWords \in Nat
  BY SizesAssumption
<1>4. /\ rounded \in Nat
      /\ 16 * needed <= rounded
      /\ rounded < 16 * needed + 8 * PageWords
  <2>1. 16 * needed \in Nat
    BY <1>1
  <2> QED
    BY <1>2, <1>3, <2>1, RoundUpBounds
<1>5. CASE 16 * otherSize < 16 * needed
  <2>1. ExpandedSize = rounded \div 8
    BY <1>1, <1>2, <1>5 DEF ExpandedSize
  <2> HIDE DEF rounded
  <2>2. needed \in Nat
    BY <1>1
  <2> HIDE DEF needed
  <2>3. /\ rounded \div 8 \in Nat
        /\ rounded \div 8 >= 2 * needed
        /\ rounded \div 8 <= 2 * needed + PageWords
    BY <1>3, <1>4, <2>2
  <2>4. rounded \div 8 >= 2 * otherSize
    BY <1>1, <1>5, <2>2, <2>3
  <2> QED
    BY <2>1, <2>3, <2>4 DEF needed
<1>6. CASE ~(16 * otherSize < 16 * needed)
  <2>1. ExpandedSize = 2 * otherSize
    BY <1>1, <1>2, <1>6 DEF ExpandedSize
  <2> QED
    BY <1>1, <1>6, <2>1
<1> QED
  BY <1>5, <1>6

(***************************************************************************)
(* The inductive invariant.  It says, for every point of an allocation,    *)
(* how the two semispaces compare and what the resizing has already        *)
(* secured for the request in progress.                                    *)
(***************************************************************************)
Needed == filled + BlockWords(request)

\* heapPointer is the end of the carved blocks, or one failed request past it.
PointerInv ==
  /\ filled <= heapSize
  /\ pc \in {"run", "resize", "retry", "last", "equalize"} => used = filled
  /\ pc \in {"collect", "recollect"} => used = Needed

SpacesInv ==
  /\ pc \in {"run", "collect", "retry", "recollect"} => otherSize >= heapSize
  /\ pc = "resize" => heapSize >= otherSize

\* Either the heap that follows has twice the room needed, or no expansion was
\* found necessary and the request fits up to the last word.
SecuredInv ==
  /\ pc = "retry" => \/ 2 * Needed <= otherSize
                     \/ Needed <= heapSize /\ otherSize = heapSize
  /\ pc = "recollect" => \/ 2 * Needed <= otherSize
                         \/ Needed = heapSize /\ otherSize = heapSize
  /\ pc = "last" => 2 * Needed <= heapSize \/ Needed = heapSize
  /\ pc = "noResult" => Needed = heapSize

PeakInv ==
  /\ GrowthBounded
  /\ pc \in {"resize", "retry", "recollect", "last"} => Needed <= peak

IInv == TypeOK /\ PointerInv /\ SpacesInv /\ SecuredInv /\ PeakInv

LEMMA InitInv == Init => IInv
  BY SizesAssumption, NeededIsBlock
  DEF Init, IInv, TypeOK, PCs, PointerInv, SpacesInv, SecuredInv, PeakInv, GrowthBounded, Needed

\* The part of a step every action shares: what request stands for.
LEMMA NeededFacts ==
  ASSUME TypeOK
  PROVE  /\ BlockWords(request) \in Nat \ {0}
         /\ Needed = filled + BlockWords(request)
         /\ BytesNeeded(request) \div 8 = BlockWords(request)
<1>1. request \in Nat
  BY DEF TypeOK
<1>2. /\ BytesNeeded(request) = 8 * BlockWords(request)
      /\ BlockWords(request) \in Nat \ {0}
  BY <1>1, NeededIsBlock
<1> QED
  BY <1>2 DEF Needed

LEMMA AllocateStep ==
  ASSUME IInv, NEW bytes \in Requests, Allocate(bytes)
  PROVE  IInv'
<1>1. BlockWords(bytes) \in Nat \ {0} /\ BlockWords(request) \in Nat \ {0}
  BY NeededIsBlock, SizesAssumption, NeededFacts DEF IInv
<1> QED
  BY <1>1, SizesAssumption DEF IInv, TypeOK, PCs, PointerInv, SpacesInv, SecuredInv, PeakInv,
     GrowthBounded, Needed, Allocate, Carve, Fits

LEMMA AllocateFailsStep ==
  ASSUME IInv, NEW bytes \in Requests, AllocateFails(bytes)
  PROVE  IInv'
<1>1. bytes \in Nat /\ BlockWords(bytes) \in Nat \ {0}
  BY NeededIsBlock, SizesAssumption
<1> QED
  BY <1>1, SizesAssumption DEF IInv, TypeOK, PCs, PointerInv, SpacesInv, SecuredInv, PeakInv,
     GrowthBounded, Needed, AllocateFails, Overrun

LEMMA CollectStep ==
  ASSUME IInv, NEW live \in 0 .. filled, Collect(live)
  PROVE  IInv'
<1>1. BlockWords(request) \in Nat \ {0} /\ live \in Nat
  BY NeededFacts DEF IInv, TypeOK
<1>2. request' = request /\ peak' \in Nat /\ peak' >= peak /\ live + BlockWords(request) <= peak'
  BY <1>1 DEF Collect, IInv, TypeOK
<1>3. GrowthBounded'
  BY <1>2, SizesAssumption DEF GrowthBounded, Collect, SwapKeeping, IInv, TypeOK, PeakInv
<1> QED
  BY <1>1, <1>2, <1>3 DEF IInv, TypeOK, PCs, PointerInv, SpacesInv, SecuredInv, PeakInv,
     Needed, Collect, SwapKeeping

\* The expansion gives twice the room needed, is not smaller than the current
\* heap, and is bounded by the demand: a doubling happens only while at least
\* four fifths of the heap, or more than what is free, is in demand.
LEMMA ExpandStep ==
  ASSUME IInv, Expand
  PROVE  IInv'
<1> DEFINE words == BlockWords(request)
<1>1. words \in Nat \ {0} /\ Needed = filled + words /\ words' = words
  BY NeededFacts DEF IInv, Expand
<1>2. /\ otherSize' = ExpandedSize
      /\ ExpandedSize \in Nat
      /\ ExpandedSize >= 2 * Needed
      /\ ExpandedSize = 2 * otherSize \/ ExpandedSize <= 2 * Needed + PageWords
  BY <1>1, ExpandedBounds DEF IInv, PointerInv, Expand
<1>3. 5 * (heapSize - filled) < heapSize \/ heapSize - filled < words
  BY NeededFacts DEF Expand, MustExpand, FreeSize, IInv, PointerInv
<1>4. Needed <= peak /\ heapSize >= otherSize
  BY DEF IInv, PeakInv, SpacesInv, Expand
<1> HIDE DEF words
<1>5. otherSize' >= heapSize
  BY <1>1, <1>2, <1>3 DEF IInv, TypeOK, PointerInv
<1>6. otherSize' <= (5 * peak) \div 2 + PageWords
  <2>1. CASE ExpandedSize = 2 * otherSize
    <3>1. 4 * otherSize <= 5 * Needed
      BY <1>1, <1>3, <1>4 DEF IInv, TypeOK
    <3>2. 4 * otherSize <= 5 * peak
      BY <1>1, <1>4, <3>1 DEF IInv, TypeOK
    <3> QED
      BY <1>2, <2>1, <3>2, SizesAssumption DEF IInv, TypeOK
  <2>2. CASE ExpandedSize <= 2 * Needed + PageWords
    BY <1>1, <1>2, <1>4, <2>2, SizesAssumption DEF IInv, TypeOK
  <2> QED
    BY <1>2, <2>1, <2>2
<1>7. GrowthBounded'
  BY <1>6 DEF Expand, IInv, PeakInv, GrowthBounded
<1>8. otherSize' \in Nat \ {0}
  BY <1>1, <1>2 DEF IInv, TypeOK
<1>9. Needed' = Needed
  BY <1>1 DEF Needed, Expand, words
<1> QED
  BY <1>1, <1>2, <1>4, <1>5, <1>7, <1>8, <1>9 DEF IInv, TypeOK, PCs, PointerInv, SpacesInv,
     SecuredInv, PeakInv, Expand

LEMMA EqualizeStep ==
  ASSUME IInv, Equalize
  PROVE  IInv'
<1> DEFINE words == BlockWords(request)
<1>1. words \in Nat \ {0} /\ Needed = filled + words /\ Needed' = Needed
  BY NeededFacts DEF IInv, Equalize, Needed
<1>2. heapSize - filled >= words
  BY NeededFacts DEF Equalize, MustExpand, FreeSize, IInv, TypeOK, PointerInv
<1>3. otherSize' = heapSize
  BY DEF Equalize, EqualizedSize, IInv, TypeOK, SpacesInv
<1>4. GrowthBounded'
  BY <1>3 DEF Equalize, IInv, PeakInv, GrowthBounded
<1> HIDE DEF words
<1> QED
  BY <1>1, <1>2, <1>3, <1>4 DEF IInv, TypeOK, PCs, PointerInv, SpacesInv, SecuredInv, PeakInv,
     Equalize

LEMMA MapFailsStep ==
  ASSUME IInv, MapFails
  PROVE  IInv'
<1>1. GrowthBounded'
  BY DEF MapFails, IInv, PeakInv, GrowthBounded
<1> QED
  BY <1>1 DEF MapFails, IInv, TypeOK, PCs, PointerInv, SpacesInv, SecuredInv, PeakInv

LEMMA RetryStep ==
  ASSUME IInv, Retry
  PROVE  IInv'
<1>1. BlockWords(request) \in Nat \ {0}
  BY NeededFacts DEF IInv
<1> QED
  BY <1>1, NeededIsBlock DEF Retry, Carve, Fits, IInv, TypeOK, PCs, PointerInv, SpacesInv,
     SecuredInv, PeakInv, GrowthBounded

LEMMA RetryFailsStep ==
  ASSUME IInv, RetryFails
  PROVE  IInv'
<1>1. BlockWords(request) \in Nat \ {0} /\ Needed = filled + BlockWords(request)
  BY NeededFacts DEF IInv
<1>2. Needed' = Needed /\ used' = Needed /\ Needed >= heapSize
  BY <1>1 DEF RetryFails, Overrun, Fits, Needed, IInv, PointerInv, TypeOK
<1>3. GrowthBounded'
  BY DEF RetryFails, Overrun, IInv, PeakInv, GrowthBounded
<1> QED
  BY <1>1, <1>2, <1>3 DEF RetryFails, Overrun, IInv, TypeOK, PCs, PointerInv, SpacesInv,
     SecuredInv, PeakInv

LEMMA RecollectStep ==
  ASSUME IInv, Recollect
  PROVE  IInv'
<1>1. Needed' = Needed
  BY DEF Recollect, SwapKeeping, Needed
<1>2. GrowthBounded'
  BY DEF Recollect, SwapKeeping, IInv, PeakInv, GrowthBounded
<1> QED
  BY <1>1, <1>2 DEF Recollect, SwapKeeping, IInv, TypeOK, PCs, PointerInv, SpacesInv, SecuredInv,
     PeakInv

LEMMA LastTryStep ==
  ASSUME IInv, LastTry
  PROVE  IInv'
<1>1. BlockWords(request) \in Nat \ {0}
  BY NeededFacts DEF IInv
<1>2. GrowthBounded'
  BY DEF LastTry, IInv, PeakInv, GrowthBounded
<1> QED
  BY <1>1, <1>2 DEF LastTry, Carve, Fits, IInv, TypeOK, PCs, PointerInv, SpacesInv, SecuredInv,
     PeakInv

LEMMA LastTryFailsStep ==
  ASSUME IInv, LastTryFails
  PROVE  IInv'
<1>1. BlockWords(request) \in Nat \ {0} /\ Needed = filled + BlockWords(request)
  BY NeededFacts DEF IInv
<1>2. Needed' = Needed /\ Needed >= heapSize
  BY <1>1 DEF LastTryFails, Overrun, Fits, Needed, IInv, PointerInv, TypeOK
<1>3. Needed = heapSize
  BY <1>1, <1>2 DEF LastTryFails, IInv, SecuredInv, TypeOK
<1>4. GrowthBounded'
  BY DEF LastTryFails, Overrun, IInv, PeakInv, GrowthBounded
<1> QED
  BY <1>1, <1>2, <1>3, <1>4 DEF LastTryFails, Overrun, IInv, TypeOK, PCs, PointerInv, SpacesInv,
     SecuredInv, PeakInv

LEMMA EqualizeAfterStep ==
  ASSUME IInv, EqualizeAfter
  PROVE  IInv'
<1>1. otherSize' >= heapSize /\ otherSize' \in {heapSize, otherSize}
  BY DEF EqualizeAfter, EqualizedSize, IInv, TypeOK
<1>2. GrowthBounded'
  BY <1>1 DEF EqualizeAfter, IInv, PeakInv, GrowthBounded
<1> QED
  BY <1>1, <1>2 DEF EqualizeAfter, IInv, TypeOK, PCs, PointerInv, SpacesInv, SecuredInv, PeakInv

LEMMA StepInv == IInv /\ [Next]_vars => IInv'
<1> SUFFICES ASSUME IInv, [Next]_vars PROVE IInv'
  OBVIOUS
<1>1. ASSUME NEW bytes \in Requests, Allocate(bytes) \/ AllocateFails(bytes) PROVE IInv'
  BY <1>1, AllocateStep, AllocateFailsStep
<1>2. CASE CollectorStep
  BY <1>2, CollectStep, ExpandStep, EqualizeStep, MapFailsStep, RetryStep, RetryFailsStep,
     RecollectStep, LastTryStep, LastTryFailsStep, EqualizeAfterStep DEF CollectorStep
<1>3. CASE UNCHANGED vars
  BY <1>3 DEF vars, IInv, TypeOK, PointerInv, SpacesInv, SecuredInv, PeakInv, GrowthBounded, Needed
<1> QED
  BY <1>1, <1>2, <1>3 DEF Next

(***************************************************************************)
(* Theorems.                                                               *)
(***************************************************************************)

\* The inductive invariant holds in every reachable state.
THEOREM Invariance == Spec => []IInv
  BY InitInv, StepInv, PTL DEF Spec

\* Sizes stay naturals, semispaces are never empty.
THEOREM TypeCorrect == Spec => []TypeOK
<1>1. IInv => TypeOK
  BY DEF IInv
<1> QED
  BY <1>1, Invariance, PTL

\* The asserts of gcCopy and gcCollectAndAllocate hold: a collection always
\* copies into a semispace at least as large as the one it empties.
THEOREM ToSpaceAlwaysFits == Spec => []ToSpaceFits
<1>1. IInv => ToSpaceFits
  BY DEF IInv, PointerInv, SpacesInv, ToSpaceFits
<1> QED
  BY <1>1, Invariance, PTL

\* gcCollectAndAllocate fails to produce a block only on an exact fit.
THEOREM FailureIsExactFit == Spec => []OnlyExactFitFails
<1>1. IInv => OnlyExactFitFails
  BY DEF IInv, SecuredInv, OnlyExactFitFails, Needed
<1> QED
  BY <1>1, Invariance, PTL

\* The semispaces are bounded by the demand, whatever the requests.
THEOREM GrowthIsBounded == Spec => []GrowthBounded
<1>1. IInv => GrowthBounded
  BY DEF IInv, PeakInv
<1> QED
  BY <1>1, Invariance, PTL

\* A request met in the heap expanded for it leaves that heap at most half full.
THEOREM ExpandedHeapHalfFull == Spec => AtMostHalfFull
<1>1. IInv /\ [Next]_vars => [LastTry => 2 * used' <= heapSize']_vars
  <2> SUFFICES ASSUME IInv, LastTry PROVE 2 * used' <= heapSize'
    OBVIOUS
  <2>1. BlockWords(request) \in Nat \ {0} /\ Needed = filled + BlockWords(request)
    BY NeededFacts DEF IInv
  <2>2. used' = Needed /\ Needed < heapSize /\ heapSize' = heapSize
    BY <2>1 DEF LastTry, Carve, Fits, IInv, PointerInv, TypeOK
  <2>3. 2 * Needed <= heapSize
    BY <2>2, <2>1 DEF LastTry, IInv, SecuredInv, TypeOK
  <2> QED
    BY <2>2, <2>3
<1> QED
  BY <1>1, Invariance, PTL DEF Spec, AtMostHalfFull

\* No collection gives the program a smaller heap.
THEOREM HeapKeepsGrowing == Spec => HeapNeverShrinks
<1>1. IInv /\ [Next]_vars => [heapSize' >= heapSize]_vars
  <2> SUFFICES ASSUME IInv, Next PROVE heapSize' >= heapSize
    BY DEF vars
  <2>1. ASSUME NEW live \in 0 .. filled, Collect(live) PROVE heapSize' >= heapSize
    BY <2>1 DEF Collect, SwapKeeping, IInv, SpacesInv
  <2>2. CASE Recollect
    BY <2>2 DEF Recollect, SwapKeeping, IInv, SpacesInv
  <2>3. CASE heapSize' = heapSize
    BY <2>3 DEF IInv, TypeOK
  <2> QED
    BY <2>1, <2>2, <2>3 DEF Next, CollectorStep, Allocate, AllocateFails, Expand, Equalize,
       MapFails, Retry, RetryFails, LastTry, LastTryFails, EqualizeAfter
<1> QED
  BY <1>1, Invariance, PTL DEF Spec, HeapNeverShrinks
=============================================================================
