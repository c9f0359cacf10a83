----------------------------- MODULE HeapSizing -----------------------------
(***************************************************************************)
(* The sizing policy of the run-time heap (lib/library.c): two semispaces, *)
(* bump allocation in the current one, and a collection that swaps them,   *)
(* grows the spare one or makes it as large as the current one, and        *)
(* retries.  Sizes are in 8-byte words, requests in bytes, as in the code. *)
(*                                                                         *)
(* What a collection keeps is abstracted to a number of words: any amount  *)
(* up to what had been carved out of the heap.  CheneyGc models the copy   *)
(* itself and implements this module.                                      *)
(***************************************************************************)
EXTENDS Integers

CONSTANTS
  InitialWords,   \* size of each semispace after initializeHeap (4 MiB / 8)
  PageWords,      \* the 4096-byte rounding of expandHeap, in words
  MaxWords,       \* bound: mmap refuses semispaces larger than this
  Requests        \* the sizes, in bytes, that the program may ask for

ASSUME SizesAssumption ==
  /\ InitialWords \in Nat \ {0}
  /\ PageWords \in Nat \ {0}
  /\ MaxWords \in Nat
  /\ Requests \subseteq Nat

VARIABLES
  heapSize,   \* heapEnd - heapStart
  used,       \* heapPointer - heapStart; a failed attempt leaves it past the end
  filled,     \* words of the blocks really carved out of the current heap
  otherSize,  \* otherEnd - otherStart
  request,    \* argument of the collecting allocation in progress, in bytes
  peak,       \* history: the largest live data plus request any resize saw
  pc          \* where gcAllocate / gcCollectAndAllocate is

vars == <<heapSize, used, filled, otherSize, request, peak, pc>>

(***************************************************************************)
(* Size arithmetic.                                                        *)
(***************************************************************************)
RoundUp(size, increment) ==
  IF (size % increment) # 0 THEN (size - (size % increment)) + increment ELSE size

SizeInWords(bytes) == (bytes + 7) \div 8

\* Mutant of BlockWords: the header is taken out of the request.
BlockWordsWithin(bytes) == SizeInWords(bytes) - 1

\* What try_mymalloc adds to heapPointer: the payload and its size word.
BlockWords(bytes) == SizeInWords(bytes) + 1

BytesNeeded(bytes) == RoundUp(bytes, 8) + 8

\* The test of try_mymalloc, which refuses a block that ends exactly at heapEnd.
Fits(bytes) == used + BlockWords(bytes) < heapSize

FreeSize == heapSize - used

\* Mutants of MustExpand: the request is not considered; the test is of the
\* used, not the free, fifth.
MustExpandWhenFull == 5 * FreeSize < heapSize

MustExpandWhenUsed ==
  \/ 5 * FreeSize < 4 * heapSize
  \/ FreeSize < BytesNeeded(request) \div 8

\* freeSize < 0.20 * totalSize || freeSize < bytesNeeded / 8
MustExpand ==
  \/ 5 * FreeSize < heapSize
  \/ FreeSize < BytesNeeded(request) \div 8

\* Mutant of MinimumSize: just enough room.
MinimumSizeTight == used * 8 + BytesNeeded(request)

MinimumSize == (used * 8 + BytesNeeded(request)) * 2

\* The size expandHeap gives the other semispace, in words.
ExpandedSize ==
  LET doubled == 2 * (otherSize * 8)
  IN  (IF doubled < MinimumSize THEN RoundUp(MinimumSize, 8 * PageWords)
                                ELSE doubled) \div 8

\* Mutant of EqualizedSize: the spare semispace is left as it is.
NotEqualized == otherSize

EqualizedSize == IF otherSize >= heapSize THEN otherSize ELSE heapSize

-----------------------------------------------------------------------------
Init ==
  /\ heapSize = InitialWords
  /\ otherSize = InitialWords
  /\ used = 0
  /\ filled = 0
  /\ request = 0
  /\ peak = 0
  /\ pc = "run"

\* try_mymalloc with room: the block is carved.
Carve(bytes) ==
  /\ used' = used + BlockWords(bytes)
  /\ filled' = used + BlockWords(bytes)

\* try_mymalloc without room: heapPointer has moved all the same.
Overrun(bytes) ==
  /\ used' = used + BlockWords(bytes)
  /\ UNCHANGED filled

\* gcAllocate, first attempt succeeds.
Allocate(bytes) ==
  /\ pc = "run"
  /\ Fits(bytes)
  /\ Carve(bytes)
  /\ UNCHANGED <<heapSize, otherSize, request, peak, pc>>

\* gcAllocate, first attempt fails: gcCollectAndAllocate is called.
AllocateFails(bytes) ==
  /\ pc = "run"
  /\ ~Fits(bytes)
  /\ Overrun(bytes)
  /\ request' = bytes
  /\ pc' = "collect"
  /\ UNCHANGED <<heapSize, otherSize, peak>>

\* gcCollect: live words are copied to the start of the other semispace and
\* the semispaces trade places.
SwapKeeping(live) ==
  /\ heapSize' = otherSize
  /\ otherSize' = heapSize
  /\ used' = live
  /\ filled' = live

Collect(live) ==
  /\ pc = "collect"
  /\ live <= filled
  /\ SwapKeeping(live)
  /\ peak' = IF live + BlockWords(request) > peak
               THEN live + BlockWords(request) ELSE peak
  /\ pc' = "resize"
  /\ UNCHANGED request

Expand ==
  /\ pc = "resize"
  /\ MustExpand
  /\ ExpandedSize <= MaxWords
  /\ otherSize' = ExpandedSize
  /\ pc' = "retry"
  /\ UNCHANGED <<heapSize, used, filled, request, peak>>

Equalize ==
  /\ pc = "resize"
  /\ ~MustExpand
  /\ otherSize' = EqualizedSize
  /\ pc' = "retry"
  /\ UNCHANGED <<heapSize, used, filled, request, peak>>

\* mmap fails in expandHeap or in equalizeHeaps: fail() exits the process.
MapFails ==
  /\ \/ pc = "resize" /\ MustExpand
     \/ pc = "resize" /\ ~MustExpand /\ otherSize < heapSize
     \/ pc = "equalize" /\ otherSize < heapSize
  /\ pc' = "exited"
  /\ UNCHANGED <<heapSize, used, filled, otherSize, request, peak>>

Retry ==
  /\ pc = "retry"
  /\ Fits(request)
  /\ Carve(request)
  /\ request' = 0
  /\ pc' = "run"
  /\ UNCHANGED <<heapSize, otherSize, peak>>

RetryFails ==
  /\ pc = "retry"
  /\ ~Fits(request)
  /\ Overrun(request)
  /\ pc' = "recollect"
  /\ UNCHANGED <<heapSize, otherSize, request, peak>>

\* The second collection of a request: no block died since the first one.
Recollect ==
  /\ pc = "recollect"
  /\ SwapKeeping(filled)
  /\ pc' = "last"
  /\ UNCHANGED <<request, peak>>

LastTry ==
  /\ pc = "last"
  /\ Fits(request)
  /\ Carve(request)
  /\ pc' = "equalize"
  /\ UNCHANGED <<heapSize, otherSize, request, peak>>

\* Mutant of LastTryFails: collect again instead of giving up.
LastTryAgain ==
  /\ pc = "last"
  /\ ~Fits(request)
  /\ Overrun(request)
  /\ pc' = "collect"
  /\ UNCHANGED <<heapSize, otherSize, request, peak>>

\* assert(result) does not hold (a build without assertions panics instead).
LastTryFails ==
  /\ pc = "last"
  /\ ~Fits(request)
  /\ Overrun(request)
  /\ pc' = "noResult"
  /\ UNCHANGED <<heapSize, otherSize, request, peak>>

EqualizeAfter ==
  /\ pc = "equalize"
  /\ otherSize' = EqualizedSize
  /\ request' = 0
  /\ pc' = "run"
  /\ UNCHANGED <<heapSize, used, filled, peak>>

CollectorStep ==
  \/ \E live \in 0 .. filled : Collect(live)
  \/ Expand
  \/ Equalize
  \/ MapFails
  \/ Retry
  \/ RetryFails
  \/ Recollect
  \/ LastTry
  \/ LastTryFails
  \/ EqualizeAfter

Next ==
  \/ \E bytes \in Requests : Allocate(bytes) \/ AllocateFails(bytes)
  \/ CollectorStep

Spec == Init /\ [][Next]_vars

\* An allocation runs on the program's own thread: once it has begun, nothing
\* else runs until it has returned.
FairSpec == Spec /\ WF_vars(CollectorStep)

-----------------------------------------------------------------------------
(***************************************************************************)
(* Properties.                                                             *)
(***************************************************************************)
PCs == {"run", "collect", "resize", "retry", "recollect", "last", "equalize",
        "noResult", "exited"}

TypeOK ==
  /\ heapSize \in Nat \ {0}
  /\ otherSize \in Nat \ {0}
  /\ used \in Nat
  /\ filled \in Nat
  /\ request \in Nat
  /\ peak \in Nat
  /\ pc \in PCs

(***************************************************************************)
(* The asserts of gcCopy (library.c:250) and gcCollectAndAllocate (:452):  *)
(* whenever a collection may start, the semispace it copies into is at     *)
(* least as large as the current one, so the survivors fit wherever the    *)
(* program is.  Every path through the resizing must re-establish it after *)
(* the swap has made the spare semispace the smaller one.                  *)
(***************************************************************************)
ToSpaceFits ==
  /\ filled <= heapSize
  /\ pc \in {"run", "collect", "retry", "recollect"} => otherSize >= heapSize

(***************************************************************************)
(* The only way to end without a block, which the comment of               *)
(* library.c:490 takes to be impossible: after the collection the free     *)
(* words were exactly the words needed, which the resizing takes for       *)
(* enough and try_mymalloc does not.  In every other case a request ends   *)
(* with its block or with a failed mmap.                                   *)
(***************************************************************************)
OnlyExactFitFails ==
  pc = "noResult" => filled + BlockWords(request) = heapSize

(***************************************************************************)
(* Semispaces follow the demand: unless they never grew, neither is larger *)
(* than five halves of the largest live data plus request a resize has     *)
(* seen, and the rounding.  Doubling never runs away from what is live.    *)
(***************************************************************************)
GrowthBounded ==
  LET Demand == (5 * peak) \div 2 + PageWords
  IN  /\ heapSize <= InitialWords \/ heapSize <= Demand
      /\ otherSize <= InitialWords \/ otherSize <= Demand

(***************************************************************************)
(* The comment of library.c:468: the new heap is at most half full, here   *)
(* at the moment the request is met in the heap that was expanded for it.  *)
(***************************************************************************)
AtMostHalfFull == [][LastTry => 2 * used' <= heapSize']_vars

(***************************************************************************)
(* A collection never moves the program to a smaller heap than it had.     *)
(***************************************************************************)
HeapNeverShrinks == [][heapSize' >= heapSize]_vars

(***************************************************************************)
(* Every allocation ends: it collects at most twice.                       *)
(***************************************************************************)
AllocationEnds == pc = "collect" ~> pc \in {"run", "noResult", "exited"}
=============================================================================
