---------------------------- MODULE MemoryManager ----------------------------
(***************************************************************************)
(* The kernel heap: src/src/memorymanagement.cpp.                          *)
(*                                                                         *)
(* A doubly linked list of chunks lies inside the heap itself: every chunk *)
(* is a header of HDR bytes (struct MemoryChunk) followed by its payload.  *)
(* chunk[c] is the header at address c; only headers that are in the list  *)
(* are in DOMAIN chunk (a header that was merged away is payload).  malloc *)
(* walks the list one step per iteration of its loop; free is one step.    *)
(* Addresses and sizes are size_t values, so the sums the code computes    *)
(* are taken modulo AddrSpace (2^32 on the machine).                       *)
(*                                                                         *)
(* held is the clients' side: the pointers malloc returned that have not   *)
(* been passed to free, each with the size that was asked for.  A client   *)
(* frees only what it holds, and not a block twice.                        *)
(***************************************************************************)
EXTENDS Integers

CONSTANTS
  AddrSpace,   \* number of size_t values
  HDR,         \* sizeof(MemoryChunk)
  HeapStart,   \* constructor argument start
  HeapSize,    \* constructor argument size
  Sizes        \* the sizes clients ask for

NULL == 0

ASSUME HeapAssumption ==
  /\ HDR \in Nat \ {0}
  /\ HeapStart \in Nat \ {0}
  /\ HeapSize \in Nat
  /\ AddrSpace \in Nat
  /\ HeapStart + HeapSize <= AddrSpace
  /\ Sizes \subseteq 0 .. AddrSpace - 1

VARIABLES
  pFirst,               \* head of the chunk list
  chunk,                \* the headers in the list, by address
  pActiveMemoryManager, \* TRUE while the static pointer designates this manager
  pc,                   \* "idle", or "scan" inside the loop of malloc
  size,                 \* argument of the malloc in progress
  pChunk,               \* loop variable of malloc
  held                  \* what the clients hold: [pointer -> size asked for]

vars == <<pFirst, chunk, pActiveMemoryManager, pc, size, pChunk, held>>

HeapEnd == HeapStart + HeapSize

SizeT(x) == x % AddrSpace

Header(n, p, a, s) == [next |-> n, prev |-> p, isAllocated |-> a, size |-> s]

-----------------------------------------------------------------------------

(* The constructor.  A heap too small for one header has no chunk at all.  *)
Init ==
  /\ pActiveMemoryManager = TRUE
  /\ IF HeapSize < HDR
     THEN /\ pFirst = NULL
          /\ chunk = [c \in {} |-> Header(NULL, NULL, FALSE, 0)]
     ELSE /\ pFirst = HeapStart
          /\ chunk = [c \in {HeapStart} |->
                        Header(NULL, NULL, FALSE, HeapSize - HDR)]
  /\ pc = "idle"
  /\ size = 0
  /\ pChunk = NULL
  /\ held = [p \in {} |-> 0]

(* The destructor: the static pointer is cleared, the heap is left alone.  *)
Destroy ==
  /\ pc = "idle"
  /\ pActiveMemoryManager
  /\ pActiveMemoryManager' = FALSE
  /\ UNCHANGED <<pFirst, chunk, pc, size, pChunk, held>>

(* malloc(n) up to the loop.  operator new calls malloc only when there is *)
(* an active manager, and returns 0 otherwise: no state changes then.      *)
Malloc(n) ==
  /\ pc = "idle"
  /\ pActiveMemoryManager
  /\ pc' = "scan"
  /\ size' = n
  /\ pChunk' = pFirst
  /\ UNCHANGED <<pFirst, chunk, pActiveMemoryManager, held>>

Fits(c) == chunk[c].size > size /\ ~ chunk[c].isAllocated

\* Mutant: the loop does not go on to the next chunk.
ScanNextStays ==
  /\ pc = "scan"
  /\ pChunk # NULL
  /\ ~ Fits(pChunk)
  /\ UNCHANGED vars

(* One iteration that does not find its chunk.                             *)
ScanNext ==
  /\ pc = "scan"
  /\ pChunk # NULL
  /\ ~ Fits(pChunk)
  /\ pChunk' = chunk[pChunk].next
  /\ UNCHANGED <<pFirst, chunk, pActiveMemoryManager, pc, size, held>>

(* The loop ran off the list: malloc returns 0.                            *)
MallocFails ==
  /\ pc = "scan"
  /\ pChunk = NULL
  /\ pc' = "idle"
  /\ size' = 0
  /\ pChunk' = NULL
  /\ UNCHANGED <<pFirst, chunk, pActiveMemoryManager, held>>

(* The header malloc writes behind the n bytes it takes from chunk c.      *)
RestAddr(c, n) == SizeT(c + HDR + n)

\* Mutants: no room is kept for the new header; a chunk is never split.
SplitsTight(h, c, n) == h[c].size >= SizeT(n + 1)
SplitsNever(h, c, n) == FALSE

Splits(h, c, n) == h[c].size >= SizeT(n + HDR + 1)

(* Chunk c of the headers h cut in two: n bytes for the caller, the rest a *)
(* new free chunk.                                                         *)
Split(h, c, n) ==
  LET t    == RestAddr(c, n)
      rest == Header(h[c].next, c, FALSE, SizeT(h[c].size - n - HDR))
  IN  [d \in DOMAIN h \cup {t} |->
         CASE d = t         -> rest
           [] d = c         -> Header(t, h[c].prev, TRUE, n)
           [] d = h[c].next -> [h[d] EXCEPT !.prev = t]
           [] OTHER         -> h[d]]

(* The first chunk that is free and larger than the request is found; its  *)
(* tail becomes a chunk of its own when a header and a byte are left over. *)
MallocTakes ==
  /\ pc = "scan"
  /\ pChunk # NULL
  /\ Fits(pChunk)
  /\ chunk' = IF Splits(chunk, pChunk, size)
              THEN Split(chunk, pChunk, size)
              ELSE [chunk EXCEPT ![pChunk].isAllocated = TRUE]
  /\ held' = [p \in DOMAIN held \cup {pChunk + HDR} |->
                IF p = pChunk + HDR THEN size ELSE held[p]]
  /\ pc' = "idle"
  /\ size' = 0
  /\ pChunk' = NULL
  /\ UNCHANGED <<pFirst, pActiveMemoryManager>>

\* Mutant: the chunk behind the merged one keeps its old prev.
AbsorbOneWay(h, c, n) ==
  [d \in DOMAIN h \ {n} |->
     IF d = c THEN Header(h[n].next, h[c].prev, h[c].isAllocated,
                          SizeT(h[c].size + h[n].size + HDR))
              ELSE h[d]]

(* Headers h with chunk n merged into its predecessor c.                   *)
Absorb(h, c, n) ==
  [d \in DOMAIN h \ {n} |->
     CASE d = c         -> Header(h[n].next, h[c].prev, h[c].isAllocated,
                                  SizeT(h[c].size + h[n].size + HDR))
       [] d = h[n].next -> [h[d] EXCEPT !.prev = c]
       [] OTHER         -> h[d]]

MarkFree(c) == [chunk EXCEPT ![c].isAllocated = FALSE]

\* Mutants: no merge with the previous chunk; a merge even when it is allocated.
JoinsPrevNever(c) == FALSE
JoinsPrevAlways(c) == chunk[c].prev # NULL

(* The first merge of free: into the previous chunk when that one is free. *)
JoinsPrev(c) == chunk[c].prev # NULL /\ ~ chunk[chunk[c].prev].isAllocated

MergePrev(c) ==
  IF JoinsPrev(c) THEN Absorb(MarkFree(c), chunk[c].prev, c) ELSE MarkFree(c)

Survivor(c) == IF JoinsPrev(c) THEN chunk[c].prev ELSE c

(* The second merge: the chunk that results takes in a free successor.     *)
MergeNext(h, c) ==
  IF h[c].next # NULL /\ ~ h[h[c].next].isAllocated
  THEN Absorb(h, c, h[c].next)
  ELSE h

FreedList(c) == MergeNext(MergePrev(c), Survivor(c))

Forget(p) == [q \in DOMAIN held \ {p} |-> held[q]]

(* free(p), which is also operator delete while there is a manager.        *)
Free(p) ==
  /\ pc = "idle"
  /\ pActiveMemoryManager
  /\ chunk' = FreedList(p - HDR)
  /\ held' = Forget(p)
  /\ UNCHANGED <<pFirst, pActiveMemoryManager, pc, size, pChunk>>

(* operator delete without a manager: the block is given up for nothing.   *)
DeleteIgnored(p) ==
  /\ pc = "idle"
  /\ ~ pActiveMemoryManager
  /\ held' = Forget(p)
  /\ UNCHANGED <<pFirst, chunk, pActiveMemoryManager, pc, size, pChunk>>

Scan == ScanNext \/ MallocFails \/ MallocTakes

Next ==
  \/ \E n \in Sizes : Malloc(n)
  \/ Scan
  \/ \E p \in DOMAIN held : Free(p) \/ DeleteIgnored(p)
  \/ Destroy

Spec == Init /\ [][Next]_vars

(* malloc is a plain loop: once called it is run to its end.               *)
FairSpec == Spec /\ WF_vars(Scan)

-----------------------------------------------------------------------------

\* The parts of the invariant that speak of a chunk list h alone.

HeadersOf(h) ==
  [next : DOMAIN h \cup {NULL}, prev : DOMAIN h \cup {NULL},
   isAllocated : BOOLEAN, size : Nat]

ListTyped(h) ==
  /\ DOMAIN h \subseteq HeapStart .. HeapEnd
  /\ h \in [DOMAIN h -> HeadersOf(h)]

End(h, c) == c + HDR + h[c].size

NextExact(h, c) ==
  \/ h[c].next = NULL /\ End(h, c) = HeapEnd
  \/ h[c].next \in DOMAIN h /\ h[c].next = End(h, c) /\ h[h[c].next].prev = c

PrevExact(h, c) ==
  \/ h[c].prev = NULL /\ c = HeapStart
  \/ h[c].prev \in DOMAIN h /\ h[h[c].prev].next = c

\* Every chunk ends where its successor begins or where the heap ends, and
\* next and prev are each other's inverse.
ListLinked(h) == \A c \in DOMAIN h : NextExact(h, c) /\ PrevExact(h, c)

\* No two chunks overlap, headers included.
ListDisjoint(h) == \A c, d \in DOMAIN h : c < d => End(h, c) <= d

\* Every byte of the heap belongs to a chunk.
ListCovers(h) ==
  \A x \in HeapStart .. HeapEnd - 1 :
    \E c \in DOMAIN h : c <= x /\ x < End(h, c)

ListExact(h) ==
  ListTyped(h) /\ ListLinked(h) /\ ListDisjoint(h) /\ ListCovers(h)

-----------------------------------------------------------------------------

(* Types: headers lie inside the heap and link to headers or to NULL, the  *)
(* pointers of the clients are naturals.                                   *)
TypeOK ==
  /\ pFirst \in DOMAIN chunk \cup {NULL}
  /\ ListTyped(chunk)
  /\ pActiveMemoryManager \in BOOLEAN
  /\ pc \in {"idle", "scan"}
  /\ size \in 0 .. AddrSpace - 1
  /\ pChunk \in IF pc = "scan" THEN DOMAIN chunk \cup {NULL} ELSE {NULL}
  /\ held \in [DOMAIN held -> Nat]
  /\ DOMAIN held \subseteq Nat

(* malloc's split and free's two merges keep the doubly linked list exact: *)
(* the chunks tile the heap without gap or overlap and are linked both     *)
(* ways in the order of their addresses, from pFirst on.                   *)
HeapTiled ==
  IF HeapSize < HDR
  THEN pFirst = NULL /\ DOMAIN chunk = {}
  ELSE pFirst = HeapStart /\ HeapStart \in DOMAIN chunk /\ ListExact(chunk)

(* free merges in both directions, so two free chunks are never neighbours.*)
Coalesced ==
  \A c \in DOMAIN chunk :
    chunk[c].next # NULL =>
      chunk[c].isAllocated \/ chunk[chunk[c].next].isAllocated

(* The clients' view and the list agree: a block that is held is allocated *)
(* and as large as what was asked for, and while there is a manager every  *)
(* allocated chunk is held by a client.                                    *)
HeldAreAllocated ==
  /\ \A p \in DOMAIN held :
       /\ p - HDR \in DOMAIN chunk
       /\ chunk[p - HDR].isAllocated
       /\ held[p] <= chunk[p - HDR].size
  /\ pActiveMemoryManager =>
       \A c \in DOMAIN chunk : chunk[c].isAllocated => c + HDR \in DOMAIN held

(* The search has passed over no chunk that would have served.             *)
NothingMissed ==
  pc = "scan" =>
    /\ pActiveMemoryManager
    /\ \A c \in DOMAIN chunk : pChunk = NULL \/ c < pChunk => ~ Fits(c)

IInv ==
  /\ TypeOK
  /\ HeapTiled
  /\ Coalesced
  /\ HeldAreAllocated
  /\ NothingMissed

-----------------------------------------------------------------------------

(* The bytes two clients were given never overlap, and lie in the heap.    *)
BlocksDisjoint ==
  \A p, q \in DOMAIN held :
    /\ HeapStart + HDR <= p
    /\ p + held[p] <= HeapEnd
    /\ p < q => p + held[p] + HDR <= q

(* Once every block has been freed the heap is one chunk again: no order   *)
(* of malloc and free leaves it fragmented for good.                       *)
HeapRestored ==
  pActiveMemoryManager /\ DOMAIN held = {} /\ HeapSize >= HDR =>
    chunk = [c \in {HeapStart} |-> Header(NULL, NULL, FALSE, HeapSize - HDR)]

(* A block stays where it is and keeps its size as long as it is held,     *)
(* whatever is allocated and freed around it.                              *)
BlocksStay ==
  [][\A p \in DOMAIN held \cap DOMAIN held' :
       /\ p - HDR \in DOMAIN chunk'
       /\ chunk'[p - HDR].size = chunk[p - HDR].size]_vars

(* malloc always returns: its walk reaches a chunk that fits or the end.   *)
MallocReturns == pc = "scan" ~> pc = "idle"

-----------------------------------------------------------------------------

(* The blocks the clients hold, with the bytes that really belong to them. *)
Blocks == [p \in DOMAIN held |-> chunk[p - HDR].size]

Want == IF pc = "scan" THEN size ELSE -1

Alloc == INSTANCE Allocator WITH Base <- HeapStart, Limit <- HeapEnd,
           Overhead <- HDR, Requests <- Sizes, NoRequest <- -1,
           blocks <- Blocks, want <- Want

(* The heap keeps the promises of Allocator: a block is fresh, disjoint    *)
(* from all others, large enough, wastes at most a header, and a request   *)
(* is refused only when there is no room.                                  *)
ImplementsAllocator == Alloc!Spec
=============================================================================
