------------------------------ MODULE Allocator ------------------------------
(***************************************************************************)
(* What the kernel's heap promises to the code that calls malloc and free. *)
(*                                                                         *)
(* Addresses are naturals and the managed bytes are Base .. Limit-1.  A    *)
(* block is known by its address; blocks[a] is the number of bytes that    *)
(* belong to the block at a.  Nothing is said here of chunk headers, of    *)
(* the list that links them or of the search: MemoryManager has those, and *)
(* implements this specification.                                          *)
(***************************************************************************)
EXTENDS Integers

CONSTANTS
  Base,      \* first managed byte
  Limit,     \* first byte after the managed ones
  Overhead,  \* bytes of bookkeeping in front of every block
  Requests,  \* the sizes that may be asked for
  NoRequest  \* value of want when no request is being served

VARIABLES
  blocks,    \* [address -> size] of the blocks that have been handed out
  want       \* size of the request being served, or NoRequest

vars == <<blocks, want>>

(* The n bytes from a on are managed and none of them is in a block; an    *)
(* empty block strictly inside them also stands in the way.                *)
Vacant(a, n) ==
  /\ Base <= a
  /\ a + n <= Limit
  /\ \A b \in DOMAIN blocks : a + n <= b \/ b + blocks[b] <= a

(* A run of unused bytes in which n bytes and two headers certainly fit.   *)
Room(n) == \E a \in Base .. Limit : Vacant(a, n + 2 * Overhead + 1)

Init ==
  /\ blocks = [a \in {} |-> 0]
  /\ want = NoRequest

Request(n) ==
  /\ want = NoRequest
  /\ n # NoRequest
  /\ want' = n
  /\ UNCHANGED blocks

(* A request is served by a fresh block, disjoint from all the others.     *)
Grant(a, m) ==
  /\ want # NoRequest
  /\ a \notin DOMAIN blocks
  /\ Vacant(a, m)
  /\ blocks' = [b \in DOMAIN blocks \cup {a} |->
                  IF b = a THEN m ELSE blocks[b]]
  /\ want' = NoRequest

(* A request may be turned down only when there is no room for it.         *)
Refuse ==
  /\ want # NoRequest
  /\ ~ Room(want)
  /\ want' = NoRequest
  /\ UNCHANGED blocks

Release(a) ==
  /\ want = NoRequest
  /\ a \in DOMAIN blocks
  /\ blocks' = [b \in DOMAIN blocks \ {a} |-> blocks[b]]
  /\ UNCHANGED want

Next ==
  \/ \E n \in Requests : Request(n)
  \* the block is as large as asked for and wastes at most one header
  \/ \E a \in Base .. Limit, m \in want .. want + Overhead : Grant(a, m)
  \/ Refuse
  \/ \E a \in DOMAIN blocks : Release(a)

Spec == Init /\ [][Next]_vars
=============================================================================
