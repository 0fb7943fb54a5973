------------------------ MODULE MemoryManager_proofs ------------------------
(***************************************************************************)
(* Theorems about the kernel heap, for every heap, header size and set of  *)
(* request sizes allowed by HeapAssumption.                                *)
(***************************************************************************)
EXTENDS MemoryManager, TLAPS

(* The sums malloc and free compute do not wrap as long as their value is  *)
(* an address or a size of this heap.                                      *)
LEMMA SizeTSmall ==
  ASSUME NEW x \in 0 .. AddrSpace - 1
  PROVE  SizeT(x) = x
BY HeapAssumption DEF SizeT

(* A chunk lies inside the heap.                                           *)
LEMMA ChunkInHeap ==
  ASSUME NEW h, ListTyped(h), ListLinked(h), NEW c \in DOMAIN h
  PROVE  /\ c \in Nat /\ h[c].size \in Nat /\ h[c].isAllocated \in BOOLEAN
         /\ HeapStart <= c /\ c + HDR + h[c].size <= HeapEnd
         /\ c + HDR <= HeapEnd
         /\ h[c].next \in DOMAIN h \cup {NULL}
         /\ h[c].prev \in DOMAIN h \cup {NULL}
BY HeapAssumption DEF ListTyped, ListLinked, NextExact, HeadersOf, End, HeapEnd, NULL

(* What Absorb does to each header: g is h with n merged into c.           *)
AbsorbEffect(h, c, n, g) ==
  /\ c < n /\ n = End(h, c) /\ h[n].prev = c
  /\ h[n].next # c /\ h[n].next # n /\ h[c].prev # n
  /\ DOMAIN g = DOMAIN h \ {n}
  /\ g[c].size = h[c].size + HDR + h[n].size
  /\ g[c].next = h[n].next /\ g[c].prev = h[c].prev
  /\ g[c].isAllocated = h[c].isAllocated
  /\ \A d \in DOMAIN g \ {c} :
       /\ g[d].size = h[d].size /\ g[d].next = h[d].next
       /\ g[d].isAllocated = h[d].isAllocated
       /\ g[d].prev = IF d = h[n].next THEN c ELSE h[d].prev
  /\ g \in [DOMAIN g -> HeadersOf(g)]

(* Absorb has this effect on neighbours: no sum wraps around.              *)
LEMMA AbsorbFields ==
  ASSUME NEW h, ListExact(h), NEW c \in DOMAIN h, NEW n \in DOMAIN h,
         h[c].next = n
  PROVE  AbsorbEffect(h, c, n, Absorb(h, c, n))
<1> DEFINE g == Absorb(h, c, n)
<1>1. ListTyped(h) /\ ListLinked(h)
  BY DEF ListExact
<1>2. /\ c \in Nat /\ h[c].size \in Nat /\ HeapStart <= c
      /\ n \in Nat /\ h[n].size \in Nat /\ n + HDR + h[n].size <= HeapEnd
      /\ HeapStart <= n /\ n # NULL
  BY <1>1, ChunkInHeap, HeapAssumption DEF NULL
<1>3. /\ n = c + HDR + h[c].size /\ c < n /\ h[n].prev = c
      /\ \/ h[n].next = NULL
         \/ h[n].next \in DOMAIN h /\ h[n].next = n + HDR + h[n].size
  BY <1>1, <1>2, HeapAssumption DEF ListLinked, NextExact, End
<1>4. h[n].next # c /\ h[n].next # n
  BY <1>2, <1>3, HeapAssumption DEF NULL
<1>5. h[c].prev # n
  <2>1. h[c].prev = n => h[n].next = c
    BY <1>1, <1>2 DEF ListLinked, PrevExact
  <2> QED
    BY <2>1, <1>4
<1>6. SizeT(h[c].size + h[n].size + HDR) = h[c].size + HDR + h[n].size
  <2>1. h[c].size + h[n].size + HDR \in 0 .. AddrSpace - 1
    BY <1>2, <1>3, HeapAssumption DEF HeapEnd
  <2> QED
    BY <2>1, <1>2, SizeTSmall, HeapAssumption
<1>7. /\ h[c] \in HeadersOf(h) /\ h[n] \in HeadersOf(h)
      /\ \A d \in DOMAIN h : h[d] \in HeadersOf(h)
  BY <1>1 DEF ListTyped
<1>8. DOMAIN g = DOMAIN h \ {n} /\ c \in DOMAIN g
  BY <1>3, <1>2 DEF Absorb
<1>9. g[c] = Header(h[n].next, h[c].prev, h[c].isAllocated,
                    h[c].size + HDR + h[n].size)
  <2>1. c \in DOMAIN h \ {n}
    BY <1>8
  <2>2. g[c] = Header(h[n].next, h[c].prev, h[c].isAllocated,
                      SizeT(h[c].size + h[n].size + HDR))
    BY <2>1, <1>4 DEF Absorb
  <2> QED
    BY <2>2, <1>6
<1>10. ASSUME NEW d \in DOMAIN g, d # c
       PROVE  g[d] = IF d = h[n].next THEN [h[d] EXCEPT !.prev = c] ELSE h[d]
  BY <1>8, <1>10 DEF Absorb
<1>11. /\ g[c].size = h[c].size + HDR + h[n].size
       /\ g[c].next = h[n].next /\ g[c].prev = h[c].prev
       /\ g[c].isAllocated = h[c].isAllocated
  BY <1>9 DEF Header
<1>12. ASSUME NEW d \in DOMAIN g \ {c}
       PROVE  /\ g[d].size = h[d].size /\ g[d].next = h[d].next
              /\ g[d].isAllocated = h[d].isAllocated
              /\ g[d].prev = IF d = h[n].next THEN c ELSE h[d].prev
  BY <1>8, <1>7, <1>10 DEF HeadersOf
<1>13. ASSUME NEW d \in DOMAIN g
       PROVE  g[d] \in HeadersOf(g)
  <2>1. CASE d = c
    <3>1. /\ h[n].next \in DOMAIN g \cup {NULL}
          /\ h[c].prev \in DOMAIN g \cup {NULL}
          /\ h[c].size + HDR + h[n].size \in Nat
      BY <1>2, <1>3, <1>4, <1>5, <1>7, <1>8, HeapAssumption DEF HeadersOf
    <3>2. g[c] \in [next : DOMAIN g \cup {NULL}, prev : DOMAIN g \cup {NULL},
                    isAllocated : BOOLEAN, size : Nat]
      BY <3>1, <1>7, <1>9 DEF HeadersOf, Header
    <3> QED
      BY <2>1, <3>2 DEF HeadersOf
  <2>2. CASE d # c
    <3>1. h[d].next # n
      BY <2>2, <1>1, <1>2, <1>3, <1>8, HeapAssumption
      DEF ListLinked, NextExact, NULL
    <3>2. d # h[n].next => h[d].prev # n
      BY <2>2, <1>1, <1>2, <1>3, <1>8, HeapAssumption
      DEF ListLinked, PrevExact, NULL
    <3> QED
      BY <2>2, <3>1, <3>2, <1>7, <1>8, <1>10, HeapAssumption DEF HeadersOf, NULL
  <2> QED
    BY <2>1, <2>2
<1>14. g = [d \in DOMAIN g |-> g[d]]
  BY <1>8 DEF Absorb
<1> QED
  BY <1>3, <1>4, <1>5, <1>8, <1>11, <1>12, <1>13, <1>14 DEF End, AbsorbEffect

(* Merging a chunk into its predecessor keeps the list exact.              *)
LEMMA AbsorbKeepsListExact ==
  ASSUME NEW h, ListExact(h), NEW c \in DOMAIN h, NEW n \in DOMAIN h,
         h[c].next = n, NEW g, g = Absorb(h, c, n)
  PROVE  ListExact(g)
<1>1. ListTyped(h) /\ ListLinked(h) /\ ListDisjoint(h) /\ ListCovers(h)
  BY DEF ListExact
<1>2. /\ c < n /\ n = End(h, c) /\ h[n].prev = c
      /\ h[n].next # c /\ h[n].next # n /\ h[c].prev # n
      /\ DOMAIN g = DOMAIN h \ {n}
      /\ g[c].size = h[c].size + HDR + h[n].size
      /\ g[c].next = h[n].next /\ g[c].prev = h[c].prev
      /\ \A d \in DOMAIN g \ {c} :
           /\ g[d].size = h[d].size /\ g[d].next = h[d].next
           /\ g[d].prev = IF d = h[n].next THEN c ELSE h[d].prev
      /\ g \in [DOMAIN g -> HeadersOf(g)]
  <2>1. AbsorbEffect(h, c, n, g)
    BY AbsorbFields
  <2> QED
    BY <2>1 DEF AbsorbEffect
<1>3. \A d \in DOMAIN h : d \in Nat /\ d # NULL /\ h[d].size \in Nat
  BY <1>1, ChunkInHeap, HeapAssumption DEF NULL
<1>4. c \in DOMAIN g
  BY <1>2, <1>3
<1>5. End(g, c) = End(h, n) /\ \A d \in DOMAIN g \ {c} : End(g, d) = End(h, d)
  <2>1. /\ c \in Nat /\ n \in Nat /\ h[c].size \in Nat /\ h[n].size \in Nat
        /\ n = c + HDR + h[c].size /\ g[c].size = h[c].size + HDR + h[n].size
    BY <1>2, <1>3 DEF End
  <2>2. c + HDR + g[c].size = n + HDR + h[n].size
    BY <2>1, HeapAssumption
  <2> QED
    BY <2>2, <1>2 DEF End
<1>6. \A d \in DOMAIN h : NextExact(h, d) /\ PrevExact(h, d)
  BY <1>1 DEF ListLinked
<1>7. ListTyped(g)
  BY <1>1, <1>2 DEF ListTyped
<1>8. ASSUME NEW d \in DOMAIN g
      PROVE  NextExact(g, d)
  <2>1. CASE d = c
    BY <2>1, <1>2, <1>3, <1>5, <1>6 DEF NextExact
  <2>2. CASE d # c
    <3>1. d \in DOMAIN h /\ d # n /\ g[d].next = h[d].next
      BY <2>2, <1>2
    <3>2. CASE h[d].next = NULL
      BY <3>1, <3>2, <2>2, <1>3, <1>5, <1>6 DEF NextExact
    <3>3. CASE h[d].next # NULL
      <4> DEFINE e == h[d].next
      <4>1. e \in DOMAIN h /\ e = End(h, d) /\ h[e].prev = d
        BY <3>1, <3>3, <1>6 DEF NextExact
      <4>2. e # n
        BY <4>1, <1>2, <2>2
      <4>3. e # h[n].next
        BY <4>1, <3>1, <1>3, <1>6 DEF NextExact
      <4>4. g[e].prev = d
        BY <4>1, <4>2, <4>3, <1>2
      <4> QED
        BY <4>1, <4>2, <4>4, <3>1, <2>2, <1>2, <1>5 DEF NextExact
    <3> QED
      BY <3>2, <3>3
  <2> QED
    BY <2>1, <2>2
<1>9. ASSUME NEW d \in DOMAIN g
      PROVE  PrevExact(g, d)
  <2>1. d \in DOMAIN h /\ d # n
    BY <1>2
  <2>2. CASE d = c
    <3>1. CASE h[c].prev = NULL
      BY <2>2, <3>1, <1>2, <1>3, <1>6 DEF PrevExact
    <3>2. CASE h[c].prev # NULL
      BY <2>2, <3>2, <1>2, <1>3, <1>6 DEF PrevExact
    <3> QED
      BY <3>1, <3>2
  <2>3. CASE d # c /\ d = h[n].next
    BY <2>3, <1>2, <1>4 DEF PrevExact
  <2>4. CASE d # c /\ d # h[n].next
    <3>1. CASE h[d].prev = NULL
      BY <2>4, <2>1, <3>1, <1>2, <1>3, <1>6 DEF PrevExact
    <3>2. CASE h[d].prev # NULL
      BY <2>4, <2>1, <3>2, <1>2, <1>6 DEF PrevExact
    <3> QED
      BY <3>1, <3>2
  <2> QED
    BY <2>2, <2>3, <2>4
<1>10. ListDisjoint(g)
  <2> SUFFICES ASSUME NEW d \in DOMAIN g, NEW e \in DOMAIN g, d < e
               PROVE  End(g, d) <= e
    BY DEF ListDisjoint
  <2>1. d \in DOMAIN h /\ e \in DOMAIN h /\ e # n
    BY <1>2
  <2>2. CASE d = c
    <3>1. n <= e
      BY <2>1, <2>2, <1>1, <1>2 DEF ListDisjoint
    <3> QED
      BY <2>1, <2>2, <3>1, <1>1, <1>3, <1>5 DEF ListDisjoint
  <2>3. CASE d # c
    BY <2>1, <2>3, <1>1, <1>5 DEF ListDisjoint
  <2> QED
    BY <2>2, <2>3
<1>11. ListCovers(g)
  <2> SUFFICES ASSUME NEW x \in HeapStart .. HeapEnd - 1
               PROVE  \E d \in DOMAIN g : d <= x /\ x < End(g, d)
    BY DEF ListCovers
  <2>1. PICK d \in DOMAIN h : d <= x /\ x < End(h, d)
    BY <1>1 DEF ListCovers
  <2>2. x \in Int
    BY HeapAssumption
  <2>3. CASE d = n \/ d = c
    <3>1. c <= x
      BY <2>1, <2>2, <2>3, <1>2, <1>3
    <3>2. x < End(h, n)
      BY <2>1, <2>2, <2>3, <1>2, <1>3, HeapAssumption DEF End
    <3> QED
      BY <3>1, <3>2, <1>4, <1>5
  <2>4. CASE d # n /\ d # c
    BY <2>1, <2>4, <1>2, <1>5
  <2> QED
    BY <2>3, <2>4
<1> QED
  BY <1>7, <1>8, <1>9, <1>10, <1>11 DEF ListExact, ListLinked

(* What Split does to each header: t is the address of the new one.        *)
SplitEffect(h, c, n, t, g) ==
  /\ t \in Nat /\ c < t /\ t + HDR < End(h, c) /\ t \notin DOMAIN h
  /\ DOMAIN g = DOMAIN h \cup {t}
  /\ g[t].next = h[c].next /\ g[t].prev = c
  /\ ~ g[t].isAllocated /\ g[t].size = h[c].size - n - HDR
  /\ g[c].next = t /\ g[c].prev = h[c].prev
  /\ g[c].isAllocated /\ g[c].size = n
  /\ \A d \in DOMAIN h \ {c} :
       /\ g[d].size = h[d].size /\ g[d].next = h[d].next
       /\ g[d].isAllocated = h[d].isAllocated
       /\ g[d].prev = IF d = h[c].next THEN t ELSE h[d].prev
  /\ g \in [DOMAIN g -> HeadersOf(g)]

(* Split has this effect when chunk c has room for a second header and a   *)
(* byte behind the n bytes taken from it.                                  *)
LEMMA SplitFields ==
  ASSUME NEW h, ListExact(h), NEW c \in DOMAIN h,
         NEW n \in 0 .. AddrSpace - 1, h[c].size > n, Splits(h, c, n)
  PROVE  SplitEffect(h, c, n, c + HDR + n, Split(h, c, n))
<1> DEFINE g == Split(h, c, n)
           t == c + HDR + n
<1>1. ListTyped(h) /\ ListLinked(h) /\ ListDisjoint(h)
  BY DEF ListExact
<1>2. /\ c \in Nat /\ h[c].size \in Nat /\ n \in Nat /\ HeapStart <= c
      /\ c + HDR + h[c].size <= HeapEnd
      /\ \A d \in DOMAIN h : d \in Nat /\ h[d].size \in Nat
  BY <1>1, ChunkInHeap
<1>3. n + HDR + 1 \in 0 .. AddrSpace - 1 /\ c + HDR + n \in 0 .. AddrSpace - 1
  BY <1>2, HeapAssumption DEF HeapEnd
<1>4. SizeT(n + HDR + 1) = n + HDR + 1 /\ RestAddr(c, n) = t
  BY <1>3, SizeTSmall DEF RestAddr
<1>5. h[c].size >= n + HDR + 1
  BY <1>4 DEF Splits
<1>6. /\ h[c].size - n - HDR \in 0 .. AddrSpace - 1
      /\ h[c].size - n - HDR \in Nat
  BY <1>2, <1>5, HeapAssumption DEF HeapEnd
<1>7. SizeT(h[c].size - n - HDR) = h[c].size - n - HDR
  BY <1>6, SizeTSmall
<1>8. t \in Nat /\ c < t /\ t + HDR < End(h, c) /\ t <= HeapEnd
  BY <1>2, <1>5, HeapAssumption DEF End, HeapEnd
<1>9. t \notin DOMAIN h
  <2> SUFFICES ASSUME t \in DOMAIN h
               PROVE  FALSE
    OBVIOUS
  <2>1. End(h, c) <= t
    BY <1>1, <1>8 DEF ListDisjoint
  <2> QED
    BY <2>1, <1>2, <1>8, HeapAssumption DEF End
<1>10. h[c].next # c /\ h[c].next # t
  BY <1>1, <1>2, <1>8, <1>9, HeapAssumption
  DEF ListLinked, NextExact, End, NULL
<1> DEFINE rest == Header(h[c].next, c, FALSE, SizeT(h[c].size - n - HDR))
           F(d) == CASE d = t             -> rest
                     [] d = c             -> Header(t, h[c].prev, TRUE, n)
                     [] d = h[c].next -> [h[d] EXCEPT !.prev = t]
                     [] OTHER             -> h[d]
<1>a. g = [d \in DOMAIN h \cup {t} |-> F(d)]
  BY <1>4 DEF Split
<1>b. rest = [next |-> h[c].next, prev |-> c, isAllocated |-> FALSE,
              size |-> h[c].size - n - HDR]
  BY <1>7 DEF Header
<1>c. F(t) = rest
  <2>1. t # c /\ t # h[c].next
    BY <1>8, <1>2, <1>10
  <2> HIDE DEF rest
  <2> QED
    BY <2>1
<1>d. F(c) = [next |-> t, prev |-> h[c].prev, isAllocated |-> TRUE, size |-> n]
  BY <1>8, <1>2, <1>10 DEF Header
<1>e. \A d \in DOMAIN h \ {c} :
        F(d) = IF d = h[c].next THEN [h[d] EXCEPT !.prev = t]
                                    ELSE h[d]
  BY <1>9
<1> HIDE DEF F, rest
<1>11. DOMAIN g = DOMAIN h \cup {t} /\ g = [d \in DOMAIN g |-> g[d]]
  BY <1>a
<1>12. g[t] = [next |-> h[c].next, prev |-> c, isAllocated |-> FALSE,
               size |-> h[c].size - n - HDR]
  BY <1>a, <1>b, <1>c
<1>13. g[c] = [next |-> t, prev |-> h[c].prev, isAllocated |-> TRUE, size |-> n]
  BY <1>a, <1>d
<1>f. /\ g[t].next = h[c].next /\ g[t].prev = c
      /\ ~ g[t].isAllocated /\ g[t].size = h[c].size - n - HDR
      /\ g[c].next = t /\ g[c].prev = h[c].prev
      /\ g[c].isAllocated /\ g[c].size = n
  BY <1>12, <1>13
<1>14. ASSUME NEW d \in DOMAIN h \ {c}
       PROVE  g[d] = IF d = h[c].next THEN [h[d] EXCEPT !.prev = t]
                                          ELSE h[d]
  BY <1>a, <1>e
<1>15. \A d \in DOMAIN h : h[d] \in HeadersOf(h)
  BY <1>1 DEF ListTyped
<1>16. ASSUME NEW d \in DOMAIN h \ {c}
       PROVE  /\ g[d].size = h[d].size /\ g[d].next = h[d].next
              /\ g[d].isAllocated = h[d].isAllocated
              /\ g[d].prev = IF d = h[c].next THEN t ELSE h[d].prev
              /\ g[d] \in HeadersOf(g)
  BY <1>11, <1>14, <1>15 DEF HeadersOf
<1>17. g[c] \in HeadersOf(g) /\ g[t] \in HeadersOf(g)
  BY <1>2, <1>6, <1>11, <1>12, <1>13, <1>15 DEF HeadersOf
<1> QED
  BY <1>8, <1>9, <1>11, <1>f, <1>16, <1>17 DEF SplitEffect

(* Splitting a chunk keeps the list exact.                                 *)
LEMMA SplitKeepsListExact ==
  ASSUME NEW h, ListExact(h), NEW c \in DOMAIN h,
         NEW n \in 0 .. AddrSpace - 1, h[c].size > n, Splits(h, c, n),
         NEW g, g = Split(h, c, n), NEW t, t = c + HDR + n
  PROVE  ListExact(g)
<1>1. ListTyped(h) /\ ListLinked(h) /\ ListDisjoint(h) /\ ListCovers(h)
  BY DEF ListExact
<1>2. /\ t \in Nat /\ c < t /\ t + HDR < End(h, c) /\ t \notin DOMAIN h
      /\ DOMAIN g = DOMAIN h \cup {t}
      /\ g[t].next = h[c].next /\ g[t].prev = c
      /\ ~ g[t].isAllocated /\ g[t].size = h[c].size - n - HDR
      /\ g[c].next = t /\ g[c].prev = h[c].prev
      /\ g[c].isAllocated /\ g[c].size = n
      /\ \A d \in DOMAIN h \ {c} :
           /\ g[d].size = h[d].size /\ g[d].next = h[d].next
           /\ g[d].isAllocated = h[d].isAllocated
           /\ g[d].prev = IF d = h[c].next THEN t ELSE h[d].prev
      /\ g \in [DOMAIN g -> HeadersOf(g)]
  <2>1. SplitEffect(h, c, n, c + HDR + n, g)
    BY SplitFields
  <2> QED
    BY <2>1 DEF SplitEffect
<1>4. /\ \A d \in DOMAIN h : d \in Nat /\ d # NULL /\ h[d].size \in Nat
      /\ HeapStart <= c /\ End(h, c) <= HeapEnd /\ c \in Nat /\ t # NULL
  BY <1>1, <1>2, ChunkInHeap, HeapAssumption DEF NULL, End
<1>5. /\ End(g, t) = End(h, c) /\ End(g, c) = t
      /\ \A d \in DOMAIN h \ {c} : End(g, d) = End(h, d)
  BY <1>2, <1>4, HeapAssumption DEF End, HeapEnd
<1>6. \A d \in DOMAIN h : NextExact(h, d) /\ PrevExact(h, d)
  BY <1>1 DEF ListLinked
<1>7. ListTyped(g)
  BY <1>1, <1>2, <1>4, HeapAssumption DEF ListTyped, End, HeapEnd
<1>8. NextExact(g, c) /\ PrevExact(g, t)
  BY <1>2, <1>5 DEF NextExact, PrevExact
<1>9. NextExact(g, t)
  <2>1. CASE h[c].next = NULL
    BY <2>1, <1>2, <1>4, <1>5, <1>6 DEF NextExact
  <2>2. CASE h[c].next # NULL
    <3>1. /\ h[c].next \in DOMAIN h /\ h[c].next = End(h, c)
          /\ h[c].next # c
      BY <2>2, <1>2, <1>4, <1>6, HeapAssumption DEF NextExact
    <3> QED
      BY <3>1, <1>2, <1>5 DEF NextExact
  <2> QED
    BY <2>1, <2>2
<1>10. PrevExact(g, c)
  <2>1. CASE h[c].prev = NULL
    BY <2>1, <1>2, <1>4, <1>6 DEF PrevExact
  <2>2. CASE h[c].prev # NULL
    <3>1. h[c].prev \in DOMAIN h /\ h[h[c].prev].next = c
      BY <2>2, <1>6 DEF PrevExact
    <3>2. h[c].prev # c
      BY <3>1, <1>2, <1>4, <1>6, HeapAssumption DEF NextExact, End
    <3> QED
      BY <3>1, <3>2, <1>2 DEF PrevExact
  <2> QED
    BY <2>1, <2>2
<1>11. ASSUME NEW d \in DOMAIN h \ {c}
       PROVE  NextExact(g, d)
  <2>1. CASE h[d].next = NULL
    BY <2>1, <1>2, <1>4, <1>5, <1>6 DEF NextExact
  <2>2. CASE h[d].next # NULL
    <3> DEFINE e == h[d].next
    <3>1. e \in DOMAIN h /\ e = End(h, d) /\ h[e].prev = d
      BY <2>2, <1>6 DEF NextExact
    <3>2. e = h[c].next => d = c
      BY <3>1, <1>4, <1>6 DEF NextExact
    <3>3. g[e].prev = d
      BY <3>1, <3>2, <1>2
    <3> QED
      BY <3>1, <3>3, <1>2, <1>5 DEF NextExact
  <2> QED
    BY <2>1, <2>2
<1>12. ASSUME NEW d \in DOMAIN h \ {c}
       PROVE  PrevExact(g, d)
  <2>1. CASE d = h[c].next
    BY <2>1, <1>2 DEF PrevExact
  <2>2. CASE d # h[c].next /\ h[d].prev = NULL
    BY <2>2, <1>2, <1>4, <1>6 DEF PrevExact
  <2>3. CASE d # h[c].next /\ h[d].prev # NULL
    <3>1. h[d].prev \in DOMAIN h /\ h[h[d].prev].next = d
      BY <2>3, <1>6 DEF PrevExact
    <3> QED
      BY <2>3, <3>1, <1>2 DEF PrevExact
  <2> QED
    BY <2>1, <2>2, <2>3
<1>13. ListLinked(g)
  BY <1>2, <1>8, <1>9, <1>10, <1>11, <1>12 DEF ListLinked
<1>14. ListDisjoint(g)
  <2> SUFFICES ASSUME NEW d \in DOMAIN g, NEW e \in DOMAIN g, d < e
               PROVE  End(g, d) <= e
    BY DEF ListDisjoint
  <2>1. CASE d = t
    <3>1. e \in DOMAIN h /\ c < e
      BY <2>1, <1>2, <1>4
    <3> QED
      BY <2>1, <3>1, <1>1, <1>5 DEF ListDisjoint
  <2>2. CASE d = c /\ e # t
    <3>1. e \in DOMAIN h /\ End(h, c) <= e
      BY <2>2, <1>1, <1>2 DEF ListDisjoint
    <3> QED
      BY <2>2, <3>1, <1>2, <1>4, <1>5, HeapAssumption DEF End
  <2>3. CASE d = c /\ e = t
    BY <2>3, <1>2, <1>5
  <2>4. CASE d # c /\ d # t /\ e # t
    BY <2>4, <1>1, <1>2, <1>5 DEF ListDisjoint
  <2>5. CASE d # c /\ d # t /\ e = t
    <3>1. d \in DOMAIN h
      BY <2>5, <1>2
    <3>2. ~ (c < d)
      <4> SUFFICES ASSUME c < d PROVE FALSE
        OBVIOUS
      <4>1. End(h, c) <= d
        BY <3>1, <1>1 DEF ListDisjoint
      <4> QED
        BY <4>1, <3>1, <2>5, <1>2, <1>4, HeapAssumption DEF End
    <3>3. End(h, d) <= c
      BY <3>1, <3>2, <2>5, <1>1, <1>4 DEF ListDisjoint
    <3> QED
      BY <3>1, <3>3, <2>5, <1>2, <1>4, <1>5, HeapAssumption DEF End
  <2> QED
    BY <2>1, <2>2, <2>3, <2>4, <2>5
<1>15. ListCovers(g)
  <2> SUFFICES ASSUME NEW x \in HeapStart .. HeapEnd - 1
               PROVE  \E d \in DOMAIN g : d <= x /\ x < End(g, d)
    BY DEF ListCovers
  <2>1. PICK d \in DOMAIN h : d <= x /\ x < End(h, d)
    BY <1>1 DEF ListCovers
  <2>2. CASE d # c
    BY <2>1, <2>2, <1>2, <1>5
  <2>3. CASE d = c /\ x < t
    BY <2>1, <2>3, <1>2, <1>5
  <2>4. CASE d = c /\ t <= x
    BY <2>1, <2>4, <1>2, <1>5
  <2>5. x \in Int
    BY HeapAssumption
  <2> QED
    BY <2>2, <2>3, <2>4, <2>5, <1>2
<1> QED
  BY <1>7, <1>13, <1>14, <1>15 DEF ListExact

-----------------------------------------------------------------------------

(* h has the allocated chunks of the present list, c excepted, and no      *)
(* other ones.                                                             *)
SameAllocated(h, c) ==
  /\ \A d \in DOMAIN chunk :
       d # c /\ chunk[d].isAllocated =>
         d \in DOMAIN h /\ h[d].isAllocated /\ h[d].size = chunk[d].size
  /\ \A d \in DOMAIN h :
       h[d].isAllocated => d \in DOMAIN chunk /\ d # c /\ chunk[d].isAllocated

(* s is free, and is the only chunk of h that may have a free successor.   *)
NearlyCoalesced(h, s) ==
  /\ s \in DOMAIN h /\ ~ h[s].isAllocated
  /\ \A d \in DOMAIN h \ {s} :
       h[d].next # NULL => h[d].isAllocated \/ h[h[d].next].isAllocated

(* Clearing isAllocated leaves everything else in place.                   *)
LEMMA MarkFreeFields ==
  ASSUME ListExact(chunk), NEW c \in DOMAIN chunk
  PROVE  /\ ListExact(MarkFree(c)) /\ DOMAIN MarkFree(c) = DOMAIN chunk
         /\ ~ MarkFree(c)[c].isAllocated
         /\ \A d \in DOMAIN chunk :
              /\ MarkFree(c)[d].next = chunk[d].next
              /\ MarkFree(c)[d].prev = chunk[d].prev
              /\ MarkFree(c)[d].size = chunk[d].size
              /\ d # c => MarkFree(c)[d].isAllocated = chunk[d].isAllocated
<1> DEFINE h == MarkFree(c)
<1>1. ListTyped(chunk) /\ ListLinked(chunk) /\ ListDisjoint(chunk) /\ ListCovers(chunk)
  BY DEF ListExact
<1>2. DOMAIN h = DOMAIN chunk /\ \A d \in DOMAIN chunk : chunk[d] \in HeadersOf(chunk)
  BY <1>1 DEF MarkFree, ListTyped
<1>3. /\ ~ h[c].isAllocated
      /\ \A d \in DOMAIN chunk :
              /\ h[d].next = chunk[d].next /\ h[d].prev = chunk[d].prev
              /\ h[d].size = chunk[d].size
              /\ d # c => h[d].isAllocated = chunk[d].isAllocated
  BY <1>2 DEF MarkFree, HeadersOf
<1>4. h \in [DOMAIN h -> HeadersOf(h)]
  BY <1>2 DEF MarkFree, HeadersOf
<1> HIDE DEF h
<1>5. ListTyped(h)
  BY <1>1, <1>2, <1>4 DEF ListTyped
<1>6. \A d \in DOMAIN h : End(h, d) = End(chunk, d)
  BY <1>2, <1>3 DEF End
<1>7. ListLinked(h)
  BY <1>1, <1>2, <1>3, <1>6 DEF ListLinked, NextExact, PrevExact
<1>8. ListDisjoint(h) /\ ListCovers(h)
  BY <1>1, <1>2, <1>6 DEF ListDisjoint, ListCovers
<1> QED
  BY <1>2, <1>3, <1>5, <1>7, <1>8 DEF ListExact, h

(* free's first merge: the list stays exact, and only the chunk that       *)
(* results may still have a free successor.                                *)
LEMMA MergePrevLemma ==
  ASSUME ListExact(chunk), Coalesced, HeapStart \in DOMAIN chunk,
         NEW c \in DOMAIN chunk, chunk[c].isAllocated
  PROVE  /\ ListExact(MergePrev(c)) /\ SameAllocated(MergePrev(c), c)
         /\ NearlyCoalesced(MergePrev(c), Survivor(c))
         /\ HeapStart \in DOMAIN MergePrev(c)
<1> DEFINE f == MarkFree(c)
           h == MergePrev(c)
           s == chunk[c].prev
<1>1. ListTyped(chunk) /\ ListLinked(chunk)
  BY DEF ListExact
<1>2. /\ ListExact(f) /\ DOMAIN f = DOMAIN chunk /\ ~ f[c].isAllocated
      /\ \A d \in DOMAIN chunk :
           /\ f[d].next = chunk[d].next /\ f[d].prev = chunk[d].prev
           /\ f[d].size = chunk[d].size
           /\ d # c => f[d].isAllocated = chunk[d].isAllocated
  BY MarkFreeFields
<1>3. /\ \A d \in DOMAIN chunk : d # NULL /\ d \in Nat /\ HeapStart <= d
      /\ \A d \in DOMAIN chunk : PrevExact(chunk, d) /\ NextExact(chunk, d)
  BY <1>1, ChunkInHeap, HeapAssumption DEF NULL, ListLinked
<1> HIDE DEF f
<1>4. CASE JoinsPrev(c)
  <2>1. /\ s \in DOMAIN chunk /\ chunk[s].next = c /\ s # c
        /\ ~ chunk[s].isAllocated
    BY <1>3, <1>4 DEF JoinsPrev, PrevExact
  <2>2. h = Absorb(f, s, c) /\ Survivor(c) = s
    BY <1>4 DEF MergePrev, Survivor, f
  <2> HIDE DEF h, s
  <2>3. f[s].next = c
    BY <2>1, <1>2
  <2>4. ListExact(h)
    BY <2>1, <2>2, <2>3, <1>2, AbsorbKeepsListExact
  <2>5. AbsorbEffect(f, s, c, h)
    BY <2>1, <2>2, <2>3, <1>2, AbsorbFields
  <2>6. /\ s < c /\ DOMAIN h = DOMAIN chunk \ {c} /\ ~ h[s].isAllocated
        /\ \A d \in DOMAIN h \ {s} :
              /\ h[d].next = chunk[d].next /\ h[d].size = chunk[d].size
              /\ h[d].isAllocated = chunk[d].isAllocated
    BY <2>1, <2>5, <1>2 DEF AbsorbEffect
  <2>7. SameAllocated(h, c)
    BY <2>1, <2>6 DEF SameAllocated
  <2>8. ASSUME NEW d \in DOMAIN h \ {s}, h[d].next # NULL
        PROVE  h[d].isAllocated \/ h[h[d].next].isAllocated
    <3> DEFINE e == chunk[d].next
    <3>1. e \in DOMAIN chunk /\ chunk[e].prev = d /\ h[d].next = e
      BY <2>6, <2>8, <1>3 DEF NextExact
    <3>2. e # c
      BY <3>1, <2>8 DEF s
    <3>3. chunk[d].isAllocated \/ chunk[e].isAllocated
      BY <3>1, <2>6, <1>3 DEF Coalesced
    <3> QED
      BY <3>1, <3>2, <3>3, <2>1, <2>6
  <2>9. NearlyCoalesced(h, s)
    BY <2>1, <2>6, <2>8 DEF NearlyCoalesced
  <2>10. HeapStart \in DOMAIN h
    BY <2>1, <2>6, <1>3, HeapAssumption
  <2> QED
    BY <2>2, <2>4, <2>7, <2>9, <2>10 DEF h
<1>5. CASE ~ JoinsPrev(c)
  <2>1. h = f /\ Survivor(c) = c
    BY <1>5 DEF MergePrev, Survivor, f
  <2>2. SameAllocated(f, c)
    BY <1>2 DEF SameAllocated
  <2>3. ASSUME NEW d \in DOMAIN f \ {c}, f[d].next # NULL
        PROVE  f[d].isAllocated \/ f[f[d].next].isAllocated
    <3> DEFINE e == chunk[d].next
    <3>1. e \in DOMAIN chunk /\ chunk[e].prev = d /\ f[d].next = e
      BY <2>3, <1>2, <1>3 DEF NextExact
    <3>2. e = c => chunk[d].isAllocated
      BY <3>1, <1>2, <1>3, <1>5, <2>3 DEF JoinsPrev
    <3>3. chunk[d].isAllocated \/ chunk[e].isAllocated
      BY <3>1, <1>2, <1>3, <2>3 DEF Coalesced
    <3> QED
      BY <3>1, <3>2, <3>3, <1>2, <2>3
  <2>4. NearlyCoalesced(f, c)
    BY <1>2, <2>3 DEF NearlyCoalesced
  <2> QED
    BY <1>2, <2>1, <2>2, <2>4
<1> QED
  BY <1>4, <1>5

(* free's second merge: what it leaves is a list without free neighbours.  *)
LEMMA FreedListLemma ==
  ASSUME ListExact(chunk), Coalesced, HeapStart \in DOMAIN chunk,
         NEW c \in DOMAIN chunk, chunk[c].isAllocated
  PROVE  /\ ListExact(FreedList(c)) /\ SameAllocated(FreedList(c), c)
         /\ \A d \in DOMAIN FreedList(c) :
              FreedList(c)[d].next # NULL =>
                \/ FreedList(c)[d].isAllocated
                \/ FreedList(c)[FreedList(c)[d].next].isAllocated
         /\ HeapStart \in DOMAIN FreedList(c)
<1> DEFINE h == MergePrev(c)
           s == Survivor(c)
           g == FreedList(c)
           n == h[s].next
<1>1. /\ ListExact(h) /\ SameAllocated(h, c) /\ NearlyCoalesced(h, s)
      /\ HeapStart \in DOMAIN h
  BY MergePrevLemma
<1>2. g = MergeNext(h, s)
  BY DEF FreedList
<1> HIDE DEF h, s, g
<1>3. /\ ListTyped(h) /\ ListLinked(h) /\ s \in DOMAIN h /\ ~ h[s].isAllocated
      /\ \A d \in DOMAIN h \ {s} :
           h[d].next # NULL => h[d].isAllocated \/ h[h[d].next].isAllocated
  BY <1>1 DEF ListExact, NearlyCoalesced
<1>4. /\ \A d \in DOMAIN h : d # NULL /\ d \in Nat /\ HeapStart <= d
      /\ \A d \in DOMAIN h : PrevExact(h, d) /\ NextExact(h, d)
  BY <1>3, ChunkInHeap, HeapAssumption DEF NULL, ListLinked
<1>5. CASE n # NULL /\ ~ h[n].isAllocated
  <2>1. g = Absorb(h, s, n)
    BY <1>2, <1>5 DEF MergeNext
  <2>2. n \in DOMAIN h /\ h[n].prev = s
    BY <1>3, <1>4, <1>5 DEF NextExact
  <2>3. ListExact(g)
    BY <2>1, <2>2, <1>1, <1>3, AbsorbKeepsListExact
  <2>4. AbsorbEffect(h, s, n, g)
    BY <2>1, <2>2, <1>1, <1>3, AbsorbFields
  <2>5. /\ s < n /\ DOMAIN g = DOMAIN h \ {n} /\ ~ g[s].isAllocated
        /\ h[n].next # s /\ h[n].next # n /\ g[s].next = h[n].next
        /\ \A d \in DOMAIN g \ {s} :
              /\ g[d].next = h[d].next /\ g[d].size = h[d].size
              /\ g[d].isAllocated = h[d].isAllocated
    BY <2>4, <1>3 DEF AbsorbEffect
  <2>6. SameAllocated(g, c)
    BY <2>2, <2>5, <1>1, <1>3, <1>5 DEF SameAllocated
  <2>7. ASSUME NEW d \in DOMAIN g, g[d].next # NULL
        PROVE  g[d].isAllocated \/ g[g[d].next].isAllocated
    <3>1. CASE d = s
      <4>1. h[n].next \in DOMAIN h /\ h[h[n].next].isAllocated
        BY <2>2, <2>5, <2>7, <3>1, <1>3, <1>4, <1>5 DEF NextExact
      <4> QED
        BY <4>1, <2>5, <3>1
    <3>2. CASE d # s
      <4>1. d \in DOMAIN h /\ g[d].next = h[d].next
        BY <3>2, <2>5
      <4>2. h[d].next \in DOMAIN h /\ h[h[d].next].prev = d
        BY <4>1, <2>7, <1>4 DEF NextExact
      <4>3. h[d].next # n
        BY <4>2, <2>2, <3>2
      <4>4. h[d].isAllocated \/ h[h[d].next].isAllocated
        BY <4>1, <3>2, <2>7, <1>3
      <4> QED
        BY <4>1, <4>2, <4>3, <4>4, <3>2, <2>5, <1>3
    <3> QED
      BY <3>1, <3>2
  <2>8. HeapStart \in DOMAIN g
    BY <2>2, <2>5, <1>1, <1>3, <1>4, HeapAssumption
  <2> QED
    BY <2>3, <2>6, <2>7, <2>8 DEF g
<1>6. CASE ~ (n # NULL /\ ~ h[n].isAllocated)
  <2>1. g = h
    BY <1>2, <1>6 DEF MergeNext
  <2>2. \A d \in DOMAIN h :
          h[d].next # NULL => h[d].isAllocated \/ h[h[d].next].isAllocated
    BY <1>3, <1>6
  <2> QED
    BY <1>1, <2>1, <2>2 DEF g
<1> QED
  BY <1>5, <1>6

-----------------------------------------------------------------------------

(* The constructor sets the invariant up.                                  *)
LEMMA InitIInv == Init => IInv
<1> SUFFICES ASSUME Init PROVE IInv
  OBVIOUS
<1> USE HeapAssumption DEF Init, NULL
<1>1. TypeOK
  <2>1. CASE HeapSize < HDR
    BY <2>1 DEF TypeOK, ListTyped, HeadersOf, Header
  <2>2. CASE ~ (HeapSize < HDR)
    <3>1. /\ chunk = [d \in {HeapStart} |->
                     [next |-> NULL, prev |-> NULL, isAllocated |-> FALSE,
                      size |-> HeapSize - HDR]]
          /\ HeapSize - HDR \in Nat
      BY <2>2 DEF Header
    <3>2. ListTyped(chunk)
      BY <3>1 DEF ListTyped, HeadersOf, HeapEnd
    <3> QED
      BY <2>2, <3>1, <3>2 DEF TypeOK
  <2> QED
    BY <2>1, <2>2
<1>2. HeapTiled
  <2>1. CASE HeapSize < HDR
    BY <2>1 DEF HeapTiled
  <2>2. CASE ~ (HeapSize < HDR)
    <3>1. DOMAIN chunk = {HeapStart} /\ pFirst = HeapStart
      BY <2>2
    <3>2. /\ chunk[HeapStart].next = NULL /\ chunk[HeapStart].prev = NULL
          /\ chunk[HeapStart].size = HeapSize - HDR
      BY <2>2 DEF Header
    <3>3. End(chunk, HeapStart) = HeapEnd
      BY <3>2 DEF End, HeapEnd
    <3>4. ListTyped(chunk)
      BY <1>1 DEF TypeOK
    <3>5. ListLinked(chunk)
      BY <3>1, <3>2, <3>3 DEF ListLinked, NextExact, PrevExact
    <3>6. ListDisjoint(chunk) /\ ListCovers(chunk)
      BY <3>1, <3>3 DEF ListDisjoint, ListCovers, HeapEnd
    <3> QED
      BY <2>2, <3>1, <3>4, <3>5, <3>6 DEF HeapTiled, ListExact
  <2> QED
    BY <2>1, <2>2
<1>3. Coalesced
  BY DEF Coalesced, Header
<1>4. HeldAreAllocated
  BY DEF HeldAreAllocated, Header
<1>5. NothingMissed
  BY DEF NothingMissed
<1> QED
  BY <1>1, <1>2, <1>3, <1>4, <1>5 DEF IInv

(* free keeps the invariant.                                               *)
LEMMA FreeIInv ==
  ASSUME IInv, NEW p \in DOMAIN held, Free(p)
  PROVE  IInv'
<1> DEFINE c == p - HDR
<1>1. TypeOK /\ HeapTiled /\ Coalesced /\ HeldAreAllocated /\ NothingMissed
  BY DEF IInv
<1>2. c \in DOMAIN chunk /\ chunk[c].isAllocated /\ p = c + HDR /\ p \in Nat /\ c \in Nat
  <2>1. p \in Nat /\ c \in DOMAIN chunk /\ chunk[c].isAllocated
    BY <1>1 DEF TypeOK, HeldAreAllocated
  <2> QED
    BY <2>1, <1>1, HeapAssumption DEF TypeOK, ListTyped, HeapEnd
<1>3. /\ ~ (HeapSize < HDR) /\ pFirst = HeapStart /\ HeapStart \in DOMAIN chunk
      /\ ListExact(chunk)
  BY <1>1, <1>2 DEF HeapTiled
<1>4. /\ chunk' = FreedList(c) /\ held' = Forget(p) /\ pc = "idle"
      /\ pActiveMemoryManager
      /\ UNCHANGED <<pFirst, pActiveMemoryManager, pc, size, pChunk>>
  BY DEF Free
<1>5. /\ ListExact(chunk') /\ SameAllocated(chunk', c)
      /\ \A d \in DOMAIN chunk' :
           chunk'[d].next # NULL =>
             chunk'[d].isAllocated \/ chunk'[chunk'[d].next].isAllocated
      /\ HeapStart \in DOMAIN chunk'
  BY <1>1, <1>2, <1>3, <1>4, FreedListLemma
<1>6. /\ DOMAIN held' = DOMAIN held \ {p}
      /\ \A q \in DOMAIN held' : held'[q] = held[q]
      /\ held' = [q \in DOMAIN held' |-> held'[q]]
  BY <1>4 DEF Forget
<1>7. ListTyped(chunk)' /\ ListExact(chunk)'
  BY <1>5 DEF ListExact
<1> HIDE DEF c
<1>8. TypeOK'
  <2>1. pFirst' \in DOMAIN chunk' \cup {NULL}
    BY <1>3, <1>4, <1>5
  <2>2. held' \in [DOMAIN held' -> Nat] /\ DOMAIN held' \subseteq Nat
    BY <1>1, <1>6 DEF TypeOK
  <2> QED
    BY <1>1, <1>4, <1>7, <2>1, <2>2 DEF TypeOK
<1>9. HeapTiled'
  BY <1>3, <1>4, <1>5, <1>7 DEF HeapTiled
<1>10. Coalesced'
  BY <1>5 DEF Coalesced
<1>11. HeldAreAllocated'
  <2>1. ASSUME NEW q \in DOMAIN held'
        PROVE  /\ q - HDR \in DOMAIN chunk' /\ chunk'[q - HDR].isAllocated
               /\ held'[q] <= chunk'[q - HDR].size
    <3>1. q \in DOMAIN held /\ q # p /\ held'[q] = held[q] /\ q \in Nat
      BY <1>1, <1>6 DEF TypeOK
    <3>2. q - HDR # c
      BY <3>1, <1>2, HeapAssumption
    <3> QED
      BY <3>1, <3>2, <1>1, <1>5 DEF HeldAreAllocated, SameAllocated
  <2>2. ASSUME NEW d \in DOMAIN chunk', chunk'[d].isAllocated
        PROVE  d + HDR \in DOMAIN held'
    <3>1. d \in DOMAIN chunk /\ d # c /\ chunk[d].isAllocated
      BY <2>2, <1>5 DEF SameAllocated
    <3>2. d + HDR \in DOMAIN held /\ d \in Nat
      BY <3>1, <1>1, <1>4, HeapAssumption
      DEF HeldAreAllocated, TypeOK, ListTyped, HeapEnd
    <3> QED
      BY <3>1, <3>2, <1>2, <1>6, HeapAssumption
  <2> QED
    BY <2>1, <2>2 DEF HeldAreAllocated
<1>12. NothingMissed'
  BY <1>4 DEF NothingMissed
<1> QED
  BY <1>8, <1>9, <1>10, <1>11, <1>12 DEF IInv

(* What malloc's last step does to the list: the chunk it stops at becomes  *)
(* allocated, and a chunk split off behind it is free.                     *)
LEMMA TakeFields ==
  ASSUME IInv, MallocTakes, NEW c, c = pChunk, NEW n, n = size
  PROVE  /\ ListExact(chunk)' /\ DOMAIN chunk \subseteq DOMAIN chunk'
         /\ chunk'[c].isAllocated /\ n <= chunk'[c].size
         /\ \A d \in DOMAIN chunk \ {c} :
              /\ chunk'[d].size = chunk[d].size
              /\ chunk'[d].isAllocated = chunk[d].isAllocated
              /\ chunk'[d].next = chunk[d].next
         /\ \A d \in DOMAIN chunk' \ DOMAIN chunk :
              ~ chunk'[d].isAllocated /\ chunk'[d].next = chunk[c].next
         /\ \/ chunk'[c].next = chunk[c].next
            \/ chunk'[c].next \in DOMAIN chunk' \ DOMAIN chunk
<1> DEFINE p == c + HDR
<1>1. TypeOK /\ HeapTiled /\ Coalesced /\ HeldAreAllocated /\ NothingMissed
  BY DEF IInv
<1>2. /\ pc = "scan" /\ c \in DOMAIN chunk /\ n \in 0 .. AddrSpace - 1
      /\ chunk[c].size > n /\ ~ chunk[c].isAllocated /\ c # NULL
      /\ chunk' = IF Splits(chunk, c, n) THEN Split(chunk, c, n)
                  ELSE [chunk EXCEPT ![c].isAllocated = TRUE]
      /\ held' = [q \in DOMAIN held \cup {p} |-> IF q = p THEN n ELSE held[q]]
      /\ pc' = "idle" /\ size' = 0 /\ pChunk' = NULL
      /\ pFirst' = pFirst /\ pActiveMemoryManager' = pActiveMemoryManager
  BY <1>1 DEF MallocTakes, TypeOK, Fits
<1>3. /\ ~ (HeapSize < HDR) /\ pFirst = HeapStart /\ HeapStart \in DOMAIN chunk
      /\ ListExact(chunk) /\ ListTyped(chunk) /\ ListLinked(chunk)
  BY <1>1, <1>2 DEF HeapTiled, ListExact
<1>4. \A d \in DOMAIN chunk :
        /\ d \in Nat /\ d # NULL /\ chunk[d].size \in Nat
        /\ chunk[d] \in HeadersOf(chunk)
        /\ NextExact(chunk, d) /\ PrevExact(chunk, d)
  BY <1>3, ChunkInHeap, HeapAssumption DEF NULL, ListTyped, ListLinked
<1>5. /\ ListExact(chunk)' /\ DOMAIN chunk \subseteq DOMAIN chunk'
      /\ chunk'[c].isAllocated /\ n <= chunk'[c].size
      /\ \A d \in DOMAIN chunk \ {c} :
           /\ chunk'[d].size = chunk[d].size
           /\ chunk'[d].isAllocated = chunk[d].isAllocated
           /\ chunk'[d].next = chunk[d].next
      /\ \A d \in DOMAIN chunk' \ DOMAIN chunk :
           ~ chunk'[d].isAllocated /\ chunk'[d].next = chunk[c].next
      /\ \/ chunk'[c].next = chunk[c].next
         \/ chunk'[c].next \in DOMAIN chunk' \ DOMAIN chunk
  <2>1. CASE Splits(chunk, c, n)
    <3>1. chunk' = Split(chunk, c, n)
      BY <1>2, <2>1
    <3>2. SplitEffect(chunk, c, n, c + HDR + n, chunk')
      BY <1>2, <1>3, <2>1, <3>1, SplitFields
    <3>3. ListExact(chunk')
      BY <1>2, <1>3, <2>1, <3>1, SplitKeepsListExact
    <3> QED
      BY <1>2, <3>2, <3>3 DEF SplitEffect
  <2>2. CASE ~ Splits(chunk, c, n)
    <3>1. chunk' = [chunk EXCEPT ![c].isAllocated = TRUE]
      BY <1>2, <2>2
    <3>a. chunk \in [DOMAIN chunk -> HeadersOf(chunk)] /\ DOMAIN chunk' = DOMAIN chunk
      BY <3>1, <1>3 DEF ListTyped
    <3>d. c \in DOMAIN chunk /\ \A d \in DOMAIN chunk : chunk[d] \in HeadersOf(chunk)
      BY <1>2, <1>4
    <3>b. /\ chunk'[c].isAllocated
          /\ \A d \in DOMAIN chunk :
               /\ chunk'[d].next = chunk[d].next /\ chunk'[d].prev = chunk[d].prev
               /\ chunk'[d].size = chunk[d].size
               /\ d # c => chunk'[d].isAllocated = chunk[d].isAllocated
      BY <3>1, <3>a, <3>d DEF HeadersOf
    <3>c. chunk' \in [DOMAIN chunk -> HeadersOf(chunk)]
      BY <3>1, <3>a, <3>d DEF HeadersOf
    <3>2. /\ DOMAIN chunk' = DOMAIN chunk /\ chunk'[c].isAllocated
          /\ \A d \in DOMAIN chunk :
               /\ chunk'[d].next = chunk[d].next /\ chunk'[d].prev = chunk[d].prev
               /\ chunk'[d].size = chunk[d].size
               /\ d # c => chunk'[d].isAllocated = chunk[d].isAllocated
          /\ chunk' \in [DOMAIN chunk -> HeadersOf(chunk)]
      BY <3>a, <3>b, <3>c
    <3>3. \A d \in DOMAIN chunk : End(chunk', d) = End(chunk, d)
      BY <3>2 DEF End
    <3>4. ListTyped(chunk')
      BY <3>2, <1>3 DEF ListTyped, HeadersOf
    <3>5. ListLinked(chunk')
      BY <3>2, <3>3, <1>3 DEF ListLinked, NextExact, PrevExact
    <3>6. ListDisjoint(chunk') /\ ListCovers(chunk')
      BY <3>2, <3>3, <1>3 DEF ListExact, ListDisjoint, ListCovers
    <3>7. n <= chunk'[c].size
      <4>1. n \in Int /\ chunk[c].size \in Nat /\ chunk[c].size > n
        BY <1>2, <1>4, HeapAssumption
      <4> QED
        BY <3>2, <3>d, <4>1
    <3> QED
      BY <3>2, <3>4, <3>5, <3>6, <3>7, <1>2 DEF ListExact
  <2> QED
    BY <2>1, <2>2
<1> QED
  BY <1>5

(* malloc's last step keeps the invariant.                                 *)
LEMMA TakeIInv ==
  ASSUME IInv, MallocTakes
  PROVE  IInv'
<1> DEFINE c == pChunk
           n == size
           p == c + HDR
<1>1. TypeOK /\ HeapTiled /\ Coalesced /\ HeldAreAllocated /\ NothingMissed
  BY DEF IInv
<1>2. /\ pc = "scan" /\ c \in DOMAIN chunk /\ n \in 0 .. AddrSpace - 1
      /\ chunk[c].size > n /\ ~ chunk[c].isAllocated /\ c # NULL
      /\ chunk' = IF Splits(chunk, c, n) THEN Split(chunk, c, n)
                  ELSE [chunk EXCEPT ![c].isAllocated = TRUE]
      /\ held' = [q \in DOMAIN held \cup {p} |-> IF q = p THEN n ELSE held[q]]
      /\ pc' = "idle" /\ size' = 0 /\ pChunk' = NULL
      /\ pFirst' = pFirst /\ pActiveMemoryManager' = pActiveMemoryManager
  BY <1>1 DEF MallocTakes, TypeOK, Fits
<1> HIDE DEF c, n
<1>3. /\ ~ (HeapSize < HDR) /\ pFirst = HeapStart /\ HeapStart \in DOMAIN chunk
      /\ ListExact(chunk) /\ ListTyped(chunk) /\ ListLinked(chunk)
  BY <1>1, <1>2 DEF HeapTiled, ListExact
<1>4. \A d \in DOMAIN chunk :
        /\ d \in Nat /\ d # NULL /\ chunk[d].size \in Nat
        /\ chunk[d] \in HeadersOf(chunk)
        /\ NextExact(chunk, d) /\ PrevExact(chunk, d)
  BY <1>3, ChunkInHeap, HeapAssumption DEF NULL, ListTyped, ListLinked
<1>5. /\ ListExact(chunk)' /\ DOMAIN chunk \subseteq DOMAIN chunk'
      /\ chunk'[c].isAllocated /\ n <= chunk'[c].size
      /\ \A d \in DOMAIN chunk \ {c} :
           /\ chunk'[d].size = chunk[d].size
           /\ chunk'[d].isAllocated = chunk[d].isAllocated
           /\ chunk'[d].next = chunk[d].next
      /\ \A d \in DOMAIN chunk' \ DOMAIN chunk :
           ~ chunk'[d].isAllocated /\ chunk'[d].next = chunk[c].next
      /\ \/ chunk'[c].next = chunk[c].next
         \/ chunk'[c].next \in DOMAIN chunk' \ DOMAIN chunk
  BY TakeFields DEF c, n
<1>6. TypeOK'
  <2>1. p \in Nat /\ n \in Nat
    BY <1>2, <1>4, HeapAssumption
  <2>2. held' \in [DOMAIN held' -> Nat] /\ DOMAIN held' \subseteq Nat
    BY <1>1, <1>2, <2>1 DEF TypeOK
  <2>3. size' \in 0 .. AddrSpace - 1
    BY <1>2, HeapAssumption
  <2>4. ListTyped(chunk)'
    BY <1>5 DEF ListExact
  <2> QED
    BY <1>1, <1>2, <1>3, <1>5, <2>2, <2>3, <2>4 DEF TypeOK
<1>7. HeapTiled'
  BY <1>2, <1>3, <1>5 DEF HeapTiled
<1>8. Coalesced'
  <2> SUFFICES ASSUME NEW d \in DOMAIN chunk', chunk'[d].next # NULL
               PROVE  chunk'[d].isAllocated \/ chunk'[chunk'[d].next].isAllocated
    BY DEF Coalesced
  <2>1. CASE d = c
    BY <2>1, <1>5
  <2>2. CASE d \in DOMAIN chunk /\ d # c
    <3>1. chunk'[d].next = chunk[d].next /\ chunk[d].next \in DOMAIN chunk
      BY <2>2, <1>4, <1>5 DEF NextExact
    <3>2. chunk[d].isAllocated \/ chunk[chunk[d].next].isAllocated
      BY <3>1, <2>2, <1>1 DEF Coalesced
    <3> QED
      BY <3>1, <3>2, <2>2, <1>5
  <2>3. CASE d \notin DOMAIN chunk
    <3>1. chunk'[d].next = chunk[c].next /\ chunk[c].next \in DOMAIN chunk
      BY <2>3, <1>2, <1>4, <1>5 DEF NextExact
    <3>2. chunk[chunk[c].next].isAllocated
      BY <3>1, <1>1, <1>2, <1>4 DEF Coalesced
    <3> QED
      BY <3>1, <3>2, <1>2, <1>5
  <2> QED
    BY <2>1, <2>2, <2>3
<1>9. HeldAreAllocated'
  <2>1. p - HDR = c
    BY <1>2, <1>4, HeapAssumption
  <2>2. ASSUME NEW q \in DOMAIN held'
        PROVE  /\ q - HDR \in DOMAIN chunk' /\ chunk'[q - HDR].isAllocated
               /\ held'[q] <= chunk'[q - HDR].size
    <3>1. CASE q = p
      BY <2>1, <3>1, <1>2, <1>5
    <3>2. CASE q # p
      <4>1. q \in DOMAIN held /\ held'[q] = held[q]
        BY <3>2, <1>2
      <4>2. /\ q - HDR \in DOMAIN chunk /\ chunk[q - HDR].isAllocated
            /\ held[q] <= chunk[q - HDR].size
        BY <4>1, <1>1 DEF HeldAreAllocated
      <4> QED
        BY <4>1, <4>2, <1>2, <1>5
    <3> QED
      BY <3>1, <3>2
  <2>3. ASSUME pActiveMemoryManager', NEW d \in DOMAIN chunk', chunk'[d].isAllocated
        PROVE  d + HDR \in DOMAIN held'
    <3>1. CASE d = c
      BY <3>1, <1>2
    <3>2. CASE d # c
      <4>1. d \in DOMAIN chunk /\ chunk[d].isAllocated
        BY <2>3, <3>2, <1>5
      <4> QED
        BY <2>3, <4>1, <1>1, <1>2 DEF HeldAreAllocated
    <3> QED
      BY <3>1, <3>2
  <2> QED
    BY <2>2, <2>3 DEF HeldAreAllocated
<1>10. NothingMissed'
  BY <1>2 DEF NothingMissed
<1> QED
  BY <1>6, <1>7, <1>8, <1>9, <1>10 DEF IInv

(* Every step keeps the invariant.                                         *)
LEMMA NextIInv ==
  ASSUME IInv, [Next]_vars
  PROVE  IInv'
<1>1. TypeOK /\ HeapTiled /\ Coalesced /\ HeldAreAllocated /\ NothingMissed
  BY DEF IInv
<1>2. ASSUME UNCHANGED <<pFirst, chunk, pActiveMemoryManager>>
      PROVE  (ListTyped(chunk) /\ HeapTiled /\ Coalesced)'
  BY <1>1, <1>2 DEF TypeOK, HeapTiled, Coalesced
<1>3. ASSUME NEW n \in Sizes, Malloc(n)
      PROVE  IInv'
  <2>1. n \in 0 .. AddrSpace - 1
    BY HeapAssumption
  <2>2. TypeOK'
    BY <2>1, <1>1, <1>3 DEF Malloc, TypeOK, ListTyped
  <2>3. NothingMissed'
    <3>1. ASSUME NEW c \in DOMAIN chunk
          PROVE  ~ (pFirst = NULL \/ c < pFirst)
      <4>1. pFirst = HeapStart /\ HeapStart <= c /\ c \in Nat
        BY <1>1, HeapAssumption DEF HeapTiled, ListExact, ListTyped, HeapEnd
      <4> QED
        BY <4>1, HeapAssumption DEF NULL
    <3> QED
      BY <3>1, <1>3 DEF Malloc, NothingMissed
  <2> QED
    BY <1>1, <1>2, <1>3, <2>2, <2>3 DEF Malloc, IInv, HeldAreAllocated
<1>4. ASSUME ScanNext
      PROVE  IInv'
  <2>1. pChunk \in DOMAIN chunk /\ pc = "scan" /\ pChunk # NULL
    BY <1>1, <1>4 DEF ScanNext, TypeOK
  <2>2. /\ NextExact(chunk, pChunk) /\ ListDisjoint(chunk)
        /\ \A c \in DOMAIN chunk : c \in Nat /\ chunk[c].size \in Nat
        /\ \A c \in DOMAIN chunk : c + HDR <= HeapEnd
    <3>1. ListExact(chunk)
      BY <2>1, <1>1 DEF HeapTiled
    <3> QED
      BY <2>1, <3>1, ChunkInHeap DEF ListExact, ListLinked
  <2>3. TypeOK'
    BY <2>1, <2>2, <1>1, <1>4 DEF ScanNext, TypeOK, NextExact
  <2>4. ASSUME NEW c \in DOMAIN chunk, pChunk' = NULL \/ c < pChunk'
        PROVE  ~ Fits(c)
    <3>1. c = pChunk \/ c < pChunk \/ pChunk < c
      BY <2>1, <2>2
    <3>2. CASE pChunk < c
      <4>1. End(chunk, pChunk) <= c /\ c < HeapEnd
        BY <2>1, <2>2, <3>2, HeapAssumption DEF ListDisjoint, HeapEnd
      <4>2. pChunk' = chunk[pChunk].next
        BY <1>4 DEF ScanNext
      <4> QED
        BY <2>1, <2>2, <2>4, <4>1, <4>2, HeapAssumption
        DEF NextExact, End, HeapEnd, NULL
    <3> QED
      BY <2>1, <3>1, <3>2, <1>1, <1>4 DEF ScanNext, NothingMissed
  <2>5. NothingMissed'
    BY <2>4, <1>1, <1>4 DEF ScanNext, NothingMissed, Fits
  <2> QED
    BY <1>1, <1>2, <1>4, <2>3, <2>5 DEF ScanNext, IInv, HeldAreAllocated
<1>5. ASSUME MallocFails
      PROVE  IInv'
  <2>1. TypeOK'
    BY <1>1, <1>5, HeapAssumption DEF MallocFails, TypeOK, ListTyped
  <2> QED
    BY <1>1, <1>2, <1>5, <2>1 DEF MallocFails, IInv, HeldAreAllocated, NothingMissed
<1>6. ASSUME NEW p \in DOMAIN held, DeleteIgnored(p)
      PROVE  IInv'
  <2>1. TypeOK'
    BY <1>1, <1>6 DEF DeleteIgnored, Forget, TypeOK, ListTyped
  <2>2. HeldAreAllocated'
    BY <1>1, <1>6 DEF DeleteIgnored, Forget, HeldAreAllocated
  <2> QED
    BY <1>1, <1>2, <1>6, <2>1, <2>2 DEF DeleteIgnored, IInv, NothingMissed
<1>7. ASSUME Destroy
      PROVE  IInv'
  BY <1>1, <1>7 DEF Destroy, IInv, TypeOK, ListTyped, HeapTiled, Coalesced,
                    HeldAreAllocated, NothingMissed
<1>8. ASSUME UNCHANGED vars
      PROVE  IInv'
  BY <1>1, <1>8 DEF vars, IInv, TypeOK, ListTyped, HeapTiled, Coalesced,
                    HeldAreAllocated, NothingMissed, Fits
<1> QED
  BY <1>3, <1>4, <1>5, <1>6, <1>7, <1>8, FreeIInv, TakeIInv DEF Next, Scan

(* The list stays exact and coalesced, and agrees with what the clients    *)
(* hold, in every reachable state of every heap.                           *)
THEOREM HeapInvariant == Spec => []IInv
<1>1. IInv /\ [Next]_vars => IInv'
  BY NextIInv
<1> QED
  BY <1>1, InitIInv, PTL DEF Spec

(* Types: every reachable state is well typed.                             *)
THEOREM TypeCorrect == Spec => []TypeOK
<1>1. IInv => TypeOK
  BY DEF IInv
<1> QED
  BY <1>1, HeapInvariant, PTL

(* Two blocks handed out by malloc never overlap.                          *)
THEOREM BlocksNeverOverlap == Spec => []BlocksDisjoint
<1>1. ASSUME IInv
      PROVE  BlocksDisjoint
  <2> SUFFICES ASSUME NEW p \in DOMAIN held, NEW q \in DOMAIN held
               PROVE  /\ HeapStart + HDR <= p
                      /\ p + held[p] <= HeapEnd
                      /\ p < q => p + held[p] + HDR <= q
    BY DEF BlocksDisjoint
  <2> DEFINE c == p - HDR
             d == q - HDR
  <2>1. /\ c \in DOMAIN chunk /\ d \in DOMAIN chunk
        /\ held[p] <= chunk[c].size /\ p \in Nat /\ q \in Nat /\ held[p] \in Nat
    BY <1>1 DEF IInv, TypeOK, HeldAreAllocated
  <2>2. ListExact(chunk)
    BY <1>1, <2>1 DEF IInv, HeapTiled
  <2>3. /\ c \in Nat /\ d \in Nat /\ chunk[c].size \in Nat /\ HeapStart <= c
        /\ c + HDR + chunk[c].size <= HeapEnd
        /\ c < d => c + HDR + chunk[c].size <= d
    BY <2>1, <2>2, ChunkInHeap DEF ListExact, ListDisjoint, End
  <2> QED
    BY <2>1, <2>3, HeapAssumption DEF HeapEnd
<1> QED
  BY <1>1, HeapInvariant, PTL

(* When every block has been freed, free has put the heap together again.  *)
THEOREM HeapIsRestored == Spec => []HeapRestored
<1>1. ASSUME IInv
      PROVE  HeapRestored
  <2> SUFFICES ASSUME pActiveMemoryManager, DOMAIN held = {}, HeapSize >= HDR
               PROVE  chunk = [c \in {HeapStart} |->
                                 Header(NULL, NULL, FALSE, HeapSize - HDR)]
    BY DEF HeapRestored
  <2> DEFINE a == HeapStart
  <2>1. /\ ~ (HeapSize < HDR) /\ a \in DOMAIN chunk
        /\ ListExact(chunk) /\ ListTyped(chunk) /\ ListLinked(chunk)
    BY <1>1, HeapAssumption DEF IInv, HeapTiled, ListExact
  <2>2. \A c \in DOMAIN chunk :
          /\ ~ chunk[c].isAllocated /\ c \in Nat /\ c # NULL
          /\ NextExact(chunk, c) /\ PrevExact(chunk, c)
          /\ c + HDR <= HeapEnd /\ HeapStart <= c /\ chunk[c] \in HeadersOf(chunk)
    BY <1>1, <2>1, ChunkInHeap, HeapAssumption
    DEF IInv, HeldAreAllocated, ListLinked, ListTyped, NULL
  <2>3. \A c \in DOMAIN chunk : chunk[c].next = NULL /\ End(chunk, c) = HeapEnd
    BY <1>1, <2>2 DEF IInv, Coalesced, NextExact
  <2>4. DOMAIN chunk = {a}
    <3> SUFFICES ASSUME NEW c \in DOMAIN chunk, c # a
                 PROVE  FALSE
      BY <2>1
    <3>1. a < c
      BY <2>1, <2>2, HeapAssumption
    <3>2. End(chunk, a) <= c
      BY <2>1, <3>1 DEF ListExact, ListDisjoint
    <3> QED
      BY <2>1, <2>2, <2>3, <3>2, HeapAssumption DEF HeapEnd
  <2>5. chunk[a].prev = NULL
    BY <2>1, <2>2, <2>3 DEF PrevExact
  <2>6. chunk[a].size = HeapSize - HDR
    <3>1. chunk[a].size \in Nat /\ a + HDR + chunk[a].size = a + HeapSize
      BY <2>1, <2>2, <2>3 DEF HeadersOf, End, HeapEnd
    <3> QED
      BY <3>1, HeapAssumption
  <2>7. chunk[a] = [next |-> NULL, prev |-> NULL, isAllocated |-> FALSE,
                    size |-> HeapSize - HDR]
    BY <2>1, <2>2, <2>3, <2>5, <2>6 DEF HeadersOf
  <2>8. chunk = [c \in {a} |-> chunk[c]]
    BY <2>1, <2>4 DEF ListTyped
  <2> QED
    BY <2>7, <2>8 DEF Header
<1> QED
  BY <1>1, HeapInvariant, PTL

(* Every step leaves the chunk of every block that stays held in the list, *)
(* allocated and with the same size.                                       *)
LEMMA StepKeepsBlocks ==
  ASSUME IInv, [Next]_vars, NEW p \in DOMAIN held, p \in DOMAIN held'
  PROVE  /\ p - HDR \in DOMAIN chunk /\ p - HDR \in DOMAIN chunk'
         /\ chunk'[p - HDR].size = chunk[p - HDR].size
<1> DEFINE c == p - HDR
<1>1. c \in DOMAIN chunk /\ chunk[c].isAllocated /\ p \in Nat
  BY DEF IInv, TypeOK, HeldAreAllocated
<1>2. ASSUME NEW q \in DOMAIN held, Free(q)
      PROVE  c \in DOMAIN chunk' /\ chunk'[c].size = chunk[c].size
  <2> DEFINE d == q - HDR
  <2>1. d \in DOMAIN chunk /\ chunk[d].isAllocated /\ q \in Nat
    BY <1>2 DEF IInv, TypeOK, HeldAreAllocated
  <2>2. c # d
    BY <1>1, <1>2, <2>1, HeapAssumption DEF Free, Forget
  <2>3. HeapStart \in DOMAIN chunk /\ ListExact(chunk) /\ Coalesced
    BY <1>1 DEF IInv, HeapTiled
  <2>4. SameAllocated(chunk', d)
    BY <1>2, <2>1, <2>3, FreedListLemma DEF Free
  <2> QED
    BY <1>1, <2>2, <2>4 DEF SameAllocated
<1>3. ASSUME MallocTakes
      PROVE  c \in DOMAIN chunk' /\ chunk'[c].size = chunk[c].size
  <2>1. c # pChunk
    BY <1>1, <1>3 DEF MallocTakes, Fits
  <2>2. /\ DOMAIN chunk \subseteq DOMAIN chunk'
        /\ \A d \in DOMAIN chunk \ {pChunk} : chunk'[d].size = chunk[d].size
    BY <1>3, TakeFields
  <2> QED
    BY <1>1, <2>1, <2>2
<1>4. ASSUME UNCHANGED chunk
      PROVE  c \in DOMAIN chunk' /\ chunk'[c].size = chunk[c].size
  BY <1>1, <1>4
<1> QED
  BY <1>1, <1>2, <1>3, <1>4
  DEF Next, vars, Malloc, Scan, ScanNext, MallocFails, DeleteIgnored, Destroy

(* A block stays where it is, with its size, for as long as it is held.    *)
THEOREM BlocksNeverMove == Spec => BlocksStay
<1>1. ASSUME IInv, [Next]_vars
      PROVE  [\A p \in DOMAIN held \cap DOMAIN held' :
                /\ p - HDR \in DOMAIN chunk'
                /\ chunk'[p - HDR].size = chunk[p - HDR].size]_vars
  BY <1>1, StepKeepsBlocks
<1> QED
  BY <1>1, HeapInvariant, PTL DEF Spec, BlocksStay

-----------------------------------------------------------------------------

(* malloc returns 0 only when no run of unused bytes could have held the   *)
(* request, its header and the header and byte of a remainder.             *)
LEMMA RefusedMeansFull ==
  ASSUME IInv, MallocFails
  PROVE  ~ Alloc!Room(size)
<1>1. /\ pc = "scan" /\ pChunk = NULL /\ pActiveMemoryManager
      /\ \A c \in DOMAIN chunk : ~ Fits(c)
      /\ size \in 0 .. AddrSpace - 1 /\ size \in Nat
  BY HeapAssumption DEF MallocFails, IInv, NothingMissed, TypeOK
<1> DEFINE k == size + 2 * HDR + 1
<1> SUFFICES ASSUME NEW a \in HeapStart .. HeapEnd, Alloc!Vacant(a, k)
             PROVE  FALSE
  BY DEF Alloc!Room
<1>2. /\ a \in Nat /\ k \in Nat /\ HeapStart <= a /\ a + k <= HeapEnd
      /\ \A b \in DOMAIN held : a + k <= b \/ b + chunk[b - HDR].size <= a
  BY <1>1, HeapAssumption DEF Alloc!Vacant, Blocks, HeapEnd
<1>3. ~ (HeapSize < HDR)
  BY <1>1, <1>2, HeapAssumption DEF HeapEnd
<1>4. /\ ListExact(chunk) /\ ListTyped(chunk) /\ ListLinked(chunk)
      /\ ListCovers(chunk)
  BY <1>3 DEF IInv, HeapTiled, ListExact
<1>5. ASSUME NEW c \in DOMAIN chunk
      PROVE  /\ c \in Nat /\ c # NULL /\ chunk[c].size \in Nat
             /\ NextExact(chunk, c)
             /\ chunk[c].isAllocated => c + HDR \in DOMAIN held
  BY <1>1, <1>4, <1>5, ChunkInHeap, HeapAssumption
  DEF IInv, HeldAreAllocated, ListLinked, NULL
<1>6. PICK c \in DOMAIN chunk : c <= a /\ a < End(chunk, c)
  BY <1>1, <1>2, <1>4, HeapAssumption DEF ListCovers, HeapEnd
<1>7. CASE chunk[c].isAllocated
  <2>1. c + HDR \in DOMAIN held /\ (c + HDR) - HDR = c
    BY <1>5, <1>7, HeapAssumption
  <2>2. a + k <= c + HDR \/ c + HDR + chunk[c].size <= a
    BY <1>2, <2>1
  <2> QED
    BY <1>1, <1>2, <1>5, <1>6, <2>2, HeapAssumption DEF End
<1>8. CASE ~ chunk[c].isAllocated
  <2>1. chunk[c].size <= size
    BY <1>1, <1>5, <1>8 DEF Fits
  <2>2. End(chunk, c) <= a + size + HDR
    BY <1>1, <1>2, <1>5, <1>6, <2>1, HeapAssumption DEF End
  <2>3. End(chunk, c) < HeapEnd
    BY <1>1, <1>2, <1>5, <2>2, HeapAssumption DEF End, HeapEnd
  <2> DEFINE e == chunk[c].next
  <2>4. e \in DOMAIN chunk /\ e = End(chunk, c) /\ e # NULL
    BY <1>5, <2>3, HeapAssumption DEF NextExact, HeapEnd, End
  <2>5. chunk[e].isAllocated
    BY <1>8, <2>4 DEF IInv, Coalesced
  <2>6. e + HDR \in DOMAIN held /\ (e + HDR) - HDR = e /\ chunk[e].size \in Nat
    BY <1>5, <2>4, <2>5, HeapAssumption
  <2>7. a + k <= e + HDR \/ e + HDR + chunk[e].size <= a
    BY <1>2, <2>6
  <2> QED
    BY <1>1, <1>2, <1>5, <1>6, <2>2, <2>4, <2>6, <2>7, HeapAssumption
<1> QED
  BY <1>7, <1>8

(* What malloc returns is a grant: fresh bytes, as many as asked for and   *)
(* at most a header more.                                                  *)
LEMMA TakeIsGrant ==
  ASSUME IInv, MallocTakes
  PROVE  \E a \in HeapStart .. HeapEnd, m \in Want .. Want + HDR :
           Alloc!Grant(a, m)
<1> DEFINE c == pChunk
           n == size
           p == c + HDR
           m == chunk'[c].size
<1>1. /\ pc = "scan" /\ c \in DOMAIN chunk /\ n \in Nat /\ n \in 0 .. AddrSpace - 1
      /\ chunk[c].size > n /\ ~ chunk[c].isAllocated /\ c # NULL
      /\ held' = [q \in DOMAIN held \cup {p} |-> IF q = p THEN n ELSE held[q]]
      /\ pc' = "idle"
  BY HeapAssumption DEF IInv, MallocTakes, TypeOK, Fits
<1>2. ListExact(chunk) /\ HeapTiled
  BY <1>1 DEF IInv, HeapTiled
<1>3. \A d \in DOMAIN chunk :
        /\ d \in Nat /\ chunk[d].size \in Nat /\ HeapStart <= d
        /\ d + HDR + chunk[d].size <= HeapEnd
  BY <1>2, ChunkInHeap DEF ListExact
<1>4. m \in n .. n + HDR /\ m <= chunk[c].size /\ m \in Nat
  <2>1. CASE Splits(chunk, c, n)
    <3>1. SplitEffect(chunk, c, n, c + HDR + n, chunk')
      BY <1>1, <1>2, <2>1, SplitFields DEF MallocTakes
    <3> QED
      BY <3>1, <1>1, <1>3, HeapAssumption DEF SplitEffect
  <2>2. CASE ~ Splits(chunk, c, n)
    <3>1. m = chunk[c].size
      <4>1. chunk' = [chunk EXCEPT ![c].isAllocated = TRUE]
        BY <2>2 DEF MallocTakes
      <4>2. chunk[c] \in HeadersOf(chunk)
        BY <1>1, <1>2 DEF ListExact, ListTyped
      <4> QED
        BY <4>1, <4>2, <1>1 DEF HeadersOf
    <3>2. n + HDR + 1 \in 0 .. AddrSpace - 1
      BY <1>1, <1>3, HeapAssumption DEF HeapEnd
    <3>3. chunk[c].size < n + HDR + 1
      BY <2>2, <3>2, <1>1, <1>3, SizeTSmall, HeapAssumption DEF Splits
    <3> QED
      BY <3>1, <3>3, <1>1, <1>3, HeapAssumption
  <2> QED
    BY <2>1, <2>2
<1> HIDE DEF m
<1>5. p \in HeapStart .. HeapEnd /\ p \in Nat /\ p - HDR = c
  BY <1>1, <1>3, HeapAssumption DEF HeapEnd
<1>6. \A b \in DOMAIN held : b \in Nat /\ b - HDR \in DOMAIN chunk /\ b - HDR # c
  BY <1>1 DEF IInv, TypeOK, HeldAreAllocated
<1>7. p \notin DOMAIN held
  BY <1>5, <1>6
<1>8. ASSUME NEW b \in DOMAIN held
      PROVE  p + m <= b \/ b + chunk[b - HDR].size <= p
  <2> DEFINE d == b - HDR
  <2>1. d \in DOMAIN chunk /\ d # c /\ d \in Nat /\ b = d + HDR
    BY <1>3, <1>6, HeapAssumption
  <2>2. CASE c < d
    <3>1. c + HDR + chunk[c].size <= d
      BY <1>1, <1>2, <2>1, <2>2 DEF ListExact, ListDisjoint, End
    <3> QED
      BY <1>1, <1>3, <1>4, <2>1, <3>1, HeapAssumption
  <2>3. CASE d < c
    <3>1. d + HDR + chunk[d].size <= c
      BY <1>1, <1>2, <2>1, <2>3 DEF ListExact, ListDisjoint, End
    <3> QED
      BY <1>1, <1>3, <2>1, <3>1, HeapAssumption
  <2> QED
    BY <1>1, <1>3, <2>1, <2>2, <2>3
<1>9. Alloc!Vacant(p, m)
  <2>1. HeapStart <= p /\ p + m <= HeapEnd
    BY <1>1, <1>3, <1>4, HeapAssumption DEF HeapEnd
  <2>2. DOMAIN Blocks = DOMAIN held
        /\ \A b \in DOMAIN held : Blocks[b] = chunk[b - HDR].size
    BY DEF Blocks
  <2> QED
    BY <2>1, <2>2, <1>8 DEF Alloc!Vacant
<1>10. Blocks' = [b \in DOMAIN Blocks \cup {p} |-> IF b = p THEN m ELSE Blocks[b]]
  <2>1. \A b \in DOMAIN held : chunk'[b - HDR].size = chunk[b - HDR].size
    <3>1. \A d \in DOMAIN chunk \ {c} : chunk'[d].size = chunk[d].size
      BY TakeFields
    <3> QED
      BY <1>6, <3>1
  <2>2. DOMAIN held' = DOMAIN held \cup {p}
    BY <1>1
  <2>3. Blocks' = [b \in DOMAIN held \cup {p} |-> chunk'[b - HDR].size]
    BY <2>2 DEF Blocks
  <2>4. \A b \in DOMAIN held \cup {p} :
          chunk'[b - HDR].size = IF b = p THEN m ELSE Blocks[b]
    BY <2>1, <1>5, <1>7 DEF Blocks, m
  <2> QED
    BY <2>3, <2>4 DEF Blocks
<1>11. Want = n /\ Want' = -1 /\ Want # -1
  BY <1>1 DEF Want
<1>12. Alloc!Grant(p, m)
  BY <1>7, <1>9, <1>10, <1>11 DEF Alloc!Grant, Blocks
<1> QED
  BY <1>4, <1>5, <1>11, <1>12

(* The first-fit heap implements the abstract allocator.                   *)
THEOREM HeapImplementsAllocator == Spec => ImplementsAllocator
<1>1. Init => Alloc!Init
  BY DEF Init, Alloc!Init, Blocks, Want
<1>2. ASSUME IInv, [Next]_vars
      PROVE  [Alloc!Next]_(Alloc!vars)
  <2> USE DEF Alloc!Next, Alloc!vars
  <2>1. ASSUME UNCHANGED <<chunk, held, pc, size>>
        PROVE  UNCHANGED Alloc!vars
    BY <2>1 DEF Blocks, Want
  <2>2. ASSUME NEW n \in Sizes, Malloc(n)
        PROVE  Alloc!Next
    <3>1. Want = -1 /\ Want' = n /\ n # -1 /\ Blocks' = Blocks
      BY <2>2, HeapAssumption DEF Malloc, Want, Blocks
    <3> QED
      BY <3>1 DEF Alloc!Request
  <2>3. CASE ScanNext
    BY <2>1, <2>3 DEF ScanNext
  <2>4. CASE MallocFails
    <3>1. Want = size /\ Want' = -1 /\ Want # -1 /\ Blocks' = Blocks
      BY <1>2, <2>4, HeapAssumption
      DEF MallocFails, Want, Blocks, IInv, TypeOK
    <3>2. ~ Alloc!Room(Want)
      BY <1>2, <2>4, <3>1, RefusedMeansFull
    <3> QED
      BY <3>1, <3>2 DEF Alloc!Refuse
  <2>5. CASE MallocTakes
    BY <1>2, <2>5, TakeIsGrant
  <2>6. ASSUME NEW p \in DOMAIN held, Free(p) \/ DeleteIgnored(p)
        PROVE  Alloc!Next
    <3>1. /\ held' = Forget(p) /\ pc = "idle" /\ pc' = pc
      BY <2>6 DEF Free, DeleteIgnored
    <3>2. DOMAIN held' = DOMAIN held \ {p}
      BY <3>1 DEF Forget
    <3>3. \A q \in DOMAIN held' : chunk'[q - HDR].size = chunk[q - HDR].size
      BY <1>2, <3>2, StepKeepsBlocks
    <3>4. Blocks' = [b \in DOMAIN Blocks \ {p} |-> Blocks[b]]
      BY <3>2, <3>3 DEF Blocks
    <3>5. Want = -1 /\ Want' = -1
      BY <3>1 DEF Want
    <3>6. Alloc!Release(p) /\ p \in DOMAIN Blocks
      BY <3>4, <3>5 DEF Alloc!Release, Blocks
    <3> QED
      BY <3>6
  <2>7. CASE Destroy
    BY <2>1, <2>7 DEF Destroy
  <2>8. CASE UNCHANGED vars
    BY <2>1, <2>8 DEF vars
  <2> QED
    BY <1>2, <2>2, <2>3, <2>4, <2>5, <2>6, <2>7, <2>8 DEF Next, Scan
<1> QED
  BY <1>1, <1>2, HeapInvariant, PTL DEF Spec, ImplementsAllocator, Alloc!Spec

=============================================================================
