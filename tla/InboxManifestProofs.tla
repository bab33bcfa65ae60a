------------------------ MODULE InboxManifestProofs ------------------------
(***************************************************************************)
(* What the manifest operators preserve, for any manifest that is well     *)
(* made: items with distinct ids and distinct bodies, and keys only on     *)
(* listed items.  The theorems about the store and about the controller    *)
(* rest on these lemmas.                                                   *)
(***************************************************************************)
EXTENDS InboxManifest, FiniteSetTheorems, SequenceTheorems, WellFoundedInduction, TLAPS

-----------------------------------------------------------------------------
(***************************************************************************)
(* Sequences and positions.                                                *)
(***************************************************************************)

(* A non-empty set of naturals has a least element.                         *)
LEMMA LeastElement ==
    ASSUME NEW S \in SUBSET Nat, S # {}
    PROVE  \E x \in S : \A y \in S : x <= y
<1> DEFINE R == OpToRel(<, Nat)
<1>1. IsWellFoundedOn(R, Nat)
    BY NatLessThanWellFounded
<1>2. \A a, b \in Nat : a < b => <<a, b>> \in R
    BY DEF OpToRel
<1> HIDE DEF R
<1>3. PICK x \in S : \A y \in S : ~(<<y, x>> \in R)
    BY <1>1, WFMin
<1>4. x \in Nat /\ \A y \in S : y \in Nat /\ ~(y < x)
    BY <1>2, <1>3
<1>5. \A y \in S : x <= y
    BY <1>4
<1> QED BY <1>5

(* Any finite set of positions can be listed from the first to the last.    *)
LEMMA PositionsInOrder ==
    ASSUME NEW S \in SUBSET Nat, IsFiniteSet(S)
    PROVE  \E f \in [1..Cardinality(S) -> S] : InOrder(f, S)
<1> DEFINE Fine(T) == \E f \in [1..Cardinality(T) -> T] : InOrder(f, T)
           Bad == {n \in Nat : \E T \in SUBSET Nat : IsFiniteSet(T) /\ Cardinality(T) = n /\ ~Fine(T)}
<1> SUFFICES ASSUME ~Fine(S) PROVE FALSE
    OBVIOUS
<1>1. Cardinality(S) \in Bad
    BY FS_CardinalityType
<1>2. PICK n \in Bad : \A k \in Bad : n <= k
    BY <1>1, LeastElement
<1>3. PICK T \in SUBSET Nat : IsFiniteSet(T) /\ Cardinality(T) = n /\ ~Fine(T)
    BY <1>2
<1>4. n \in Nat
    BY <1>2
<1>5. T # {}
    <2> SUFFICES ASSUME T = {} PROVE FALSE
        OBVIOUS
    <2>1. n = 0
        BY <1>3, FS_EmptySet
    <2>2. <<>> \in [1..0 -> {}]
        OBVIOUS
    <2>3. InOrder(<<>>, {})
        BY FS_EmptySet DEF InOrder
    <2> QED BY <1>3, <2>1, <2>2, <2>3
<1>6. PICK x \in T : \A y \in T : x <= y
    BY <1>5, LeastElement
<1> DEFINE U == T \ {x}
<1>7. IsFiniteSet(U) /\ Cardinality(U) = n - 1 /\ U \in SUBSET Nat
    BY <1>3, <1>6, FS_RemoveElement
<1>8. n - 1 \in Nat
    BY <1>7, FS_CardinalityType
<1>9. Fine(U)
    <2> SUFFICES ASSUME ~Fine(U) PROVE FALSE
        OBVIOUS
    <2>1. n - 1 \in Bad
        BY <1>7, <1>8
    <2> HIDE DEF Bad
    <2> QED BY <1>2, <1>4, <2>1
<1>10. PICK g \in [1..(n - 1) -> U] : \A i, j \in 1..(n - 1) : i < j => g[i] < g[j]
    BY <1>7, <1>9 DEF InOrder
<1> DEFINE f == [i \in 1..n |-> IF i = 1 THEN x ELSE g[i - 1]]
<1>11. \A i \in 1..n : i # 1 => i - 1 \in 1..(n - 1)
    BY <1>4
<1>12. f \in [1..n -> T]
    BY <1>6, <1>10, <1>11
<1>13. \A i, j \in 1..n : i < j => f[i] < f[j]
    <2> SUFFICES ASSUME NEW i \in 1..n, NEW j \in 1..n, i < j PROVE f[i] < f[j]
        OBVIOUS
    <2>1. j # 1 /\ j - 1 \in 1..(n - 1) /\ f[j] = g[j - 1] /\ g[j - 1] \in U
        BY <1>4, <1>10
    <2>2. CASE i = 1
        <3>1. f[i] = x /\ g[j - 1] \in Nat /\ x \in Nat /\ x # g[j - 1] /\ x <= g[j - 1]
            BY <1>6, <2>1, <2>2
        <3> QED BY <2>1, <3>1
    <2>3. CASE i # 1
        <3>1. i - 1 \in 1..(n - 1) /\ i - 1 < j - 1 /\ f[i] = g[i - 1]
            BY <1>4, <2>3
        <3> QED BY <1>10, <2>1, <3>1
    <2> QED BY <2>2, <2>3
<1>14. InOrder(f, T)
    <2> HIDE DEF f
    <2> QED BY <1>3, <1>13 DEF InOrder
<1> QED BY <1>3, <1>12, <1>14

(* An injection of 1..n into a set of n elements reaches all of them.       *)
LEMMA InjectionIsOnto ==
    ASSUME NEW S, IsFiniteSet(S), NEW f \in [1..Cardinality(S) -> S],
           \A i, j \in 1..Cardinality(S) : f[i] = f[j] => i = j
    PROVE  \A x \in S : \E i \in 1..Cardinality(S) : f[i] = x
<1> DEFINE n == Cardinality(S)
<1>1. n \in Nat
    BY FS_CardinalityType
<1>2. IsFiniteSet(1..n) /\ Cardinality(1..n) = n
    BY <1>1, FS_Interval
<1>3. f \in Injection(1..n, S)
    BY DEF Injection, IsInjective
<1> HIDE DEF n
<1>4. f \in Surjection(1..n, S)
    BY <1>2, <1>3, FS_Injection DEF n
<1> QED BY <1>4 DEF Surjection, n

(* q lists the entries of s at the positions S, once each, in order.        *)
ListsPositions(q, s, S) ==
    /\ Len(q) = Cardinality(S) /\ Cardinality(S) \in Nat
    /\ \E f \in [1..Cardinality(S) -> S] :
          /\ \A i \in 1..Cardinality(S) : q[i] = s[f[i]]
          /\ InOrder(f, S)
          /\ \A i, j \in 1..Cardinality(S) : f[i] = f[j] => i = j
          /\ \A x \in S : \E i \in 1..Cardinality(S) : f[i] = x

(* EntriesAt does.                                                          *)
LEMMA EntriesAtPicks ==
    ASSUME NEW A, NEW s \in Seq(A), NEW S \in SUBSET (1..Len(s))
    PROVE  EntriesAt(s, S) \in Seq(A) /\ ListsPositions(EntriesAt(s, S), s, S)
<1>1. Len(s) \in Nat /\ \A i \in 1..Len(s) : s[i] \in A
    BY LenProperties, ElementOfSeq
<1>2. IsFiniteSet(S)
    <2>1. IsFiniteSet(1..Len(s))
        BY <1>1, FS_Interval
    <2> QED BY <2>1, FS_Subset
<1>3. Cardinality(S) \in Nat
    BY <1>2, FS_CardinalityType
<1>4. S \in SUBSET Nat
    BY <1>1
<1> DEFINE f == CHOOSE f \in [1..Cardinality(S) -> S] : InOrder(f, S)
<1>5. f \in [1..Cardinality(S) -> S] /\ InOrder(f, S)
    BY <1>2, <1>4, PositionsInOrder
<1>6. EntriesAt(s, S) = [i \in 1..Cardinality(S) |-> s[f[i]]]
    BY DEF EntriesAt
<1> HIDE DEF f
<1>7. \A i, j \in 1..Cardinality(S) : f[i] = f[j] => i = j
    <2> SUFFICES ASSUME NEW i \in 1..Cardinality(S), NEW j \in 1..Cardinality(S),
                        f[i] = f[j], i # j
                 PROVE  FALSE
        OBVIOUS
    <2>1. f[i] \in S /\ f[j] \in S /\ i \in Nat /\ j \in Nat
        BY <1>3, <1>5
    <2>2. i < j \/ j < i
        BY <2>1
    <2>3. f[i] < f[j] \/ f[j] < f[i]
        BY <1>5, <2>2 DEF InOrder
    <2>4. f[i] \in Nat /\ f[j] \in Nat
        BY <1>4, <2>1
    <2> QED BY <2>3, <2>4
<1>8. \A x \in S : \E i \in 1..Cardinality(S) : f[i] = x
    BY <1>2, <1>5, <1>7, InjectionIsOnto
<1>9. \A i \in 1..Cardinality(S) : s[f[i]] \in A
    BY <1>1, <1>5
<1>10. EntriesAt(s, S) \in Seq(A)
    BY <1>3, <1>6, <1>9, IsASeq
<1>11. Len(EntriesAt(s, S)) = Cardinality(S)
    BY <1>3, <1>6, <1>10
<1>12. \A i \in 1..Cardinality(S) : EntriesAt(s, S)[i] = s[f[i]]
    BY <1>6
<1> QED BY <1>3, <1>5, <1>7, <1>8, <1>10, <1>11, <1>12 DEF ListsPositions

(* A list of a finite set without repetitions has all of its elements.      *)
LEMMA SetToSeqsList ==
    ASSUME NEW S, IsFiniteSet(S), NEW f \in SetToSeqs(S)
    PROVE  /\ Cardinality(S) \in Nat /\ f \in [1..Cardinality(S) -> S]
           /\ \A i, j \in 1..Cardinality(S) : f[i] = f[j] => i = j
           /\ \A x \in S : \E i \in 1..Cardinality(S) : f[i] = x
<1>1. Cardinality(S) \in Nat
    BY FS_CardinalityType
<1>2. /\ f \in [1..Cardinality(S) -> S]
      /\ \A i, j \in 1..Cardinality(S) : f[i] = f[j] => i = j
    BY DEF SetToSeqs
<1> QED BY <1>1, <1>2, InjectionIsOnto

(* A function on 1..n is a sequence of length n.                            *)
LEMMA FunctionIsSeq ==
    ASSUME NEW S, NEW n \in Nat, NEW q \in [1..n -> S]
    PROVE  q \in Seq(S) /\ Len(q) = n
<1>1. q \in Seq(S)
    BY SeqDef
<1> QED BY <1>1

(* A sequence without its i-th entry.                                       *)
LEMMA EntryRemoved ==
    ASSUME NEW S, NEW q \in Seq(S), NEW i \in 1..Len(q)
    PROVE  /\ RemoveAt(q, i) \in Seq(S) /\ Len(RemoveAt(q, i)) = Len(q) - 1
           /\ \A k \in 1..(Len(q) - 1) : RemoveAt(q, i)[k] = IF k < i THEN q[k] ELSE q[k + 1]
<1> DEFINE front == SubSeq(q, 1, i - 1)
           back == SubSeq(q, i + 1, Len(q))
<1>1. /\ front \in Seq(S) /\ Len(front) = i - 1
      /\ \A k \in 1..(i - 1) : front[k] = q[k]
    BY SubSeqProperties
<1>2. /\ back \in Seq(S) /\ Len(back) = Len(q) - i
      /\ \A k \in 1..(Len(q) - i) : back[k] = q[k + i]
    BY SubSeqProperties
<1>3. /\ front \o back \in Seq(S) /\ Len(front \o back) = Len(q) - 1
      /\ \A k \in 1..(Len(q) - 1) : (front \o back)[k] = IF k <= i - 1 THEN front[k] ELSE back[k - (i - 1)]
    <2> HIDE DEF front, back
    <2> QED BY <1>1, <1>2, ConcatProperties
<1> HIDE DEF front, back
<1>4. ASSUME NEW k \in 1..(Len(q) - 1) PROVE (front \o back)[k] = IF k < i THEN q[k] ELSE q[k + 1]
    <2>1. CASE k < i
        BY <1>1, <1>3, <2>1
    <2>2. CASE ~(k < i)
        <3>1. k - (i - 1) \in 1..(Len(q) - i) /\ (k - (i - 1)) + i = k + 1 /\ ~(k <= i - 1)
            BY <2>2
        <3>2. back[k - (i - 1)] = q[k + 1]
            BY <1>2, <3>1
        <3> QED BY <1>3, <2>2, <3>1, <3>2
    <2> QED BY <2>1, <2>2
<1> QED BY <1>3, <1>4 DEF RemoveAt, front, back

(* p is q with the entry e at place i.                                      *)
HasInserted(p, q, i, e) ==
    /\ Len(p) = Len(q) + 1
    /\ \A k \in 1..(Len(q) + 1) : p[k] = IF k < i THEN q[k] ELSE IF k = i THEN e ELSE q[k - 1]

(* InsertAt adds an entry.                                                  *)
LEMMA EntryInserted ==
    ASSUME NEW S, NEW q \in Seq(S), NEW i \in 1..(Len(q) + 1), NEW e \in S
    PROVE  InsertAt(q, i, e) \in Seq(S) /\ HasInserted(InsertAt(q, i, e), q, i, e)
<1> DEFINE front == SubSeq(q, 1, i - 1)
           back == SubSeq(q, i, Len(q))
           start == front \o <<e>>
<1>1. /\ front \in Seq(S) /\ Len(front) = i - 1
      /\ \A k \in 1..(i - 1) : front[k] = q[k]
    BY SubSeqProperties
<1>2. /\ back \in Seq(S) /\ Len(back) = Len(q) - i + 1
      /\ \A k \in 1..(Len(q) - i + 1) : back[k] = q[k + i - 1]
    BY SubSeqProperties
<1>3. <<e>> \in Seq(S) /\ Len(<<e>>) = 1 /\ <<e>>[1] = e
    OBVIOUS
<1> HIDE DEF front, back
<1>4. /\ start \in Seq(S) /\ Len(start) = i
      /\ \A k \in 1..i : start[k] = IF k <= i - 1 THEN front[k] ELSE <<e>>[k - (i - 1)]
    BY <1>1, <1>3, ConcatProperties
<1> HIDE DEF start
<1>5. /\ start \o back \in Seq(S) /\ Len(start \o back) = Len(q) + 1
      /\ \A k \in 1..(Len(q) + 1) : (start \o back)[k] = IF k <= i THEN start[k] ELSE back[k - i]
    <2>1. Len(start) + Len(back) = Len(q) + 1
        BY <1>2, <1>4
    <2>2. /\ start \o back \in Seq(S) /\ Len(start \o back) = Len(start) + Len(back)
          /\ \A k \in 1..(Len(start) + Len(back)) :
                (start \o back)[k] = IF k <= Len(start) THEN start[k] ELSE back[k - Len(start)]
        BY <1>2, <1>4, ConcatProperties
    <2> QED BY <1>4, <2>1, <2>2
<1>6. ASSUME NEW k \in 1..(Len(q) + 1)
      PROVE  (start \o back)[k] = IF k < i THEN q[k] ELSE IF k = i THEN e ELSE q[k - 1]
    <2>1. CASE k < i
        BY SMTT(20), <1>1, <1>4, <1>5, <2>1
    <2>2. CASE k = i
        BY <1>3, <1>4, <1>5, <2>2
    <2>3. CASE k > i
        <3>1. k - i \in 1..(Len(q) - i + 1) /\ (k - i) + i - 1 = k - 1
            BY <2>3
        <3>2. back[k - i] = q[k - 1]
            BY <1>2, <3>1
        <3> QED BY <1>5, <2>3, <3>2
    <2>4. k < i \/ k = i \/ k > i
        OBVIOUS
    <2> QED BY <2>1, <2>2, <2>3, <2>4
<1>7. InsertAt(q, i, e) = start \o back
    BY DEF InsertAt, start, front, back
<1> QED BY <1>5, <1>6, <1>7 DEF HasInserted

-----------------------------------------------------------------------------
(***************************************************************************)
(* A well made manifest over names N, bodies T and runs R.                 *)
(***************************************************************************)
Items(N, T, R) ==
    [id : N, intent : Intents, state : States, blob : N, sum : T, run : R]

Distinct(q) ==
    \A i, j \in 1..Len(q) : q[i].id = q[j].id \/ q[i].blob = q[j].blob => i = j

Fields(m) ==
    m = [run |-> m.run, paused |-> m.paused, recovered |-> m.recovered,
         items |-> m.items, keys |-> m.keys, receipts |-> m.receipts]

WellMade(m, N, T, R) ==
    /\ Fields(m)
    /\ m.run \in R /\ m.paused \in BOOLEAN /\ m.recovered \in BOOLEAN
    /\ m.items \in Seq(Items(N, T, R)) /\ Distinct(m.items)
    /\ \A k \in DOMAIN m.keys : \E i \in 1..Len(m.items) : m.items[i].id = m.keys[k].id

(* Membership by position.                                                  *)
LEMMA ByPosition ==
    ASSUME NEW A, NEW m, m.items \in Seq(A)
    PROVE  /\ Len(m.items) \in Nat /\ DOMAIN m.items = 1..Len(m.items)
           /\ \A i \in 1..Len(m.items) : m.items[i] \in A
           /\ \A x : x \in Ids(m) <=> \E i \in 1..Len(m.items) : m.items[i].id = x
           /\ \A x : x \in BlobsOf(m) <=> \E i \in 1..Len(m.items) : m.items[i].blob = x
           /\ \A x : x \in ToSet(m.items) <=> \E i \in 1..Len(m.items) : m.items[i] = x
<1>1. Len(m.items) \in Nat /\ DOMAIN m.items = 1..Len(m.items)
    BY LenProperties
<1>2. \A i \in 1..Len(m.items) : m.items[i] \in A
    BY ElementOfSeq
<1>3. \A x : x \in ToSet(m.items) <=> \E i \in 1..Len(m.items) : m.items[i] = x
    BY <1>1 DEF ToSet
<1>4. \A x : x \in Ids(m) <=> \E i \in 1..Len(m.items) : m.items[i].id = x
    BY <1>3 DEF Ids
<1>5. \A x : x \in BlobsOf(m) <=> \E i \in 1..Len(m.items) : m.items[i].blob = x
    BY <1>3 DEF BlobsOf
<1> QED BY <1>1, <1>2, <1>3, <1>4, <1>5

(* An id of a manifest is the id of one of its items.                       *)
LEMMA IdIsListed ==
    ASSUME NEW A, NEW m, m.items \in Seq(A), NEW id \in Ids(m)
    PROVE  \E i \in 1..Len(m.items) : m.items[i].id = id
    BY DEF Ids, ToSet

(* An id names one item.                                                    *)
LEMMA ItemAtPosition ==
    ASSUME NEW A, NEW m, m.items \in Seq(A), Distinct(m.items), NEW i \in 1..Len(m.items)
    PROVE  ItemOf(m, m.items[i].id) = m.items[i] /\ StateOf(m, m.items[i].id) = m.items[i].state
<1>1. DOMAIN m.items = 1..Len(m.items)
    BY LenProperties
<1>2. m.items[i] \in ToSet(m.items)
    BY <1>1 DEF ToSet
<1>3. ASSUME NEW it \in ToSet(m.items), it.id = m.items[i].id PROVE it = m.items[i]
    <2>1. PICK j \in 1..Len(m.items) : m.items[j] = it
        BY <1>1, <1>3 DEF ToSet
    <2> QED BY <1>3, <2>1 DEF Distinct
<1>4. ItemOf(m, m.items[i].id) = m.items[i]
    BY <1>2, <1>3 DEF ItemOf
<1> QED BY <1>4 DEF StateOf

(* There are as many ids as items.                                          *)
LEMMA IdsCounted ==
    ASSUME NEW A, NEW m, m.items \in Seq(A), Distinct(m.items)
    PROVE  Cardinality(Ids(m)) = Len(m.items)
<1>1. \A x : x \in Ids(m) <=> \E i \in 1..Len(m.items) : m.items[i].id = x
    BY ByPosition
<1> DEFINE f == [i \in 1..Len(m.items) |-> m.items[i].id]
<1>2. f \in [1..Len(m.items) -> Ids(m)]
    BY <1>1
<1>3. IsInjective(f)
    BY DEF IsInjective, Distinct
<1>4. \A x \in Ids(m) : \E i \in 1..Len(m.items) : f[i] = x
    BY <1>1
<1> HIDE DEF f
<1>5. f \in Bijection(1..Len(m.items), Ids(m))
    BY <1>2, <1>3, <1>4 DEF Bijection, Injection, Surjection
<1> QED BY <1>5, FS_CountingElements, LenProperties DEF ExistsBijection

(* Another list of items with the same ids in place of the old one.         *)
LEMMA Relisted ==
    ASSUME NEW N, NEW T, NEW R, NEW m, WellMade(m, N, T, R), NEW q \in Seq(Items(N, T, R)), Distinct(q),
           \A i \in 1..Len(m.items) : \E j \in 1..Len(q) : q[j].id = m.items[i].id,
           NEW n, n = [m EXCEPT !.items = q]
    PROVE  /\ WellMade(n, N, T, R) /\ n.items = q
           /\ n.run = m.run /\ n.paused = m.paused /\ n.recovered = m.recovered
           /\ n.keys = m.keys /\ n.receipts = m.receipts
<1>1. /\ Fields(n) /\ n.items = q
      /\ n.run = m.run /\ n.paused = m.paused /\ n.recovered = m.recovered
      /\ n.keys = m.keys /\ n.receipts = m.receipts
    BY DEF WellMade, Fields
<1>2. \A k \in DOMAIN m.keys : \E j \in 1..Len(q) : q[j].id = m.keys[k].id
    BY DEF WellMade
<1> QED BY <1>1, <1>2 DEF WellMade

(* A change of one item's state or intent.                                  *)
LEMMA StateSet ==
    ASSUME NEW N, NEW T, NEW R, NEW m, WellMade(m, N, T, R), NEW id, NEW s \in States,
           NEW n, n = SetItemState(m, id, s)
    PROVE  /\ WellMade(n, N, T, R) /\ Len(n.items) = Len(m.items)
           /\ n.run = m.run /\ n.paused = m.paused /\ n.recovered = m.recovered
           /\ n.keys = m.keys /\ n.receipts = m.receipts
           /\ \A i \in 1..Len(m.items) :
                 n.items[i] = IF m.items[i].id = id THEN [m.items[i] EXCEPT !.state = s] ELSE m.items[i]
<1> DEFINE q == [i \in 1..Len(m.items) |->
                    IF m.items[i].id = id THEN [m.items[i] EXCEPT !.state = s] ELSE m.items[i]]
<1>1. /\ m.items \in Seq(Items(N, T, R)) /\ Len(m.items) \in Nat /\ DOMAIN m.items = 1..Len(m.items)
      /\ \A i \in 1..Len(m.items) : m.items[i] \in Items(N, T, R)
    BY ByPosition DEF WellMade
<1>2. n = [m EXCEPT !.items = q]
    BY <1>1 DEF SetItemState, MapItem, WellMade, Fields
<1>3. \A i \in 1..Len(m.items) : q[i] \in Items(N, T, R)
    BY <1>1 DEF Items
<1>4. q \in [1..Len(m.items) -> Items(N, T, R)]
    BY <1>3
<1>5. \A i \in 1..Len(m.items) : q[i].id = m.items[i].id /\ q[i].blob = m.items[i].blob
    BY <1>1 DEF Items
<1> HIDE DEF q
<1>6. q \in Seq(Items(N, T, R)) /\ Len(q) = Len(m.items)
    BY <1>1, <1>4, FunctionIsSeq
<1>7. Distinct(q)
    BY <1>6, <1>5 DEF Distinct, WellMade
<1>8. /\ WellMade(n, N, T, R) /\ n.items = q
      /\ n.run = m.run /\ n.paused = m.paused /\ n.recovered = m.recovered
      /\ n.keys = m.keys /\ n.receipts = m.receipts
    BY <1>2, <1>6, <1>5, <1>7, Relisted
<1> QED BY <1>6, <1>8 DEF q
(* ConvertIntent changes the intent of one item. *)
LEMMA IntentSet ==
    ASSUME NEW N, NEW T, NEW R, NEW m, WellMade(m, N, T, R), NEW id, NEW intent \in Intents,
           NEW n, n = ConvertIntent(m, id, intent)
    PROVE  /\ WellMade(n, N, T, R) /\ Len(n.items) = Len(m.items)
           /\ n.run = m.run /\ n.paused = m.paused /\ n.recovered = m.recovered
           /\ n.keys = m.keys /\ n.receipts = m.receipts
           /\ \A i \in 1..Len(m.items) :
                 n.items[i] = IF m.items[i].id = id THEN [m.items[i] EXCEPT !.intent = intent] ELSE m.items[i]
<1> DEFINE q == [i \in 1..Len(m.items) |->
                    IF m.items[i].id = id THEN [m.items[i] EXCEPT !.intent = intent] ELSE m.items[i]]
<1>1. /\ m.items \in Seq(Items(N, T, R)) /\ Len(m.items) \in Nat /\ DOMAIN m.items = 1..Len(m.items)
      /\ \A i \in 1..Len(m.items) : m.items[i] \in Items(N, T, R)
    BY ByPosition DEF WellMade
<1>2. n = [m EXCEPT !.items = q]
    BY <1>1 DEF ConvertIntent, MapItem, WellMade, Fields
<1>3. \A i \in 1..Len(m.items) : q[i] \in Items(N, T, R)
    BY <1>1 DEF Items
<1>4. q \in [1..Len(m.items) -> Items(N, T, R)]
    BY <1>3
<1>5. \A i \in 1..Len(m.items) : q[i].id = m.items[i].id /\ q[i].blob = m.items[i].blob
    BY <1>1 DEF Items
<1> HIDE DEF q
<1>6. q \in Seq(Items(N, T, R)) /\ Len(q) = Len(m.items)
    BY <1>1, <1>4, FunctionIsSeq
<1>7. Distinct(q)
    BY <1>5, <1>6 DEF Distinct, WellMade
<1>8. /\ WellMade(n, N, T, R) /\ n.items = q
      /\ n.run = m.run /\ n.paused = m.paused /\ n.recovered = m.recovered
      /\ n.keys = m.keys /\ n.receipts = m.receipts
    BY <1>2, <1>5, <1>6, <1>7, Relisted
<1> QED BY <1>6, <1>8 DEF q

(* MarkUncertain changes the state of items in flight, and nothing else. *)
LEMMA UncertainMarked ==
    ASSUME NEW N, NEW T, NEW R, NEW m, WellMade(m, N, T, R), NEW ids,
           NEW n, n = MarkUncertain(m, ids)
    PROVE  /\ WellMade(n, N, T, R) /\ Len(n.items) = Len(m.items)
           /\ n.run = m.run /\ n.paused = m.paused /\ n.recovered = m.recovered
           /\ n.keys = m.keys /\ n.receipts = m.receipts
           /\ \A i \in 1..Len(m.items) :
                 n.items[i] = IF m.items[i].id \in ids /\ m.items[i].state \in InFlightStates
                              THEN [m.items[i] EXCEPT !.state = "uncertain"] ELSE m.items[i]
<1> DEFINE q == [i \in 1..Len(m.items) |->
                    IF m.items[i].id \in ids /\ m.items[i].state \in InFlightStates
                              THEN [m.items[i] EXCEPT !.state = "uncertain"] ELSE m.items[i]]
<1>1. /\ m.items \in Seq(Items(N, T, R)) /\ Len(m.items) \in Nat /\ DOMAIN m.items = 1..Len(m.items)
      /\ \A i \in 1..Len(m.items) : m.items[i] \in Items(N, T, R)
    BY ByPosition DEF WellMade
<1>2. n = [m EXCEPT !.items = q]
    BY <1>1 DEF MarkUncertain, WellMade, Fields
<1>3. \A i \in 1..Len(m.items) : q[i] \in Items(N, T, R)
    BY <1>1 DEF Items, States, Pending
<1>4. q \in [1..Len(m.items) -> Items(N, T, R)]
    BY <1>3
<1>5. \A i \in 1..Len(m.items) : q[i].id = m.items[i].id /\ q[i].blob = m.items[i].blob
    BY <1>1 DEF Items
<1> HIDE DEF q
<1>6. q \in Seq(Items(N, T, R)) /\ Len(q) = Len(m.items)
    BY <1>1, <1>4, FunctionIsSeq
<1>7. Distinct(q)
    BY <1>5, <1>6 DEF Distinct, WellMade
<1>8. /\ WellMade(n, N, T, R) /\ n.items = q
      /\ n.run = m.run /\ n.paused = m.paused /\ n.recovered = m.recovered
      /\ n.keys = m.keys /\ n.receipts = m.receipts
    BY <1>2, <1>5, <1>6, <1>7, Relisted
<1> QED BY <1>6, <1>8 DEF q

(* A key that is bound to a listed item.                                    *)
LEMMA Bound ==
    ASSUME NEW N, NEW T, NEW R, NEW m, WellMade(m, N, T, R), NEW k, NEW h,
           NEW j \in 1..Len(m.items), NEW n, n = Bind(m, k, m.items[j].id, h)
    PROVE  /\ WellMade(n, N, T, R) /\ n.items = m.items
           /\ n.run = m.run /\ n.paused = m.paused /\ n.recovered = m.recovered
<1>1. CASE k = NoKey
    BY <1>1 DEF Bind
<1>2. CASE k # NoKey
    <2>1. /\ Fields(n) /\ n.items = m.items
          /\ n.run = m.run /\ n.paused = m.paused /\ n.recovered = m.recovered
          /\ n.keys = [l \in DOMAIN m.keys \cup {k} |->
                          IF l = k THEN [id |-> m.items[j].id, hash |-> h] ELSE m.keys[l]]
        BY <1>2 DEF Bind, WellMade, Fields
    <2>2. ASSUME NEW l \in DOMAIN n.keys PROVE \E i \in 1..Len(n.items) : n.items[i].id = n.keys[l].id
        <3>1. CASE l = k
            BY <2>1, <3>1
        <3>2. CASE l # k
            BY <2>1, <2>2, <3>2 DEF WellMade
        <3> QED BY <3>1, <3>2
    <2> QED BY <2>1, <2>2 DEF WellMade
<1> QED BY <1>1, <1>2

(* A new item with a fresh name at the end.                                 *)
LEMMA Enqueued ==
    ASSUME NEW N, NEW T, NEW R, NEW m, WellMade(m, N, T, R),
           NEW id \in N, NEW intent \in Intents, NEW k, NEW b \in T,
           id \notin Ids(m), id \notin BlobsOf(m), NEW n, n = Enqueue(m, id, intent, k, b)
    PROVE  /\ WellMade(n, N, T, R)
           /\ n.items = Append(m.items, [id |-> id, intent |-> intent, state |-> "queued",
                                         blob |-> id, sum |-> b, run |-> m.run])
           /\ Len(n.items) = Len(m.items) + 1
           /\ \A i \in 1..Len(m.items) : n.items[i] = m.items[i]
           /\ n.items[Len(m.items) + 1] = [id |-> id, intent |-> intent, state |-> "queued",
                                           blob |-> id, sum |-> b, run |-> m.run]
           /\ n.run = m.run /\ n.paused = m.paused /\ n.recovered = m.recovered
<1> DEFINE it == [id |-> id, intent |-> intent, state |-> "queued",
                  blob |-> id, sum |-> b, run |-> m.run]
           q == Append(m.items, it)
           o == [m EXCEPT !.items = q]
<1>1. m.items \in Seq(Items(N, T, R)) /\ Len(m.items) \in Nat
    BY ByPosition DEF WellMade
<1>2. it \in Items(N, T, R)
    BY DEF Items, States, Pending, WellMade
<1>3. it.id = id /\ it.blob = id
    OBVIOUS
<1>4. n = Bind(o, k, id, b)
    BY DEF Enqueue
<1> HIDE DEF it
<1>5. /\ q \in Seq(Items(N, T, R)) /\ Len(q) = Len(m.items) + 1
      /\ \A i \in 1..Len(m.items) : q[i] = m.items[i]
      /\ q[Len(m.items) + 1] = it
    BY <1>1, <1>2, AppendProperties
<1>6. \A i \in 1..Len(m.items) : m.items[i].id # id /\ m.items[i].blob # id
    BY <1>1, ByPosition
<1> HIDE DEF q
<1>7. ASSUME NEW i \in 1..Len(q), NEW j \in 1..Len(q), q[i].id = q[j].id \/ q[i].blob = q[j].blob PROVE i = j
    <2>1. CASE i \in 1..Len(m.items) /\ j \in 1..Len(m.items)
        BY <1>5, <1>7, <2>1 DEF WellMade, Distinct
    <2>2. CASE i \notin 1..Len(m.items) \/ j \notin 1..Len(m.items)
        <3>1. i = Len(m.items) + 1 \/ j = Len(m.items) + 1
            BY <1>1, <1>5, <2>2
        <3>2. i \in 1..Len(m.items) \/ i = Len(m.items) + 1
            BY <1>1, <1>5
        <3>3. j \in 1..Len(m.items) \/ j = Len(m.items) + 1
            BY <1>1, <1>5
        <3> QED BY <1>3, <1>5, <1>6, <1>7, <3>1, <3>2, <3>3
    <2> QED BY <2>1, <2>2
<1>8. Distinct(q)
    BY <1>7 DEF Distinct
<1>9. \A i \in 1..Len(m.items) : \E j \in 1..Len(q) : q[j].id = m.items[i].id
    BY <1>1, <1>5
<1>10. /\ WellMade(o, N, T, R) /\ o.items = q
       /\ o.run = m.run /\ o.paused = m.paused /\ o.recovered = m.recovered
    BY <1>5, <1>8, <1>9, Relisted
<1> HIDE DEF o
<1>11. Len(m.items) + 1 \in 1..Len(o.items) /\ o.items[Len(m.items) + 1].id = id
    BY <1>1, <1>3, <1>5, <1>10
<1>12. /\ WellMade(n, N, T, R) /\ n.items = o.items
       /\ n.run = o.run /\ n.paused = o.paused /\ n.recovered = o.recovered
    <2>1. PICK j \in 1..Len(o.items) : o.items[j].id = id
        BY <1>11
    <2>2. n = Bind(o, k, o.items[j].id, b)
        BY <1>4, <2>1
    <2> QED BY <1>10, <2>2, Bound
<1> QED BY <1>5, <1>10, <1>12 DEF it, q

(* n is m with another body for its j-th item.                              *)
Rewritten(n, m, j, s, b) ==
    /\ Len(n.items) = Len(m.items)
    /\ n.run = m.run /\ n.paused = m.paused /\ n.recovered = m.recovered
    /\ \A i \in 1..Len(m.items) : i # j => n.items[i] = m.items[i]
    /\ n.items[j] = [m.items[j] EXCEPT !.blob = s, !.sum = b,
                        !.state = IF @ = "blocked" THEN "queued" ELSE @]

(* Another body and perhaps another key for one pending item.               *)
LEMMA Updated ==
    ASSUME NEW N, NEW T, NEW R, NEW m, WellMade(m, N, T, R), NEW j \in 1..Len(m.items),
           NEW s \in N, NEW b \in T, NEW k, NEW h, s \notin BlobsOf(m),
           NEW n, n = UpdateItem(m, m.items[j].id, s, b, k, h)
    PROVE  WellMade(n, N, T, R) /\ Rewritten(n, m, j, s, b)
<1> DEFINE new == [m.items[j] EXCEPT !.blob = s, !.sum = b, !.state = IF @ = "blocked" THEN "queued" ELSE @]
           q == [i \in 1..Len(m.items) |-> IF m.items[i].id = m.items[j].id
                    THEN [m.items[i] EXCEPT !.blob = s, !.sum = b,
                                            !.state = IF @ = "blocked" THEN "queued" ELSE @]
                    ELSE m.items[i]]
           o == [m EXCEPT !.items = q]
<1>1. /\ m.items \in Seq(Items(N, T, R)) /\ Len(m.items) \in Nat /\ DOMAIN m.items = 1..Len(m.items)
      /\ \A i \in 1..Len(m.items) : m.items[i] \in Items(N, T, R)
    BY ByPosition DEF WellMade
<1>2. n = Bind(o, k, m.items[j].id, h)
    BY <1>1 DEF UpdateItem, MapItem, WellMade, Fields
<1>3. new \in Items(N, T, R) /\ new.id = m.items[j].id /\ new.blob = s
    BY <1>1 DEF Items, States, Pending
<1>4. \A i \in 1..Len(m.items) : q[i] = IF i = j THEN new ELSE m.items[i]
    BY <1>1 DEF WellMade, Distinct
<1> HIDE DEF new
<1>5. q \in [1..Len(m.items) -> Items(N, T, R)]
    <2>1. \A i \in 1..Len(m.items) : q[i] \in Items(N, T, R)
        BY <1>1, <1>3, <1>4
    <2> QED BY <2>1
<1> HIDE DEF q
<1>6. q \in Seq(Items(N, T, R)) /\ Len(q) = Len(m.items)
    BY <1>1, <1>5, FunctionIsSeq
<1>7. \A i \in 1..Len(m.items) : m.items[i].blob # s
    BY <1>1, ByPosition
<1>8. Distinct(q)
    BY <1>3, <1>4, <1>6, <1>7 DEF Distinct, WellMade
<1>9. \A i \in 1..Len(m.items) : q[i].id = m.items[i].id
    BY <1>3, <1>4
<1>10. /\ WellMade(o, N, T, R) /\ o.items = q
       /\ o.run = m.run /\ o.paused = m.paused /\ o.recovered = m.recovered
    BY <1>6, <1>8, <1>9, Relisted
<1> HIDE DEF o
<1>11. /\ WellMade(n, N, T, R) /\ n.items = o.items
       /\ n.run = o.run /\ n.paused = o.paused /\ n.recovered = o.recovered
    <2>1. j \in 1..Len(o.items) /\ o.items[j].id = m.items[j].id
        BY <1>6, <1>9, <1>10
    <2>2. n = Bind(o, k, o.items[j].id, h)
        BY <1>2, <2>1
    <2> QED BY <1>10, <2>1, <2>2, Bound
<1> QED BY <1>4, <1>6, <1>10, <1>11 DEF new, Rewritten

(* A list of the entries of another, each once.                             *)
Picks(q, s, g) ==
    /\ g \in [1..Len(q) -> 1..Len(s)]
    /\ \A i, j \in 1..Len(q) : g[i] = g[j] => i = j
    /\ \A i \in 1..Len(q) : q[i] = s[g[i]]

(* Picking keeps items distinct.                                            *)
LEMMA PicksDistinct ==
    ASSUME NEW s, NEW q, NEW g, Distinct(s), Picks(q, s, g)
    PROVE  Distinct(q)
    BY DEF Distinct, Picks

(* n is m with its j-th item at another place.                              *)
Reordered(n, m, j, to) ==
    /\ n.run = m.run /\ n.paused = m.paused /\ n.recovered = m.recovered
    /\ n.keys = m.keys /\ n.receipts = m.receipts
    /\ n.items = InsertAt(RemoveAt(m.items, j), to, m.items[j]) /\ Len(n.items) = Len(m.items)
    /\ \E g : /\ Picks(n.items, m.items, g)
             /\ \A x \in 1..Len(m.items) : \E i \in 1..Len(m.items) : g[i] = x

(* The item at one place goes to another, and the others close up.          *)
LEMMA Moved ==
    ASSUME NEW N, NEW T, NEW R, NEW m, WellMade(m, N, T, R),
           NEW j \in 1..Len(m.items), NEW to \in 1..Len(m.items),
           NEW n, n = MoveItem(m, m.items[j].id, to)
    PROVE  WellMade(n, N, T, R) /\ Reordered(n, m, j, to)
<1> DEFINE L == Len(m.items)
           r == RemoveAt(m.items, j)
           q == InsertAt(r, to, m.items[j])
           g == [i \in 1..L |-> IF i = to THEN j
                                ELSE IF i < to THEN (IF i < j THEN i ELSE i + 1)
                                ELSE (IF i - 1 < j THEN i - 1 ELSE i)]
<1>1. m.items \in Seq(Items(N, T, R)) /\ L \in Nat /\ DOMAIN m.items = 1..L
    BY ByPosition DEF WellMade
<1>2. (CHOOSE i \in DOMAIN m.items : m.items[i].id = m.items[j].id) = j
    BY <1>1 DEF WellMade, Distinct
<1>3. n = [m EXCEPT !.items = q]
    BY <1>2 DEF MoveItem, WellMade, Fields
<1>4. /\ r \in Seq(Items(N, T, R)) /\ Len(r) = L - 1
      /\ \A i \in 1..(L - 1) : r[i] = IF i < j THEN m.items[i] ELSE m.items[i + 1]
    BY <1>1, EntryRemoved
<1>5. m.items[j] \in Items(N, T, R)
    BY <1>1, ElementOfSeq
<1> HIDE DEF r
<1>6. to \in 1..(Len(r) + 1)
    BY <1>1, <1>4
<1>7. /\ q \in Seq(Items(N, T, R)) /\ Len(q) = Len(r) + 1
      /\ \A i \in 1..(Len(r) + 1) : q[i] = IF i < to THEN r[i] ELSE IF i = to THEN m.items[j] ELSE r[i - 1]
    <2> DEFINE e == m.items[j]
    <2>1. e \in Items(N, T, R) /\ q = InsertAt(r, to, e)
        BY <1>5
    <2> HIDE DEF e, q, L
    <2>2. /\ InsertAt(r, to, e) \in Seq(Items(N, T, R)) /\ Len(InsertAt(r, to, e)) = Len(r) + 1
          /\ \A i \in 1..(Len(r) + 1) :
                InsertAt(r, to, e)[i] = IF i < to THEN r[i] ELSE IF i = to THEN e ELSE r[i - 1]
        <3> DEFINE A == Items(N, T, R)
        <3>1. r \in Seq(A) /\ to \in 1..(Len(r) + 1) /\ e \in A
            BY <1>4, <1>6, <2>1
        <3> HIDE DEF A
        <3>2. InsertAt(r, to, e) \in Seq(A) /\ HasInserted(InsertAt(r, to, e), r, to, e)
            BY <3>1, EntryInserted
        <3> QED BY <3>2 DEF A, HasInserted
    <2> QED BY <2>1, <2>2 DEF e
<1> HIDE DEF q
<1>8. Len(q) = L
    BY <1>1, <1>4, <1>7
<1>9. g \in [1..L -> 1..L]
    BY <1>1
<1>10. \A i, k \in 1..L : g[i] = g[k] => i = k
    BY <1>1
<1>11. \A i \in 1..L : q[i] = m.items[g[i]]
    <2> SUFFICES ASSUME NEW i \in 1..L PROVE q[i] = m.items[g[i]]
        OBVIOUS
    <2>1. CASE i = to
        BY <1>1, <1>4, <1>7, <2>1
    <2>2. CASE i < to
        BY <1>1, <1>4, <1>7, <2>2
    <2>3. CASE i > to
        <3>1. i - 1 \in 1..(L - 1) /\ (i - 1) + 1 = i
            BY <1>1, <2>3
        <3> QED BY <1>1, <1>4, <1>7, <2>3, <3>1
    <2> QED BY <1>1, <2>1, <2>2, <2>3
<1>12. \A x \in 1..L : \E i \in 1..L : g[i] = x
    <2> SUFFICES ASSUME NEW x \in 1..L PROVE \E i \in 1..L : g[i] = x
        OBVIOUS
    <2>1. CASE x = j
        BY <2>1
    <2>2. CASE x < j /\ x < to
        BY <2>2, <1>1
    <2>3. CASE x < j /\ ~(x < to)
        <3>1. x + 1 \in 1..L /\ g[x + 1] = x
            BY <1>1, <2>3
        <3> QED BY <3>1
    <2>4. CASE x > j /\ x - 1 < to
        <3>1. x - 1 \in 1..L /\ g[x - 1] = x
            BY <1>1, <2>4
        <3> QED BY <3>1
    <2>5. CASE x > j /\ ~(x - 1 < to)
        BY <1>1, <2>5
    <2> QED BY <1>1, <2>1, <2>2, <2>3, <2>4, <2>5
<1> HIDE DEF g
<1>13. Picks(q, m.items, g)
    BY <1>8, <1>9, <1>10, <1>11 DEF Picks
<1>14. Distinct(q)
    BY <1>13, PicksDistinct DEF WellMade
<1>15. \A i \in 1..L : \E k \in 1..Len(q) : q[k].id = m.items[i].id
    <2> SUFFICES ASSUME NEW i \in 1..L PROVE \E k \in 1..L : q[k].id = m.items[i].id
        BY <1>8
    <2>1. PICK k \in 1..L : g[k] = i
        BY <1>12
    <2> QED BY <1>11, <2>1
<1>16. /\ WellMade(n, N, T, R) /\ n.items = q
       /\ n.run = m.run /\ n.paused = m.paused /\ n.recovered = m.recovered
       /\ n.keys = m.keys /\ n.receipts = m.receipts
    BY <1>3, <1>7, <1>14, <1>15, Relisted
<1> QED BY <1>8, <1>12, <1>13, <1>16 DEF q, r, Reordered

(* n is m without the items ids, the others in order, and paused no more    *)
(* when nothing is left.                                                    *)
LeftWithout(n, m, ids) ==
    /\ n.run = m.run
    /\ n.items = EntriesAt(m.items, {i \in 1..Len(m.items) : m.items[i].id \notin ids})
    /\ n.paused = (m.paused /\ n.items # <<>>)
    /\ \E g : Picks(n.items, m.items, g)
    /\ \A i \in 1..Len(n.items) : n.items[i].id \notin ids
    /\ \A i \in 1..Len(m.items) : m.items[i].id \notin ids =>
          \E j \in 1..Len(n.items) : n.items[j] = m.items[i]

(* Items leave: the others stay in order with their keys, and the pause     *)
(* goes with the last one.                                                  *)
LEMMA Removed ==
    ASSUME NEW N, NEW T, NEW R, NEW m, WellMade(m, N, T, R), NEW ids, NEW rs, NEW n, n = RemoveItems(m, ids, rs)
    PROVE  WellMade(n, N, T, R) /\ LeftWithout(n, m, ids)
<1> DEFINE K == {i \in 1..Len(m.items) : m.items[i].id \notin ids}
           q == EntriesAt(m.items, K)
           ks == KeysFor(m, ids)
           o == [m EXCEPT !.items = EntriesAt(@, {i \in DOMAIN @ : @[i].id \notin ids}),
                          !.keys  = [k \in DOMAIN @ \ ks |-> @[k]], !.receipts = rs]
<1>1. m.items \in Seq(Items(N, T, R)) /\ Len(m.items) \in Nat /\ DOMAIN m.items = 1..Len(m.items)
    BY ByPosition DEF WellMade
<1>2. Fields(m)
    BY DEF WellMade
<1>3. n = IF o.items = <<>> THEN [o EXCEPT !.paused = FALSE, !.recovered = FALSE] ELSE o
    BY DEF RemoveItems
<1>4. /\ Fields(o) /\ o.items = q /\ o.keys = [k \in DOMAIN m.keys \ ks |-> m.keys[k]]
      /\ o.run = m.run /\ o.paused = m.paused /\ o.recovered = m.recovered
    <2>1. {i \in DOMAIN m.items : m.items[i].id \notin ids} = K
        BY <1>1
    <2> DEFINE kk == [k \in DOMAIN m.keys \ ks |-> m.keys[k]]
    <2> HIDE DEF K
    <2>2. EntriesAt(m.items, {i \in DOMAIN m.items : m.items[i].id \notin ids}) = q
        BY <2>1
    <2> HIDE DEF q, kk, ks
    <2>3. o = [m EXCEPT !.items = q, !.keys = kk, !.receipts = rs]
        BY <1>2, <2>2 DEF kk, Fields
    <2> HIDE DEF o
    <2>4. /\ Fields(o) /\ o.items = q /\ o.keys = kk
          /\ o.run = m.run /\ o.paused = m.paused /\ o.recovered = m.recovered
        BY <1>2, <2>3 DEF Fields
    <2> QED BY <2>4 DEF kk
<1> HIDE DEF o
<1>5. /\ Fields(n) /\ n.items = q /\ n.keys = o.keys /\ n.run = m.run
      /\ n.paused = (m.paused /\ n.items # <<>>) /\ n.recovered = (m.recovered /\ n.items # <<>>)
    <2> HIDE DEF q
    <2>1. CASE q = <<>>
        BY <1>3, <1>4, <2>1 DEF Fields
    <2>2. CASE q # <<>>
        BY <1>3, <1>4, <2>2 DEF Fields, WellMade
    <2> QED BY <2>1, <2>2
<1>6. K \in SUBSET (1..Len(m.items))
    OBVIOUS
<1>7. \A x \in K : m.items[x].id \notin ids
    OBVIOUS
<1>8. \A x \in 1..Len(m.items) : m.items[x].id \notin ids => x \in K
    OBVIOUS
<1> HIDE DEF K
<1>9. /\ q \in Seq(Items(N, T, R)) /\ Len(q) = Cardinality(K) /\ Cardinality(K) \in Nat
      /\ \E f \in [1..Cardinality(K) -> K] :
            /\ \A i \in 1..Cardinality(K) : q[i] = m.items[f[i]]
            /\ InOrder(f, K)
            /\ \A i, j \in 1..Cardinality(K) : f[i] = f[j] => i = j
            /\ \A x \in K : \E i \in 1..Cardinality(K) : f[i] = x
    <2> DEFINE A == Items(N, T, R)
               s == m.items
    <2>1. s \in Seq(A) /\ K \in SUBSET (1..Len(s))
        BY <1>1, <1>6
    <2> HIDE DEF A, s
    <2>2. /\ EntriesAt(s, K) \in Seq(A) /\ Len(EntriesAt(s, K)) = Cardinality(K) /\ Cardinality(K) \in Nat
          /\ \E f \in [1..Cardinality(K) -> K] :
                /\ \A i \in 1..Cardinality(K) : EntriesAt(s, K)[i] = s[f[i]]
                /\ InOrder(f, K)
                /\ \A i, j \in 1..Cardinality(K) : f[i] = f[j] => i = j
                /\ \A x \in K : \E i \in 1..Cardinality(K) : f[i] = x
        <3>1. EntriesAt(s, K) \in Seq(A) /\ ListsPositions(EntriesAt(s, K), s, K)
            BY <2>1, EntriesAtPicks
        <3> QED BY <3>1 DEF ListsPositions
    <2> QED BY <2>2 DEF A, s
<1>10. PICK g \in [1..Len(q) -> K] :
            /\ \A i \in 1..Len(q) : q[i] = m.items[g[i]]
            /\ \A i, j \in 1..Len(q) : g[i] = g[j] => i = j
            /\ \A x \in K : \E i \in 1..Len(q) : g[i] = x
    BY <1>9
<1> HIDE DEF q
<1>11. Picks(q, m.items, g)
    BY <1>6, <1>10 DEF Picks
<1>12. Distinct(q)
    BY <1>11, PicksDistinct DEF WellMade
<1>13. \A i \in 1..Len(q) : q[i].id \notin ids
    BY <1>7, <1>10
<1>14. \A i \in 1..Len(m.items) : m.items[i].id \notin ids => \E j \in 1..Len(q) : q[j] = m.items[i]
    BY <1>8, <1>10
<1>15. ASSUME NEW k \in DOMAIN n.keys PROVE \E i \in 1..Len(q) : q[i].id = n.keys[k].id
    <2>1. k \in DOMAIN m.keys /\ n.keys[k] = m.keys[k] /\ m.keys[k].id \notin ids
        BY <1>4, <1>5, <1>15 DEF KeysFor
    <2>2. PICK i \in 1..Len(m.items) : m.items[i].id = m.keys[k].id
        BY <2>1 DEF WellMade
    <2> QED BY <1>14, <2>1, <2>2
<1>16. WellMade(n, N, T, R)
    <2>1. m.paused \in BOOLEAN /\ m.recovered \in BOOLEAN /\ m.run \in R
        BY DEF WellMade
    <2>2. n.paused \in BOOLEAN /\ n.recovered \in BOOLEAN
        BY <1>5
    <2> QED BY <1>5, <1>9, <1>12, <1>15, <2>1, <2>2 DEF WellMade
<1> QED BY <1>5, <1>11, <1>13, <1>14, <1>16 DEF q, K, LeftWithout

(* An empty manifest is well made.                                          *)
LEMMA EmptyIsWellMade ==
    ASSUME NEW N, NEW T, NEW R, NEW r \in R
    PROVE  /\ WellMade(EmptyManifest(r), N, T, R) /\ EmptyManifest(r).run = r
           /\ EmptyManifest(r).items = <<>> /\ ~EmptyManifest(r).paused /\ Len(EmptyManifest(r).items) = 0
<1>1. /\ Fields(EmptyManifest(r)) /\ EmptyManifest(r).run = r /\ EmptyManifest(r).items = <<>>
      /\ EmptyManifest(r).paused = FALSE /\ EmptyManifest(r).recovered = FALSE
      /\ EmptyManifest(r).keys = <<>>
    BY DEF EmptyManifest, Fields
<1>2. <<>> \in Seq(Items(N, T, R)) /\ Len(<<>>) = 0 /\ DOMAIN <<>> = {}
    BY EmptySeq
<1>3. Distinct(<<>>)
    BY <1>2 DEF Distinct
<1> QED BY <1>1, <1>2, <1>3 DEF WellMade

(* n has the items of m, those among ids no longer in flight.               *)
Settled(n, m, ids) ==
    /\ Len(n.items) = Len(m.items)
    /\ \A i \in 1..Len(m.items) :
          n.items[i] = IF m.items[i].id \in ids /\ m.items[i].state \in InFlightStates
                       THEN [m.items[i] EXCEPT !.state = "uncertain"] ELSE m.items[i]

(* Recovery pauses and leaves nothing in flight, under the new run.         *)
LEMMA RecoveredFacts ==
    ASSUME NEW N, NEW T, NEW R, NEW m, WellMade(m, N, T, R), NEW r \in R, NEW n, n = Recovered(m, r)
    PROVE  /\ WellMade(n, N, T, R) /\ n.run = r /\ n.paused = TRUE /\ n.keys = m.keys
           /\ Settled(n, m, Ids(m))
<1> DEFINE o == MarkUncertain(m, Ids(m))
<1>1. /\ WellMade(o, N, T, R) /\ Len(o.items) = Len(m.items) /\ o.keys = m.keys
      /\ \A i \in 1..Len(m.items) :
            o.items[i] = IF m.items[i].id \in Ids(m) /\ m.items[i].state \in InFlightStates
                         THEN [m.items[i] EXCEPT !.state = "uncertain"] ELSE m.items[i]
    BY UncertainMarked
<1>2. n = [o EXCEPT !.run = r, !.paused = TRUE, !.recovered = TRUE]
    BY DEF Recovered
<1> HIDE DEF o
<1>3. Fields(n) /\ n.items = o.items /\ n.keys = o.keys /\ n.run = r /\ n.paused = TRUE /\ n.recovered = TRUE
    BY <1>1, <1>2 DEF WellMade, Fields
<1>4. WellMade(n, N, T, R)
    <2>1. /\ o.items \in Seq(Items(N, T, R)) /\ Distinct(o.items) /\ o.run \in R
          /\ \A k \in DOMAIN o.keys : \E i \in 1..Len(o.items) : o.items[i].id = o.keys[k].id
        BY <1>1 DEF WellMade
    <2>2. n.run \in R
        BY <1>3, <2>1
    <2>3. n.paused \in BOOLEAN /\ n.recovered \in BOOLEAN
        BY <1>3
    <2>4. n.items \in Seq(Items(N, T, R)) /\ Distinct(n.items)
        BY <1>3, <2>1
    <2>5. \A k \in DOMAIN n.keys : \E i \in 1..Len(n.items) : n.items[i].id = n.keys[k].id
        BY <1>3, <2>1
    <2> QED BY <1>3, <2>2, <2>3, <2>4, <2>5 DEF WellMade
<1> QED BY <1>1, <1>3, <1>4 DEF Settled

(* n is m paused, with the items nobody owns no longer in flight.           *)
OrphansSettled(n, m, owned) ==
    n.run = m.run /\ n.paused = TRUE /\ n.keys = m.keys /\ Settled(n, m, Ids(m) \ owned)

(* So does the recovery of orphans, for those nobody owns.                  *)
LEMMA OrphansFacts ==
    ASSUME NEW N, NEW T, NEW R, NEW m, WellMade(m, N, T, R), NEW owned, NEW n, n = RecoverOrphans(m, owned)
    PROVE  WellMade(n, N, T, R) /\ OrphansSettled(n, m, owned)
<1> DEFINE o == MarkUncertain(m, Ids(m) \ owned)
<1>1. /\ WellMade(o, N, T, R) /\ Len(o.items) = Len(m.items) /\ o.keys = m.keys /\ o.run = m.run
      /\ \A i \in 1..Len(m.items) :
            o.items[i] = IF m.items[i].id \in Ids(m) \ owned /\ m.items[i].state \in InFlightStates
                         THEN [m.items[i] EXCEPT !.state = "uncertain"] ELSE m.items[i]
    BY UncertainMarked
<1>2. n = [o EXCEPT !.paused = TRUE, !.recovered = TRUE]
    BY DEF RecoverOrphans
<1> HIDE DEF o
<1>3. /\ Fields(n) /\ n.items = o.items /\ n.keys = o.keys /\ n.run = o.run
      /\ n.paused = TRUE /\ n.recovered = TRUE
    BY <1>1, <1>2 DEF WellMade, Fields
<1>4. WellMade(n, N, T, R)
    <2>1. /\ o.items \in Seq(Items(N, T, R)) /\ Distinct(o.items) /\ o.run \in R
          /\ \A k \in DOMAIN o.keys : \E i \in 1..Len(o.items) : o.items[i].id = o.keys[k].id
        BY <1>1 DEF WellMade
    <2>2. n.run \in R
        BY <1>3, <2>1
    <2>3. n.paused \in BOOLEAN /\ n.recovered \in BOOLEAN
        BY <1>3
    <2>4. n.items \in Seq(Items(N, T, R)) /\ Distinct(n.items)
        BY <1>3, <2>1
    <2>5. \A k \in DOMAIN n.keys : \E i \in 1..Len(n.items) : n.items[i].id = n.keys[k].id
        BY <1>3, <2>1
    <2> QED BY <1>3, <2>2, <2>3, <2>4, <2>5 DEF WellMade
<1> QED BY <1>1, <1>3, <1>4 DEF Settled, OrphansSettled

(* The two ways to pause, and the one to resume.                            *)
Pausing(n, m) == n = SetPaused(m, TRUE) \/ n = ForcePause(m)
Resuming(n, m) == n = SetPaused(m, FALSE)
SameItems(n, m) == n.items = m.items /\ n.keys = m.keys /\ n.run = m.run
NowPaused(n, m) == SameItems(n, m) /\ n.paused = TRUE

(* Pausing leaves the items and the run alone.                                  *)
LEMMA PauseFacts ==
    ASSUME NEW N, NEW T, NEW R, NEW m, WellMade(m, N, T, R), NEW n, Pausing(n, m)
    PROVE  WellMade(n, N, T, R) /\ NowPaused(n, m)
<1>1. /\ Fields(n) /\ n.items = m.items /\ n.keys = m.keys /\ n.run = m.run /\ n.paused = TRUE
      /\ n.recovered \in BOOLEAN
    BY DEF Pausing, SetPaused, ForcePause, WellMade, Fields
<1>2. n.paused \in BOOLEAN
    BY <1>1
<1>3. /\ m.run \in R /\ m.items \in Seq(Items(N, T, R)) /\ Distinct(m.items)
      /\ \A k \in DOMAIN m.keys : \E i \in 1..Len(m.items) : m.items[i].id = m.keys[k].id
    BY DEF WellMade
<1>4. WellMade(n, N, T, R)
    BY <1>1, <1>2, <1>3 DEF WellMade
<1> QED BY <1>1, <1>4 DEF SameItems, NowPaused

(* Resuming leaves the items and the run alone.                             *)
LEMMA ResumeFacts ==
    ASSUME NEW N, NEW T, NEW R, NEW m, WellMade(m, N, T, R), NEW n, Resuming(n, m)
    PROVE  WellMade(n, N, T, R) /\ SameItems(n, m)
<1>1. /\ Fields(n) /\ n.items = m.items /\ n.keys = m.keys /\ n.run = m.run /\ n.paused = FALSE
      /\ n.recovered \in BOOLEAN
    BY DEF Resuming, SetPaused, WellMade, Fields
<1> QED BY <1>1 DEF WellMade, SameItems
=============================================================================
