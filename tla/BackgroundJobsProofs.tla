------------------------ MODULE BackgroundJobsProofs ------------------------
(***************************************************************************)
(* What the scheduler of sub-agents guarantees for any number of requests, *)
(* claims and slots, under everything the job manager and its turns do;    *)
(* and, in the second part, that the evidence of what background jobs      *)
(* changed reaches a turn that reviews it.                                 *)
(***************************************************************************)
EXTENDS BackgroundJobs, FiniteSetTheorems, SequenceTheorems, TLAPS

(***************************************************************************)
(* Only who has waited is woken.                                           *)
(***************************************************************************)
ReadyWaited == \A r \in ready : slot[r] # "idle"

(***************************************************************************)
(* The lists of claims name exactly the holders' claims.  A claim is held  *)
(* once, because a holder's claim meets no other's.                        *)
(***************************************************************************)
ClaimsListed ==
    \A c \in Claim : /\ activeClaims[c] = (IF \E r \in Holders : ClaimOf[r] = c THEN 1 ELSE 0)
                     /\ parentClaims[c] = (IF \E w \in ParentHolders : ClaimOf[w] = c THEN 1 ELSE 0)

(***************************************************************************)
(* The counters count the holders, who are finitely many.                  *)
(***************************************************************************)
HoldersCounted ==
    /\ IsFiniteSet(Holders)
    /\ activeTotal = Cardinality(Holders)
    /\ activeWriters = Cardinality(Holders \cap WriterReq)

(***************************************************************************)
(* The walk over the queue has passed only waiters that cannot start; when *)
(* the mutex is free it has passed them all.                               *)
(***************************************************************************)
Walked == {r \in Req : \E i \in 1..Len(waiters) : waiters[i] = r /\ (cursor = 0 \/ i < cursor)}
WalkedCannotStart == \A r \in Walked : ~canStart(r)

(***************************************************************************)
(* The inductive invariant of the scheduler.                               *)
(***************************************************************************)
SchedulerInv ==
    STypeOK /\ ReadyWaited /\ ClaimsListed /\ HoldersCounted /\ ClaimsDisjoint /\ WalkedCannotStart

-----------------------------------------------------------------------------
(***************************************************************************)
(* What is left of a queue without one of its entries.                     *)
(***************************************************************************)
LEMMA RemoveAtProperties ==
    ASSUME NEW S, NEW q \in Seq(S), NEW i \in 1..Len(q)
    PROVE  /\ RemoveAt(q, i) \in Seq(S) /\ Len(RemoveAt(q, i)) = Len(q) - 1
           /\ \A k \in 1..(Len(q) - 1) : RemoveAt(q, i)[k] = IF k < i THEN q[k] ELSE q[k + 1]
<1> DEFINE front == SubSeq(q, 1, i - 1)
           back == SubSeq(q, i + 1, Len(q))
<1>1. /\ front \in Seq(S) /\ Len(front) = i - 1
      /\ \A k \in 1..(i - 1) : front[k] = q[k]
    BY SubSeqProperties
<1>2. /\ back \in Seq(S) /\ Len(back) = Len(q) - i
      /\ \A k \in 1..(Len(q) - i) : back[k] = q[k + i]
    BY SubSeqProperties
<1>3. /\ front \o back \in Seq(S) /\ Len(front \o back) = Len(q) - 1
      /\ \A k \in 1..(Len(q) - 1) : (front \o back)[k] = IF k <= i - 1 THEN front[k] ELSE back[k - (i - 1)]
    <2> HIDE DEF front, back
    <2> QED BY <1>1, <1>2, ConcatProperties
<1> HIDE DEF front, back
<1>4. ASSUME NEW k \in 1..(Len(q) - 1) PROVE (front \o back)[k] = IF k < i THEN q[k] ELSE q[k + 1]
    BY SMTT(20), <1>1, <1>2, <1>3
<1> QED BY <1>3, <1>4 DEF RemoveAt, front, back

(***************************************************************************)
(* A request that may start enters the counted holders: canStart excludes  *)
(* every claim that meets its own, so the lists stay exact and the claims  *)
(* disjoint, and nothing that could not start before can start now.        *)
(***************************************************************************)
LEMMA HolderEnters ==
    ASSUME SchedulerInv, NEW r \in Req \ Holders, canStart(r), activate(r),
           Holders' = Holders \cup {r}, ParentHolders' = ParentHolders, parentClaims' = parentClaims
    PROVE  /\ activeTotal' \in 0..MaxTotal /\ activeWriters' \in 0..MaxWriters
           /\ activeClaims' \in [Claim -> Nat]
           /\ ClaimsListed' /\ HoldersCounted' /\ ClaimsDisjoint'
           /\ \A q \in Req : canStart(q)' => canStart(q)
<1> USE RequestAssumption, CapAssumption
<1>1. /\ activeTotal \in 0..MaxTotal /\ activeWriters \in 0..MaxWriters
      /\ activeClaims \in [Claim -> Nat] /\ parentClaims \in [Claim -> Nat]
    BY DEF SchedulerInv, STypeOK
<1>2. activeTotal' \in 0..MaxTotal /\ activeWriters' \in 0..MaxWriters /\ activeClaims' \in [Claim -> Nat]
    BY <1>1 DEF activate, canStart, Claim
<1>3. \A q \in Holders \cup ParentHolders : ~Overlaps(ClaimOf[q], ClaimOf[r])
    <2> SUFFICES ASSUME NEW q \in Holders \cup ParentHolders, Overlaps(ClaimOf[q], ClaimOf[r]) PROVE FALSE
        OBVIOUS
    <2>1. ClaimOf[q] \in Claim /\ r \in WriterReq /\ q \in Req \cup Parent
        BY DEF Overlaps, Claim, Holders, ParentHolders
    <2>2. activeClaims[ClaimOf[q]] + parentClaims[ClaimOf[q]] > 0
        BY <1>1, <2>1 DEF SchedulerInv, ClaimsListed
    <2> QED BY <2>1, <2>2 DEF canStart, Blocked
<1>4. ClaimsListed'
    <2> SUFFICES ASSUME NEW c \in Claim
                 PROVE  activeClaims'[c] = IF \E q \in Holders \cup {r} : ClaimOf[q] = c THEN 1 ELSE 0
        BY DEF SchedulerInv, ClaimsListed
    <2>1. activeClaims[c] = IF \E q \in Holders : ClaimOf[q] = c THEN 1 ELSE 0
        BY DEF SchedulerInv, ClaimsListed
    <2>2. CASE ClaimOf[r] = c
        <3>1. ~\E q \in Holders : ClaimOf[q] = c
            BY <1>3, <2>2 DEF Overlaps, Claim
        <3> QED BY <1>1, <2>1, <2>2, <3>1 DEF activate, Claim
    <2>3. CASE ClaimOf[r] # c
        BY <1>1, <2>1, <2>3 DEF activate, Claim
    <2> QED BY <2>2, <2>3
<1>5. HoldersCounted'
    <2>1. IsFiniteSet(Holders) /\ activeTotal = Cardinality(Holders)
          /\ activeWriters = Cardinality(Holders \cap WriterReq)
        BY DEF SchedulerInv, HoldersCounted
    <2>2. IsFiniteSet(Holders \cup {r}) /\ Cardinality(Holders \cup {r}) = Cardinality(Holders) + 1
        BY <2>1, FS_AddElement
    <2>3. IsFiniteSet(Holders \cap WriterReq)
        BY <2>1, FS_Intersection
    <2>4. CASE r \in WriterReq
        <3>1. (Holders \cup {r}) \cap WriterReq = (Holders \cap WriterReq) \cup {r}
            BY <2>4
        <3>2. Cardinality((Holders \cap WriterReq) \cup {r}) = Cardinality(Holders \cap WriterReq) + 1
            BY <2>3, FS_AddElement
        <3> QED BY <2>1, <2>2, <2>4, <3>1, <3>2 DEF HoldersCounted, activate
    <2>5. CASE r \notin WriterReq
        <3>1. (Holders \cup {r}) \cap WriterReq = Holders \cap WriterReq
            BY <2>5
        <3> QED BY <2>1, <2>2, <2>5, <3>1 DEF HoldersCounted, activate
    <2> QED BY <2>4, <2>5
<1>6. ClaimsDisjoint'
    BY <1>3 DEF SchedulerInv, ClaimsDisjoint, Overlaps
<1>7. ASSUME NEW q \in Req, canStart(q)' PROVE canStart(q)
    <2>1. activeTotal <= activeTotal' /\ activeWriters <= activeWriters' /\ \A c \in Claim : activeClaims[c] <= activeClaims'[c]
        BY <1>1 DEF activate, Claim
    <2>2. activeTotal < MaxTotal /\ (q \in WriterReq => activeWriters < MaxWriters)
        BY <1>1, <1>2, <1>7, <2>1 DEF canStart
    <2>3. ASSUME NEW c \in Claim, activeClaims[c] + parentClaims[c] > 0 PROVE activeClaims'[c] + parentClaims'[c] > 0
        BY <1>1, <1>2, <2>1, <2>3
    <2> QED BY <1>7, <2>2, <2>3 DEF canStart, Blocked
<1> QED BY <1>2, <1>4, <1>5, <1>6, <1>7

(***************************************************************************)
(* A holder that leaves takes its own claim and nobody else's off the      *)
(* list, and the counters go down by what it counted for.                  *)
(***************************************************************************)
LEMMA HolderLeaves ==
    ASSUME SchedulerInv, NEW r \in Holders, deactivate(r),
           Holders' = Holders \ {r}, ParentHolders' = ParentHolders, parentClaims' = parentClaims
    PROVE  /\ activeTotal' \in 0..MaxTotal /\ activeWriters' \in 0..MaxWriters
           /\ activeClaims' \in [Claim -> Nat]
           /\ ClaimsListed' /\ HoldersCounted' /\ ClaimsDisjoint'
<1> USE RequestAssumption, CapAssumption
<1>1. /\ activeTotal \in 0..MaxTotal /\ activeWriters \in 0..MaxWriters
      /\ activeClaims \in [Claim -> Nat] /\ r \in Req
    BY DEF SchedulerInv, STypeOK, Holders
<1>2. activeTotal' \in 0..MaxTotal /\ activeWriters' \in 0..MaxWriters /\ activeClaims' \in [Claim -> Nat]
    BY <1>1 DEF deactivate, Less, Claim
<1>3. ClaimsListed'
    <2> SUFFICES ASSUME NEW c \in Claim
                 PROVE  activeClaims'[c] = IF \E q \in Holders \ {r} : ClaimOf[q] = c THEN 1 ELSE 0
        BY DEF SchedulerInv, ClaimsListed
    <2>1. activeClaims[c] = IF \E q \in Holders : ClaimOf[q] = c THEN 1 ELSE 0
        BY DEF SchedulerInv, ClaimsListed
    <2>2. CASE ClaimOf[r] = c
        <3>1. ~\E q \in Holders \ {r} : ClaimOf[q] = c
            BY <2>2 DEF SchedulerInv, ClaimsDisjoint, Overlaps, Claim
        <3> QED BY <1>1, <2>1, <2>2, <3>1 DEF deactivate, Less, Claim
    <2>3. CASE ClaimOf[r] # c
        BY <1>1, <2>1, <2>3 DEF deactivate, Claim
    <2> QED BY <2>2, <2>3
<1>4. HoldersCounted'
    <2>1. IsFiniteSet(Holders) /\ activeTotal = Cardinality(Holders)
          /\ activeWriters = Cardinality(Holders \cap WriterReq)
        BY DEF SchedulerInv, HoldersCounted
    <2>2. IsFiniteSet(Holders \ {r}) /\ Cardinality(Holders \ {r}) = Cardinality(Holders) - 1
        BY <2>1, FS_RemoveElement
    <2>3. IsFiniteSet(Holders \cap WriterReq) /\ Cardinality(Holders \ {r}) \in Nat
        BY <2>1, <2>2, FS_Intersection, FS_CardinalityType
    <2>4. activeTotal' = Cardinality(Holders \ {r})
        BY <1>1, <2>1, <2>2, <2>3 DEF deactivate, Less
    <2>5. CASE r \in WriterReq
        <3>1. (Holders \ {r}) \cap WriterReq = (Holders \cap WriterReq) \ {r}
            OBVIOUS
        <3>2. Cardinality((Holders \cap WriterReq) \ {r}) = Cardinality(Holders \cap WriterReq) - 1
            BY <2>3, <2>5, FS_RemoveElement
        <3>3. Cardinality((Holders \cap WriterReq) \ {r}) \in Nat
            BY <2>3, FS_RemoveElement, FS_CardinalityType
        <3>4. activeWriters' = Cardinality((Holders \cap WriterReq) \ {r})
            BY <1>1, <2>1, <2>5, <3>2, <3>3 DEF deactivate, Less
        <3> QED BY <2>2, <2>4, <3>1, <3>4 DEF HoldersCounted
    <2>6. CASE r \notin WriterReq
        <3>1. (Holders \ {r}) \cap WriterReq = Holders \cap WriterReq
            BY <2>6
        <3> QED BY <2>1, <2>2, <2>6, <2>4, <3>1 DEF HoldersCounted, deactivate
    <2> QED BY <2>5, <2>6
<1>5. ClaimsDisjoint'
    BY DEF SchedulerInv, ClaimsDisjoint, Overlaps
<1> QED BY <1>2, <1>3, <1>4, <1>5

(***************************************************************************)
(* A step that moves no holder and no counter leaves what is said of them. *)
(***************************************************************************)
LEMMA HoldersStay ==
    ASSUME SchedulerInv, Holders' = Holders, ParentHolders' = ParentHolders, UNCHANGED <<counters, parentClaims>>
    PROVE  /\ ClaimsListed' /\ HoldersCounted' /\ ClaimsDisjoint'
           /\ \A q \in Req : canStart(q)' => canStart(q)
<1>1. UNCHANGED <<activeTotal, activeWriters, activeClaims, parentClaims>>
    BY DEF counters
<1>2. ClaimsListed' /\ HoldersCounted' /\ ClaimsDisjoint'
    BY <1>1 DEF SchedulerInv, ClaimsListed, HoldersCounted, ClaimsDisjoint
<1>3. \A q \in Req : canStart(q)' => canStart(q)
    BY <1>1 DEF canStart, Blocked
<1> QED BY <1>2, <1>3

(***************************************************************************)
(* A request that may start at once becomes a holder.                      *)
(***************************************************************************)
LEMMA AcquireNowKeeps ==
    ASSUME SchedulerInv, NEW r \in Req, AcquireNow(r)
    PROVE  SchedulerInv'
<1> USE RequestAssumption
<1>1. r \notin Holders /\ Holders' = Holders \cup {r} /\ ParentHolders' = ParentHolders
    BY DEF SchedulerInv, STypeOK, AcquireNow, Holders, ParentHolders
<1>2. /\ activeTotal' \in 0..MaxTotal /\ activeWriters' \in 0..MaxWriters /\ activeClaims' \in [Claim -> Nat]
      /\ ClaimsListed' /\ HoldersCounted' /\ ClaimsDisjoint'
      /\ \A q \in Req : canStart(q)' => canStart(q)
    BY <1>1, HolderEnters DEF AcquireNow
<1>3. STypeOK'
    BY <1>2 DEF SchedulerInv, STypeOK, AcquireNow, SlotSteps
<1>4. ReadyWaited' /\ WalkedCannotStart'
    BY <1>2 DEF SchedulerInv, STypeOK, ReadyWaited, WalkedCannotStart, Walked, AcquireNow
<1> QED BY <1>2, <1>3, <1>4 DEF SchedulerInv

(***************************************************************************)
(* A request that is refused, or queued because it cannot start.           *)
(***************************************************************************)
LEMMA AcquireElseKeeps ==
    ASSUME SchedulerInv, NEW r \in Req, AcquireRefused(r) \/ AcquireQueues(r)
    PROVE  SchedulerInv'
<1> USE RequestAssumption
<1>1. slot[r] = "idle" /\ r \notin ready
    BY DEF AcquireRefused, AcquireQueues, SchedulerInv, ReadyWaited
<1>2. Holders' = Holders /\ ParentHolders' = ParentHolders
    BY <1>1 DEF SchedulerInv, STypeOK, AcquireRefused, AcquireQueues, Holders, ParentHolders
<1>3. /\ ClaimsListed' /\ HoldersCounted' /\ ClaimsDisjoint'
      /\ \A q \in Req : canStart(q)' => canStart(q)
    BY <1>2, HoldersStay DEF AcquireRefused, AcquireQueues
<1>4. CASE AcquireRefused(r)
    <2>1. STypeOK'
        BY <1>1, <1>4 DEF SchedulerInv, STypeOK, AcquireRefused, counters, SlotSteps
    <2>2. ReadyWaited' /\ WalkedCannotStart'
        BY <1>3, <1>4 DEF SchedulerInv, STypeOK, ReadyWaited, WalkedCannotStart, Walked, AcquireRefused
    <2> QED BY <1>3, <2>1, <2>2 DEF SchedulerInv
<1>5. CASE AcquireQueues(r)
    <2>1. Len(waiters) \in Nat
        BY LenProperties DEF SchedulerInv, STypeOK
    <2>2. /\ waiters' \in Seq(Req) /\ Len(waiters') = Len(waiters) + 1 /\ waiters'[Len(waiters) + 1] = r
          /\ \A i \in 1..Len(waiters) : waiters'[i] = waiters[i]
        BY <1>5, AppendProperties DEF AcquireQueues, SchedulerInv, STypeOK
    <2>3. \A i \in 1..Len(waiters) : waiters[i] # r
        BY <1>1 DEF SchedulerInv, STypeOK
    <2>4. STypeOK'
        <3>1. /\ cursor' \in 0..Len(waiters') /\ ready' \subseteq Req
              /\ slot' \in [Req \cup Parent -> SlotSteps]
            BY <1>5, <2>2 DEF SchedulerInv, STypeOK, AcquireQueues, SlotSteps
        <3>2. \A i, j \in 1..Len(waiters') : i # j => waiters'[i] # waiters'[j]
            <4>1. \A i \in 1..Len(waiters') : i \in 1..Len(waiters) \/ i = Len(waiters) + 1
                BY <2>1, <2>2
            <4>2. \A i, j \in 1..Len(waiters) : i # j => waiters[i] # waiters[j]
                BY DEF SchedulerInv, STypeOK
            <4> QED BY <2>2, <2>3, <4>1, <4>2
        <3>3. \A q \in Req : (\E i \in 1..Len(waiters') : waiters'[i] = q) <=> slot'[q] = "waiting" /\ q \notin ready'
            <4> SUFFICES ASSUME NEW q \in Req
                         PROVE  (\E i \in 1..Len(waiters') : waiters'[i] = q) <=> slot'[q] = "waiting" /\ q \notin ready'
                OBVIOUS
            <4>1. (\E i \in 1..Len(waiters') : waiters'[i] = q) <=> (\E i \in 1..Len(waiters) : waiters[i] = q) \/ q = r
                BY <2>1, <2>2
            <4>2. ready' = ready /\ slot'[q] = IF q = r THEN "waiting" ELSE slot[q]
                BY <1>5 DEF AcquireQueues, SchedulerInv, STypeOK
            <4> QED BY <1>1, <4>1, <4>2 DEF SchedulerInv, STypeOK
        <3> QED BY <1>5, <2>2, <3>1, <3>2, <3>3 DEF SchedulerInv, STypeOK, AcquireQueues, counters
    <2>5. ReadyWaited'
        BY <1>5 DEF SchedulerInv, STypeOK, ReadyWaited, AcquireQueues
    <2>6. WalkedCannotStart'
        <3>1. Walked' \subseteq Walked \cup {r}
            BY <1>5, <2>1, <2>2 DEF Walked, AcquireQueues
        <3>2. ~canStart(r)
            BY <1>5 DEF AcquireQueues
        <3> QED BY <1>3, <3>1, <3>2 DEF SchedulerInv, WalkedCannotStart, Walked
    <2> QED BY <1>3, <2>4, <2>5, <2>6 DEF SchedulerInv
<1> QED BY <1>4, <1>5

(***************************************************************************)
(* Waking moves a granted waiter to its slot, and counts nothing.          *)
(***************************************************************************)
LEMMA WakeKeeps ==
    ASSUME SchedulerInv, NEW r \in Req, Wake(r)
    PROVE  SchedulerInv'
<1> USE RequestAssumption
<1>1. Holders' = Holders /\ ParentHolders' = ParentHolders
    BY DEF SchedulerInv, STypeOK, Wake, Holders, ParentHolders
<1>2. /\ ClaimsListed' /\ HoldersCounted' /\ ClaimsDisjoint'
      /\ \A q \in Req : canStart(q)' => canStart(q)
    BY <1>1, HoldersStay DEF Wake
<1>3. STypeOK'
    BY DEF SchedulerInv, STypeOK, Wake, counters, SlotSteps
<1>4. ReadyWaited' /\ WalkedCannotStart'
    BY <1>2 DEF SchedulerInv, STypeOK, ReadyWaited, WalkedCannotStart, Walked, Wake
<1> QED BY <1>2, <1>3, <1>4 DEF SchedulerInv

(***************************************************************************)
(* The queue without its i-th entry: the others stay, in order and once.   *)
(***************************************************************************)
LEMMA QueueWithout ==
    ASSUME STypeOK, NEW i \in 1..Len(waiters), waiters' = RemoveAt(waiters, i)
    PROVE  /\ waiters' \in Seq(Req) /\ Len(waiters') = Len(waiters) - 1 /\ Len(waiters) \in Nat \ {0}
           /\ \A k \in 1..Len(waiters') : waiters'[k] = IF k < i THEN waiters[k] ELSE waiters[k + 1]
           /\ \A k, l \in 1..Len(waiters') : k # l => waiters'[k] # waiters'[l]
           /\ \A q : (\E k \in 1..Len(waiters') : waiters'[k] = q) <=>
                     (\E k \in 1..Len(waiters) : waiters[k] = q) /\ q # waiters[i]
<1>1. waiters \in Seq(Req) /\ Len(waiters) \in Nat
    BY LenProperties DEF STypeOK
<1>2. /\ waiters' \in Seq(Req) /\ Len(waiters') = Len(waiters) - 1
      /\ \A k \in 1..(Len(waiters) - 1) : waiters'[k] = IF k < i THEN waiters[k] ELSE waiters[k + 1]
    BY <1>1, RemoveAtProperties
<1>3. \A k, l \in 1..Len(waiters) : k # l => waiters[k] # waiters[l]
    BY DEF STypeOK
<1>4. \A k, l \in 1..Len(waiters') : k # l => waiters'[k] # waiters'[l]
    <2> SUFFICES ASSUME NEW k \in 1..Len(waiters'), NEW l \in 1..Len(waiters'), k # l PROVE waiters'[k] # waiters'[l]
        OBVIOUS
    <2>1. /\ waiters'[k] = waiters[IF k < i THEN k ELSE k + 1]
          /\ waiters'[l] = waiters[IF l < i THEN l ELSE l + 1]
        BY <1>1, <1>2
    <2>2. /\ (IF k < i THEN k ELSE k + 1) \in 1..Len(waiters)
          /\ (IF l < i THEN l ELSE l + 1) \in 1..Len(waiters)
          /\ (IF k < i THEN k ELSE k + 1) # (IF l < i THEN l ELSE l + 1)
        BY <1>1, <1>2
    <2> QED BY <1>3, <2>1, <2>2
<1>5. ASSUME NEW q
      PROVE  (\E k \in 1..Len(waiters') : waiters'[k] = q) <=>
             (\E k \in 1..Len(waiters) : waiters[k] = q) /\ q # waiters[i]
    <2>1. ASSUME NEW k \in 1..Len(waiters'), waiters'[k] = q
          PROVE  (\E l \in 1..Len(waiters) : waiters[l] = q) /\ q # waiters[i]
        <3>1. CASE k < i
            BY <1>1, <1>2, <1>3, <2>1, <3>1
        <3>2. CASE ~(k < i)
            <4>1. k + 1 \in 1..Len(waiters) /\ k + 1 # i /\ waiters'[k] = waiters[k + 1]
                BY <1>1, <1>2, <3>2
            <4> QED BY <1>3, <2>1, <4>1
        <3> QED BY <3>1, <3>2
    <2>2. ASSUME NEW k \in 1..Len(waiters), waiters[k] = q, q # waiters[i]
          PROVE  \E l \in 1..Len(waiters') : waiters'[l] = q
        <3>1. CASE k < i
            BY <1>1, <1>2, <2>2, <3>1
        <3>2. CASE ~(k < i)
            <4>1. k - 1 \in 1..Len(waiters') /\ ~(k - 1 < i) /\ (k - 1) + 1 = k
                BY <1>1, <1>2, <2>2, <3>2
            <4>2. waiters'[k - 1] = waiters[k]
                BY <1>1, <1>2, <4>1
            <4> QED BY <2>2, <4>1, <4>2
        <3> QED BY <3>1, <3>2
    <2> QED BY <2>1, <2>2
<1>6. Len(waiters) \in Nat \ {0}
    BY <1>1
<1>7. \A k \in 1..Len(waiters') : waiters'[k] = IF k < i THEN waiters[k] ELSE waiters[k + 1]
    BY ONLY <1>2
<1>8. \A q : (\E k \in 1..Len(waiters') : waiters'[k] = q) <=>
            (\E k \in 1..Len(waiters) : waiters[k] = q) /\ q # waiters[i]
    BY ONLY <1>5
<1>9. waiters' \in Seq(Req) /\ Len(waiters') = Len(waiters) - 1
    BY ONLY <1>2
<1> QED BY ONLY <1>4, <1>6, <1>7, <1>8, <1>9

(***************************************************************************)
(* A waiter whose context ended leaves the queue; one that was granted     *)
(* meanwhile stays a holder until it has given its slot back.              *)
(***************************************************************************)
LEMMA CancelWaitKeeps ==
    ASSUME SchedulerInv, NEW r \in Req, CancelWait(r)
    PROVE  SchedulerInv'
<1> USE RequestAssumption
<1>1. Holders' = Holders /\ ParentHolders' = ParentHolders
    BY DEF SchedulerInv, STypeOK, CancelWait, Holders, ParentHolders
<1>2. /\ ClaimsListed' /\ HoldersCounted' /\ ClaimsDisjoint'
      /\ \A q \in Req : canStart(q)' => canStart(q)
    BY <1>1, HoldersStay DEF CancelWait
<1>3. ReadyWaited'
    BY DEF SchedulerInv, STypeOK, ReadyWaited, CancelWait
<1>4. /\ slot[r] = "waiting" /\ cursor = 0 /\ cursor' = 0 /\ ready' = ready
      /\ UNCHANGED <<counters, parentClaims>>
      /\ slot' = [slot EXCEPT ![r] = IF r \in ready THEN "leaving" ELSE "refused"]
         /\ slot' \in [Req \cup Parent -> SlotSteps]
    BY DEF SchedulerInv, STypeOK, CancelWait, SlotSteps
<1>5. CASE r \in ready
    <2>1. waiters' = waiters
        BY <1>5 DEF CancelWait, removeWaiter, SchedulerInv, STypeOK
    <2>2. STypeOK'
        BY <1>4, <1>5, <2>1 DEF SchedulerInv, STypeOK, counters
    <2>3. WalkedCannotStart'
        BY <1>2, <1>4, <2>1 DEF SchedulerInv, WalkedCannotStart, Walked
    <2> QED BY <1>2, <1>3, <2>2, <2>3 DEF SchedulerInv
<1>6. CASE r \notin ready
    <2>1. PICK i \in 1..Len(waiters) : waiters[i] = r /\ waiters' = RemoveAt(waiters, i)
        BY <1>4, <1>6 DEF CancelWait, removeWaiter, SchedulerInv, STypeOK
    <2>2. /\ waiters' \in Seq(Req) /\ Len(waiters') \in Nat
          /\ \A k, l \in 1..Len(waiters') : k # l => waiters'[k] # waiters'[l]
          /\ \A q : (\E k \in 1..Len(waiters') : waiters'[k] = q) <=>
                    (\E k \in 1..Len(waiters) : waiters[k] = q) /\ q # r
        <3>1. STypeOK
            BY DEF SchedulerInv
        <3>2. /\ waiters' \in Seq(Req)
              /\ \A k, l \in 1..Len(waiters') : k # l => waiters'[k] # waiters'[l]
              /\ \A q : (\E k \in 1..Len(waiters') : waiters'[k] = q) <=>
                        (\E k \in 1..Len(waiters) : waiters[k] = q) /\ q # waiters[i]
            BY <2>1, <3>1, QueueWithout
        <3> QED BY <2>1, <3>2, LenProperties
    <2>3. \A q \in Req : (\E k \in 1..Len(waiters') : waiters'[k] = q) <=> slot'[q] = "waiting" /\ q \notin ready'
        BY <1>4, <1>6, <2>2 DEF SchedulerInv, STypeOK
    <2>4. STypeOK'
        BY <1>4, <2>2, <2>3 DEF SchedulerInv, STypeOK, counters
    <2>5. Walked' \subseteq Walked
        BY <1>4, <2>2 DEF Walked
    <2>6. WalkedCannotStart'
        BY <1>2, <2>5 DEF SchedulerInv, WalkedCannotStart, Walked
    <2> QED BY <1>2, <1>3, <2>4, <2>6 DEF SchedulerInv
<1> QED BY <1>5, <1>6

(***************************************************************************)
(* A holder gives its slot back and starts the walk over the queue.        *)
(***************************************************************************)
LEMMA ReleaseKeeps ==
    ASSUME SchedulerInv, NEW r \in Req, Release(r)
    PROVE  SchedulerInv'
<1> USE RequestAssumption
<1>1. r \in Holders /\ Holders' = Holders \ {r} /\ ParentHolders' = ParentHolders
    BY DEF SchedulerInv, STypeOK, Release, Holders, ParentHolders
<1>2. /\ activeTotal' \in 0..MaxTotal /\ activeWriters' \in 0..MaxWriters /\ activeClaims' \in [Claim -> Nat]
      /\ ClaimsListed' /\ HoldersCounted' /\ ClaimsDisjoint'
    BY <1>1, HolderLeaves DEF Release
<1>3. cursor' \in 0..Len(waiters) /\ (cursor' = 0 => waiters = <<>>) /\ cursor' \in {0, 1}
    BY LenProperties, EmptySeq DEF SchedulerInv, STypeOK, Release, StartPump
<1>4. STypeOK'
    BY <1>2, <1>3 DEF SchedulerInv, STypeOK, Release, SlotSteps
<1>5. ReadyWaited'
    BY DEF SchedulerInv, STypeOK, ReadyWaited, Release
<1>6. Walked' = {}
    BY <1>3 DEF Walked, Release
<1> QED BY <1>2, <1>4, <1>5, <1>6 DEF SchedulerInv, WalkedCannotStart

(***************************************************************************)
(* One step of the walk: the waiter looked at starts and leaves the queue, *)
(* or is passed because it cannot start.  Starting it takes capacity away  *)
(* from the others, so who was passed still cannot start.                  *)
(***************************************************************************)
LEMMA PumpKeeps ==
    ASSUME SchedulerInv, PumpStep
    PROVE  SchedulerInv'
<1> USE RequestAssumption
<1> DEFINE w == waiters[cursor]
<1>1. /\ waiters \in Seq(Req) /\ Len(waiters) \in Nat /\ cursor \in 1..Len(waiters) /\ w \in Req
      /\ slot[w] = "waiting" /\ w \notin ready /\ UNCHANGED <<parentClaims, slot>>
    <2>1. waiters \in Seq(Req) /\ cursor \in 0..Len(waiters) /\ cursor > 0
        BY DEF SchedulerInv, STypeOK, PumpStep
    <2>2. Len(waiters) \in Nat /\ cursor \in 1..Len(waiters) /\ w \in Req
        BY <2>1, LenProperties, ElementOfSeq
    <2> QED BY <2>1, <2>2 DEF SchedulerInv, STypeOK, PumpStep
<1>2. CASE canStart(w)
    <2>1. /\ activate(w) /\ ready' = ready \cup {w} /\ waiters' = RemoveAt(waiters, cursor)
          /\ cursor' = IF cursor < Len(waiters) THEN cursor ELSE 0
        BY <1>2 DEF PumpStep
    <2>2. /\ waiters' \in Seq(Req) /\ Len(waiters') = Len(waiters) - 1
          /\ \A k \in 1..Len(waiters') : waiters'[k] = IF k < cursor THEN waiters[k] ELSE waiters[k + 1]
          /\ \A k, l \in 1..Len(waiters') : k # l => waiters'[k] # waiters'[l]
          /\ \A q : (\E k \in 1..Len(waiters') : waiters'[k] = q) <=>
                    (\E k \in 1..Len(waiters) : waiters[k] = q) /\ q # w
        <3>1. STypeOK
            BY DEF SchedulerInv
        <3> QED BY <1>1, <2>1, <3>1, QueueWithout
    <2>3. w \notin Holders /\ Holders' = Holders \cup {w} /\ ParentHolders' = ParentHolders
        BY <1>1, <2>1 DEF Holders, ParentHolders
    <2>4. /\ activeTotal' \in 0..MaxTotal /\ activeWriters' \in 0..MaxWriters
          /\ activeClaims' \in [Claim -> Nat]
          /\ ClaimsListed' /\ HoldersCounted' /\ ClaimsDisjoint'
          /\ \A q \in Req : canStart(q)' => canStart(q)
        BY <1>1, <1>2, <2>1, <2>3, HolderEnters
    <2>5. STypeOK'
        <3>1. cursor' \in 0..Len(waiters')
            BY <1>1, <2>1, <2>2
        <3>2. \A q \in Req : (\E k \in 1..Len(waiters') : waiters'[k] = q) <=> slot'[q] = "waiting" /\ q \notin ready'
            BY <1>1, <2>1, <2>2 DEF SchedulerInv, STypeOK
        <3> QED BY <1>1, <2>1, <2>2, <2>4, <3>1, <3>2 DEF SchedulerInv, STypeOK
    <2>6. ReadyWaited'
        BY <1>1, <2>1 DEF SchedulerInv, ReadyWaited
    <2>7. Walked' \subseteq Walked
        <3> SUFFICES ASSUME NEW q \in Walked' PROVE q \in Walked
            OBVIOUS
        <3>1. PICK k \in 1..Len(waiters') : waiters'[k] = q /\ (cursor' = 0 \/ k < cursor')
            BY DEF Walked
        <3>2. k < cursor /\ k \in 1..Len(waiters)
            BY <1>1, <2>1, <2>2, <3>1
        <3>3. waiters[k] = q
            BY <2>2, <3>1, <3>2
        <3> QED BY <3>2, <3>3 DEF Walked
    <2>8. WalkedCannotStart'
        BY <2>4, <2>7 DEF SchedulerInv, WalkedCannotStart, Walked
    <2> QED BY <2>4, <2>5, <2>6, <2>8 DEF SchedulerInv
<1>3. CASE ~canStart(w)
    <2>1. cursor' = (IF cursor < Len(waiters) THEN cursor + 1 ELSE 0)
          /\ UNCHANGED <<waiters, ready, counters>>
        BY <1>3 DEF PumpStep
    <2>2. Holders' = Holders /\ ParentHolders' = ParentHolders
        BY <1>1, <2>1 DEF Holders, ParentHolders
    <2>3. /\ ClaimsListed' /\ HoldersCounted' /\ ClaimsDisjoint'
          /\ \A q \in Req : canStart(q)' => canStart(q)
        BY <1>1, <2>1, <2>2, HoldersStay
    <2>4. STypeOK'
        <3>1. UNCHANGED <<slot, waiters, ready, activeTotal, activeWriters, activeClaims, parentClaims>>
            BY <1>1, <2>1 DEF counters
        <3>2. cursor' \in 0..Len(waiters)
            BY <1>1, <2>1 DEF SchedulerInv, STypeOK
        <3> QED BY <3>1, <3>2 DEF SchedulerInv, STypeOK
    <2>5. ReadyWaited'
        BY <1>1, <2>1 DEF SchedulerInv, ReadyWaited
    <2>6. Walked' \subseteq Walked \cup {w}
        <3> SUFFICES ASSUME NEW q \in Walked' PROVE q \in Walked \cup {w}
            OBVIOUS
        <3>1. PICK k \in 1..Len(waiters) : waiters[k] = q /\ (cursor' = 0 \/ k < cursor')
            BY <2>1 DEF Walked
        <3>2. k < cursor \/ k = cursor
            BY <1>1, <2>1, <3>1
        <3> QED BY <1>1, <3>1, <3>2 DEF Walked
    <2>7. WalkedCannotStart'
        BY <1>3, <2>3, <2>6 DEF SchedulerInv, WalkedCannotStart, Walked
    <2> QED BY <2>3, <2>4, <2>5, <2>7 DEF SchedulerInv
<1> QED BY <1>2, <1>3

(***************************************************************************)
(* The parent's write takes its claim when nothing meets it.               *)
(***************************************************************************)
LEMMA ReserveKeeps ==
    ASSUME SchedulerInv, NEW w \in Parent, ReserveParentWrite(w)
    PROVE  SchedulerInv'
<1> USE RequestAssumption
<1>1. /\ slot[w] = "idle" /\ slot' = [slot EXCEPT ![w] = "holding"] /\ ~Blocked(ClaimOf[w])
      /\ UNCHANGED <<waiters, cursor, ready, activeTotal, activeWriters, activeClaims>>
      /\ parentClaims' = [parentClaims EXCEPT ![ClaimOf[w]] = @ + 1]
    BY DEF ReserveParentWrite, counters
<1>2. /\ activeClaims \in [Claim -> Nat] /\ parentClaims \in [Claim -> Nat]
      /\ slot \in [Req \cup Parent -> SlotSteps]
      /\ ClaimOf[w] \in Claim
    BY DEF SchedulerInv, STypeOK, Claim
<1>3. Holders' = Holders /\ ParentHolders' = ParentHolders \cup {w} /\ w \notin ParentHolders
    BY <1>1, <1>2 DEF Holders, ParentHolders
<1>4. \A q \in Holders \cup ParentHolders : ~Overlaps(ClaimOf[q], ClaimOf[w])
    <2> SUFFICES ASSUME NEW q \in Holders \cup ParentHolders, Overlaps(ClaimOf[q], ClaimOf[w]) PROVE FALSE
        OBVIOUS
    <2>1. ClaimOf[q] \in Claim
        BY DEF Overlaps, Claim, Holders, ParentHolders
    <2>2. activeClaims[ClaimOf[q]] + parentClaims[ClaimOf[q]] > 0
        BY <1>2, <2>1 DEF SchedulerInv, ClaimsListed
    <2> QED BY <1>1, <2>1, <2>2 DEF Blocked
<1>5. ClaimsListed'
    <2> SUFFICES ASSUME NEW c \in Claim
                 PROVE  parentClaims'[c] = IF \E q \in ParentHolders \cup {w} : ClaimOf[q] = c THEN 1 ELSE 0
        BY <1>1, <1>3 DEF SchedulerInv, ClaimsListed
    <2>1. parentClaims[c] = IF \E q \in ParentHolders : ClaimOf[q] = c THEN 1 ELSE 0
        BY DEF SchedulerInv, ClaimsListed
    <2>2. CASE ClaimOf[w] = c
        <3>1. ~\E q \in ParentHolders : ClaimOf[q] = c
            BY <1>4, <2>2 DEF Overlaps, Claim
        <3> QED BY <1>1, <1>2, <2>1, <2>2, <3>1
    <2>3. CASE ClaimOf[w] # c
        BY <1>1, <1>2, <2>1, <2>3
    <2> QED BY <2>2, <2>3
<1>6. ClaimsDisjoint'
    BY <1>3, <1>4 DEF SchedulerInv, ClaimsDisjoint, Overlaps
<1>7. HoldersCounted'
    BY <1>1, <1>3 DEF SchedulerInv, HoldersCounted
<1>8. STypeOK'
    BY <1>1, <1>2 DEF SchedulerInv, STypeOK, SlotSteps
<1>9. ReadyWaited'
    BY <1>1, <1>2 DEF SchedulerInv, ReadyWaited, STypeOK
<1>10. ASSUME NEW q \in Req, canStart(q)' PROVE canStart(q)
    <2>1. ASSUME NEW c \in Claim, activeClaims[c] + parentClaims[c] > 0 PROVE activeClaims'[c] + parentClaims'[c] > 0
        BY <1>1, <1>2, <2>1
    <2> QED BY <1>1, <1>10, <2>1 DEF canStart, Blocked
<1>11. WalkedCannotStart'
    BY <1>1, <1>10 DEF SchedulerInv, WalkedCannotStart, Walked
<1> QED BY <1>5, <1>6, <1>7, <1>8, <1>9, <1>11 DEF SchedulerInv

(***************************************************************************)
(* A refused write of the parent leaves the scheduler alone.               *)
(***************************************************************************)
LEMMA ParentRefusedKeeps ==
    ASSUME SchedulerInv, NEW w \in Parent, ParentWriteRefused(w)
    PROVE  SchedulerInv'
<1> USE RequestAssumption
<1>1. Holders' = Holders /\ ParentHolders' = ParentHolders
    BY DEF SchedulerInv, STypeOK, ParentWriteRefused, Holders, ParentHolders
<1>2. /\ ClaimsListed' /\ HoldersCounted' /\ ClaimsDisjoint'
      /\ \A q \in Req : canStart(q)' => canStart(q)
    BY <1>1, HoldersStay DEF ParentWriteRefused
<1>3. STypeOK' /\ ReadyWaited'
    BY DEF SchedulerInv, STypeOK, ReadyWaited, ParentWriteRefused, counters, SlotSteps
<1>4. WalkedCannotStart'
    BY <1>2 DEF SchedulerInv, WalkedCannotStart, Walked, ParentWriteRefused
<1> QED BY <1>2, <1>3, <1>4 DEF SchedulerInv

(***************************************************************************)
(* The parent's write is done: its claim leaves the list, the queue is     *)
(* walked.                                                                 *)
(***************************************************************************)
LEMMA ParentDoneKeeps ==
    ASSUME SchedulerInv, NEW w \in Parent, ParentWriteDone(w)
    PROVE  SchedulerInv'
<1> USE RequestAssumption
<1>1. /\ slot[w] = "holding" /\ slot' = [slot EXCEPT ![w] = "done"]
      /\ UNCHANGED <<waiters, ready, activeTotal, activeWriters, activeClaims>>
      /\ parentClaims' = [parentClaims EXCEPT ![ClaimOf[w]] = Less(@)]
    BY DEF ParentWriteDone, counters
<1>2. /\ activeClaims \in [Claim -> Nat] /\ parentClaims \in [Claim -> Nat]
      /\ slot \in [Req \cup Parent -> SlotSteps]
      /\ ClaimOf[w] \in Claim
    BY DEF SchedulerInv, STypeOK, Claim
<1>3. Holders' = Holders /\ ParentHolders' = ParentHolders \ {w} /\ w \in ParentHolders
    BY <1>1, <1>2 DEF Holders, ParentHolders
<1>4. ClaimsListed'
    <2> SUFFICES ASSUME NEW c \in Claim
                 PROVE  parentClaims'[c] = IF \E q \in ParentHolders \ {w} : ClaimOf[q] = c THEN 1 ELSE 0
        BY <1>1, <1>3 DEF SchedulerInv, ClaimsListed
    <2>1. parentClaims[c] = IF \E q \in ParentHolders : ClaimOf[q] = c THEN 1 ELSE 0
        BY DEF SchedulerInv, ClaimsListed
    <2>2. CASE ClaimOf[w] = c
        <3>1. ~\E q \in ParentHolders \ {w} : ClaimOf[q] = c
            BY <1>3, <2>2 DEF SchedulerInv, ClaimsDisjoint, Overlaps, Claim
        <3> QED BY <1>1, <1>2, <1>3, <2>1, <2>2, <3>1 DEF Less
    <2>3. CASE ClaimOf[w] # c
        BY <1>1, <1>2, <2>1, <2>3
    <2> QED BY <2>2, <2>3
<1>5. ClaimsDisjoint' /\ HoldersCounted'
    BY <1>1, <1>3 DEF SchedulerInv, ClaimsDisjoint, HoldersCounted, Overlaps
<1>6. cursor' \in 0..Len(waiters) /\ (cursor' = 0 => waiters = <<>>) /\ cursor' \in {0, 1}
    BY LenProperties, EmptySeq DEF SchedulerInv, STypeOK, ParentWriteDone, StartPump
<1>7. parentClaims' \in [Claim -> Nat]
    BY <1>1, <1>2 DEF Less
<1>8. STypeOK' /\ ReadyWaited'
    BY <1>1, <1>2, <1>6, <1>7 DEF SchedulerInv, STypeOK, ReadyWaited, SlotSteps
<1>9. Walked' = {}
    BY <1>1, <1>6 DEF Walked
<1> QED BY <1>4, <1>5, <1>8, <1>9 DEF SchedulerInv, WalkedCannotStart

-----------------------------------------------------------------------------
(***************************************************************************)
(* A scheduler nobody uses: what a controller starts with, and what the    *)
(* next manager's controller puts in the place of the last one.            *)
(***************************************************************************)
NewScheduler ==
    /\ waiters' = <<>> /\ cursor' = 0 /\ ready' = {} /\ activeTotal' = 0 /\ activeWriters' = 0
    /\ activeClaims' = [c \in Claim |-> 0] /\ parentClaims' = [c \in Claim |-> 0]
    /\ slot' = [r \in Req \cup Parent |-> IF slot[r] = "idle" THEN "idle" ELSE "done"]

(***************************************************************************)
(* The scheduler of a new session satisfies its invariant.                 *)
(***************************************************************************)
LEMMA SchedulerInit == SInit => SchedulerInv
<1> SUFFICES ASSUME SInit PROVE SchedulerInv
    OBVIOUS
<1>1. Holders = {} /\ ParentHolders = {} /\ Walked = {}
    BY RequestAssumption, EmptySeq DEF SInit, Holders, ParentHolders, Walked
<1>2. STypeOK
    BY EmptySeq, CapAssumption, RequestAssumption DEF SInit, STypeOK, SlotSteps
<1>3. HoldersCounted
    BY <1>1, FS_EmptySet DEF SInit, HoldersCounted
<1>4. ReadyWaited /\ ClaimsListed /\ ClaimsDisjoint /\ WalkedCannotStart
    BY <1>1 DEF SInit, ReadyWaited, ClaimsListed, ClaimsDisjoint, WalkedCannotStart
<1> QED BY <1>2, <1>3, <1>4 DEF SchedulerInv

(***************************************************************************)
(* So does the one that takes its place.                                   *)
(***************************************************************************)
LEMMA NewSchedulerKeeps ==
    ASSUME SchedulerInv, NewScheduler
    PROVE  SchedulerInv'
<1>1. \A r \in Req \cup Parent : slot'[r] \in {"idle", "done"}
    BY DEF NewScheduler
<1>2. Holders' = {} /\ ParentHolders' = {} /\ Walked' = {}
    BY <1>1, EmptySeq DEF NewScheduler, Holders, ParentHolders, Walked
<1>3. STypeOK'
    BY <1>1, EmptySeq, CapAssumption, RequestAssumption DEF NewScheduler, STypeOK, SlotSteps
<1>4. HoldersCounted'
    <2>1. Holders' \cap WriterReq = {}
        BY <1>2
    <2> QED BY <1>2, <2>1, FS_EmptySet DEF NewScheduler, HoldersCounted
<1>5. ReadyWaited' /\ ClaimsListed' /\ ClaimsDisjoint' /\ WalkedCannotStart'
    BY <1>2 DEF NewScheduler, ReadyWaited, ClaimsListed, ClaimsDisjoint, WalkedCannotStart
<1> QED BY <1>3, <1>4, <1>5 DEF SchedulerInv

(***************************************************************************)
(* Everything anyone does to the scheduler.                                *)
(***************************************************************************)
SchedulerStep ==
    \/ \E r \in Req : Acquire(r) \/ Wake(r) \/ CancelWait(r) \/ Release(r)
    \/ PumpStep \/ ParentWrites \/ NewScheduler

(***************************************************************************)
(* Each operation keeps the scheduler's invariant.                         *)
(***************************************************************************)
LEMMA SchedulerNext == SchedulerInv /\ (SchedulerStep \/ UNCHANGED svars) => SchedulerInv'
<1> SUFFICES ASSUME SchedulerInv, SchedulerStep \/ UNCHANGED svars PROVE SchedulerInv'
    OBVIOUS
<1>1. ASSUME NEW r \in Req, Acquire(r) \/ Wake(r) \/ CancelWait(r) \/ Release(r) PROVE SchedulerInv'
    BY <1>1, AcquireNowKeeps, AcquireElseKeeps, WakeKeeps, CancelWaitKeeps, ReleaseKeeps DEF Acquire
<1>2. CASE PumpStep \/ ParentWrites \/ NewScheduler
    BY <1>2, PumpKeeps, ReserveKeeps, ParentRefusedKeeps, ParentDoneKeeps, NewSchedulerKeeps DEF ParentWrites
<1>3. CASE UNCHANGED svars
    BY ZenonT(60), <1>3
    DEF svars, SchedulerInv, STypeOK, ReadyWaited, ClaimsListed, HoldersCounted, ClaimsDisjoint,
        WalkedCannotStart,
                Walked, Holders, ParentHolders, canStart, Blocked
<1> QED BY <1>1, <1>2, <1>3 DEF SchedulerStep

(***************************************************************************)
(* Turns, jobs, managers and crashes touch the scheduler only through its  *)
(* operations.                                                             *)
(***************************************************************************)
LEMMA JobsUseScheduler ==
    ASSUME scenario \in Scenarios, [JNext]_<<svars, jvars>>
    PROVE  SchedulerStep \/ UNCHANGED svars
<1> USE JobAssumption, ScenarioAssumption DEF SchedulerStep
<1>1. ASSUME NEW j \in scenario.jobs, AcquireSlot(j) \/ RunEnds(j) PROVE SchedulerStep \/ UNCHANGED svars
    BY <1>1 DEF AcquireSlot, RunEnds, Acquire
<1>2. ASSUME NEW j \in scenario.jobs,
             \/ Register(j) \/ Collect(j) \/ CommitEvidence(j) \/ Kill(j) \/ Mutate(j)
             \/ Launch(j) \/ BeginRun(j) \/ Unwind(j) \/ WriteMeta(j) \/ recordCompletion(j) \/ PublishStatus(j) \/ CloseDone(j)
      PROVE  UNCHANGED svars
    BY <1>2
    DEF Register, Collect, CommitEvidence, Kill, Mutate, Launch, BeginRun, Unwind, WriteMeta,
        recordCompletion,
                PublishStatus, CloseDone
<1>3. ASSUME NEW r \in scenario.runs, ForegroundRun(r) PROVE SchedulerStep
    BY <1>3 DEF ForegroundRun
<1>4. ASSUME NEW w \in scenario.writes, WriteTool(w) PROVE SchedulerStep
    BY <1>4 DEF WriteTool, ParentWrites
<1>5. CASE Pump \/ NewManager
    BY <1>5 DEF Pump, NewManager, NewScheduler
<1>6. ASSUME NEW mode \in {"run", "plan"}, TurnStart(mode) PROVE UNCHANGED svars
    BY <1>6 DEF TurnStart
<1>7. CASE TurnDelivers \/ TurnEnds \/ TurnFails \/ BeginDestroy \/ RemoveArtifacts \/ FinishDestroy \/ Close \/ Crash \/ Rebind
    BY <1>7
    DEF TurnDelivers, TurnEnds, TurnFails, BeginDestroy, RemoveArtifacts, FinishDestroy, Close, Crash,
        Rebind
<1>8. ASSUME NEW m \in Mgr, ReleaseOwner(m) PROVE UNCHANGED svars
    BY <1>8 DEF ReleaseOwner
<1>9. CASE Loading
    BY <1>9 DEF Loading, DeferRecord, RepairRecord, LoadEnds, ReadRecord, others3
<1>10. CASE UNCHANGED <<svars, jvars>>
    BY <1>10
<1> QED BY <1>1, <1>2, <1>3, <1>4, <1>5, <1>6, <1>7, <1>8, <1>9, <1>10 DEF JNext, GoStep

(***************************************************************************)
(* The scenario is fixed.                                                  *)
(***************************************************************************)
LEMMA ScenarioFixed == [JNext]_<<svars, jvars>> => UNCHANGED scenario
PROOF
    BY ZenonT(60) DEF JNext, GoStep, Loading, jvars, others, others2, others3,
           Register, Collect, CommitEvidence, Kill, Mutate, Launch, BeginRun, Unwind, WriteMeta, recordCompletion,
           PublishStatus, CloseDone, AcquireSlot, RunEnds, ForegroundRun, WriteTool, Pump, NewManager, TurnStart,
           TurnDelivers, TurnEnds, TurnFails, BeginDestroy, RemoveArtifacts, FinishDestroy, Close, Crash, Rebind,
           ReleaseOwner, DeferRecord, RepairRecord, LoadEnds, ReadRecord

(***************************************************************************)
(* The scheduler's invariant holds in every reachable state.               *)
(***************************************************************************)
LEMMA SchedulerInvariant == JSpec => [](SchedulerInv /\ scenario \in Scenarios)
<1>1. JInit => SchedulerInv /\ scenario \in Scenarios
    BY SchedulerInit DEF JInit
<1>2. SchedulerInv /\ scenario \in Scenarios /\ [JNext]_<<svars, jvars>> => (SchedulerInv /\ scenario \in Scenarios)'
    BY JobsUseScheduler, SchedulerNext, ScenarioFixed
<1> QED BY <1>1, <1>2, PTL DEF JSpec

(***************************************************************************)
(* No two runs or parent writes in progress claim the same part of the     *)
(* workspace.                                                              *)
(***************************************************************************)
THEOREM WriteClaimsDisjoint == JSpec => []ClaimsDisjoint
<1>1. SchedulerInv => ClaimsDisjoint
    BY DEF SchedulerInv
<1> QED BY SchedulerInvariant, <1>1, PTL

(***************************************************************************)
(* The counters are the holders: no slot leaks and none is counted twice.  *)
(***************************************************************************)
THEOREM NoSlotLeaks == JSpec => []SlotsAccounted
<1>1. SchedulerInv => SlotsAccounted
    <2> SUFFICES ASSUME SchedulerInv PROVE SlotsAccounted
        OBVIOUS
    <2>1. ASSUME NEW c \in Claim PROVE activeClaims[c] = Cardinality({r \in Holders : ClaimOf[r] = c})
        <3> DEFINE Of == {r \in Holders : ClaimOf[r] = c}
        <3>1. CASE Of = {}
            BY <3>1, FS_EmptySet DEF SchedulerInv, ClaimsListed
        <3>2. CASE Of # {}
            <4>1. PICK r \in Holders : ClaimOf[r] = c
                BY <3>2
            <4>2. Of = {r}
                BY <4>1 DEF SchedulerInv, ClaimsDisjoint, Overlaps, Claim
            <4> QED BY <4>1, <4>2, FS_Singleton DEF SchedulerInv, ClaimsListed
        <3> QED BY <3>1, <3>2
    <2> QED BY <2>1, CapAssumption DEF SchedulerInv, STypeOK, HoldersCounted, SlotsAccounted
<1> QED BY SchedulerInvariant, <1>1, PTL

(***************************************************************************)
(* When the mutex is free nobody waits for capacity that is there.         *)
(***************************************************************************)
THEOREM NoCapacityIdle == JSpec => []NoIdleCapacity
<1>1. SchedulerInv => NoIdleCapacity
    BY ElementOfSeq DEF SchedulerInv, STypeOK, WalkedCannotStart, Walked, NoIdleCapacity
<1> QED BY SchedulerInvariant, <1>1, PTL

-----------------------------------------------------------------------------
(***************************************************************************)
(* The values of the managers' and the turn's variables, and of records in *)
(* memory, on disk and in a load.                                          *)
(***************************************************************************)
Phases == {"unused", "open", "closing", "released", "dead"}
Turns == {"idle", "run", "plan", "commit", "stopping"}
Statuses == Terminal \cup {"none", "running"}
MemRec == [status : Statuses, evidence : BOOLEAN, committed : BOOLEAN, done : BOOLEAN]
DiskRec == [status : Statuses, owner : 0..MaxManagers, evidence : BOOLEAN]
LoadRec == [pc : {"off", "walk", "judge", "loaded", "partial"}, todo : SUBSET Job, job : Job \cup {NoJob},
            snap : DiskRec, found : SUBSET (Job \X DiskRec), deferred : BOOLEAN]
DestroyRec == [pc : {"no", "begun", "removed", "finished"}, targets : SUBSET Job]

(***************************************************************************)
(* The type invariant of records and evidence.                             *)
(***************************************************************************)
EvTypeOK ==
    /\ scenario \in Scenarios
    /\ phase \in [Mgr -> Phases] /\ home \in [Job -> 0..MaxManagers] /\ step \in [Job -> GoSteps]
    /\ cancelled \subseteq Job /\ fin \in [Job -> Terminal \cup {"none"}]
    /\ mem \in [Mgr -> [Job -> MemRec]] /\ disk \in [Job -> DiskRec]
    /\ destroying \in DestroyRec /\ load \in LoadRec
    /\ turn \in Turns /\ leases \subseteq Job /\ merged \subseteq Job
    /\ mutated \subseteq Job /\ saved \subseteq Job /\ reviewed \subseteq Job /\ staleRepair \in BOOLEAN

(***************************************************************************)
(* A load is under way; the session's records have not been removed.       *)
(***************************************************************************)
Walking == load.pc \in {"walk", "judge"}
Kept == destroying.pc \in {"no", "begun"}

(***************************************************************************)
(* Managers are opened one after the other, and only the last is open.     *)
(***************************************************************************)
ManagersOK ==
    /\ cur \in Mgr /\ \A m \in Mgr : phase[m] # "unused" <=> m <= cur
    /\ \A m \in Mgr : m # cur => phase[m] # "open"
    /\ ~May("close") => \A m \in Mgr : phase[m] \notin {"closing", "released"}

(***************************************************************************)
(* What a turn, a load and a clearing of the session exclude.              *)
(***************************************************************************)
TurnOK ==
    /\ turn \in {"run", "plan", "commit"} => Open
    /\ Walking => turn = "idle" /\ destroying.pc = "no"
    /\ destroying.pc # "no" => turn = "idle" /\ load.pc \in {"loaded", "partial"} /\ Open /\ May("destroy")
    /\ turn = "idle" => leases = {} /\ merged = {}
    /\ turn = "commit" => merged \subseteq reviewed

(***************************************************************************)
(* The steps of a goroutine before its record is to be written, and after. *)
(***************************************************************************)
Early == {"registered", "slot", "run", "aborted", "unwind"}
Late == {"meta", "note", "status", "close"}

(***************************************************************************)
(* The goroutine of a job can no longer change files and record it.        *)
(***************************************************************************)
Quiet(j) == step[j] \in Ended \/ (j \in cancelled /\ j \notin mutated /\ step[j] # "run")
Fixed(j) == j \in saved \/ Quiet(j)

(***************************************************************************)
(* A record of j that says e of its mutation may be believed.              *)
(***************************************************************************)
Sound(j, e) == j \in mutated /\ j \in saved /\ j \notin reviewed /\ staleRepair = FALSE => e = TRUE

(***************************************************************************)
(* How far a goroutine is, against its manager and what it has done.       *)
(***************************************************************************)
StepOK(j) ==
    /\ step[j] = "none" <=> home[j] = 0
    /\ home[j] # 0 => home[j] \in Mgr /\ home[j] <= cur
    /\ step[j] = "registered" => home[j] = cur /\ turn \notin {"idle", "commit"}
    /\ step[j] \in Early \cup {"none", "meta"} => j \notin saved
    /\ step[j] \in {"none", "registered", "slot", "aborted"} => j \notin mutated
    /\ step[j] \in Late => fin[j] \in Terminal
    /\ step[j] = "lost" => phase[home[j]] = "dead"
    /\ home[j] # 0 =>
          /\ phase[home[j]] \in {"closing", "released"} /\ step[j] \notin Ended => j \in cancelled
          /\ phase[home[j]] \in {"released", "dead"} => Quiet(j)
          /\ phase[home[j]] = "dead" => step[j] \in Ended

(***************************************************************************)
(* What the manager that started j has in memory.                          *)
(***************************************************************************)
HomeOK(j) ==
    home[j] # 0 =>
        /\ Kept /\ step[j] \in (Early \cup Late) \ {"close"} => mem[home[j]][j].status \in {"running", "killed"}
        /\ Kept => mem[home[j]][j].status # "none"
        /\ Kept /\ step[j] \in {"close", "ended"} => mem[home[j]][j].status # "running"
        /\ step[j] # "ended" => mem[home[j]][j].done = FALSE /\ mem[home[j]][j].committed = FALSE
        /\ mem[home[j]][j].committed = TRUE => mem[home[j]][j].done = TRUE
        /\ Kept /\ step[j] = "ended" => mem[home[j]][j].done = TRUE
        /\ Kept /\ step[j] \in Late \cup {"ended"} =>
              mem[home[j]][j].committed = TRUE \/ (j \in mutated => mem[home[j]][j].evidence = TRUE)

(***************************************************************************)
(* What another manager has in memory was loaded from a record of a job    *)
(* that had come to its end.                                               *)
(***************************************************************************)
TombOK(j) ==
    \A m \in Mgr : m # home[j] =>
        \/ mem[m][j] = Unknown
        \/ /\ mem[m][j].done = TRUE /\ mem[m][j].status \notin {"none", "running"} /\ step[j] # "none"
           /\ Fixed(j) /\ (mem[m][j].committed = TRUE \/ Sound(j, mem[m][j].evidence))

(***************************************************************************)
(* What is committed is not a mutation still to be reviewed.               *)
(***************************************************************************)
CommittedOK(j) == \A m \in Mgr : mem[m][j].committed = TRUE => Sound(j, FALSE)

(***************************************************************************)
(* What the record on disk says.                                           *)
(***************************************************************************)
FileOK(j) ==
    /\ disk[j].status # "none" => step[j] # "none"
    /\ disk[j].status = "running" => j \notin saved /\ disk[j].owner = home[j]
    /\ Kept /\ disk[j].status = "none" => j \notin saved
    /\ Kept /\ disk[j].status \notin {"none", "running"} => Fixed(j) /\ Sound(j, disk[j].evidence)

(***************************************************************************)
(* A lease of the turn is on a job that is done; its evidence is merged,   *)
(* or there is none to consume.                                            *)
(***************************************************************************)
LeaseOK(j) ==
    j \in leases => /\ mem[cur][j].done = TRUE
                    /\ j \in merged \/ mem[cur][j].committed = TRUE \/ mem[cur][j].evidence = FALSE

(***************************************************************************)
(* What a load has read.                                                   *)
(***************************************************************************)
WalkOK ==
    /\ Walking => \A j \in load.todo : disk[j].status # "none"
    /\ load.pc = "judge" => /\ load.job \in Job /\ load.snap.status = "running"
                            /\ load.snap.owner = home[load.job] /\ home[load.job] # 0
    /\ \A f \in load.found : /\ f[2].status \notin {"none", "running"} /\ step[f[1]] # "none"
                             /\ Fixed(f[1]) /\ Sound(f[1], f[2].evidence)

(***************************************************************************)
(* A clearing of the session waits for all that may still write a record,  *)
(* unless an earlier manager was closed.                                   *)
(***************************************************************************)
Over == {"none", "close", "ended", "lost"}
ClearOK ==
    ~May("close") =>
        /\ destroying.pc = "begun" =>
              \A j \in Job : step[j] \in Over \/ (j \in destroying.targets /\ home[j] = cur)
        /\ destroying.pc \in {"removed", "finished"} =>
              \A j \in Job : step[j] \in Over /\ disk[j].status = "none"

(***************************************************************************)
(* The inductive invariant of records and evidence.                        *)
(***************************************************************************)
EvidenceInv ==
    /\ EvTypeOK /\ ManagersOK /\ TurnOK /\ WalkOK /\ ClearOK
    /\ \A j \in Job : StepOK(j) /\ HomeOK(j) /\ TombOK(j) /\ CommittedOK(j) /\ FileOK(j) /\ LeaseOK(j)

(***************************************************************************)
(* The current manager is the last one opened.                             *)
(***************************************************************************)
LEMMA CurIsLast ==
    ASSUME NEW c \in Mgr, \A m \in Mgr : phase[m] # "unused" <=> m <= c
    PROVE  cur = c
<1>1. c \in Used /\ \A n \in Used : n <= c
    BY DEF Used, Mgr
<1>2. \A d \in Used : (\A n \in Used : n <= d) => d = c
    BY <1>1 DEF Used, Mgr
<1> QED BY <1>1, <1>2 DEF cur
(***************************************************************************)
(* The current manager changes only with the phases.                       *)
(***************************************************************************)
LEMMA SameCur ==
    ASSUME phase' = phase
    PROVE  cur' = cur
    BY DEF cur, Used

(***************************************************************************)
(* A turn that starts takes a lease on all pending evidence, and merges it *)
(* into its ledger.                                                        *)
(***************************************************************************)
LEMMA TurnStartSaves ==
    ASSUME EvidenceInv, NEW mode \in {"run", "plan"}, TurnStart(mode)
    PROVE  EvidenceInv'
<1>1. /\ EvTypeOK /\ ManagersOK /\ TurnOK /\ WalkOK /\ ClearOK
      /\ \A k \in Job : StepOK(k) /\ HomeOK(k) /\ TombOK(k) /\ CommittedOK(k) /\ FileOK(k) /\ LeaseOK(k)
    BY DEF EvidenceInv
<1>2. /\ Open /\ turn = "idle" /\ load.pc \in {"loaded", "partial"} /\ destroying.pc = "no"
      /\ turn' = mode
      /\ leases' = (IF mode = "plan" THEN {} ELSE Pending)
      /\ merged' = leases'
      /\ scenario' = scenario /\ phase' = phase /\ home' = home /\ step' = step /\ cancelled' = cancelled
      /\ fin' = fin /\ mem' = mem /\ disk' = disk /\ destroying' = destroying /\ load' = load
      /\ mutated' = mutated /\ saved' = saved /\ reviewed' = reviewed /\ staleRepair' = staleRepair
    BY <1>1 DEF TurnStart, svars, jvars, others, others2, others3, work, ledger, history
<1>3. cur' = cur
    BY <1>2, SameCur
<1>4. EvTypeOK'
    BY <1>1, <1>2, <1>3 DEF EvTypeOK, Pending, Turns
<1>5. ManagersOK'
    BY <1>1, <1>2, <1>3 DEF ManagersOK, May
<1>6. TurnOK'
    BY <1>1, <1>2, <1>3 DEF TurnOK, Walking, Open, May, Turns
<1>7. ASSUME NEW k \in Job PROVE StepOK(k)'
    BY <1>1, <1>2, <1>3 DEF StepOK, Quiet, Ended, Early, Late
<1>8. ASSUME NEW k \in Job PROVE HomeOK(k)'
    BY <1>1, <1>2, <1>3 DEF HomeOK, Kept, Early, Late
<1>9. ASSUME NEW k \in Job PROVE TombOK(k)'
    BY <1>1, <1>2, <1>3 DEF TombOK, Fixed, Quiet, Ended, Sound
<1>10. ASSUME NEW k \in Job PROVE CommittedOK(k)'
    BY <1>1, <1>2, <1>3 DEF CommittedOK, Sound
<1>11. ASSUME NEW k \in Job PROVE FileOK(k)'
    BY <1>1, <1>2, <1>3 DEF FileOK, Kept, Fixed, Quiet, Ended, Sound
<1>12. ASSUME NEW k \in Job PROVE LeaseOK(k)'
    BY <1>1, <1>2, <1>3 DEF LeaseOK, Pending, EvTypeOK, ManagersOK, MemRec
<1>13. WalkOK'
    BY <1>1, <1>2, <1>3 DEF WalkOK, Walking, Fixed, Quiet, Ended, Sound
<1>14. ClearOK'
    BY <1>1, <1>2, <1>3 DEF ClearOK, May, Over
<1> QED BY <1>4, <1>5, <1>6, <1>7, <1>8, <1>9, <1>10, <1>11, <1>12, <1>13, <1>14 DEF EvidenceInv

(***************************************************************************)
(* bash_output or wait takes a lease on a job that is done, and merges its *)
(* evidence if it is pending.                                              *)
(***************************************************************************)
LEMMA CollectSaves ==
    ASSUME EvidenceInv, NEW j \in Job, Collect(j)
    PROVE  EvidenceInv'
<1>1. /\ EvTypeOK /\ ManagersOK /\ TurnOK /\ WalkOK /\ ClearOK
      /\ \A k \in Job : StepOK(k) /\ HomeOK(k) /\ TombOK(k) /\ CommittedOK(k) /\ FileOK(k) /\ LeaseOK(k)
    BY DEF EvidenceInv
<1>2. /\ turn = "run" /\ mem[cur][j].done
      /\ leases' = leases \cup {j}
      /\ merged' = (IF j \in Pending THEN merged \cup {j} ELSE merged)
      /\ scenario' = scenario /\ phase' = phase /\ home' = home /\ step' = step /\ cancelled' = cancelled
      /\ fin' = fin /\ mem' = mem /\ disk' = disk /\ destroying' = destroying /\ load' = load
      /\ turn' = turn /\ mutated' = mutated /\ saved' = saved /\ reviewed' = reviewed
         /\ staleRepair' = staleRepair
    BY <1>1 DEF Collect, svars, jvars, others, others2, others3, work, ledger, history
<1>3. cur' = cur
    BY <1>2, SameCur
<1>4. EvTypeOK'
    BY <1>1, <1>2, <1>3 DEF EvTypeOK
<1>5. ManagersOK'
    BY <1>1, <1>2, <1>3 DEF ManagersOK, May
<1>6. TurnOK'
    BY <1>1, <1>2, <1>3 DEF TurnOK, Walking, Open, May
<1>7. ASSUME NEW k \in Job PROVE StepOK(k)'
    BY <1>1, <1>2, <1>3 DEF StepOK, Quiet, Ended, Early, Late
<1>8. ASSUME NEW k \in Job PROVE HomeOK(k)'
    BY <1>1, <1>2, <1>3 DEF HomeOK, Kept, Early, Late
<1>9. ASSUME NEW k \in Job PROVE TombOK(k)'
    BY <1>1, <1>2, <1>3 DEF TombOK, Fixed, Quiet, Ended, Sound
<1>10. ASSUME NEW k \in Job PROVE CommittedOK(k)'
    BY <1>1, <1>2, <1>3 DEF CommittedOK, Sound
<1>11. ASSUME NEW k \in Job PROVE FileOK(k)'
    BY <1>1, <1>2, <1>3 DEF FileOK, Kept, Fixed, Quiet, Ended, Sound
<1>12. ASSUME NEW k \in Job PROVE LeaseOK(k)'
    BY <1>1, <1>2, <1>3 DEF LeaseOK, Pending, EvTypeOK, ManagersOK, MemRec
<1>13. WalkOK'
    BY <1>1, <1>2, <1>3 DEF WalkOK, Walking, Fixed, Quiet, Ended, Sound
<1>14. ClearOK'
    BY <1>1, <1>2, <1>3 DEF ClearOK, May, Over
<1> QED BY <1>4, <1>5, <1>6, <1>7, <1>8, <1>9, <1>10, <1>11, <1>12, <1>13, <1>14 DEF EvidenceInv

(***************************************************************************)
(* A delivered turn has reviewed what its ledger holds.                    *)
(***************************************************************************)
LEMMA TurnDeliversSaves ==
    ASSUME EvidenceInv, TurnDelivers
    PROVE  EvidenceInv'
<1>1. /\ EvTypeOK /\ ManagersOK /\ TurnOK /\ WalkOK /\ ClearOK
      /\ \A k \in Job : StepOK(k) /\ HomeOK(k) /\ TombOK(k) /\ CommittedOK(k) /\ FileOK(k) /\ LeaseOK(k)
    BY DEF EvidenceInv
<1>2. /\ turn \in {"run", "plan"}
      /\ \A k \in Job : step[k] # "registered"
      /\ turn' = "commit"
      /\ reviewed' = reviewed \cup merged
      /\ scenario' = scenario /\ phase' = phase /\ home' = home /\ step' = step /\ cancelled' = cancelled
      /\ fin' = fin /\ mem' = mem /\ disk' = disk /\ destroying' = destroying /\ load' = load
      /\ leases' = leases /\ merged' = merged /\ mutated' = mutated /\ saved' = saved
         /\ staleRepair' = staleRepair
    BY <1>1 DEF TurnDelivers, CallsOver, svars, jvars, others, others2, others3, work, ledger, history
<1>3. cur' = cur
    BY <1>2, SameCur
<1>4. EvTypeOK'
    BY <1>1, <1>2, <1>3 DEF EvTypeOK, Turns
<1>5. ManagersOK'
    BY <1>1, <1>2, <1>3 DEF ManagersOK, May
<1>6. TurnOK'
    BY <1>1, <1>2, <1>3 DEF TurnOK, Walking, Open, May
<1>7. ASSUME NEW k \in Job PROVE StepOK(k)'
    BY <1>1, <1>2, <1>3 DEF StepOK, Quiet, Ended, Early, Late
<1>8. ASSUME NEW k \in Job PROVE HomeOK(k)'
    BY <1>1, <1>2, <1>3 DEF HomeOK, Kept, Early, Late
<1>9. ASSUME NEW k \in Job PROVE TombOK(k)'
    BY <1>1, <1>2, <1>3 DEF TombOK, Fixed, Quiet, Ended, Sound
<1>10. ASSUME NEW k \in Job PROVE CommittedOK(k)'
    BY <1>1, <1>2, <1>3 DEF CommittedOK, Sound
<1>11. ASSUME NEW k \in Job PROVE FileOK(k)'
    BY <1>1, <1>2, <1>3 DEF FileOK, Kept, Fixed, Quiet, Ended, Sound
<1>12. ASSUME NEW k \in Job PROVE LeaseOK(k)'
    BY <1>1, <1>2, <1>3 DEF LeaseOK
<1>13. WalkOK'
    BY <1>1, <1>2, <1>3 DEF WalkOK, Walking, Fixed, Quiet, Ended, Sound
<1>14. ClearOK'
    BY <1>1, <1>2, <1>3 DEF ClearOK, May, Over
<1> QED BY <1>4, <1>5, <1>6, <1>7, <1>8, <1>9, <1>10, <1>11, <1>12, <1>13, <1>14 DEF EvidenceInv

(***************************************************************************)
(* The leases of a turn end with it.                                       *)
(***************************************************************************)
LEMMA TurnEndsSaves ==
    ASSUME EvidenceInv, TurnEnds
    PROVE  EvidenceInv'
<1>1. /\ EvTypeOK /\ ManagersOK /\ TurnOK /\ WalkOK /\ ClearOK
      /\ \A k \in Job : StepOK(k) /\ HomeOK(k) /\ TombOK(k) /\ CommittedOK(k) /\ FileOK(k) /\ LeaseOK(k)
    BY DEF EvidenceInv
<1>2. /\ \A k \in Job : step[k] = "registered" => turn = "commit"
      /\ turn \in {"commit", "stopping"}
      /\ turn' = "idle"
      /\ leases' = {}
      /\ merged' = {}
      /\ scenario' = scenario /\ phase' = phase /\ home' = home /\ step' = step /\ cancelled' = cancelled
      /\ fin' = fin /\ mem' = mem /\ disk' = disk /\ destroying' = destroying /\ load' = load
      /\ mutated' = mutated /\ saved' = saved /\ reviewed' = reviewed /\ staleRepair' = staleRepair
    BY <1>1 DEF TurnEnds, CallsOver, svars, jvars, others, others2, others3, work, ledger, history
<1>3. cur' = cur
    BY <1>2, SameCur
<1>4. EvTypeOK'
    BY <1>1, <1>2, <1>3 DEF EvTypeOK, Turns
<1>5. ManagersOK'
    BY <1>1, <1>2, <1>3 DEF ManagersOK, May
<1>6. TurnOK'
    BY <1>1, <1>2, <1>3 DEF TurnOK, Walking, Open, May
<1>7. ASSUME NEW k \in Job PROVE StepOK(k)'
    BY <1>1, <1>2, <1>3 DEF StepOK, Quiet, Ended, Early, Late
<1>8. ASSUME NEW k \in Job PROVE HomeOK(k)'
    BY <1>1, <1>2, <1>3 DEF HomeOK, Kept, Early, Late
<1>9. ASSUME NEW k \in Job PROVE TombOK(k)'
    BY <1>1, <1>2, <1>3 DEF TombOK, Fixed, Quiet, Ended, Sound
<1>10. ASSUME NEW k \in Job PROVE CommittedOK(k)'
    BY <1>1, <1>2, <1>3 DEF CommittedOK, Sound
<1>11. ASSUME NEW k \in Job PROVE FileOK(k)'
    BY <1>1, <1>2, <1>3 DEF FileOK, Kept, Fixed, Quiet, Ended, Sound
<1>12. ASSUME NEW k \in Job PROVE LeaseOK(k)'
    BY <1>1, <1>2, <1>3 DEF LeaseOK
<1>13. WalkOK'
    BY <1>1, <1>2, <1>3 DEF WalkOK, Walking, Fixed, Quiet, Ended, Sound
<1>14. ClearOK'
    BY <1>1, <1>2, <1>3 DEF ClearOK, May, Over
<1> QED BY <1>4, <1>5, <1>6, <1>7, <1>8, <1>9, <1>10, <1>11, <1>12, <1>13, <1>14 DEF EvidenceInv

(***************************************************************************)
(* A turn that fails commits nothing.                                      *)
(***************************************************************************)
LEMMA TurnFailsSaves ==
    ASSUME EvidenceInv, TurnFails
    PROVE  EvidenceInv'
<1>1. /\ EvTypeOK /\ ManagersOK /\ TurnOK /\ WalkOK /\ ClearOK
      /\ \A k \in Job : StepOK(k) /\ HomeOK(k) /\ TombOK(k) /\ CommittedOK(k) /\ FileOK(k) /\ LeaseOK(k)
    BY DEF EvidenceInv
<1>2. /\ turn \in {"run", "plan"}
      /\ turn' = "stopping"
      /\ scenario' = scenario /\ phase' = phase /\ home' = home /\ step' = step /\ cancelled' = cancelled
      /\ fin' = fin /\ mem' = mem /\ disk' = disk /\ destroying' = destroying /\ load' = load
      /\ leases' = leases /\ merged' = merged /\ mutated' = mutated /\ saved' = saved /\ reviewed' = reviewed
      /\ staleRepair' = staleRepair
    BY <1>1 DEF TurnFails, svars, jvars, others, others2, others3, work, ledger, history
<1>3. cur' = cur
    BY <1>2, SameCur
<1>4. EvTypeOK'
    BY <1>1, <1>2, <1>3 DEF EvTypeOK, Turns
<1>5. ManagersOK'
    BY <1>1, <1>2, <1>3 DEF ManagersOK, May
<1>6. TurnOK'
    BY <1>1, <1>2, <1>3 DEF TurnOK, Walking, Open, May
<1>7. ASSUME NEW k \in Job PROVE StepOK(k)'
    BY <1>1, <1>2, <1>3 DEF StepOK, Quiet, Ended, Early, Late
<1>8. ASSUME NEW k \in Job PROVE HomeOK(k)'
    BY <1>1, <1>2, <1>3 DEF HomeOK, Kept, Early, Late
<1>9. ASSUME NEW k \in Job PROVE TombOK(k)'
    BY <1>1, <1>2, <1>3 DEF TombOK, Fixed, Quiet, Ended, Sound
<1>10. ASSUME NEW k \in Job PROVE CommittedOK(k)'
    BY <1>1, <1>2, <1>3 DEF CommittedOK, Sound
<1>11. ASSUME NEW k \in Job PROVE FileOK(k)'
    BY <1>1, <1>2, <1>3 DEF FileOK, Kept, Fixed, Quiet, Ended, Sound
<1>12. ASSUME NEW k \in Job PROVE LeaseOK(k)'
    BY <1>1, <1>2, <1>3 DEF LeaseOK
<1>13. WalkOK'
    BY <1>1, <1>2, <1>3 DEF WalkOK, Walking, Fixed, Quiet, Ended, Sound
<1>14. ClearOK'
    BY <1>1, <1>2, <1>3 DEF ClearOK, May, Over
<1> QED BY <1>4, <1>5, <1>6, <1>7, <1>8, <1>9, <1>10, <1>11, <1>12, <1>13, <1>14 DEF EvidenceInv

(***************************************************************************)
(* A starting job writes a record that says running, which nothing         *)
(* concludes anything from.                                                *)
(***************************************************************************)
LEMMA LaunchSaves ==
    ASSUME EvidenceInv, NEW j \in Job, Launch(j)
    PROVE  EvidenceInv'
<1>1. /\ EvTypeOK /\ ManagersOK /\ TurnOK /\ WalkOK /\ ClearOK
      /\ \A k \in Job : StepOK(k) /\ HomeOK(k) /\ TombOK(k) /\ CommittedOK(k) /\ FileOK(k) /\ LeaseOK(k)
    BY DEF EvidenceInv
<1>2. /\ step[j] = "registered"
      /\ \/ disk' = disk
         \/ disk' = [disk EXCEPT ![j] = [status |-> "running", owner |-> home[j],
                                        evidence |-> mem[home[j]][j].evidence]]
      /\ step' = [step EXCEPT ![j] = "slot"]
      /\ scenario' = scenario /\ phase' = phase /\ home' = home /\ cancelled' = cancelled /\ fin' = fin
      /\ mem' = mem /\ destroying' = destroying /\ load' = load /\ turn' = turn /\ leases' = leases
      /\ merged' = merged /\ mutated' = mutated /\ saved' = saved /\ reviewed' = reviewed
         /\ staleRepair' = staleRepair
    BY <1>1 DEF Launch, svars, jvars, others, others2, others3, work, ledger, history
<1>3. cur' = cur
    BY <1>2, SameCur
<1>4. /\ \A k \in Job : step'[k] = IF k = j THEN "slot" ELSE step[k]
      /\ (disk' = disk \/ \A k \in Job : disk'[k] = IF k = j THEN [status |-> "running", owner |-> home[j],
              evidence |-> mem[home[j]][j].evidence] ELSE disk[k])
    BY <1>1, <1>2 DEF EvTypeOK
<1>5. EvTypeOK'
    <2>1. mem[home[j]][j].evidence \in BOOLEAN /\ home[j] \in 0..MaxManagers
        BY <1>1, <1>2 DEF EvTypeOK, StepOK, MemRec
    <2>2. disk' \in [Job -> DiskRec]
        BY <1>1, <1>2, <2>1 DEF EvTypeOK, DiskRec, Statuses
    <2> QED BY <1>1, <1>2, <2>2 DEF EvTypeOK, GoSteps
<1>6. ManagersOK'
    BY <1>1, <1>2, <1>3, <1>4 DEF ManagersOK, May
<1>7. TurnOK'
    BY <1>1, <1>2, <1>3, <1>4 DEF TurnOK, Walking, Open, May
<1>8. ASSUME NEW k \in Job PROVE StepOK(k)'
    BY <1>1, <1>2, <1>3, <1>4 DEF StepOK, Quiet, Ended, Early, Late
<1>9. ASSUME NEW k \in Job PROVE HomeOK(k)'
    BY <1>1, <1>2, <1>3, <1>4 DEF HomeOK, Kept, Early, Late
<1>10. ASSUME NEW k \in Job PROVE TombOK(k)'
    BY <1>1, <1>2, <1>3, <1>4 DEF TombOK, Fixed, Quiet, Ended, Sound
<1>11. ASSUME NEW k \in Job PROVE CommittedOK(k)'
    BY <1>1, <1>2, <1>3, <1>4 DEF CommittedOK, Sound
<1>12. ASSUME NEW k \in Job PROVE FileOK(k)'
    <2>1. CASE disk' = disk
        BY <1>1, <1>2, <1>3, <1>4, <2>1 DEF FileOK, Kept, Fixed, Quiet, Ended, Sound, StepOK, Early
    <2>2. CASE disk' # disk
        BY <1>1, <1>2, <1>3, <1>4, <2>2 DEF FileOK, Kept, Fixed, Quiet, Ended, Sound, StepOK, Early
    <2> QED BY <2>1, <2>2
<1>13. ASSUME NEW k \in Job PROVE LeaseOK(k)'
    BY <1>1, <1>2, <1>3, <1>4 DEF LeaseOK
<1>14. WalkOK'
    <2>1. \A f \in load.found : f[1] \in Job
        BY <1>1 DEF EvTypeOK, LoadRec
    <2>2. ASSUME NEW f \in load.found
          PROVE  Fixed(f[1])' /\ Sound(f[1], f[2].evidence)' /\ step'[f[1]] # "none"
        <3>1. f[1] \in Job
            BY <2>1
        <3>2. /\ f[2].status \notin {"none", "running"} /\ step[f[1]] # "none"
              /\ Fixed(f[1]) /\ Sound(f[1], f[2].evidence)
            BY <1>1 DEF WalkOK
        <3>3. StepOK(f[1])
            BY <1>1, <3>1
        <3> HIDE <1>1
        <3> QED BY <1>2, <1>4, <3>1, <3>2, <3>3 DEF Fixed, Quiet, Ended, Sound, StepOK, Early, Late
    <2>3. Walking' => \A i \in load'.todo : disk'[i].status # "none"
        BY <1>1, <1>2, <1>3, <1>4
        DEF WalkOK, Walking, TurnOK, EvTypeOK, LoadRec, Terminal, StepOK, Early, Late
    <2>4. load'.pc = "judge" => /\ load'.job \in Job /\ load'.snap.status = "running"
                                /\ load'.snap.owner = home'[load'.job] /\ home'[load'.job] # 0
        BY <1>1, <1>2, <1>3, <1>4 DEF WalkOK, EvTypeOK
    <2> QED BY <1>1, <1>2, <2>2, <2>3, <2>4 DEF WalkOK
<1>15. ClearOK'
    BY <1>1, <1>2, <1>3, <1>4 DEF ClearOK, May, Over, StepOK, TurnOK
<1> QED BY <1>5, <1>6, <1>7, <1>8, <1>9, <1>10, <1>11, <1>12, <1>13, <1>14, <1>15 DEF EvidenceInv

(***************************************************************************)
(* A run begins only if its context is not cancelled: a cancelled job that *)
(* has changed no file never will.                                         *)
(***************************************************************************)
LEMMA BeginRunSaves ==
    ASSUME EvidenceInv, NEW j \in Job, BeginRun(j)
    PROVE  EvidenceInv'
<1>1. /\ EvTypeOK /\ ManagersOK /\ TurnOK /\ WalkOK /\ ClearOK
      /\ \A k \in Job : StepOK(k) /\ HomeOK(k) /\ TombOK(k) /\ CommittedOK(k) /\ FileOK(k) /\ LeaseOK(k)
    BY DEF EvidenceInv
<1>2. /\ step[j] = "slot"
      /\ step' = [step EXCEPT ![j] = "aborted"] \/ (j \notin cancelled /\ step' = [step EXCEPT ![j] = "run"])
      /\ scenario' = scenario /\ phase' = phase /\ home' = home /\ cancelled' = cancelled /\ fin' = fin
      /\ mem' = mem /\ disk' = disk /\ destroying' = destroying /\ load' = load /\ turn' = turn
      /\ leases' = leases /\ merged' = merged /\ mutated' = mutated /\ saved' = saved /\ reviewed' = reviewed
      /\ staleRepair' = staleRepair
    BY <1>1 DEF BeginRun, svars, jvars, others, others2, others3, work, ledger, history
<1>3. cur' = cur
    BY <1>2, SameCur
<1>4. /\ step'[j] \in {"aborted", "run"} /\ (step'[j] = "run" => j \notin cancelled)
      /\ \A k \in Job : k # j => step'[k] = step[k]
    BY <1>1, <1>2 DEF EvTypeOK
<1>5. EvTypeOK'
    BY <1>1, <1>2, <1>3, <1>4 DEF EvTypeOK, GoSteps
<1>6. ManagersOK'
    BY <1>1, <1>2, <1>3, <1>4 DEF ManagersOK, May
<1>7. TurnOK'
    BY <1>1, <1>2, <1>3, <1>4 DEF TurnOK, Walking, Open, May
<1>8. ASSUME NEW k \in Job PROVE StepOK(k)'
    BY <1>1, <1>2, <1>3, <1>4 DEF StepOK, Quiet, Ended, Early, Late
<1>9. ASSUME NEW k \in Job PROVE HomeOK(k)'
    BY <1>1, <1>2, <1>3, <1>4 DEF HomeOK, Kept, Early, Late
<1>10. ASSUME NEW k \in Job PROVE TombOK(k)'
    BY <1>1, <1>2, <1>3, <1>4 DEF TombOK, Fixed, Quiet, Ended, Sound, StepOK, Early
<1>11. ASSUME NEW k \in Job PROVE CommittedOK(k)'
    BY <1>1, <1>2, <1>3, <1>4 DEF CommittedOK, Sound
<1>12. ASSUME NEW k \in Job PROVE FileOK(k)'
    BY <1>1, <1>2, <1>3, <1>4 DEF FileOK, Kept, Fixed, Quiet, Ended, Sound, StepOK, Early
<1>13. ASSUME NEW k \in Job PROVE LeaseOK(k)'
    BY <1>1, <1>2, <1>3, <1>4 DEF LeaseOK
<1>14. WalkOK'
    <2>1. \A f \in load.found : f[1] \in Job
        BY <1>1 DEF EvTypeOK, LoadRec
    <2>2. ASSUME NEW f \in load.found
          PROVE  Fixed(f[1])' /\ Sound(f[1], f[2].evidence)' /\ step'[f[1]] # "none"
        <3>1. f[1] \in Job
            BY <2>1
        <3>2. /\ f[2].status \notin {"none", "running"} /\ step[f[1]] # "none"
              /\ Fixed(f[1]) /\ Sound(f[1], f[2].evidence)
            BY <1>1 DEF WalkOK
        <3>3. StepOK(f[1])
            BY <1>1, <3>1
        <3> HIDE <1>1
        <3> QED BY <1>2, <1>4, <3>1, <3>2, <3>3 DEF Fixed, Quiet, Ended, Sound, StepOK, Early, Late
    <2>3. Walking' => \A i \in load'.todo : disk'[i].status # "none"
        BY <1>1, <1>2, <1>3, <1>4
        DEF WalkOK, Walking, TurnOK, EvTypeOK, LoadRec, Terminal, StepOK, Early, Late
    <2>4. load'.pc = "judge" => /\ load'.job \in Job /\ load'.snap.status = "running"
                                /\ load'.snap.owner = home'[load'.job] /\ home'[load'.job] # 0
        BY <1>1, <1>2, <1>3, <1>4 DEF WalkOK, EvTypeOK
    <2> QED BY <1>1, <1>2, <2>2, <2>3, <2>4 DEF WalkOK
<1>15. ClearOK'
    BY <1>1, <1>2, <1>3, <1>4 DEF ClearOK, May, Over
<1> QED BY <1>5, <1>6, <1>7, <1>8, <1>9, <1>10, <1>11, <1>12, <1>13, <1>14, <1>15 DEF EvidenceInv

(***************************************************************************)
(* The first change of a running job: no record of its end was written or  *)
(* believed yet.                                                           *)
(***************************************************************************)
LEMMA MutateSaves ==
    ASSUME EvidenceInv, NEW j \in Job, Mutate(j)
    PROVE  EvidenceInv'
<1>1. /\ EvTypeOK /\ ManagersOK /\ TurnOK /\ WalkOK /\ ClearOK
      /\ \A k \in Job : StepOK(k) /\ HomeOK(k) /\ TombOK(k) /\ CommittedOK(k) /\ FileOK(k) /\ LeaseOK(k)
    BY DEF EvidenceInv
<1>2. /\ step[j] = "run"
      /\ mutated' = mutated \cup {j}
      /\ scenario' = scenario /\ phase' = phase /\ home' = home /\ step' = step /\ cancelled' = cancelled
      /\ fin' = fin /\ mem' = mem /\ disk' = disk /\ destroying' = destroying /\ load' = load
      /\ turn' = turn /\ leases' = leases /\ merged' = merged /\ saved' = saved /\ reviewed' = reviewed
      /\ staleRepair' = staleRepair
    BY <1>1 DEF Mutate, svars, jvars, others, others2, others3, work, ledger, history
<1>3. cur' = cur
    BY <1>2, SameCur
<1>4. j \in Job
    BY <1>1, <1>2 DEF EvTypeOK
<1>5. EvTypeOK'
    BY <1>1, <1>2, <1>3, <1>4 DEF EvTypeOK
<1>6. ManagersOK'
    BY <1>1, <1>2, <1>3, <1>4 DEF ManagersOK, May
<1>7. TurnOK'
    BY <1>1, <1>2, <1>3, <1>4 DEF TurnOK, Walking, Open, May
<1>8. ASSUME NEW k \in Job PROVE StepOK(k)'
    BY <1>1, <1>2, <1>3, <1>4 DEF StepOK, Quiet, Ended, Early, Late
<1>9. ASSUME NEW k \in Job PROVE HomeOK(k)'
    BY <1>1, <1>2, <1>3, <1>4 DEF HomeOK, Kept, Early, Late
<1>10. ASSUME NEW k \in Job PROVE TombOK(k)'
    BY <1>1, <1>2, <1>3, <1>4 DEF TombOK, Fixed, Quiet, Ended, Sound, StepOK, Early
<1>11. ASSUME NEW k \in Job PROVE CommittedOK(k)'
    BY <1>1, <1>2, <1>3, <1>4 DEF CommittedOK, Sound, StepOK, Early
<1>12. ASSUME NEW k \in Job PROVE FileOK(k)'
    BY <1>1, <1>2, <1>3, <1>4 DEF FileOK, Kept, Fixed, Quiet, Ended, Sound, StepOK, Early
<1>13. ASSUME NEW k \in Job PROVE LeaseOK(k)'
    BY <1>1, <1>2, <1>3, <1>4 DEF LeaseOK
<1>14. WalkOK'
    <2>1. \A f \in load.found : f[1] \in Job
        BY <1>1 DEF EvTypeOK, LoadRec
    <2>2. ASSUME NEW f \in load.found
          PROVE  Fixed(f[1])' /\ Sound(f[1], f[2].evidence)' /\ step'[f[1]] # "none"
        <3>1. f[1] \in Job
            BY <2>1
        <3>2. /\ f[2].status \notin {"none", "running"} /\ step[f[1]] # "none"
              /\ Fixed(f[1]) /\ Sound(f[1], f[2].evidence)
            BY <1>1 DEF WalkOK
        <3>3. StepOK(f[1])
            BY <1>1, <3>1
        <3> HIDE <1>1
        <3> QED BY <1>2, <1>4, <3>1, <3>2, <3>3 DEF Fixed, Quiet, Ended, Sound, StepOK, Early, Late
    <2>3. Walking' => \A i \in load'.todo : disk'[i].status # "none"
        BY <1>1, <1>2, <1>3, <1>4
        DEF WalkOK, Walking, TurnOK, EvTypeOK, LoadRec, Terminal, StepOK, Early, Late
    <2>4. load'.pc = "judge" => /\ load'.job \in Job /\ load'.snap.status = "running"
                                /\ load'.snap.owner = home'[load'.job] /\ home'[load'.job] # 0
        BY <1>1, <1>2, <1>3, <1>4 DEF WalkOK, EvTypeOK
    <2> QED BY <1>1, <1>2, <2>2, <2>3, <2>4 DEF WalkOK
<1>15. ClearOK'
    BY <1>1, <1>2, <1>3, <1>4 DEF ClearOK, May, Over
<1> QED BY <1>5, <1>6, <1>7, <1>8, <1>9, <1>10, <1>11, <1>12, <1>13, <1>14, <1>15 DEF EvidenceInv

(***************************************************************************)
(* The run returns; its records are as they were.                          *)
(***************************************************************************)
LEMMA RunEndsSaves ==
    ASSUME EvidenceInv, NEW j \in Job, RunEnds(j)
    PROVE  EvidenceInv'
<1>1. /\ EvTypeOK /\ ManagersOK /\ TurnOK /\ WalkOK /\ ClearOK
      /\ \A k \in Job : StepOK(k) /\ HomeOK(k) /\ TombOK(k) /\ CommittedOK(k) /\ FileOK(k) /\ LeaseOK(k)
    BY DEF EvidenceInv
<1>2. /\ step[j] \in {"run", "aborted"}
      /\ step' = [step EXCEPT ![j] = "unwind"]
      /\ scenario' = scenario /\ phase' = phase /\ home' = home /\ cancelled' = cancelled /\ fin' = fin
      /\ mem' = mem /\ disk' = disk /\ destroying' = destroying /\ load' = load /\ turn' = turn
      /\ leases' = leases /\ merged' = merged /\ mutated' = mutated /\ saved' = saved /\ reviewed' = reviewed
      /\ staleRepair' = staleRepair
    BY <1>1 DEF RunEnds, svars, jvars, others, others2, others3, work, ledger, history
<1>3. cur' = cur
    BY <1>2, SameCur
<1>4. /\ \A k \in Job : step'[k] = IF k = j THEN "unwind" ELSE step[k]
    BY <1>1, <1>2 DEF EvTypeOK
<1>5. EvTypeOK'
    BY <1>1, <1>2, <1>3, <1>4 DEF EvTypeOK, GoSteps
<1>6. ManagersOK'
    BY <1>1, <1>2, <1>3, <1>4 DEF ManagersOK, May
<1>7. TurnOK'
    BY <1>1, <1>2, <1>3, <1>4 DEF TurnOK, Walking, Open, May
<1>8. ASSUME NEW k \in Job PROVE StepOK(k)'
    BY <1>1, <1>2, <1>3, <1>4 DEF StepOK, Quiet, Ended, Early, Late
<1>9. ASSUME NEW k \in Job PROVE HomeOK(k)'
    BY <1>1, <1>2, <1>3, <1>4 DEF HomeOK, Kept, Early, Late
<1>10. ASSUME NEW k \in Job PROVE TombOK(k)'
    BY <1>1, <1>2, <1>3, <1>4 DEF TombOK, Fixed, Quiet, Ended, Sound
<1>11. ASSUME NEW k \in Job PROVE CommittedOK(k)'
    BY <1>1, <1>2, <1>3, <1>4 DEF CommittedOK, Sound
<1>12. ASSUME NEW k \in Job PROVE FileOK(k)'
    BY <1>1, <1>2, <1>3, <1>4 DEF FileOK, Kept, Fixed, Quiet, Ended, Sound
<1>13. ASSUME NEW k \in Job PROVE LeaseOK(k)'
    BY <1>1, <1>2, <1>3, <1>4 DEF LeaseOK
<1>14. WalkOK'
    BY <1>1, <1>2, <1>3, <1>4 DEF WalkOK, Walking, Fixed, Quiet, Ended, Sound
<1>15. ClearOK'
    BY <1>1, <1>2, <1>3, <1>4 DEF ClearOK, May, Over
<1> QED BY <1>5, <1>6, <1>7, <1>8, <1>9, <1>10, <1>11, <1>12, <1>13, <1>14, <1>15 DEF EvidenceInv

(***************************************************************************)
(* The completion note changes no record.                                  *)
(***************************************************************************)
LEMMA recordCompletionSaves ==
    ASSUME EvidenceInv, NEW j \in Job, recordCompletion(j)
    PROVE  EvidenceInv'
<1>1. /\ EvTypeOK /\ ManagersOK /\ TurnOK /\ WalkOK /\ ClearOK
      /\ \A k \in Job : StepOK(k) /\ HomeOK(k) /\ TombOK(k) /\ CommittedOK(k) /\ FileOK(k) /\ LeaseOK(k)
    BY DEF EvidenceInv
<1>2. /\ step[j] = "note"
      /\ step' = [step EXCEPT ![j] = "status"]
      /\ scenario' = scenario /\ phase' = phase /\ home' = home /\ cancelled' = cancelled /\ fin' = fin
      /\ mem' = mem /\ disk' = disk /\ destroying' = destroying /\ load' = load /\ turn' = turn
      /\ leases' = leases /\ merged' = merged /\ mutated' = mutated /\ saved' = saved /\ reviewed' = reviewed
      /\ staleRepair' = staleRepair
    BY <1>1 DEF recordCompletion, svars, jvars, others, others2, others3, work, ledger, history
<1>3. cur' = cur
    BY <1>2, SameCur
<1>4. /\ \A k \in Job : step'[k] = IF k = j THEN "status" ELSE step[k]
    BY <1>1, <1>2 DEF EvTypeOK
<1>5. EvTypeOK'
    BY <1>1, <1>2, <1>3, <1>4 DEF EvTypeOK, GoSteps
<1>6. ManagersOK'
    BY <1>1, <1>2, <1>3, <1>4 DEF ManagersOK, May
<1>7. TurnOK'
    BY <1>1, <1>2, <1>3, <1>4 DEF TurnOK, Walking, Open, May
<1>8. ASSUME NEW k \in Job PROVE StepOK(k)'
    BY <1>1, <1>2, <1>3, <1>4 DEF StepOK, Quiet, Ended, Early, Late
<1>9. ASSUME NEW k \in Job PROVE HomeOK(k)'
    BY <1>1, <1>2, <1>3, <1>4 DEF HomeOK, Kept, Early, Late
<1>10. ASSUME NEW k \in Job PROVE TombOK(k)'
    BY <1>1, <1>2, <1>3, <1>4 DEF TombOK, Fixed, Quiet, Ended, Sound
<1>11. ASSUME NEW k \in Job PROVE CommittedOK(k)'
    BY <1>1, <1>2, <1>3, <1>4 DEF CommittedOK, Sound
<1>12. ASSUME NEW k \in Job PROVE FileOK(k)'
    BY <1>1, <1>2, <1>3, <1>4 DEF FileOK, Kept, Fixed, Quiet, Ended, Sound
<1>13. ASSUME NEW k \in Job PROVE LeaseOK(k)'
    BY <1>1, <1>2, <1>3, <1>4 DEF LeaseOK
<1>14. WalkOK'
    BY <1>1, <1>2, <1>3, <1>4 DEF WalkOK, Walking, Fixed, Quiet, Ended, Sound
<1>15. ClearOK'
    BY <1>1, <1>2, <1>3, <1>4 DEF ClearOK, May, Over
<1> QED BY <1>5, <1>6, <1>7, <1>8, <1>9, <1>10, <1>11, <1>12, <1>13, <1>14, <1>15 DEF EvidenceInv

(***************************************************************************)
(* The record of a job's end carries the evidence that was published just  *)
(* before, so it may be believed.                                          *)
(***************************************************************************)
LEMMA WriteMetaSaves ==
    ASSUME EvidenceInv, NEW j \in Job, WriteMeta(j)
    PROVE  EvidenceInv'
<1>1. /\ EvTypeOK /\ ManagersOK /\ TurnOK /\ WalkOK /\ ClearOK
      /\ \A k \in Job : StepOK(k) /\ HomeOK(k) /\ TombOK(k) /\ CommittedOK(k) /\ FileOK(k) /\ LeaseOK(k)
    BY DEF EvidenceInv
<1>2. /\ step[j] = "meta"
      /\ \/ disk' = disk /\ saved' = saved
         \/ disk' = [disk EXCEPT ![j] = [status |-> fin[j], owner |-> home[j],
                                        evidence |-> mem[home[j]][j].evidence]]
            /\ saved' = saved \cup {j}
      /\ step' = [step EXCEPT ![j] = "note"]
      /\ scenario' = scenario /\ phase' = phase /\ home' = home /\ cancelled' = cancelled /\ fin' = fin
      /\ mem' = mem /\ destroying' = destroying /\ load' = load /\ turn' = turn /\ leases' = leases
      /\ merged' = merged /\ mutated' = mutated /\ reviewed' = reviewed /\ staleRepair' = staleRepair
    BY <1>1 DEF WriteMeta, svars, jvars, others, others2, others3, work, ledger, history
<1>3. cur' = cur
    BY <1>2, SameCur
<1>4. /\ \A k \in Job : step'[k] = IF k = j THEN "note" ELSE step[k]
      /\ \/ disk' = disk /\ saved' = saved
         \/ /\ disk'[j].status = fin[j] /\ disk'[j].evidence = mem[home[j]][j].evidence
            /\ saved' = saved \cup {j}
            /\ \A k \in Job : k # j => disk'[k] = disk[k]
    BY <1>1, <1>2 DEF EvTypeOK
<1>5. EvTypeOK'
    <2>1. mem[home[j]][j].evidence \in BOOLEAN /\ home[j] \in 0..MaxManagers
        BY <1>1, <1>2 DEF EvTypeOK, StepOK, MemRec
    <2>2. disk' \in [Job -> DiskRec]
        BY <1>1, <1>2, <2>1 DEF EvTypeOK, DiskRec, Statuses
    <2> QED BY <1>1, <1>2, <2>2 DEF EvTypeOK, GoSteps
<1>6. ManagersOK'
    BY <1>1, <1>2, <1>3, <1>4 DEF ManagersOK, May
<1>7. TurnOK'
    BY <1>1, <1>2, <1>3, <1>4 DEF TurnOK, Walking, Open, May
<1>8. ASSUME NEW k \in Job PROVE StepOK(k)'
    BY <1>1, <1>2, <1>3, <1>4 DEF StepOK, Quiet, Ended, Early, Late
<1>9. ASSUME NEW k \in Job PROVE HomeOK(k)'
    BY <1>1, <1>2, <1>3, <1>4 DEF HomeOK, Kept, Early, Late
<1>10. ASSUME NEW k \in Job PROVE TombOK(k)'
    BY <1>1, <1>2, <1>3, <1>4 DEF TombOK, Fixed, Quiet, Ended, Sound, StepOK, Early
<1>11. ASSUME NEW k \in Job PROVE CommittedOK(k)'
    BY <1>1, <1>2, <1>3, <1>4
    DEF CommittedOK, Sound, StepOK, Early, HomeOK, TombOK, Unknown, Fixed, Quiet, Ended
<1>12. ASSUME NEW k \in Job PROVE FileOK(k)'
    <2>1. CASE disk' = disk
        BY <1>1, <1>2, <1>3, <1>4, <2>1
        DEF FileOK, Kept, Fixed, Quiet, Ended, Sound, StepOK, Early, Late, HomeOK, Terminal
    <2>2. CASE disk' # disk
        BY <1>1, <1>2, <1>3, <1>4, <2>2
        DEF FileOK, Kept, Fixed, Quiet, Ended, Sound, StepOK, Early, Late, HomeOK, Terminal
    <2> QED BY <2>1, <2>2
<1>13. ASSUME NEW k \in Job PROVE LeaseOK(k)'
    BY <1>1, <1>2, <1>3, <1>4 DEF LeaseOK
<1>14. WalkOK'
    <2>1. \A f \in load.found : f[1] \in Job
        BY <1>1 DEF EvTypeOK, LoadRec
    <2>2. ASSUME NEW f \in load.found
          PROVE  Fixed(f[1])' /\ Sound(f[1], f[2].evidence)' /\ step'[f[1]] # "none"
        <3>1. f[1] \in Job
            BY <2>1
        <3>2. /\ f[2].status \notin {"none", "running"} /\ step[f[1]] # "none"
              /\ Fixed(f[1]) /\ Sound(f[1], f[2].evidence)
            BY <1>1 DEF WalkOK
        <3>3. StepOK(f[1])
            BY <1>1, <3>1
        <3> HIDE <1>1
        <3> QED BY <1>2, <1>4, <3>1, <3>2, <3>3 DEF Fixed, Quiet, Ended, Sound, StepOK, Early, Late
    <2>3. Walking' => \A i \in load'.todo : disk'[i].status # "none"
        BY <1>1, <1>2, <1>3, <1>4
        DEF WalkOK, Walking, TurnOK, EvTypeOK, LoadRec, Terminal, StepOK, Early, Late
    <2>4. load'.pc = "judge" => /\ load'.job \in Job /\ load'.snap.status = "running"
                                /\ load'.snap.owner = home'[load'.job] /\ home'[load'.job] # 0
        BY <1>1, <1>2, <1>3, <1>4 DEF WalkOK, EvTypeOK
    <2> QED BY <1>1, <1>2, <2>2, <2>3, <2>4 DEF WalkOK
<1>15. ClearOK'
    BY <1>1, <1>2, <1>3, <1>4 DEF ClearOK, May, Over
<1> QED BY <1>5, <1>6, <1>7, <1>8, <1>9, <1>10, <1>11, <1>12, <1>13, <1>14, <1>15 DEF EvidenceInv

(***************************************************************************)
(* The status in memory becomes final, and the evidence was published      *)
(* before it.                                                              *)
(***************************************************************************)
LEMMA PublishStatusSaves ==
    ASSUME EvidenceInv, NEW j \in Job, PublishStatus(j)
    PROVE  EvidenceInv'
<1>1. /\ EvTypeOK /\ ManagersOK /\ TurnOK /\ WalkOK /\ ClearOK
      /\ \A k \in Job : StepOK(k) /\ HomeOK(k) /\ TombOK(k) /\ CommittedOK(k) /\ FileOK(k) /\ LeaseOK(k)
    BY DEF EvidenceInv
<1>2. /\ step[j] = "status"
      /\ step' = [step EXCEPT ![j] = "close"]
      /\ scenario' = scenario /\ phase' = phase /\ home' = home /\ cancelled' = cancelled /\ fin' = fin
      /\ disk' = disk /\ destroying' = destroying /\ load' = load /\ turn' = turn /\ leases' = leases
      /\ merged' = merged /\ mutated' = mutated /\ saved' = saved /\ reviewed' = reviewed
         /\ staleRepair' = staleRepair
    BY <1>1 DEF PublishStatus, svars, jvars, others, others2, others3, work, ledger, history
<1>3. cur' = cur
    BY <1>2, SameCur
<1>4. home[j] \in Mgr
    BY <1>1, <1>2 DEF StepOK
<1>5. \A m \in Mgr, k \in Job : (m # home[j] \/ k # j) => mem'[m][k] = mem[m][k]
    BY <1>1, <1>4 DEF EvTypeOK, PublishStatus
<1>6. mem' = [mem EXCEPT ![home[j]][j] =
            [mem[home[j]][j] EXCEPT !.status = IF mem[home[j]][j].status = "killed" THEN "killed" ELSE fin[j]]]
    BY <1>1, <1>4 DEF EvTypeOK, PublishStatus
<1>7. /\ mem'[home[j]][j] \in MemRec
      /\ mem'[home[j]][j].status = IF mem[home[j]][j].status = "killed" THEN "killed" ELSE fin[j]
      /\ mem'[home[j]][j].evidence = mem[home[j]][j].evidence
      /\ mem'[home[j]][j].committed = mem[home[j]][j].committed
      /\ mem'[home[j]][j].done = mem[home[j]][j].done
    <2>1. mem[home[j]][j] \in MemRec
        BY <1>1, <1>4 DEF EvTypeOK
    <2>2. mem'[home[j]][j] =
            [mem[home[j]][j] EXCEPT !.status = IF mem[home[j]][j].status = "killed" THEN "killed" ELSE fin[j]]
        BY <1>1, <1>4, <1>6 DEF EvTypeOK
    <2> QED BY <1>1, <1>2, <2>1, <2>2 DEF MemRec, Unknown, Statuses, Terminal, EvTypeOK
<1>8. mem' \in [Mgr -> [Job -> MemRec]]
    <2>1. mem'[home[j]][j] =
            [mem[home[j]][j] EXCEPT !.status = IF mem[home[j]][j].status = "killed" THEN "killed" ELSE fin[j]]
        BY <1>1, <1>4, <1>6 DEF EvTypeOK
    <2> QED BY <1>1, <1>4, <1>7, <1>6, <2>1 DEF EvTypeOK
<1>9. \A k \in Job : step'[k] = IF k = j THEN "close" ELSE step[k]
    BY <1>1, <1>2 DEF EvTypeOK
<1>10. EvTypeOK'
    BY <1>1, <1>2, <1>3, <1>4, <1>5, <1>7, <1>8, <1>9 DEF EvTypeOK, GoSteps, Turns, Terminal
<1>11. ManagersOK'
    BY <1>1, <1>2, <1>3, <1>4, <1>5, <1>7, <1>8, <1>9 DEF ManagersOK, May
<1>12. TurnOK'
    BY <1>1, <1>2, <1>3, <1>4, <1>5, <1>7, <1>8, <1>9 DEF TurnOK, Walking, Open, May
<1>13. ASSUME NEW k \in Job PROVE StepOK(k)'
    BY <1>1, <1>2, <1>3, <1>4, <1>5, <1>7, <1>8, <1>9 DEF StepOK, Quiet, Ended, Early, Late
<1>14. ASSUME NEW k \in Job PROVE HomeOK(k)'
    BY <1>1, <1>2, <1>3, <1>4, <1>5, <1>7, <1>8, <1>9 DEF HomeOK, Kept, Early, Late, StepOK, Terminal
<1>15. ASSUME NEW k \in Job PROVE TombOK(k)'
    BY <1>1, <1>2, <1>3, <1>4, <1>5, <1>7, <1>8, <1>9 DEF TombOK, Fixed, Quiet, Ended, Sound
<1>16. ASSUME NEW k \in Job PROVE CommittedOK(k)'
    BY <1>1, <1>2, <1>3, <1>4, <1>5, <1>7, <1>8, <1>9 DEF CommittedOK, Sound
<1>17. ASSUME NEW k \in Job PROVE FileOK(k)'
    BY <1>1, <1>2, <1>3, <1>4, <1>5, <1>7, <1>8, <1>9 DEF FileOK, Kept, Fixed, Quiet, Ended, Sound
<1>18. ASSUME NEW k \in Job PROVE LeaseOK(k)'
    BY <1>1, <1>2, <1>3, <1>4, <1>5, <1>7, <1>8, <1>9 DEF LeaseOK, ManagersOK, HomeOK, TombOK, Unknown, StepOK
<1>19. WalkOK'
    BY <1>1, <1>2, <1>3, <1>4, <1>5, <1>7, <1>8, <1>9 DEF WalkOK, Walking, Fixed, Quiet, Ended, Sound
<1>20. ClearOK'
    BY <1>1, <1>2, <1>3, <1>4, <1>5, <1>7, <1>8, <1>9 DEF ClearOK, May, Over
<1> QED BY <1>10, <1>11, <1>12, <1>13, <1>14, <1>15, <1>16, <1>17, <1>18, <1>19, <1>20 DEF EvidenceInv

(***************************************************************************)
(* done is closed last: who sees it sees the evidence.                     *)
(***************************************************************************)
LEMMA CloseDoneSaves ==
    ASSUME EvidenceInv, NEW j \in Job, CloseDone(j)
    PROVE  EvidenceInv'
<1>1. /\ EvTypeOK /\ ManagersOK /\ TurnOK /\ WalkOK /\ ClearOK
      /\ \A k \in Job : StepOK(k) /\ HomeOK(k) /\ TombOK(k) /\ CommittedOK(k) /\ FileOK(k) /\ LeaseOK(k)
    BY DEF EvidenceInv
<1>2. /\ step[j] = "close"
      /\ step' = [step EXCEPT ![j] = "ended"]
      /\ scenario' = scenario /\ phase' = phase /\ home' = home /\ cancelled' = cancelled /\ fin' = fin
      /\ disk' = disk /\ destroying' = destroying /\ load' = load /\ turn' = turn /\ leases' = leases
      /\ merged' = merged /\ mutated' = mutated /\ saved' = saved /\ reviewed' = reviewed
         /\ staleRepair' = staleRepair
    BY <1>1 DEF CloseDone, svars, jvars, others, others2, others3, work, ledger, history
<1>3. cur' = cur
    BY <1>2, SameCur
<1>4. home[j] \in Mgr
    BY <1>1, <1>2 DEF StepOK
<1>5. \A m \in Mgr, k \in Job : (m # home[j] \/ k # j) => mem'[m][k] = mem[m][k]
    BY <1>1, <1>4 DEF EvTypeOK, CloseDone
<1>6. mem' = [mem EXCEPT ![home[j]][j] = [mem[home[j]][j] EXCEPT !.done = TRUE]]
    BY <1>1, <1>4 DEF EvTypeOK, CloseDone
<1>7. /\ mem'[home[j]][j] \in MemRec
      /\ mem'[home[j]][j].status = mem[home[j]][j].status
      /\ mem'[home[j]][j].evidence = mem[home[j]][j].evidence
      /\ mem'[home[j]][j].committed = mem[home[j]][j].committed
      /\ mem'[home[j]][j].done = TRUE
    <2>1. mem[home[j]][j] \in MemRec
        BY <1>1, <1>4 DEF EvTypeOK
    <2>2. mem'[home[j]][j] = [mem[home[j]][j] EXCEPT !.done = TRUE]
        BY <1>1, <1>4, <1>6 DEF EvTypeOK
    <2> QED BY <1>1, <1>2, <2>1, <2>2 DEF MemRec, Unknown, Statuses, Terminal, EvTypeOK
<1>8. mem' \in [Mgr -> [Job -> MemRec]]
    <2>1. mem'[home[j]][j] = [mem[home[j]][j] EXCEPT !.done = TRUE]
        BY <1>1, <1>4, <1>6 DEF EvTypeOK
    <2> QED BY <1>1, <1>4, <1>7, <1>6, <2>1 DEF EvTypeOK
<1>9. \A k \in Job : step'[k] = IF k = j THEN "ended" ELSE step[k]
    BY <1>1, <1>2 DEF EvTypeOK
<1>10. EvTypeOK'
    BY <1>1, <1>2, <1>3, <1>4, <1>5, <1>7, <1>8, <1>9 DEF EvTypeOK, GoSteps, Turns, Terminal
<1>11. ManagersOK'
    BY <1>1, <1>2, <1>3, <1>4, <1>5, <1>7, <1>8, <1>9 DEF ManagersOK, May
<1>12. TurnOK'
    BY <1>1, <1>2, <1>3, <1>4, <1>5, <1>7, <1>8, <1>9 DEF TurnOK, Walking, Open, May
<1>13. ASSUME NEW k \in Job PROVE StepOK(k)'
    BY <1>1, <1>2, <1>3, <1>4, <1>5, <1>7, <1>8, <1>9 DEF StepOK, Quiet, Ended, Early, Late
<1>14. ASSUME NEW k \in Job PROVE HomeOK(k)'
    BY <1>1, <1>2, <1>3, <1>4, <1>5, <1>7, <1>8, <1>9 DEF HomeOK, Kept, Early, Late, StepOK, Terminal
<1>15. ASSUME NEW k \in Job PROVE TombOK(k)'
    BY <1>1, <1>2, <1>3, <1>4, <1>5, <1>7, <1>8, <1>9 DEF TombOK, Fixed, Quiet, Ended, Sound
<1>16. ASSUME NEW k \in Job PROVE CommittedOK(k)'
    BY <1>1, <1>2, <1>3, <1>4, <1>5, <1>7, <1>8, <1>9 DEF CommittedOK, Sound
<1>17. ASSUME NEW k \in Job PROVE FileOK(k)'
    BY <1>1, <1>2, <1>3, <1>4, <1>5, <1>7, <1>8, <1>9 DEF FileOK, Kept, Fixed, Quiet, Ended, Sound
<1>18. ASSUME NEW k \in Job PROVE LeaseOK(k)'
    BY <1>1, <1>2, <1>3, <1>4, <1>5, <1>7, <1>8, <1>9 DEF LeaseOK, ManagersOK, HomeOK, TombOK, Unknown, StepOK
<1>19. WalkOK'
    BY <1>1, <1>2, <1>3, <1>4, <1>5, <1>7, <1>8, <1>9 DEF WalkOK, Walking, Fixed, Quiet, Ended, Sound
<1>20. ClearOK'
    BY <1>1, <1>2, <1>3, <1>4, <1>5, <1>7, <1>8, <1>9 DEF ClearOK, May, Over
<1> QED BY <1>10, <1>11, <1>12, <1>13, <1>14, <1>15, <1>16, <1>17, <1>18, <1>19, <1>20 DEF EvidenceInv

(***************************************************************************)
(* The evidence is published from the child's ledger, after the last       *)
(* change and before anything says the job is over.                        *)
(***************************************************************************)
LEMMA UnwindSaves ==
    ASSUME EvidenceInv, NEW j \in Job, Unwind(j)
    PROVE  EvidenceInv'
<1>1. /\ EvTypeOK /\ ManagersOK /\ TurnOK /\ WalkOK /\ ClearOK
      /\ \A k \in Job : StepOK(k) /\ HomeOK(k) /\ TombOK(k) /\ CommittedOK(k) /\ FileOK(k) /\ LeaseOK(k)
    BY DEF EvidenceInv
<1>2. /\ step[j] = "unwind"
      /\ step' = [step EXCEPT ![j] = "meta"]
      /\ fin' = [fin EXCEPT ![j] = IF j \in cancelled THEN "killed" ELSE IF j \in err THEN "failed" ELSE "done"]
      /\ scenario' = scenario /\ phase' = phase /\ home' = home /\ cancelled' = cancelled /\ disk' = disk
      /\ destroying' = destroying /\ load' = load /\ turn' = turn /\ leases' = leases /\ merged' = merged
      /\ mutated' = mutated /\ saved' = saved /\ reviewed' = reviewed /\ staleRepair' = staleRepair
    BY <1>1 DEF Unwind, svars, jvars, others, others2, others3, work, ledger, history
<1>3. cur' = cur
    BY <1>2, SameCur
<1>4. home[j] \in Mgr
    BY <1>1, <1>2 DEF StepOK
<1>5. \A m \in Mgr, k \in Job : (m # home[j] \/ k # j) => mem'[m][k] = mem[m][k]
    BY <1>1, <1>4 DEF EvTypeOK, Unwind
<1>6. mem' = [mem EXCEPT ![home[j]][j] = [mem[home[j]][j] EXCEPT !.evidence = (j \in mutated)]]
    BY <1>1, <1>4 DEF EvTypeOK, Unwind
<1>7. /\ mem'[home[j]][j] \in MemRec
      /\ mem'[home[j]][j].status = mem[home[j]][j].status
      /\ (mem'[home[j]][j].evidence = TRUE <=> j \in mutated)
      /\ mem'[home[j]][j].committed = mem[home[j]][j].committed
      /\ mem'[home[j]][j].done = mem[home[j]][j].done
    <2>1. mem[home[j]][j] \in MemRec
        BY <1>1, <1>4 DEF EvTypeOK
    <2>2. mem'[home[j]][j] = [mem[home[j]][j] EXCEPT !.evidence = (j \in mutated)]
        BY <1>1, <1>4, <1>6 DEF EvTypeOK
    <2>3. CASE j \in mutated
        <3>1. mem'[home[j]][j] = [mem[home[j]][j] EXCEPT !.evidence = TRUE]
            BY <2>2, <2>3
        <3> QED BY <2>1, <2>3, <3>1 DEF MemRec
    <2>4. CASE j \notin mutated
        <3>1. (j \in mutated) = FALSE
            BY <2>4
        <3>2. mem'[home[j]][j] = [mem[home[j]][j] EXCEPT !.evidence = FALSE]
            BY <2>2, <3>1
        <3> QED BY <2>1, <2>4, <3>2 DEF MemRec
    <2> QED BY <2>3, <2>4
<1>8. mem' \in [Mgr -> [Job -> MemRec]]
    <2>1. mem'[home[j]][j] = [mem[home[j]][j] EXCEPT !.evidence = (j \in mutated)]
        BY <1>1, <1>4, <1>6 DEF EvTypeOK
    <2> QED BY <1>1, <1>4, <1>7, <1>6, <2>1 DEF EvTypeOK
<1>9. \A k \in Job : step'[k] = IF k = j THEN "meta" ELSE step[k]
    BY <1>1, <1>2 DEF EvTypeOK
<1>10. EvTypeOK'
    BY <1>1, <1>2, <1>3, <1>4, <1>5, <1>7, <1>8, <1>9 DEF EvTypeOK, GoSteps, Turns, Terminal
<1>11. ManagersOK'
    BY <1>1, <1>2, <1>3, <1>4, <1>5, <1>7, <1>8, <1>9 DEF ManagersOK, May
<1>12. TurnOK'
    BY <1>1, <1>2, <1>3, <1>4, <1>5, <1>7, <1>8, <1>9 DEF TurnOK, Walking, Open, May
<1>13. ASSUME NEW k \in Job PROVE StepOK(k)'
    BY <1>1, <1>2, <1>3, <1>4, <1>5, <1>7, <1>8, <1>9
    DEF StepOK, Quiet, Ended, Early, Late, EvTypeOK, Terminal
<1>14. ASSUME NEW k \in Job PROVE HomeOK(k)'
    BY <1>1, <1>2, <1>3, <1>4, <1>5, <1>7, <1>8, <1>9 DEF HomeOK, Kept, Early, Late, StepOK
<1>15. ASSUME NEW k \in Job PROVE TombOK(k)'
    BY <1>1, <1>2, <1>3, <1>4, <1>5, <1>7, <1>8, <1>9 DEF TombOK, Fixed, Quiet, Ended, Sound
<1>16. ASSUME NEW k \in Job PROVE CommittedOK(k)'
    BY <1>1, <1>2, <1>3, <1>4, <1>5, <1>7, <1>8, <1>9 DEF CommittedOK, Sound
<1>17. ASSUME NEW k \in Job PROVE FileOK(k)'
    BY <1>1, <1>2, <1>3, <1>4, <1>5, <1>7, <1>8, <1>9 DEF FileOK, Kept, Fixed, Quiet, Ended, Sound
<1>18. ASSUME NEW k \in Job PROVE LeaseOK(k)'
    BY <1>1, <1>2, <1>3, <1>4, <1>5, <1>7, <1>8, <1>9 DEF LeaseOK, ManagersOK, HomeOK, TombOK, Unknown, StepOK
<1>19. WalkOK'
    BY <1>1, <1>2, <1>3, <1>4, <1>5, <1>7, <1>8, <1>9 DEF WalkOK, Walking, Fixed, Quiet, Ended, Sound
<1>20. ClearOK'
    BY <1>1, <1>2, <1>3, <1>4, <1>5, <1>7, <1>8, <1>9 DEF ClearOK, May, Over
<1> QED BY <1>10, <1>11, <1>12, <1>13, <1>14, <1>15, <1>16, <1>17, <1>18, <1>19, <1>20 DEF EvidenceInv

(***************************************************************************)
(* Kill marks the job and cancels its context; only a job of this manager  *)
(* is running in its memory.                                               *)
(***************************************************************************)
LEMMA KillSaves ==
    ASSUME EvidenceInv, NEW j \in Job, Kill(j)
    PROVE  EvidenceInv'
<1>1. /\ EvTypeOK /\ ManagersOK /\ TurnOK /\ WalkOK /\ ClearOK
      /\ \A k \in Job : StepOK(k) /\ HomeOK(k) /\ TombOK(k) /\ CommittedOK(k) /\ FileOK(k) /\ LeaseOK(k)
    BY DEF EvidenceInv
<1>2. /\ Open /\ mem[cur][j].status = "running"
      /\ cancelled' = cancelled \cup {j}
      /\ scenario' = scenario /\ phase' = phase /\ home' = home /\ step' = step /\ fin' = fin
      /\ disk' = disk /\ destroying' = destroying /\ load' = load /\ turn' = turn /\ leases' = leases
      /\ merged' = merged /\ mutated' = mutated /\ saved' = saved /\ reviewed' = reviewed
         /\ staleRepair' = staleRepair
    BY <1>1 DEF Kill, svars, jvars, others, others2, others3, work, ledger, history
<1>3. cur' = cur
    BY <1>2, SameCur
<1>4. cur \in Mgr
    BY <1>1, <1>2 DEF ManagersOK
<1>5. \A m \in Mgr, k \in Job : (m # cur \/ k # j) => mem'[m][k] = mem[m][k]
    BY <1>1, <1>4 DEF EvTypeOK, Kill
<1>6. mem' = [mem EXCEPT ![cur][j] = [mem[cur][j] EXCEPT !.status = "killed"]]
    BY <1>1, <1>4 DEF EvTypeOK, Kill
<1>7. /\ mem'[cur][j] \in MemRec
      /\ mem'[cur][j].status = "killed"
      /\ mem'[cur][j].evidence = mem[cur][j].evidence
      /\ mem'[cur][j].committed = mem[cur][j].committed
      /\ mem'[cur][j].done = mem[cur][j].done
    <2>1. mem[cur][j] \in MemRec
        BY <1>1, <1>4 DEF EvTypeOK
    <2>2. mem'[cur][j] = [mem[cur][j] EXCEPT !.status = "killed"]
        BY <1>1, <1>4, <1>6 DEF EvTypeOK
    <2> QED BY <1>1, <1>2, <2>1, <2>2 DEF MemRec, Unknown, Statuses, Terminal, EvTypeOK
<1>8. mem' \in [Mgr -> [Job -> MemRec]]
    <2>1. mem'[cur][j] = [mem[cur][j] EXCEPT !.status = "killed"]
        BY <1>1, <1>4, <1>6 DEF EvTypeOK
    <2> QED BY <1>1, <1>4, <1>7, <1>6, <2>1 DEF EvTypeOK
<1>9. home[j] = cur
    BY <1>1, <1>2, <1>4 DEF TombOK, Unknown
<1>10. EvTypeOK'
    BY <1>1, <1>2, <1>3, <1>4, <1>5, <1>7, <1>8, <1>9 DEF EvTypeOK, GoSteps, Turns, Terminal
<1>11. ManagersOK'
    BY <1>1, <1>2, <1>3, <1>4, <1>5, <1>7, <1>8, <1>9 DEF ManagersOK, May
<1>12. TurnOK'
    BY <1>1, <1>2, <1>3, <1>4, <1>5, <1>7, <1>8, <1>9 DEF TurnOK, Walking, Open, May
<1>13. ASSUME NEW k \in Job PROVE StepOK(k)'
    BY <1>1, <1>2, <1>3, <1>4, <1>5, <1>7, <1>8, <1>9 DEF StepOK, Quiet, Ended, Early, Late
<1>14. ASSUME NEW k \in Job PROVE HomeOK(k)'
    BY <1>1, <1>2, <1>3, <1>4, <1>5, <1>7, <1>8, <1>9 DEF HomeOK, Kept, Early, Late, StepOK
<1>15. ASSUME NEW k \in Job PROVE TombOK(k)'
    BY <1>1, <1>2, <1>3, <1>4, <1>5, <1>7, <1>8, <1>9 DEF TombOK, Fixed, Quiet, Ended, Sound
<1>16. ASSUME NEW k \in Job PROVE CommittedOK(k)'
    BY <1>1, <1>2, <1>3, <1>4, <1>5, <1>7, <1>8, <1>9 DEF CommittedOK, Sound
<1>17. ASSUME NEW k \in Job PROVE FileOK(k)'
    BY <1>1, <1>2, <1>3, <1>4, <1>5, <1>7, <1>8, <1>9 DEF FileOK, Kept, Fixed, Quiet, Ended, Sound
<1>18. ASSUME NEW k \in Job PROVE LeaseOK(k)'
    BY <1>1, <1>2, <1>3, <1>4, <1>5, <1>7, <1>8, <1>9 DEF LeaseOK, ManagersOK, HomeOK, TombOK, Unknown, StepOK
<1>19. WalkOK'
    BY <1>1, <1>2, <1>3, <1>4, <1>5, <1>7, <1>8, <1>9 DEF WalkOK, Walking, Fixed, Quiet, Ended, Sound
<1>20. ClearOK'
    BY <1>1, <1>2, <1>3, <1>4, <1>5, <1>7, <1>8, <1>9 DEF ClearOK, May, Over
<1> QED BY <1>10, <1>11, <1>12, <1>13, <1>14, <1>15, <1>16, <1>17, <1>18, <1>19, <1>20 DEF EvidenceInv

(***************************************************************************)
(* A new job is known to no manager, and the turn that starts it is not    *)
(* yet committing.                                                         *)
(***************************************************************************)
LEMMA RegisterSaves ==
    ASSUME EvidenceInv, NEW j \in Job, Register(j)
    PROVE  EvidenceInv'
<1>1. /\ EvTypeOK /\ ManagersOK /\ TurnOK /\ WalkOK /\ ClearOK
      /\ \A k \in Job : StepOK(k) /\ HomeOK(k) /\ TombOK(k) /\ CommittedOK(k) /\ FileOK(k) /\ LeaseOK(k)
    BY DEF EvidenceInv
<1>2. /\ turn \in {"run", "plan"} /\ step[j] = "none"
      /\ home' = [home EXCEPT ![j] = cur]
      /\ step' = [step EXCEPT ![j] = "registered"]
      /\ scenario' = scenario /\ phase' = phase /\ cancelled' = cancelled /\ fin' = fin /\ disk' = disk
      /\ destroying' = destroying /\ load' = load /\ turn' = turn /\ leases' = leases /\ merged' = merged
      /\ mutated' = mutated /\ saved' = saved /\ reviewed' = reviewed /\ staleRepair' = staleRepair
    BY <1>1 DEF Register, svars, jvars, others, others2, others3, work, ledger, history
<1>3. cur' = cur
    BY <1>2, SameCur
<1>4. cur \in Mgr
    BY <1>1, <1>2 DEF ManagersOK
<1>5. \A m \in Mgr, k \in Job : (m # cur \/ k # j) => mem'[m][k] = mem[m][k]
    BY <1>1, <1>4 DEF EvTypeOK, Register
<1>6. mem' = [mem EXCEPT ![cur][j] = [Unknown EXCEPT !.status = "running"]]
    BY <1>1, <1>4 DEF EvTypeOK, Register
<1>7. /\ mem'[cur][j] \in MemRec
      /\ mem'[cur][j].status = "running"
      /\ mem'[cur][j].evidence = FALSE
      /\ mem'[cur][j].committed = FALSE
      /\ mem'[cur][j].done = FALSE
    <2>1. mem[cur][j] \in MemRec
        BY <1>1, <1>4 DEF EvTypeOK
    <2>2. mem'[cur][j] = [Unknown EXCEPT !.status = "running"]
        BY <1>1, <1>4, <1>6 DEF EvTypeOK
    <2> QED BY <1>1, <1>2, <2>1, <2>2 DEF MemRec, Unknown, Statuses, Terminal, EvTypeOK
<1>8. mem' \in [Mgr -> [Job -> MemRec]]
    <2>1. mem'[cur][j] = [Unknown EXCEPT !.status = "running"]
        BY <1>1, <1>4, <1>6 DEF EvTypeOK
    <2> QED BY <1>1, <1>4, <1>7, <1>6, <2>1 DEF EvTypeOK
<1>9. \A k \in Job : step'[k] = IF k = j THEN "registered" ELSE step[k]
    BY <1>1, <1>2 DEF EvTypeOK
<1>10. /\ home[j] = 0 /\ \A k \in Job : home'[k] = IF k = j THEN cur ELSE home[k]
      /\ \A m \in Mgr : mem[m][j] = Unknown
    BY <1>1, <1>2 DEF EvTypeOK, StepOK, TombOK, Mgr
<1>11. EvTypeOK'
    BY <1>1, <1>2, <1>3, <1>4, <1>5, <1>7, <1>8, <1>9, <1>10 DEF EvTypeOK, GoSteps, Turns, Terminal, Mgr
<1>12. ManagersOK'
    BY <1>1, <1>2, <1>3, <1>4, <1>5, <1>7, <1>8, <1>9, <1>10 DEF ManagersOK, May
<1>13. TurnOK'
    BY <1>1, <1>2, <1>3, <1>4, <1>5, <1>7, <1>8, <1>9, <1>10 DEF TurnOK, Walking, Open, May
<1>14. ASSUME NEW k \in Job PROVE StepOK(k)'
    BY <1>1, <1>2, <1>3, <1>4, <1>5, <1>7, <1>8, <1>9, <1>10
    DEF StepOK, Quiet, Ended, Early, Late, TurnOK, Open, ManagersOK, Mgr
<1>15. ASSUME NEW k \in Job PROVE HomeOK(k)'
    BY <1>1, <1>2, <1>3, <1>4, <1>5, <1>7, <1>8, <1>9, <1>10 DEF HomeOK, Kept, Early, Late, StepOK, EvTypeOK
<1>16. ASSUME NEW k \in Job PROVE TombOK(k)'
    BY <1>1, <1>2, <1>3, <1>4, <1>5, <1>7, <1>8, <1>9, <1>10
    DEF TombOK, Fixed, Quiet, Ended, Sound, StepOK, Unknown
<1>17. ASSUME NEW k \in Job PROVE CommittedOK(k)'
    BY <1>1, <1>2, <1>3, <1>4, <1>5, <1>7, <1>8, <1>9, <1>10 DEF CommittedOK, Sound
<1>18. ASSUME NEW k \in Job PROVE FileOK(k)'
    BY <1>1, <1>2, <1>3, <1>4, <1>5, <1>7, <1>8, <1>9, <1>10 DEF FileOK, Kept, Fixed, Quiet, Ended, Sound
<1>19. ASSUME NEW k \in Job PROVE LeaseOK(k)'
    BY <1>1, <1>2, <1>3, <1>4, <1>5, <1>7, <1>8, <1>9, <1>10
    DEF LeaseOK, ManagersOK, HomeOK, TombOK, Unknown, StepOK
<1>20. WalkOK'
    <2>1. \A f \in load.found : f[1] \in Job
        BY <1>1 DEF EvTypeOK, LoadRec
    <2>2. ASSUME NEW f \in load.found
          PROVE  Fixed(f[1])' /\ Sound(f[1], f[2].evidence)' /\ step'[f[1]] # "none"
        <3>1. f[1] \in Job
            BY <2>1
        <3>2. /\ f[2].status \notin {"none", "running"} /\ step[f[1]] # "none"
              /\ Fixed(f[1]) /\ Sound(f[1], f[2].evidence)
            BY <1>1 DEF WalkOK
        <3>3. StepOK(f[1])
            BY <1>1, <3>1
        <3> HIDE <1>1
        <3> QED BY <1>2, <1>4, <3>1, <3>2, <3>3 DEF Fixed, Quiet, Ended, Sound, StepOK, Early, Late
    <2>3. Walking' => \A i \in load'.todo : disk'[i].status # "none"
        BY <1>1, <1>2, <1>3, <1>4, <1>5, <1>7, <1>8, <1>9, <1>10
        DEF WalkOK, Walking, TurnOK, EvTypeOK, LoadRec, Terminal, StepOK, Early, Late
    <2>4. load'.pc = "judge" => /\ load'.job \in Job /\ load'.snap.status = "running"
                                /\ load'.snap.owner = home'[load'.job] /\ home'[load'.job] # 0
        BY <1>1, <1>2, <1>3, <1>4, <1>5, <1>7, <1>8, <1>9, <1>10 DEF WalkOK, EvTypeOK
    <2> QED BY <1>1, <1>2, <2>2, <2>3, <2>4 DEF WalkOK
<1>21. ClearOK'
    BY <1>1, <1>2, <1>3, <1>4, <1>5, <1>7, <1>8, <1>9, <1>10 DEF ClearOK, May, Over, TurnOK
<1> QED BY <1>11, <1>12, <1>13, <1>14, <1>15, <1>16, <1>17, <1>18, <1>19, <1>20, <1>21 DEF EvidenceInv

(***************************************************************************)
(* CommitEvidence of a lease that is not done, or already committed, only  *)
(* drops the lease.                                                        *)
(***************************************************************************)
LEMMA CommitNothingSaves ==
    ASSUME EvidenceInv, NEW j \in Job, CommitEvidence(j), ~(mem[cur][j].done /\ ~mem[cur][j].committed)
    PROVE  EvidenceInv'
<1>1. /\ EvTypeOK /\ ManagersOK /\ TurnOK /\ WalkOK /\ ClearOK
      /\ \A k \in Job : StepOK(k) /\ HomeOK(k) /\ TombOK(k) /\ CommittedOK(k) /\ FileOK(k) /\ LeaseOK(k)
    BY DEF EvidenceInv
<1>2. /\ leases' = leases \ {j}
      /\ scenario' = scenario /\ phase' = phase /\ home' = home /\ step' = step /\ cancelled' = cancelled
      /\ fin' = fin /\ mem' = mem /\ disk' = disk /\ destroying' = destroying /\ load' = load
      /\ turn' = turn /\ merged' = merged /\ mutated' = mutated /\ saved' = saved /\ reviewed' = reviewed
      /\ staleRepair' = staleRepair
    BY <1>1 DEF CommitEvidence, svars, jvars, others, others2, others3, work, ledger, history
<1>3. cur' = cur
    BY <1>2, SameCur
<1>4. EvTypeOK'
    BY <1>1, <1>2, <1>3 DEF EvTypeOK
<1>5. ManagersOK'
    BY <1>1, <1>2, <1>3 DEF ManagersOK, May
<1>6. TurnOK'
    BY <1>1, <1>2, <1>3 DEF TurnOK, Walking, Open, May
<1>7. ASSUME NEW k \in Job PROVE StepOK(k)'
    BY <1>1, <1>2, <1>3 DEF StepOK, Quiet, Ended, Early, Late
<1>8. ASSUME NEW k \in Job PROVE HomeOK(k)'
    BY <1>1, <1>2, <1>3 DEF HomeOK, Kept, Early, Late
<1>9. ASSUME NEW k \in Job PROVE TombOK(k)'
    BY <1>1, <1>2, <1>3 DEF TombOK, Fixed, Quiet, Ended, Sound
<1>10. ASSUME NEW k \in Job PROVE CommittedOK(k)'
    BY <1>1, <1>2, <1>3 DEF CommittedOK, Sound
<1>11. ASSUME NEW k \in Job PROVE FileOK(k)'
    BY <1>1, <1>2, <1>3 DEF FileOK, Kept, Fixed, Quiet, Ended, Sound
<1>12. ASSUME NEW k \in Job PROVE LeaseOK(k)'
    BY <1>1, <1>2, <1>3 DEF LeaseOK
<1>13. WalkOK'
    BY <1>1, <1>2, <1>3 DEF WalkOK, Walking, Fixed, Quiet, Ended, Sound
<1>14. ClearOK'
    BY <1>1, <1>2, <1>3 DEF ClearOK, May, Over
<1> QED BY <1>4, <1>5, <1>6, <1>7, <1>8, <1>9, <1>10, <1>11, <1>12, <1>13, <1>14 DEF EvidenceInv

(***************************************************************************)
(* CommitEvidence consumes evidence: either the delivered turn had it in   *)
(* its ledger, or there was none, and then the record in memory said so    *)
(* truly.                                                                  *)
(***************************************************************************)
LEMMA CommitLeaseSaves ==
    ASSUME EvidenceInv, NEW j \in Job, CommitEvidence(j), mem[cur][j].done /\ ~mem[cur][j].committed
    PROVE  EvidenceInv'
<1>1. /\ EvTypeOK /\ ManagersOK /\ TurnOK /\ WalkOK /\ ClearOK
      /\ \A k \in Job : StepOK(k) /\ HomeOK(k) /\ TombOK(k) /\ CommittedOK(k) /\ FileOK(k) /\ LeaseOK(k)
    BY DEF EvidenceInv
<1>2. /\ turn = "commit" /\ j \in leases
      /\ mem[cur][j].done = TRUE /\ mem[cur][j].committed = FALSE
      /\ \/ disk' = disk
         \/ disk' = [disk EXCEPT ![j] = [status |-> mem[cur][j].status, owner |-> cur, evidence |-> FALSE]]
      /\ leases' = leases \ {j}
      /\ scenario' = scenario /\ phase' = phase /\ home' = home /\ step' = step /\ cancelled' = cancelled
      /\ fin' = fin /\ destroying' = destroying /\ load' = load /\ turn' = turn /\ merged' = merged
      /\ mutated' = mutated /\ saved' = saved /\ reviewed' = reviewed /\ staleRepair' = staleRepair
    BY <1>1
    DEF CommitEvidence, EvTypeOK, MemRec, ManagersOK, svars, jvars, others, others2, others3, work,
        ledger, history
<1>3. cur' = cur
    BY <1>2, SameCur
<1>4. cur \in Mgr
    BY <1>1, <1>2 DEF ManagersOK
<1>5. \A m \in Mgr, k \in Job : (m # cur \/ k # j) => mem'[m][k] = mem[m][k]
    BY <1>1, <1>4 DEF EvTypeOK, CommitEvidence
<1>6. mem' = [mem EXCEPT ![cur][j] = [mem[cur][j] EXCEPT !.committed = TRUE, !.evidence = FALSE]]
    BY <1>1, <1>4 DEF EvTypeOK, CommitEvidence
<1>7. /\ mem'[cur][j] \in MemRec
      /\ mem'[cur][j].status = mem[cur][j].status
      /\ mem'[cur][j].evidence = FALSE
      /\ mem'[cur][j].committed = TRUE
      /\ mem'[cur][j].done = mem[cur][j].done
    <2>1. mem[cur][j] \in MemRec
        BY <1>1, <1>4 DEF EvTypeOK
    <2>2. mem'[cur][j] = [mem[cur][j] EXCEPT !.committed = TRUE, !.evidence = FALSE]
        BY <1>1, <1>4, <1>6 DEF EvTypeOK
    <2> QED BY <1>1, <1>2, <2>1, <2>2 DEF MemRec, Unknown, Statuses, Terminal, EvTypeOK
<1>8. mem' \in [Mgr -> [Job -> MemRec]]
    <2>1. mem'[cur][j] = [mem[cur][j] EXCEPT !.committed = TRUE, !.evidence = FALSE]
        BY <1>1, <1>4, <1>6 DEF EvTypeOK
    <2> QED BY <1>1, <1>4, <1>7, <1>6, <2>1 DEF EvTypeOK
<1>9. /\ destroying.pc = "no" /\ (step[j] = "ended" \/ home[j] # cur)
      /\ disk' = disk \/ (/\ disk'[j].status = mem[cur][j].status /\ disk'[j].evidence = FALSE
                         /\ \A k \in Job : k # j => disk'[k] = disk[k])
    BY <1>1, <1>2, <1>4 DEF EvTypeOK, TurnOK, HomeOK, DestroyRec, Mgr
<1>10. Sound(j, FALSE) /\ Fixed(j) /\ step[j] # "none" /\ mem[cur][j].status \notin {"none", "running"}
    <2>1. CASE home[j] = cur
        BY <1>1, <1>2, <1>4, <1>9, <2>1
        DEF HomeOK, Kept, LeaseOK, TurnOK, Sound, Fixed, Quiet, Ended, Late, Mgr
    <2>2. CASE home[j] # cur
        BY <1>1, <1>2, <1>4, <2>2 DEF TombOK, LeaseOK, TurnOK, Sound, Unknown
    <2> QED BY <2>1, <2>2
<1>11. EvTypeOK'
    <2>1. mem[cur][j].status \in Statuses /\ cur \in 0..MaxManagers
        BY <1>1, <1>4 DEF EvTypeOK, MemRec, Mgr
    <2>2. [status |-> mem[cur][j].status, owner |-> cur, evidence |-> FALSE] \in DiskRec
        BY <2>1 DEF DiskRec
    <2>3. disk' \in [Job -> DiskRec]
        BY <1>1, <1>2, <2>2 DEF EvTypeOK
    <2> QED BY <1>1, <1>2, <1>8, <2>3 DEF EvTypeOK
<1>12. ManagersOK'
    BY <1>1, <1>2, <1>3, <1>4, <1>5, <1>7, <1>8, <1>9, <1>10 DEF ManagersOK, May
<1>13. TurnOK'
    BY <1>1, <1>2, <1>3, <1>4, <1>5, <1>7, <1>8, <1>9, <1>10 DEF TurnOK, Walking, Open, May
<1>14. ASSUME NEW k \in Job PROVE StepOK(k)'
    BY <1>1, <1>2, <1>3, <1>4, <1>5, <1>7, <1>8, <1>9, <1>10 DEF StepOK, Quiet, Ended, Early, Late
<1>15. ASSUME NEW k \in Job PROVE HomeOK(k)'
    <2>1. home[k] # 0 => home[k] \in Mgr
        BY <1>1 DEF StepOK
    <2>2. CASE k = j /\ home[j] = cur
        BY <1>2, <1>7, <1>9, <1>10, <2>2 DEF HomeOK, Early, Late, Kept
    <2>3. CASE ~(k = j /\ home[j] = cur)
        <3>1. home[k] # 0 => mem'[home[k]][k] = mem[home[k]][k]
            BY <1>5, <2>1, <2>3
        <3> QED BY <1>1, <1>2, <3>1 DEF HomeOK, Early, Late, Kept
    <2> QED BY <2>2, <2>3
<1>16. ASSUME NEW k \in Job PROVE TombOK(k)'
    <2>1. CASE k = j
        <3>1. ASSUME NEW m \in Mgr, m # cur PROVE mem'[m][j] = mem[m][j]
            BY <1>5, <3>1
        <3>2. mem'[cur][j].done = TRUE /\ mem'[cur][j].status \notin {"none", "running"}
              /\ mem'[cur][j].committed = TRUE
            BY <1>2, <1>7, <1>10
        <3>3. Fixed(j)' /\ step'[j] # "none"
            BY <1>2, <1>10 DEF Fixed, Quiet, Ended
        <3> QED BY <1>1, <1>2, <2>1, <3>1, <3>2, <3>3 DEF TombOK, Sound
    <2>2. CASE k # j
        BY <1>1, <1>2, <1>3, <1>4, <1>5, <1>7, <1>8, <1>9, <1>10, <2>2 DEF TombOK, Fixed, Quiet, Ended, Sound
    <2> QED BY <2>1, <2>2
<1>17. ASSUME NEW k \in Job PROVE CommittedOK(k)'
    BY <1>1, <1>2, <1>3, <1>4, <1>5, <1>7, <1>8, <1>9, <1>10 DEF CommittedOK, Sound
<1>18. ASSUME NEW k \in Job PROVE FileOK(k)'
    <2>1. CASE disk' = disk
        BY <1>1, <1>2, <1>3, <1>4, <1>5, <1>7, <1>8, <1>9, <1>10, <2>1
        DEF FileOK, Kept, Fixed, Quiet, Ended, Sound, StepOK
    <2>2. CASE disk' # disk
        BY <1>1, <1>2, <1>3, <1>4, <1>5, <1>7, <1>8, <1>9, <1>10, <2>2
        DEF FileOK, Kept, Fixed, Quiet, Ended, Sound, StepOK
    <2> QED BY <2>1, <2>2
<1>19. ASSUME NEW k \in Job PROVE LeaseOK(k)'
    BY <1>1, <1>2, <1>3, <1>4, <1>5, <1>7, <1>8, <1>9, <1>10
    DEF LeaseOK, ManagersOK, HomeOK, TombOK, Unknown, StepOK
<1>20. WalkOK'
    <2>1. \A f \in load.found : f[1] \in Job
        BY <1>1 DEF EvTypeOK, LoadRec
    <2>2. ASSUME NEW f \in load.found
          PROVE  Fixed(f[1])' /\ Sound(f[1], f[2].evidence)' /\ step'[f[1]] # "none"
        <3>1. f[1] \in Job
            BY <2>1
        <3>2. /\ f[2].status \notin {"none", "running"} /\ step[f[1]] # "none"
              /\ Fixed(f[1]) /\ Sound(f[1], f[2].evidence)
            BY <1>1 DEF WalkOK
        <3>3. StepOK(f[1])
            BY <1>1, <3>1
        <3> HIDE <1>1
        <3> QED BY <1>2, <1>4, <3>1, <3>2, <3>3 DEF Fixed, Quiet, Ended, Sound, StepOK, Early, Late
    <2>3. Walking' => \A i \in load'.todo : disk'[i].status # "none"
        BY <1>1, <1>2, <1>3, <1>4, <1>5, <1>7, <1>8, <1>9, <1>10
        DEF WalkOK, Walking, TurnOK, EvTypeOK, LoadRec, Terminal, StepOK, Early, Late
    <2>4. load'.pc = "judge" => /\ load'.job \in Job /\ load'.snap.status = "running"
                                /\ load'.snap.owner = home'[load'.job] /\ home'[load'.job] # 0
        BY <1>1, <1>2, <1>3, <1>4, <1>5, <1>7, <1>8, <1>9, <1>10 DEF WalkOK, EvTypeOK
    <2> QED BY <1>1, <1>2, <2>2, <2>3, <2>4 DEF WalkOK
<1>21. ClearOK'
    BY <1>1, <1>2, <1>3, <1>4, <1>5, <1>7, <1>8, <1>9, <1>10 DEF ClearOK, May, Over
<1> QED BY <1>11, <1>12, <1>13, <1>14, <1>15, <1>16, <1>17, <1>18, <1>19, <1>20, <1>21 DEF EvidenceInv

(***************************************************************************)
(* What BeginDestroySession and Close do to the jobs they mark killed: the *)
(* status changes and nothing else, and only jobs of this manager are      *)
(* marked.                                                                 *)
(***************************************************************************)
LEMMA KilledFacts ==
    ASSUME EvidenceInv, NEW S, \A k \in S : k \in Job /\ mem[cur][k].status = "running", mem' = KilledAll(S)
    PROVE  /\ mem' \in [Mgr -> [Job -> MemRec]]
           /\ \A m \in Mgr, k \in Job : m # cur \/ k \notin S => mem'[m][k] = mem[m][k]
           /\ \A k \in S : /\ home[k] = cur /\ mem'[cur][k].status = "killed"
                           /\ mem'[cur][k].done = mem[cur][k].done
                           /\ mem'[cur][k].evidence = mem[cur][k].evidence
                           /\ mem'[cur][k].committed = mem[cur][k].committed
<1>1. cur \in Mgr /\ mem \in [Mgr -> [Job -> MemRec]] /\ \A k \in Job : TombOK(k)
    BY DEF EvidenceInv, EvTypeOK, ManagersOK
<1>2. ASSUME NEW k \in S
      PROVE /\ [mem[cur][k] EXCEPT !.status = "killed"] \in MemRec
            /\ [mem[cur][k] EXCEPT !.status = "killed"].status = "killed"
            /\ [mem[cur][k] EXCEPT !.status = "killed"].done = mem[cur][k].done
            /\ [mem[cur][k] EXCEPT !.status = "killed"].evidence = mem[cur][k].evidence
            /\ [mem[cur][k] EXCEPT !.status = "killed"].committed = mem[cur][k].committed
    <2>1. mem[cur][k] \in MemRec
        BY <1>1
    <2> QED BY <2>1 DEF MemRec, Statuses, Terminal
<1>3. \A m \in Mgr, k \in Job :
         mem'[m][k] = IF m = cur /\ k \in S THEN [mem[cur][k] EXCEPT !.status = "killed"] ELSE mem[m][k]
    BY <1>1 DEF KilledAll
<1>4. mem' \in [Mgr -> [Job -> MemRec]]
    BY <1>1, <1>2, <1>3 DEF KilledAll
<1>5. \A k \in S : home[k] = cur
    BY <1>1 DEF TombOK, Unknown
<1>6. \A m \in Mgr, k \in Job : m # cur \/ k \notin S => mem'[m][k] = mem[m][k]
    BY <1>3
<1>7. \A k \in S : mem'[cur][k] = [mem[cur][k] EXCEPT !.status = "killed"]
    BY <1>1, <1>3
<1>8. ASSUME NEW k \in S
      PROVE  /\ home[k] = cur /\ mem'[cur][k].status = "killed" /\ mem'[cur][k].done = mem[cur][k].done
             /\ mem'[cur][k].evidence = mem[cur][k].evidence /\ mem'[cur][k].committed = mem[cur][k].committed
    BY <1>2, <1>5, <1>7
<1> QED BY <1>4, <1>6, <1>8

(***************************************************************************)
(* An empty record and an idle load are well formed.                       *)
(***************************************************************************)
LEMMA NoLoadType == NoMeta \in DiskRec /\ NoLoad \in LoadRec /\ NoLoad.found = {} /\ NoLoad.pc = "off"
<1>1. NoMeta \in DiskRec
    BY ScenarioAssumption DEF NoMeta, DiskRec, Statuses
<1> QED BY <1>1 DEF NoLoad, LoadRec

(***************************************************************************)
(* The same of the next state.                                             *)
(***************************************************************************)
LEMMA CurIsLastNext ==
    ASSUME NEW c \in Mgr, \A m \in Mgr : phase'[m] # "unused" <=> m <= c
    PROVE  cur' = c
<1>1. c \in Used' /\ \A n \in Used' : n <= c
    BY DEF Used, Mgr
<1>2. \A d \in Used' : (\A n \in Used' : n <= d) => d = c
    BY <1>1 DEF Used, Mgr
<1> QED BY <1>1, <1>2 DEF cur

(***************************************************************************)
(* BeginDestroySession takes every job still at work as a target, if no    *)
(* earlier manager can have one.                                           *)
(***************************************************************************)
LEMMA BeginDestroySaves ==
    ASSUME EvidenceInv, BeginDestroy
    PROVE  EvidenceInv'
<1>1. /\ EvTypeOK /\ ManagersOK /\ TurnOK /\ WalkOK /\ ClearOK
      /\ \A k \in Job : StepOK(k) /\ HomeOK(k) /\ TombOK(k) /\ CommittedOK(k) /\ FileOK(k) /\ LeaseOK(k)
    BY DEF EvidenceInv
<1>2. /\ turn = "idle" /\ Open /\ May("destroy") /\ destroying.pc = "no" /\ load.pc \in {"loaded", "partial"}
      /\ cancelled' = cancelled \cup {j \in Job : mem[cur][j].status = "running"}
      /\ destroying' = [pc |-> "begun", targets |-> {j \in Job : mem[cur][j].status \in {"running", "killed"}}]
      /\ scenario' = scenario /\ phase' = phase /\ home' = home /\ step' = step /\ fin' = fin
      /\ disk' = disk /\ load' = load /\ turn' = turn /\ leases' = leases /\ merged' = merged
      /\ mutated' = mutated /\ saved' = saved /\ reviewed' = reviewed /\ staleRepair' = staleRepair
    BY <1>1 DEF BeginDestroy, svars, jvars, others, others2, others3, work, ledger, history
<1>3. cur' = cur
    BY <1>2, SameCur
<1> DEFINE S == {k \in Job : mem[cur][k].status = "running"}
<1>4. mem' = KilledAll(S)
    BY DEF BeginDestroy, Unfinished
<1>5. /\ mem' \in [Mgr -> [Job -> MemRec]]
      /\ \A m \in Mgr, k \in Job : m # cur \/ k \notin S => mem'[m][k] = mem[m][k]
      /\ \A k \in S : /\ home[k] = cur /\ mem'[cur][k].status = "killed"
                      /\ mem'[cur][k].done = mem[cur][k].done
                      /\ mem'[cur][k].evidence = mem[cur][k].evidence
                      /\ mem'[cur][k].committed = mem[cur][k].committed
    BY <1>4, KilledFacts
<1>6. EvTypeOK'
    BY <1>1, <1>2, <1>3, <1>5 DEF EvTypeOK, DestroyRec
<1>7. ManagersOK'
    BY <1>1, <1>2, <1>3, <1>5 DEF ManagersOK, May
<1>8. TurnOK'
    BY <1>1, <1>2, <1>3, <1>5 DEF TurnOK, Walking, Open, May
<1>9. ASSUME NEW k \in Job PROVE StepOK(k)'
    BY <1>1, <1>2, <1>3, <1>5 DEF StepOK, Quiet, Ended, Early, Late, Mgr
<1>10. ASSUME NEW k \in Job PROVE HomeOK(k)'
    <2>1. CASE k \in S
        <3>1. /\ home[k] = cur /\ mem'[cur][k].status = "killed" /\ mem'[cur][k].done = mem[cur][k].done
              /\ mem'[cur][k].evidence = mem[cur][k].evidence
                 /\ mem'[cur][k].committed = mem[cur][k].committed
              /\ mem[cur][k].status = "running" /\ \A m \in Mgr : m # cur => mem'[m][k] = mem[m][k]
            BY <1>5, <2>1
        <3> HIDE DEF S
        <3> QED BY <1>1, <1>2, <1>3, <3>1 DEF HomeOK, Kept, Early, Late, StepOK
    <2>2. CASE k \notin S
        <3>1. \A m \in Mgr : mem'[m][k] = mem[m][k]
            BY <1>5, <2>2
        <3> HIDE DEF S
        <3> QED BY <1>1, <1>2, <1>3, <3>1 DEF HomeOK, Kept, Early, Late, StepOK
    <2> QED BY <2>1, <2>2
<1>11. ASSUME NEW k \in Job PROVE TombOK(k)'
    <2>1. CASE k \in S
        <3>1. /\ home[k] = cur /\ mem'[cur][k].status = "killed" /\ mem'[cur][k].done = mem[cur][k].done
              /\ mem'[cur][k].evidence = mem[cur][k].evidence
                 /\ mem'[cur][k].committed = mem[cur][k].committed
              /\ mem[cur][k].status = "running" /\ \A m \in Mgr : m # cur => mem'[m][k] = mem[m][k]
            BY <1>5, <2>1
        <3> HIDE DEF S
        <3> QED BY <1>1, <1>2, <1>3, <3>1 DEF TombOK, Fixed, Quiet, Ended, Sound
    <2>2. CASE k \notin S
        <3>1. \A m \in Mgr : mem'[m][k] = mem[m][k]
            BY <1>5, <2>2
        <3> HIDE DEF S
        <3> QED BY <1>1, <1>2, <1>3, <3>1 DEF TombOK, Fixed, Quiet, Ended, Sound
    <2> QED BY <2>1, <2>2
<1>12. ASSUME NEW k \in Job PROVE CommittedOK(k)'
    BY <1>1, <1>2, <1>3, <1>5 DEF CommittedOK, Sound
<1>13. ASSUME NEW k \in Job PROVE FileOK(k)'
    BY <1>1, <1>2, <1>3, <1>5 DEF FileOK, Kept, Fixed, Quiet, Ended, Sound
<1>14. ASSUME NEW k \in Job PROVE LeaseOK(k)'
    BY <1>1, <1>2, <1>3, <1>5 DEF LeaseOK, TurnOK
<1>15. WalkOK'
    BY <1>1, <1>2, <1>3, <1>5 DEF WalkOK, Walking, Fixed, Quiet, Ended, Sound, TurnOK
<1>16. ClearOK'
    BY <1>1, <1>2, <1>3, <1>5
    DEF ClearOK, May, Over, StepOK, HomeOK, Kept, ManagersOK, Early, Late, Ended, GoSteps, EvTypeOK,
        Phases, Mgr
<1> QED BY <1>6, <1>7, <1>8, <1>9, <1>10, <1>11, <1>12, <1>13, <1>14, <1>15, <1>16 DEF EvidenceInv

(***************************************************************************)
(* Closing a manager cancels all its jobs, those it has registered and not *)
(* yet started too.                                                        *)
(***************************************************************************)
LEMMA CloseSaves ==
    ASSUME EvidenceInv, Close
    PROVE  EvidenceInv'
<1>1. /\ EvTypeOK /\ ManagersOK /\ TurnOK /\ WalkOK /\ ClearOK
      /\ \A k \in Job : StepOK(k) /\ HomeOK(k) /\ TombOK(k) /\ CommittedOK(k) /\ FileOK(k) /\ LeaseOK(k)
    BY DEF EvidenceInv
<1>2. /\ Open /\ May("close") /\ destroying.pc = "no" /\ load.pc \in {"loaded", "partial"}
      /\ phase' = [phase EXCEPT ![cur] = "closing"]
      /\ cancelled' = cancelled \cup Mine
      /\ turn' = (IF turn = "idle" THEN "idle" ELSE "stopping")
      /\ scenario' = scenario /\ home' = home /\ step' = step /\ fin' = fin /\ disk' = disk
      /\ destroying' = destroying /\ load' = load /\ leases' = leases /\ merged' = merged
         /\ mutated' = mutated
      /\ saved' = saved /\ reviewed' = reviewed /\ staleRepair' = staleRepair
    BY <1>1 DEF Close, svars, jvars, others, others2, others3, work, ledger, history
<1>3. cur' = cur
    BY <1>1, <1>2, CurIsLastNext DEF ManagersOK, EvTypeOK, Open
<1>4. \A m \in Mgr : phase'[m] = IF m = cur THEN "closing" ELSE phase[m]
    BY <1>1, <1>2 DEF EvTypeOK
<1> DEFINE S == {k \in Job : mem[cur][k].status = "running" /\ ~mem[cur][k].done}
<1>5. mem' = KilledAll(S)
    BY DEF Close, KilledAll, Unfinished
<1>6. /\ mem' \in [Mgr -> [Job -> MemRec]]
      /\ \A m \in Mgr, k \in Job : m # cur \/ k \notin S => mem'[m][k] = mem[m][k]
      /\ \A k \in S : /\ home[k] = cur /\ mem'[cur][k].status = "killed"
                      /\ mem'[cur][k].done = mem[cur][k].done
                      /\ mem'[cur][k].evidence = mem[cur][k].evidence
                      /\ mem'[cur][k].committed = mem[cur][k].committed
    BY <1>5, KilledFacts
<1>7. EvTypeOK'
    BY <1>1, <1>2, <1>3, <1>4, <1>6 DEF EvTypeOK, Phases, Mine, Turns
<1>8. ManagersOK'
    <2> HIDE DEF S
    <2> QED BY <1>1, <1>2, <1>3, <1>4 DEF ManagersOK, May, Mgr
<1>9. TurnOK'
    BY <1>1, <1>2, <1>3, <1>4, <1>6 DEF TurnOK, Walking, Open, May, EvTypeOK
<1>10. ASSUME NEW k \in Job PROVE StepOK(k)'
    <2>1. StepOK(k) /\ cancelled \subseteq cancelled' /\ phase[cur] = "open"
        BY <1>1, <1>2, <1>3, <1>4, <1>6 DEF Open
    <2>2. CASE home[k] = cur
        <3>1. k \in cancelled' /\ phase'[home[k]] = "closing" /\ home[k] \in Mgr
            BY <1>1, <1>2, <1>4, <2>2 DEF Mine, ManagersOK
        <3>2. step[k] = "registered" => turn' \notin {"idle", "commit"}
            BY <1>2, <2>1 DEF StepOK
        <3> QED BY <1>2, <1>3, <2>1, <2>2, <3>1, <3>2 DEF StepOK, Quiet, Ended, Early, Late
    <2>3. CASE home[k] # cur
        <3>1. home[k] # 0 => phase'[home[k]] = phase[home[k]]
            BY <1>4, <2>1, <2>3 DEF StepOK
        <3> QED BY <1>2, <1>3, <2>1, <2>3, <3>1 DEF StepOK, Quiet, Ended, Early, Late
    <2> QED BY <2>2, <2>3
<1>11. ASSUME NEW k \in Job PROVE HomeOK(k)'
    <2>1. CASE k \in S
        <3>1. /\ home[k] = cur /\ mem'[cur][k].status = "killed" /\ mem'[cur][k].done = mem[cur][k].done
              /\ mem'[cur][k].evidence = mem[cur][k].evidence
                 /\ mem'[cur][k].committed = mem[cur][k].committed
              /\ mem[cur][k].status = "running" /\ \A m \in Mgr : m # cur => mem'[m][k] = mem[m][k]
            BY <1>6, <2>1
        <3> HIDE DEF S
        <3> QED BY <1>1, <1>2, <1>3, <3>1 DEF HomeOK, Kept, Early, Late, StepOK
    <2>2. CASE k \notin S
        <3>1. \A m \in Mgr : mem'[m][k] = mem[m][k]
            BY <1>6, <2>2
        <3> HIDE DEF S
        <3> QED BY <1>1, <1>2, <1>3, <3>1 DEF HomeOK, Kept, Early, Late, StepOK
    <2> QED BY <2>1, <2>2
<1>12. ASSUME NEW k \in Job PROVE TombOK(k)'
    <2>1. CASE k \in S
        <3>1. /\ home[k] = cur /\ mem'[cur][k].status = "killed" /\ mem'[cur][k].done = mem[cur][k].done
              /\ mem'[cur][k].evidence = mem[cur][k].evidence
                 /\ mem'[cur][k].committed = mem[cur][k].committed
              /\ mem[cur][k].status = "running" /\ \A m \in Mgr : m # cur => mem'[m][k] = mem[m][k]
            BY <1>6, <2>1
        <3> HIDE DEF S
        <3> QED BY <1>1, <1>2, <1>3, <3>1 DEF TombOK, Fixed, Quiet, Ended, Sound
    <2>2. CASE k \notin S
        <3>1. \A m \in Mgr : mem'[m][k] = mem[m][k]
            BY <1>6, <2>2
        <3> HIDE DEF S
        <3> QED BY <1>1, <1>2, <1>3, <3>1 DEF TombOK, Fixed, Quiet, Ended, Sound
    <2> QED BY <2>1, <2>2
<1>13. ASSUME NEW k \in Job PROVE CommittedOK(k)'
    <2>1. CASE k \in S
        <3>1. /\ home[k] = cur /\ mem'[cur][k].status = "killed" /\ mem'[cur][k].done = mem[cur][k].done
              /\ mem'[cur][k].evidence = mem[cur][k].evidence
                 /\ mem'[cur][k].committed = mem[cur][k].committed
              /\ mem[cur][k].status = "running" /\ \A m \in Mgr : m # cur => mem'[m][k] = mem[m][k]
            BY <1>6, <2>1
        <3> HIDE DEF S
        <3> QED BY <1>1, <1>2, <1>3, <3>1 DEF CommittedOK, Sound
    <2>2. CASE k \notin S
        <3>1. \A m \in Mgr : mem'[m][k] = mem[m][k]
            BY <1>6, <2>2
        <3> HIDE DEF S
        <3> QED BY <1>1, <1>2, <1>3, <3>1 DEF CommittedOK, Sound
    <2> QED BY <2>1, <2>2
<1>14. ASSUME NEW k \in Job PROVE FileOK(k)'
    BY <1>1, <1>2, <1>3, <1>4, <1>6 DEF FileOK, Kept, Fixed, Quiet, Ended, Sound
<1>15. ASSUME NEW k \in Job PROVE LeaseOK(k)'
    <2>1. CASE k \in S
        <3>1. /\ home[k] = cur /\ mem'[cur][k].status = "killed" /\ mem'[cur][k].done = mem[cur][k].done
              /\ mem'[cur][k].evidence = mem[cur][k].evidence
                 /\ mem'[cur][k].committed = mem[cur][k].committed
              /\ mem[cur][k].status = "running" /\ \A m \in Mgr : m # cur => mem'[m][k] = mem[m][k]
            BY <1>6, <2>1
        <3> HIDE DEF S
        <3> QED BY <1>1, <1>2, <1>3, <3>1 DEF LeaseOK, ManagersOK
    <2>2. CASE k \notin S
        <3>1. \A m \in Mgr : mem'[m][k] = mem[m][k]
            BY <1>6, <2>2
        <3> HIDE DEF S
        <3> QED BY <1>1, <1>2, <1>3, <3>1 DEF LeaseOK, ManagersOK
    <2> QED BY <2>1, <2>2
<1>16. WalkOK'
    BY <1>1, <1>2, <1>3, <1>4, <1>6 DEF WalkOK, Walking, Fixed, Quiet, Ended, Sound, TurnOK
<1>17. ClearOK'
    BY <1>1, <1>2, <1>3, <1>4, <1>6 DEF ClearOK, May, Over, May
<1> QED BY <1>7, <1>8, <1>9, <1>10, <1>11, <1>12, <1>13, <1>14, <1>15, <1>16, <1>17 DEF EvidenceInv

(***************************************************************************)
(* A manager gives up its ownership when its goroutines are over; the      *)
(* registered job it did not count is cancelled and will do no work.       *)
(***************************************************************************)
LEMMA ReleaseOwnerSaves ==
    ASSUME EvidenceInv, NEW m \in Mgr, ReleaseOwner(m)
    PROVE  EvidenceInv'
<1>1. /\ EvTypeOK /\ ManagersOK /\ TurnOK /\ WalkOK /\ ClearOK
      /\ \A k \in Job : StepOK(k) /\ HomeOK(k) /\ TombOK(k) /\ CommittedOK(k) /\ FileOK(k) /\ LeaseOK(k)
    BY DEF EvidenceInv
<1>2. /\ phase[m] = "closing"
      /\ \A k \in Job : home[k] = m => step[k] \in {"registered"} \cup Ended
      /\ phase' = [phase EXCEPT ![m] = "released"]
      /\ scenario' = scenario /\ home' = home /\ step' = step /\ cancelled' = cancelled /\ fin' = fin
      /\ mem' = mem /\ disk' = disk /\ destroying' = destroying /\ load' = load /\ turn' = turn
      /\ leases' = leases /\ merged' = merged /\ mutated' = mutated /\ saved' = saved /\ reviewed' = reviewed
      /\ staleRepair' = staleRepair
    BY <1>1 DEF ReleaseOwner, svars, jvars, others, others2, others3, work, ledger, history
<1>3. cur' = cur
    BY <1>1, <1>2, CurIsLastNext DEF ManagersOK, EvTypeOK
<1>4. EvTypeOK'
    BY <1>1, <1>2, <1>3 DEF EvTypeOK, Phases
<1>5. ManagersOK'
    BY <1>1, <1>2, <1>3 DEF ManagersOK, May, EvTypeOK
<1>6. TurnOK'
    BY <1>1, <1>2, <1>3 DEF TurnOK, Walking, Open, May, EvTypeOK, ManagersOK
<1>7. ASSUME NEW k \in Job PROVE StepOK(k)'
    BY <1>1, <1>2, <1>3 DEF StepOK, Quiet, Ended, Early, Late, Mgr, EvTypeOK, ManagersOK
<1>8. ASSUME NEW k \in Job PROVE HomeOK(k)'
    BY <1>1, <1>2, <1>3 DEF HomeOK, Kept, Early, Late
<1>9. ASSUME NEW k \in Job PROVE TombOK(k)'
    BY <1>1, <1>2, <1>3 DEF TombOK, Fixed, Quiet, Ended, Sound
<1>10. ASSUME NEW k \in Job PROVE CommittedOK(k)'
    BY <1>1, <1>2, <1>3 DEF CommittedOK, Sound
<1>11. ASSUME NEW k \in Job PROVE FileOK(k)'
    BY <1>1, <1>2, <1>3 DEF FileOK, Kept, Fixed, Quiet, Ended, Sound
<1>12. ASSUME NEW k \in Job PROVE LeaseOK(k)'
    BY <1>1, <1>2, <1>3 DEF LeaseOK
<1>13. WalkOK'
    BY <1>1, <1>2, <1>3 DEF WalkOK, Walking, Fixed, Quiet, Ended, Sound
<1>14. ClearOK'
    BY <1>1, <1>2, <1>3 DEF ClearOK, May, Over
<1> QED BY <1>4, <1>5, <1>6, <1>7, <1>8, <1>9, <1>10, <1>11, <1>12, <1>13, <1>14 DEF EvidenceInv

(***************************************************************************)
(* A crash ends every goroutine: no record follows.                        *)
(***************************************************************************)
LEMMA CrashSaves ==
    ASSUME EvidenceInv, Crash
    PROVE  EvidenceInv'
<1>1. /\ EvTypeOK /\ ManagersOK /\ TurnOK /\ WalkOK /\ ClearOK
      /\ \A k \in Job : StepOK(k) /\ HomeOK(k) /\ TombOK(k) /\ CommittedOK(k) /\ FileOK(k) /\ LeaseOK(k)
    BY DEF EvidenceInv
<1>2. /\ Open /\ destroying.pc = "no"
      /\ \A m \in Mgr : phase'[m] = IF m <= cur THEN "dead" ELSE "unused"
      /\ \A k \in Job : step'[k] = IF step[k] \in {"none", "ended"} THEN step[k] ELSE "lost"
      /\ phase' \in [Mgr -> Phases]
      /\ step' \in [Job -> GoSteps]
      /\ load' = NoLoad
      /\ turn' = "idle"
      /\ leases' = {}
      /\ merged' = {}
      /\ scenario' = scenario /\ home' = home /\ cancelled' = cancelled /\ fin' = fin /\ mem' = mem
      /\ disk' = disk /\ destroying' = destroying /\ mutated' = mutated /\ saved' = saved
         /\ reviewed' = reviewed
      /\ staleRepair' = staleRepair
    BY <1>1
    DEF Crash, ManagersOK, Used, Phases, GoSteps, EvTypeOK, svars, jvars, others, others2, others3, work,
        ledger, history
<1>3. cur' = cur
    BY <1>1, <1>2, CurIsLastNext DEF ManagersOK, EvTypeOK
<1>4. EvTypeOK'
    BY <1>1, <1>2, <1>3, NoLoadType DEF EvTypeOK, Turns
<1>5. ManagersOK'
    BY <1>1, <1>2, <1>3 DEF ManagersOK, May, Mgr
<1>6. TurnOK'
    BY <1>1, <1>2, <1>3 DEF TurnOK, Walking, Open, May, NoLoad
<1>7. ASSUME NEW k \in Job PROVE StepOK(k)'
    BY <1>1, <1>2, <1>3 DEF StepOK, Quiet, Ended, Early, Late, Mgr, EvTypeOK, GoSteps
<1>8. ASSUME NEW k \in Job PROVE HomeOK(k)'
    BY <1>1, <1>2, <1>3 DEF HomeOK, Kept, Early, Late
<1>9. ASSUME NEW k \in Job PROVE TombOK(k)'
    BY <1>1, <1>2, <1>3 DEF TombOK, Fixed, Quiet, Ended, Sound, StepOK
<1>10. ASSUME NEW k \in Job PROVE CommittedOK(k)'
    BY <1>1, <1>2, <1>3 DEF CommittedOK, Sound
<1>11. ASSUME NEW k \in Job PROVE FileOK(k)'
    BY <1>1, <1>2, <1>3 DEF FileOK, Kept, Fixed, Quiet, Ended, Sound, StepOK
<1>12. ASSUME NEW k \in Job PROVE LeaseOK(k)'
    BY <1>1, <1>2, <1>3 DEF LeaseOK
<1>13. WalkOK'
    BY <1>1, <1>2, <1>3 DEF WalkOK, Walking, Fixed, Quiet, Ended, Sound, NoLoad
<1>14. ClearOK'
    BY <1>1, <1>2, <1>3 DEF ClearOK, May, Over
<1> QED BY <1>4, <1>5, <1>6, <1>7, <1>8, <1>9, <1>10, <1>11, <1>12, <1>13, <1>14 DEF EvidenceInv

(***************************************************************************)
(* The next manager knows no job of the session; it becomes the last one   *)
(* opened.                                                                 *)
(***************************************************************************)
LEMMA NewManagerSaves ==
    ASSUME EvidenceInv, NewManager
    PROVE  EvidenceInv'
<1>1. /\ EvTypeOK /\ ManagersOK /\ TurnOK /\ WalkOK /\ ClearOK
      /\ \A k \in Job : StepOK(k) /\ HomeOK(k) /\ TombOK(k) /\ CommittedOK(k) /\ FileOK(k) /\ LeaseOK(k)
    BY DEF EvidenceInv
<1>2. /\ ~Open /\ turn = "idle" /\ cur < MaxManagers
      /\ \A m \in Mgr : phase'[m] = IF m = cur + 1 THEN "open" ELSE phase[m]
      /\ phase' \in [Mgr -> Phases]
      /\ scenario' = scenario /\ home' = home /\ step' = step /\ cancelled' = cancelled /\ fin' = fin
      /\ mem' = mem /\ disk' = disk /\ destroying' = destroying /\ turn' = turn /\ leases' = leases
      /\ merged' = merged /\ mutated' = mutated /\ saved' = saved /\ reviewed' = reviewed
         /\ staleRepair' = staleRepair
    BY <1>1 DEF NewManager, EvTypeOK, Phases, svars, jvars, others, others2, others3, work, ledger, history
<1>3. cur' = cur + 1
    <2>1. cur \in Mgr /\ cur + 1 \in Mgr
        BY <1>1, <1>2, ScenarioAssumption DEF ManagersOK, Mgr
    <2>2. \A m \in Mgr : phase'[m] # "unused" <=> m <= cur + 1
        BY <1>1, <1>2, <2>1 DEF ManagersOK, Mgr
    <2> HIDE DEF cur
    <2> QED BY <2>1, <2>2, CurIsLastNext
<1>4. /\ load'.pc \in {"walk", "loaded"} /\ (load'.pc = "walk" => load'.todo = OnDisk)
      /\ load'.found = {} /\ load' \in LoadRec
    <2>1. \/ load' = [NoLoad EXCEPT !.pc = "walk", !.todo = OnDisk]
          \/ load' = [NoLoad EXCEPT !.pc = "loaded"]
        BY DEF NewManager, ListRecords
    <2> QED BY <2>1, NoLoadType DEF OnDisk, LoadRec
<1>5. EvTypeOK'
    BY <1>1, <1>2, <1>3, <1>4 DEF EvTypeOK, Phases
<1>6. ManagersOK'
    BY <1>1, <1>2, <1>3, <1>4, ScenarioAssumption DEF ManagersOK, May, Mgr, Open
<1>7. TurnOK'
    BY <1>1, <1>2, <1>3, <1>4 DEF TurnOK, Walking, Open, May, NoLoad, Mgr, ManagersOK, DestroyRec, EvTypeOK
<1>8. ASSUME NEW k \in Job PROVE StepOK(k)'
    BY <1>1, <1>2, <1>3, <1>4 DEF StepOK, Quiet, Ended, Early, Late, Mgr, ManagersOK
<1>9. ASSUME NEW k \in Job PROVE HomeOK(k)'
    BY <1>1, <1>2, <1>3, <1>4 DEF HomeOK, Kept, Early, Late
<1>10. ASSUME NEW k \in Job PROVE TombOK(k)'
    BY <1>1, <1>2, <1>3, <1>4 DEF TombOK, Fixed, Quiet, Ended, Sound
<1>11. ASSUME NEW k \in Job PROVE CommittedOK(k)'
    BY <1>1, <1>2, <1>3, <1>4 DEF CommittedOK, Sound
<1>12. ASSUME NEW k \in Job PROVE FileOK(k)'
    BY <1>1, <1>2, <1>3, <1>4 DEF FileOK, Kept, Fixed, Quiet, Ended, Sound
<1>13. ASSUME NEW k \in Job PROVE LeaseOK(k)'
    BY <1>1, <1>2, <1>3, <1>4 DEF LeaseOK, TurnOK
<1>14. WalkOK'
    BY <1>1, <1>2, <1>3, <1>4 DEF WalkOK, Walking, Fixed, Quiet, Ended, Sound, NoLoad, OnDisk
<1>15. ClearOK'
    BY <1>1, <1>2, <1>3, <1>4 DEF ClearOK, May, Over, TurnOK, Open
<1> QED BY <1>5, <1>6, <1>7, <1>8, <1>9, <1>10, <1>11, <1>12, <1>13, <1>14, <1>15 DEF EvidenceInv

(***************************************************************************)
(* A later bind walks the records again.                                   *)
(***************************************************************************)
LEMMA RebindSaves ==
    ASSUME EvidenceInv, Rebind
    PROVE  EvidenceInv'
<1>1. /\ EvTypeOK /\ ManagersOK /\ TurnOK /\ WalkOK /\ ClearOK
      /\ \A k \in Job : StepOK(k) /\ HomeOK(k) /\ TombOK(k) /\ CommittedOK(k) /\ FileOK(k) /\ LeaseOK(k)
    BY DEF EvidenceInv
<1>2. /\ Open /\ turn = "idle" /\ destroying.pc = "no"
      /\ scenario' = scenario /\ phase' = phase /\ home' = home /\ step' = step /\ cancelled' = cancelled
      /\ fin' = fin /\ mem' = mem /\ disk' = disk /\ destroying' = destroying /\ turn' = turn
      /\ leases' = leases /\ merged' = merged /\ mutated' = mutated /\ saved' = saved /\ reviewed' = reviewed
      /\ staleRepair' = staleRepair
    BY <1>1 DEF Rebind, svars, jvars, others, others2, others3, work, ledger, history
<1>3. cur' = cur
    BY <1>2, SameCur
<1>4. /\ load'.pc \in {"walk", "loaded"} /\ (load'.pc = "walk" => load'.todo = OnDisk)
      /\ load'.found = {} /\ load' \in LoadRec
    BY NoLoadType DEF Rebind, ListRecords, OnDisk, LoadRec
<1>5. EvTypeOK'
    BY <1>1, <1>2, <1>3, <1>4 DEF EvTypeOK, Phases
<1>6. ManagersOK'
    BY <1>1, <1>2, <1>3, <1>4 DEF ManagersOK, May
<1>7. TurnOK'
    BY <1>1, <1>2, <1>3, <1>4 DEF TurnOK, Walking, Open, May
<1>8. ASSUME NEW k \in Job PROVE StepOK(k)'
    BY <1>1, <1>2, <1>3, <1>4 DEF StepOK, Quiet, Ended, Early, Late
<1>9. ASSUME NEW k \in Job PROVE HomeOK(k)'
    BY <1>1, <1>2, <1>3, <1>4 DEF HomeOK, Kept, Early, Late
<1>10. ASSUME NEW k \in Job PROVE TombOK(k)'
    BY <1>1, <1>2, <1>3, <1>4 DEF TombOK, Fixed, Quiet, Ended, Sound
<1>11. ASSUME NEW k \in Job PROVE CommittedOK(k)'
    BY <1>1, <1>2, <1>3, <1>4 DEF CommittedOK, Sound
<1>12. ASSUME NEW k \in Job PROVE FileOK(k)'
    BY <1>1, <1>2, <1>3, <1>4 DEF FileOK, Kept, Fixed, Quiet, Ended, Sound
<1>13. ASSUME NEW k \in Job PROVE LeaseOK(k)'
    BY <1>1, <1>2, <1>3, <1>4 DEF LeaseOK
<1>14. WalkOK'
    BY <1>1, <1>2, <1>3, <1>4 DEF WalkOK, Walking, Fixed, Quiet, Ended, Sound, OnDisk
<1>15. ClearOK'
    BY <1>1, <1>2, <1>3, <1>4 DEF ClearOK, May, Over
<1> QED BY <1>5, <1>6, <1>7, <1>8, <1>9, <1>10, <1>11, <1>12, <1>13, <1>14, <1>15 DEF EvidenceInv

(***************************************************************************)
(* What reading one record does to the walk: put aside, believed, skipped. *)
(***************************************************************************)
LEMMA RecordIsRead ==
    ASSUME EvTypeOK, NEW j \in Job, ReadRecord(j)
    PROVE  /\ load' \in LoadRec /\ load'.todo = load.todo \ {j} /\ load'.deferred = load.deferred
           /\ \/ /\ disk[j].status = "running"
                 /\ load'.pc = "judge" /\ load'.job = j /\ load'.snap = disk[j] /\ load'.found = load.found
                 /\ missed' = missed
              \/ /\ disk[j].status # "running"
                 /\ load'.pc = "walk" /\ load'.found = load.found \cup {<<j, disk[j]>>}
                 /\ missed' = missed
              \/ /\ load'.pc = "walk" /\ load'.found = load.found
                 /\ missed' = missed \cup ({j} \cap Untold(cur))
<1>1. load \in LoadRec /\ disk[j] \in DiskRec /\ <<j, disk[j]>> \in Job \X DiskRec /\ load.pc = "walk"
    BY DEF EvTypeOK, ReadRecord
<1>2. CASE /\ disk[j].status = "running" /\ missed' = missed
           /\ load' = [load EXCEPT !.pc = "judge", !.todo = @ \ {j}, !.job = j, !.snap = disk[j]]
    <2>1. load' \in LoadRec
        BY <1>1, <1>2 DEF LoadRec
    <2> QED BY <1>1, <1>2, <2>1 DEF LoadRec
<1>3. CASE /\ disk[j].status # "running" /\ missed' = missed
           /\ load' = [load EXCEPT !.todo = @ \ {j}, !.found = @ \cup {<<j, disk[j]>>}]
    <2>1. load' \in LoadRec
        BY <1>1, <1>3 DEF LoadRec
    <2> QED BY <1>1, <1>3, <2>1 DEF LoadRec
<1>4. CASE /\ missed' = missed \cup ({j} \cap Untold(cur))
           /\ load' = [load EXCEPT !.todo = @ \ {j}]
    <2>1. load' \in LoadRec
        BY <1>1, <1>4 DEF LoadRec
    <2> QED BY <1>1, <1>4, <2>1 DEF LoadRec
<1> QED BY <1>2, <1>3, <1>4 DEF ReadRecord

(***************************************************************************)
(* The walk believes a record of a job's end, and puts one that says       *)
(* running aside to look at its owner.                                     *)
(***************************************************************************)
LEMMA ReadRecordSaves ==
    ASSUME EvidenceInv, NEW j \in Job, ReadRecord(j)
    PROVE  EvidenceInv'
<1>1. /\ EvTypeOK /\ ManagersOK /\ TurnOK /\ WalkOK /\ ClearOK
      /\ \A k \in Job : StepOK(k) /\ HomeOK(k) /\ TombOK(k) /\ CommittedOK(k) /\ FileOK(k) /\ LeaseOK(k)
    BY DEF EvidenceInv
<1>2. /\ load.pc = "walk" /\ j \in load.todo
      /\ scenario' = scenario /\ phase' = phase /\ home' = home /\ step' = step /\ cancelled' = cancelled
      /\ fin' = fin /\ mem' = mem /\ disk' = disk /\ destroying' = destroying /\ turn' = turn
      /\ leases' = leases /\ merged' = merged /\ mutated' = mutated /\ saved' = saved /\ reviewed' = reviewed
      /\ staleRepair' = staleRepair
    BY <1>1 DEF ReadRecord, svars, jvars, others, others2, others3, work, ledger, history
<1>3. cur' = cur
    BY <1>2, SameCur
<1>4. /\ load' \in LoadRec /\ load'.todo = load.todo \ {j}
      /\ \/ /\ disk[j].status = "running"
            /\ load'.pc = "judge" /\ load'.job = j /\ load'.snap = disk[j] /\ load'.found = load.found
         \/ /\ disk[j].status # "running"
            /\ load'.pc = "walk" /\ load'.found = load.found \cup {<<j, disk[j]>>}
         \/ load'.pc = "walk" /\ load'.found = load.found
    BY <1>1, <1>2, RecordIsRead
<1>5. EvTypeOK'
    BY <1>1, <1>2, <1>3, <1>4 DEF EvTypeOK
<1>6. ManagersOK'
    BY <1>1, <1>2, <1>3, <1>4 DEF ManagersOK, May
<1>7. TurnOK'
    BY <1>1, <1>2, <1>3, <1>4 DEF TurnOK, Walking, Open, May
<1>8. ASSUME NEW k \in Job PROVE StepOK(k)'
    BY <1>1, <1>2, <1>3, <1>4 DEF StepOK, Quiet, Ended, Early, Late
<1>9. ASSUME NEW k \in Job PROVE HomeOK(k)'
    BY <1>1, <1>2, <1>3, <1>4 DEF HomeOK, Kept, Early, Late
<1>10. ASSUME NEW k \in Job PROVE TombOK(k)'
    BY <1>1, <1>2, <1>3, <1>4 DEF TombOK, Fixed, Quiet, Ended, Sound
<1>11. ASSUME NEW k \in Job PROVE CommittedOK(k)'
    BY <1>1, <1>2, <1>3, <1>4 DEF CommittedOK, Sound
<1>12. ASSUME NEW k \in Job PROVE FileOK(k)'
    BY <1>1, <1>2, <1>3, <1>4 DEF FileOK, Kept, Fixed, Quiet, Ended, Sound
<1>13. ASSUME NEW k \in Job PROVE LeaseOK(k)'
    BY <1>1, <1>2, <1>3, <1>4 DEF LeaseOK
<1>14. WalkOK'
    <2>1. destroying.pc = "no" /\ FileOK(j) /\ StepOK(j) /\ disk[j].status # "none"
        BY <1>1, <1>2 DEF TurnOK, Walking, WalkOK
    <2>2. CASE disk[j].status = "running" /\ load'.pc = "judge"
        BY <1>1, <1>2, <1>3, <1>4, <2>1, <2>2 DEF WalkOK, Walking, Fixed, Quiet, Ended, Sound, FileOK, StepOK
    <2>4. CASE load'.pc = "walk" /\ load'.found = load.found
        BY <1>1, <1>2, <1>3, <1>4, <2>4 DEF WalkOK, Walking, Fixed, Quiet, Ended, Sound
    <2>3. CASE disk[j].status # "running" /\ load'.pc = "walk" /\ load'.found = load.found \cup {<<j, disk[j]>>}
        <3>1. Fixed(j) /\ Sound(j, disk[j].evidence) /\ step[j] # "none"
            BY <2>1, <2>3 DEF FileOK, Kept
        <3> QED BY <1>1, <1>2, <1>3, <1>4, <2>1, <2>3, <3>1 DEF WalkOK, Walking, Fixed, Quiet, Ended, Sound
    <2> QED BY <1>4, <2>2, <2>3, <2>4
<1>15. ClearOK'
    BY <1>1, <1>2, <1>3, <1>4 DEF ClearOK, May, Over
<1> QED BY <1>5, <1>6, <1>7, <1>8, <1>9, <1>10, <1>11, <1>12, <1>13, <1>14, <1>15 DEF EvidenceInv

(***************************************************************************)
(* A record left for a later bind.                                         *)
(***************************************************************************)
LEMMA DeferRecordSaves ==
    ASSUME EvidenceInv, DeferRecord
    PROVE  EvidenceInv'
<1>1. /\ EvTypeOK /\ ManagersOK /\ TurnOK /\ WalkOK /\ ClearOK
      /\ \A k \in Job : StepOK(k) /\ HomeOK(k) /\ TombOK(k) /\ CommittedOK(k) /\ FileOK(k) /\ LeaseOK(k)
    BY DEF EvidenceInv
<1>2. /\ load.pc = "judge"
      /\ scenario' = scenario /\ phase' = phase /\ home' = home /\ step' = step /\ cancelled' = cancelled
      /\ fin' = fin /\ mem' = mem /\ disk' = disk /\ destroying' = destroying /\ turn' = turn
      /\ leases' = leases /\ merged' = merged /\ mutated' = mutated /\ saved' = saved /\ reviewed' = reviewed
      /\ staleRepair' = staleRepair
    BY <1>1 DEF DeferRecord, svars, jvars, others, others2, others3, work, ledger, history
<1>3. cur' = cur
    BY <1>2, SameCur
<1>4. load' \in LoadRec /\ load'.todo = load.todo /\ load'.pc = "walk" /\ load'.found = load.found
    BY <1>1, NoLoadType DEF DeferRecord, EvTypeOK, LoadRec
<1>5. EvTypeOK'
    BY <1>1, <1>2, <1>3, <1>4 DEF EvTypeOK
<1>6. ManagersOK'
    BY <1>1, <1>2, <1>3, <1>4 DEF ManagersOK, May
<1>7. TurnOK'
    BY <1>1, <1>2, <1>3, <1>4 DEF TurnOK, Walking, Open, May
<1>8. ASSUME NEW k \in Job PROVE StepOK(k)'
    BY <1>1, <1>2, <1>3, <1>4 DEF StepOK, Quiet, Ended, Early, Late
<1>9. ASSUME NEW k \in Job PROVE HomeOK(k)'
    BY <1>1, <1>2, <1>3, <1>4 DEF HomeOK, Kept, Early, Late
<1>10. ASSUME NEW k \in Job PROVE TombOK(k)'
    BY <1>1, <1>2, <1>3, <1>4 DEF TombOK, Fixed, Quiet, Ended, Sound
<1>11. ASSUME NEW k \in Job PROVE CommittedOK(k)'
    BY <1>1, <1>2, <1>3, <1>4 DEF CommittedOK, Sound
<1>12. ASSUME NEW k \in Job PROVE FileOK(k)'
    BY <1>1, <1>2, <1>3, <1>4 DEF FileOK, Kept, Fixed, Quiet, Ended, Sound
<1>13. ASSUME NEW k \in Job PROVE LeaseOK(k)'
    BY <1>1, <1>2, <1>3, <1>4 DEF LeaseOK
<1>14. WalkOK'
    BY <1>1, <1>2, <1>3, <1>4 DEF WalkOK, Walking, Fixed, Quiet, Ended, Sound
<1>15. ClearOK'
    BY <1>1, <1>2, <1>3, <1>4 DEF ClearOK, May, Over
<1> QED BY <1>5, <1>6, <1>7, <1>8, <1>9, <1>10, <1>11, <1>12, <1>13, <1>14, <1>15 DEF EvidenceInv

(***************************************************************************)
(* A record is declared interrupted only when its owner is gone, so the    *)
(* job is over or will do no work; unless the read was stale, the record   *)
(* said running and no end was on record.                                  *)
(***************************************************************************)
LEMMA RepairRecordSaves ==
    ASSUME EvidenceInv, RepairRecord
    PROVE  EvidenceInv'
<1>1. /\ EvTypeOK /\ ManagersOK /\ TurnOK /\ WalkOK /\ ClearOK
      /\ \A k \in Job : StepOK(k) /\ HomeOK(k) /\ TombOK(k) /\ CommittedOK(k) /\ FileOK(k) /\ LeaseOK(k)
    BY DEF EvidenceInv
<1>2. /\ load.pc = "judge" /\ phase[load.snap.owner] \notin {"open", "closing"}
      /\ staleRepair' \in BOOLEAN /\ (staleRepair' = FALSE => staleRepair = FALSE /\ disk[load.job] = load.snap)
      /\ scenario' = scenario /\ phase' = phase /\ home' = home /\ step' = step /\ cancelled' = cancelled
      /\ fin' = fin /\ mem' = mem /\ destroying' = destroying /\ turn' = turn /\ leases' = leases
      /\ merged' = merged /\ mutated' = mutated /\ saved' = saved /\ reviewed' = reviewed
    BY <1>1
    DEF RepairRecord, managerOwnerIsLive, EvTypeOK, svars, jvars, others, others2, others3, work, ledger,
        history
<1>3. cur' = cur
    BY <1>2, SameCur
<1>4. PICK i \in Job : i = load.job
    BY <1>1, <1>2 DEF WalkOK
<1>5. /\ i = load.job /\ i \in Job /\ step[i] # "none" /\ Fixed(i) /\ destroying.pc = "no"
      /\ load.snap \in DiskRec /\ load.snap.status = "running"
    <2>1. i \in Job /\ load.snap.owner = home[i] /\ home[i] # 0 /\ load.snap.status = "running"
        BY <1>1, <1>2, <1>4 DEF WalkOK
    <2>2. StepOK(i) /\ destroying.pc = "no" /\ load.snap \in DiskRec
        BY <1>1, <1>2, <2>1 DEF TurnOK, Walking, EvTypeOK, LoadRec
    <2>3. phase[home[i]] \in {"released", "dead"}
        BY <1>1, <1>2, <2>1, <2>2 DEF StepOK, ManagersOK, EvTypeOK, Phases
    <2> QED BY <1>4, <2>1, <2>2, <2>3 DEF StepOK, Fixed
<1>6. PICK meta \in DiskRec :
         /\ meta.status = "interrupted" /\ meta.evidence = load.snap.evidence
         /\ disk' = [disk EXCEPT ![i] = meta]
         /\ load' = [load EXCEPT !.pc = "walk", !.job = NoJob, !.snap = NoMeta, !.found = @ \cup {<<i, meta>>}]
    <2>1. [load.snap EXCEPT !.status = "interrupted"] \in DiskRec
        BY <1>5 DEF DiskRec, Statuses, Terminal
    <2>2. /\ [load.snap EXCEPT !.status = "interrupted"].status = "interrupted"
          /\ [load.snap EXCEPT !.status = "interrupted"].evidence = load.snap.evidence
        BY <1>5 DEF DiskRec
    <2> QED BY <1>4, <2>1, <2>2 DEF RepairRecord
<1>7. /\ load' \in LoadRec /\ load'.todo = load.todo /\ load'.pc = "walk"
      /\ load'.found = load.found \cup {<<i, meta>>} /\ disk' \in [Job -> DiskRec]
      /\ \A k \in Job : disk'[k] = IF k = i THEN meta ELSE disk[k]
    <2>1. disk' \in [Job -> DiskRec] /\ \A k \in Job : disk'[k] = IF k = i THEN meta ELSE disk[k]
        BY <1>1, <1>5, <1>6 DEF EvTypeOK
    <2>2. load \in LoadRec /\ NoMeta \in DiskRec /\ <<i, meta>> \in Job \X DiskRec
        BY <1>1, <1>5, NoLoadType DEF EvTypeOK
    <2>3. load' \in LoadRec
        BY <1>6, <2>2 DEF LoadRec
    <2>4. load'.todo = load.todo /\ load'.pc = "walk" /\ load'.found = load.found \cup {<<i, meta>>}
        BY <1>6, <2>2 DEF LoadRec
    <2> QED BY <2>1, <2>3, <2>4
<1>8. Sound(i, meta.evidence)'
    <2>1. CASE disk[i] = load.snap
        <3>1. FileOK(i)
            BY <1>1, <1>5
        <3> QED BY <1>2, <1>5, <1>6, <2>1, <3>1 DEF FileOK, Sound
    <2>2. CASE disk[i] # load.snap
        BY <1>2, <1>5, <2>2 DEF Sound
    <2> QED BY <2>1, <2>2
<1>9. EvTypeOK'
    BY <1>1, <1>2, <1>3, <1>5, <1>6, <1>7, <1>8 DEF EvTypeOK
<1>10. ManagersOK'
    BY <1>1, <1>2, <1>3, <1>5, <1>6, <1>7, <1>8 DEF ManagersOK, May
<1>11. TurnOK'
    BY <1>1, <1>2, <1>3, <1>5, <1>6, <1>7, <1>8 DEF TurnOK, Walking, Open, May
<1>12. ASSUME NEW k \in Job PROVE StepOK(k)'
    BY <1>1, <1>2, <1>3, <1>5, <1>6, <1>7, <1>8 DEF StepOK, Quiet, Ended, Early, Late
<1>13. ASSUME NEW k \in Job PROVE HomeOK(k)'
    BY <1>1, <1>2, <1>3, <1>5, <1>6, <1>7, <1>8 DEF HomeOK, Kept, Early, Late
<1>14. ASSUME NEW k \in Job PROVE TombOK(k)'
    BY <1>1, <1>2, <1>3, <1>5, <1>6, <1>7, <1>8 DEF TombOK, Fixed, Quiet, Ended, Sound
<1>15. ASSUME NEW k \in Job PROVE CommittedOK(k)'
    BY <1>1, <1>2, <1>3, <1>5, <1>6, <1>7, <1>8 DEF CommittedOK, Sound
<1>16. ASSUME NEW k \in Job PROVE FileOK(k)'
    <2>1. CASE k = i
        BY <1>1, <1>2, <1>3, <1>5, <1>6, <1>7, <1>8, <2>1 DEF FileOK, Kept, Fixed, Quiet, Ended, Sound, StepOK
    <2>2. CASE k # i
        BY <1>1, <1>2, <1>3, <1>5, <1>6, <1>7, <1>8, <2>2 DEF FileOK, Kept, Fixed, Quiet, Ended, Sound, StepOK
    <2> QED BY <2>1, <2>2
<1>17. ASSUME NEW k \in Job PROVE LeaseOK(k)'
    BY <1>1, <1>2, <1>3, <1>5, <1>6, <1>7, <1>8 DEF LeaseOK
<1>18. WalkOK'
    <2>1. ASSUME NEW f \in load'.found
          PROVE  /\ f[2].status \notin {"none", "running"} /\ step[f[1]] # "none"
                 /\ Fixed(f[1]) /\ Sound(f[1], f[2].evidence)'
        <3>1. CASE f \in load.found
            BY <1>1, <1>2, <3>1 DEF WalkOK, Sound
        <3>2. CASE f \notin load.found
            <4>1. f = <<i, meta>> /\ f[1] = i /\ f[2] = meta
                BY <1>7, <2>1, <3>2
            <4> QED BY <1>5, <1>6, <1>8, <4>1
        <3> QED BY <3>1, <3>2
    <2> QED BY <1>1, <1>2, <1>3, <1>5, <1>6, <1>7, <1>8, <2>1 DEF WalkOK, Walking, Fixed, Quiet, Ended
<1>19. ClearOK'
    BY <1>1, <1>2, <1>3, <1>5, <1>6, <1>7, <1>8 DEF ClearOK, May, Over
<1> QED BY <1>9, <1>10, <1>11, <1>12, <1>13, <1>14, <1>15, <1>16, <1>17, <1>18, <1>19 DEF EvidenceInv

(***************************************************************************)
(* The records are removed once every target is done; without an earlier   *)
(* manager's jobs nobody is left to write one.                             *)
(***************************************************************************)
LEMMA RemoveArtifactsSaves ==
    ASSUME EvidenceInv, RemoveArtifacts
    PROVE  EvidenceInv'
<1>1. /\ EvTypeOK /\ ManagersOK /\ TurnOK /\ WalkOK /\ ClearOK
      /\ \A k \in Job : StepOK(k) /\ HomeOK(k) /\ TombOK(k) /\ CommittedOK(k) /\ FileOK(k) /\ LeaseOK(k)
    BY DEF EvidenceInv
<1>2. /\ destroying.pc = "begun" /\ \A k \in destroying.targets : mem[cur][k].done
      /\ disk' = [j \in Job |-> NoMeta]
      /\ destroying' = [destroying EXCEPT !.pc = "removed"]
      /\ scenario' = scenario /\ phase' = phase /\ home' = home /\ step' = step /\ cancelled' = cancelled
      /\ fin' = fin /\ mem' = mem /\ load' = load /\ turn' = turn /\ leases' = leases
      /\ merged' = merged /\ mutated' = mutated /\ saved' = saved /\ reviewed' = reviewed
         /\ staleRepair' = staleRepair
    BY <1>1 DEF RemoveArtifacts, svars, jvars, others, others2, others3, work, ledger, history
<1>3. cur' = cur
    BY <1>2, SameCur
<1>4. /\ destroying' \in DestroyRec /\ destroying'.pc = "removed" /\ disk' \in [Job -> DiskRec]
      /\ \A k \in Job : disk'[k].status = "none"
    BY <1>1, <1>2, NoLoadType DEF EvTypeOK, DestroyRec, NoMeta
<1>5. EvTypeOK'
    BY <1>1, <1>2, <1>3, <1>4 DEF EvTypeOK
<1>6. ManagersOK'
    BY <1>1, <1>2, <1>3, <1>4 DEF ManagersOK, May
<1>7. TurnOK'
    BY <1>1, <1>2, <1>3, <1>4 DEF TurnOK, Walking, Open, May
<1>8. ASSUME NEW k \in Job PROVE StepOK(k)'
    BY <1>1, <1>2, <1>3, <1>4 DEF StepOK, Quiet, Ended, Early, Late
<1>9. ASSUME NEW k \in Job PROVE HomeOK(k)'
    BY <1>1, <1>2, <1>3, <1>4 DEF HomeOK, Kept, Early, Late
<1>10. ASSUME NEW k \in Job PROVE TombOK(k)'
    BY <1>1, <1>2, <1>3, <1>4 DEF TombOK, Fixed, Quiet, Ended, Sound
<1>11. ASSUME NEW k \in Job PROVE CommittedOK(k)'
    BY <1>1, <1>2, <1>3, <1>4 DEF CommittedOK, Sound
<1>12. ASSUME NEW k \in Job PROVE FileOK(k)'
    BY <1>1, <1>2, <1>3, <1>4 DEF FileOK, Kept, Fixed, Quiet, Ended, Sound, NoMeta
<1>13. ASSUME NEW k \in Job PROVE LeaseOK(k)'
    BY <1>1, <1>2, <1>3, <1>4 DEF LeaseOK
<1>14. WalkOK'
    BY <1>1, <1>2, <1>3, <1>4 DEF WalkOK, Walking, Fixed, Quiet, Ended, Sound, TurnOK
<1>15. ClearOK'
    BY <1>1, <1>2, <1>3, <1>4 DEF ClearOK, May, Over, HomeOK, StepOK
<1> QED BY <1>5, <1>6, <1>7, <1>8, <1>9, <1>10, <1>11, <1>12, <1>13, <1>14, <1>15 DEF EvidenceInv

(***************************************************************************)
(* The session's jobs are purged from memory.                              *)
(***************************************************************************)
LEMMA FinishDestroySaves ==
    ASSUME EvidenceInv, FinishDestroy
    PROVE  EvidenceInv'
<1>1. /\ EvTypeOK /\ ManagersOK /\ TurnOK /\ WalkOK /\ ClearOK
      /\ \A k \in Job : StepOK(k) /\ HomeOK(k) /\ TombOK(k) /\ CommittedOK(k) /\ FileOK(k) /\ LeaseOK(k)
    BY DEF EvidenceInv
<1>2. /\ destroying.pc = "removed"
      /\ destroying' = [destroying EXCEPT !.pc = "finished"]
      /\ scenario' = scenario /\ phase' = phase /\ home' = home /\ step' = step /\ cancelled' = cancelled
      /\ fin' = fin /\ disk' = disk /\ load' = load /\ turn' = turn /\ leases' = leases
      /\ merged' = merged /\ mutated' = mutated /\ saved' = saved /\ reviewed' = reviewed
         /\ staleRepair' = staleRepair
    BY <1>1 DEF FinishDestroy, svars, jvars, others, others2, others3, work, ledger, history
<1>3. cur' = cur
    BY <1>2, SameCur
<1>4. /\ destroying' \in DestroyRec /\ destroying'.pc = "finished"
    BY <1>1, <1>2 DEF EvTypeOK, DestroyRec
<1>5. /\ mem' \in [Mgr -> [Job -> MemRec]]
      /\ \A m \in Mgr, k \in Job : mem'[m][k] = IF m = cur THEN Unknown ELSE mem[m][k]
    <2>1. Unknown \in MemRec
        BY DEF Unknown, MemRec, Statuses
    <2> QED BY <1>1, <2>1 DEF EvTypeOK, FinishDestroy
<1>6. Unknown.done = FALSE /\ Unknown.committed = FALSE
    BY DEF Unknown
<1>7. EvTypeOK'
    BY <1>1, <1>2, <1>3, <1>4, <1>5, <1>6 DEF EvTypeOK
<1>8. ManagersOK'
    BY <1>1, <1>2, <1>3, <1>4, <1>5, <1>6 DEF ManagersOK, May
<1>9. TurnOK'
    BY <1>1, <1>2, <1>3, <1>4, <1>5, <1>6 DEF TurnOK, Walking, Open, May
<1>10. ASSUME NEW k \in Job PROVE StepOK(k)'
    BY <1>1, <1>2, <1>3, <1>4, <1>5, <1>6 DEF StepOK, Quiet, Ended, Early, Late
<1>11. ASSUME NEW k \in Job PROVE HomeOK(k)'
    BY <1>1, <1>2, <1>3, <1>4, <1>5, <1>6 DEF HomeOK, Kept, Early, Late, StepOK
<1>12. ASSUME NEW k \in Job PROVE TombOK(k)'
    BY <1>1, <1>2, <1>3, <1>4, <1>5, <1>6 DEF TombOK, Fixed, Quiet, Ended, Sound
<1>13. ASSUME NEW k \in Job PROVE CommittedOK(k)'
    BY <1>1, <1>2, <1>3, <1>4, <1>5, <1>6 DEF CommittedOK, Sound
<1>14. ASSUME NEW k \in Job PROVE FileOK(k)'
    BY <1>1, <1>2, <1>3, <1>4, <1>5, <1>6 DEF FileOK, Kept, Fixed, Quiet, Ended, Sound
<1>15. ASSUME NEW k \in Job PROVE LeaseOK(k)'
    BY <1>1, <1>2, <1>3, <1>4, <1>5, <1>6 DEF LeaseOK, TurnOK
<1>16. WalkOK'
    BY <1>1, <1>2, <1>3, <1>4, <1>5, <1>6 DEF WalkOK, Walking, Fixed, Quiet, Ended, Sound, TurnOK
<1>17. ClearOK'
    BY <1>1, <1>2, <1>3, <1>4, <1>5, <1>6 DEF ClearOK, May, Over
<1> QED BY <1>7, <1>8, <1>9, <1>10, <1>11, <1>12, <1>13, <1>14, <1>15, <1>16, <1>17 DEF EvidenceInv

(***************************************************************************)
(* The tombstones a load makes are of jobs this manager does not know,     *)
(* from records that may be believed.                                      *)
(***************************************************************************)
LEMMA LoadEndsSaves ==
    ASSUME EvidenceInv, LoadEnds
    PROVE  EvidenceInv'
<1>1. /\ EvTypeOK /\ ManagersOK /\ TurnOK /\ WalkOK /\ ClearOK
      /\ \A k \in Job : StepOK(k) /\ HomeOK(k) /\ TombOK(k) /\ CommittedOK(k) /\ FileOK(k) /\ LeaseOK(k)
    BY DEF EvidenceInv
<1>2. /\ load.pc = "walk"
      /\ scenario' = scenario /\ phase' = phase /\ home' = home /\ step' = step /\ cancelled' = cancelled
      /\ fin' = fin /\ disk' = disk /\ destroying' = destroying /\ turn' = turn /\ leases' = leases
      /\ merged' = merged /\ mutated' = mutated /\ saved' = saved /\ reviewed' = reviewed
         /\ staleRepair' = staleRepair
    BY <1>1 DEF LoadEnds, svars, jvars, others, others2, others3, work, ledger, history
<1>3. cur' = cur
    BY <1>2, SameCur
<1>4. load' \in LoadRec /\ load'.pc \in {"loaded", "partial"} /\ load'.found = {}
    BY NoLoadType DEF LoadEnds, LoadRec
<1>5. /\ mem' \in [Mgr -> [Job -> MemRec]]
      /\ \A m \in Mgr, k \in Job : m # cur => mem'[m][k] = mem[m][k]
      /\ \A k \in Job : \/ mem'[cur][k] = mem[cur][k]
                        \/ /\ mem[cur][k].status = "none"
                           /\ \E f \in load.found : f[1] = k /\ mem'[cur][k] = Tombstone(f[2])
    <2> DEFINE Met(k) == IF mem[cur][k].status = "none" /\ \E f \in load.found : f[1] = k
                         THEN Tombstone((CHOOSE f \in load.found : f[1] = k)[2]) ELSE mem[cur][k]
    <2>1. mem' = [mem EXCEPT ![cur] = [k \in Job |-> Met(k)]]
        BY <1>1 DEF LoadEnds, EvTypeOK, ManagersOK
    <2>2. ASSUME NEW k \in Job
          PROVE /\ Met(k) \in MemRec
                /\ \/ Met(k) = mem[cur][k]
                   \/ /\ mem[cur][k].status = "none"
                      /\ \E f \in load.found : f[1] = k /\ Met(k) = Tombstone(f[2])
        <3>1. CASE mem[cur][k].status = "none" /\ \E f \in load.found : f[1] = k
            <4> DEFINE f == CHOOSE g \in load.found : g[1] = k
            <4>1. f \in load.found /\ f[1] = k
                BY <3>1
            <4>2. Met(k) = Tombstone(f[2])
                BY <3>1
            <4> HIDE DEF f
            <4>3. f[2] \in DiskRec
                BY <1>1, <4>1 DEF EvTypeOK, LoadRec
            <4>4. Tombstone(f[2]) \in MemRec
                BY <4>3 DEF Tombstone, DiskRec, MemRec
            <4> HIDE DEF Met
            <4> QED BY <3>1, <4>1, <4>2, <4>4
        <3>2. CASE ~(mem[cur][k].status = "none" /\ \E f \in load.found : f[1] = k)
            <4>1. Met(k) = mem[cur][k]
                BY <3>2
            <4>2. mem[cur][k] \in MemRec
                BY <1>1 DEF EvTypeOK, ManagersOK
            <4> HIDE DEF Met
            <4> QED BY <4>1, <4>2
        <3> QED BY <3>1, <3>2
    <2> HIDE DEF Met
    <2> QED BY <1>1, <2>1, <2>2 DEF EvTypeOK, ManagersOK
<1>6. \A k \in Job : mem'[cur][k] = mem[cur][k] \/ home[k] # cur
    <2>1. ASSUME NEW k \in Job, home[k] = cur PROVE mem[cur][k].status # "none"
        BY <1>1, <1>2, <2>1 DEF HomeOK, TurnOK, Walking, Kept, ManagersOK, Mgr
    <2> QED BY <1>5, <2>1
<1>7. \A m \in Mgr, k \in Job : mem'[m][k].committed = TRUE => mem[m][k].committed = TRUE
    <2>1. ASSUME NEW k \in Job, mem'[cur][k] # mem[cur][k] PROVE mem'[cur][k].committed = FALSE
        <3>1. PICK f \in load.found : mem'[cur][k] = Tombstone(f[2])
            BY <1>5, <2>1
        <3> QED BY <3>1 DEF Tombstone
    <2>2. ASSUME NEW m \in Mgr, NEW k \in Job PROVE mem'[m][k] = mem[m][k] \/ mem'[m][k].committed = FALSE
        <3>1. CASE m = cur
            BY <2>1, <3>1
        <3>2. CASE m # cur
            BY <1>5, <3>2
        <3> QED BY <3>1, <3>2
    <2>3. \A m \in Mgr, k \in Job : mem'[m][k] = mem[m][k] \/ mem'[m][k].committed = FALSE
        BY <2>2
    <2> QED BY <2>3
<1>8. EvTypeOK'
    BY <1>1, <1>2, <1>3, <1>4, <1>5, <1>6, <1>7 DEF EvTypeOK
<1>9. ManagersOK'
    BY <1>1, <1>2, <1>3, <1>4, <1>5, <1>6, <1>7 DEF ManagersOK, May
<1>10. TurnOK'
    BY <1>1, <1>2, <1>3, <1>4, <1>5, <1>6, <1>7 DEF TurnOK, Walking, Open, May
<1>11. ASSUME NEW k \in Job PROVE StepOK(k)'
    BY <1>1, <1>2, <1>3, <1>4, <1>5, <1>6, <1>7 DEF StepOK, Quiet, Ended, Early, Late
<1>12. ASSUME NEW k \in Job PROVE HomeOK(k)'
    BY <1>1, <1>2, <1>3, <1>4, <1>5, <1>6, <1>7 DEF HomeOK, Kept, Early, Late, StepOK
<1>13. ASSUME NEW k \in Job PROVE TombOK(k)'
    <2>1. CASE mem'[cur][k] = mem[cur][k]
        BY <1>1, <1>2, <1>3, <1>4, <1>5, <1>6, <1>7, <2>1 DEF TombOK, Fixed, Quiet, Ended, Sound
    <2>2. CASE mem'[cur][k] # mem[cur][k]
        <3>1. PICK f \in load.found : f[1] = k /\ mem'[cur][k] = Tombstone(f[2])
            BY <1>5, <2>2
        <3>2. /\ f[2].status \notin {"none", "running"} /\ step[k] # "none"
              /\ Fixed(k) /\ Sound(k, f[2].evidence)
            BY <1>1, <3>1 DEF WalkOK
        <3> QED BY <1>1, <1>2, <1>3, <1>4, <1>5, <1>6, <1>7, <3>1, <3>2
                DEF TombOK, Fixed, Quiet, Ended, Sound, Tombstone
    <2> QED BY <2>1, <2>2
<1>14. ASSUME NEW k \in Job PROVE CommittedOK(k)'
    BY <1>1, <1>2, <1>3, <1>4, <1>5, <1>6, <1>7 DEF CommittedOK, Sound, Tombstone
<1>15. ASSUME NEW k \in Job PROVE FileOK(k)'
    BY <1>1, <1>2, <1>3, <1>4, <1>5, <1>6, <1>7 DEF FileOK, Kept, Fixed, Quiet, Ended, Sound
<1>16. ASSUME NEW k \in Job PROVE LeaseOK(k)'
    BY <1>1, <1>2, <1>3, <1>4, <1>5, <1>6, <1>7 DEF LeaseOK, TurnOK, Walking
<1>17. WalkOK'
    BY <1>1, <1>2, <1>3, <1>4, <1>5, <1>6, <1>7 DEF WalkOK, Walking, Fixed, Quiet, Ended, Sound
<1>18. ClearOK'
    BY <1>1, <1>2, <1>3, <1>4, <1>5, <1>6, <1>7 DEF ClearOK, May, Over
<1> QED BY <1>8, <1>9, <1>10, <1>11, <1>12, <1>13, <1>14, <1>15, <1>16, <1>17, <1>18 DEF EvidenceInv

(***************************************************************************)
(* Steps of the scheduler and of foreground work leave records and         *)
(* evidence alone.                                                         *)
(***************************************************************************)
LEMMA IdleSaves ==
    ASSUME EvidenceInv,
           UNCHANGED <<scenario, phase, home, step, cancelled, fin, mem, disk, destroying, load, turn, leases, merged,
                       mutated, saved, reviewed, staleRepair>>
    PROVE  EvidenceInv'
<1>1. /\ EvTypeOK /\ ManagersOK /\ TurnOK /\ WalkOK /\ ClearOK
      /\ \A k \in Job : StepOK(k) /\ HomeOK(k) /\ TombOK(k) /\ CommittedOK(k) /\ FileOK(k) /\ LeaseOK(k)
    BY DEF EvidenceInv
<1>2. /\ scenario' = scenario /\ phase' = phase /\ home' = home /\ step' = step /\ cancelled' = cancelled
      /\ fin' = fin /\ mem' = mem /\ disk' = disk /\ destroying' = destroying /\ load' = load
      /\ turn' = turn /\ leases' = leases /\ merged' = merged /\ mutated' = mutated /\ saved' = saved
      /\ reviewed' = reviewed /\ staleRepair' = staleRepair
    BY <1>1 DEF EvTypeOK
<1>3. cur' = cur
    BY <1>2, SameCur
<1>4. EvTypeOK'
    BY <1>1, <1>2, <1>3 DEF EvTypeOK
<1>5. ManagersOK'
    BY <1>1, <1>2, <1>3 DEF ManagersOK, May
<1>6. TurnOK'
    BY <1>1, <1>2, <1>3 DEF TurnOK, Walking, Open, May
<1>7. ASSUME NEW k \in Job PROVE StepOK(k)'
    BY <1>1, <1>2, <1>3 DEF StepOK, Quiet, Ended, Early, Late
<1>8. ASSUME NEW k \in Job PROVE HomeOK(k)'
    BY <1>1, <1>2, <1>3 DEF HomeOK, Kept, Early, Late
<1>9. ASSUME NEW k \in Job PROVE TombOK(k)'
    BY <1>1, <1>2, <1>3 DEF TombOK, Fixed, Quiet, Ended, Sound
<1>10. ASSUME NEW k \in Job PROVE CommittedOK(k)'
    BY <1>1, <1>2, <1>3 DEF CommittedOK, Sound
<1>11. ASSUME NEW k \in Job PROVE FileOK(k)'
    BY <1>1, <1>2, <1>3 DEF FileOK, Kept, Fixed, Quiet, Ended, Sound
<1>12. ASSUME NEW k \in Job PROVE LeaseOK(k)'
    BY <1>1, <1>2, <1>3 DEF LeaseOK
<1>13. WalkOK'
    BY <1>1, <1>2, <1>3 DEF WalkOK, Walking, Fixed, Quiet, Ended, Sound
<1>14. ClearOK'
    BY <1>1, <1>2, <1>3 DEF ClearOK, May, Over
<1> QED BY <1>4, <1>5, <1>6, <1>7, <1>8, <1>9, <1>10, <1>11, <1>12, <1>13, <1>14 DEF EvidenceInv

(***************************************************************************)
(* The invariant holds when the first manager opens.                       *)
(***************************************************************************)
LEMMA EvidenceAtStart == JInit => EvidenceInv
<1> SUFFICES ASSUME JInit PROVE EvidenceInv
    OBVIOUS
<1>1. cur = 1 /\ 1 \in Mgr
    <2>1. 1 \in Mgr /\ \A m \in Mgr : phase[m] # "unused" <=> m <= 1
        BY ScenarioAssumption DEF JInit, Mgr
    <2> QED BY <2>1, CurIsLast
<1>2. Unknown \in MemRec /\ Unknown.committed = FALSE /\ Unknown.done = FALSE
    BY DEF Unknown, MemRec, Statuses
<1>3. load \in LoadRec /\ load.pc = "loaded" /\ load.found = {}
    BY NoLoadType DEF JInit, LoadRec
<1>4. destroying \in DestroyRec /\ destroying.pc = "no"
    BY DEF JInit, NoDestroy, DestroyRec
<1>5. \A j \in Job : /\ disk[j] = NoMeta /\ NoMeta.status = "none" /\ \A m \in Mgr : mem[m][j] = Unknown
                     /\ home[j] = 0 /\ step[j] = "none"
    BY DEF JInit, NoMeta
<1>6. EvTypeOK
    <2>1. mem \in [Mgr -> [Job -> MemRec]] /\ disk \in [Job -> DiskRec]
        BY <1>2, NoLoadType DEF JInit
    <2>2. /\ phase \in [Mgr -> Phases] /\ home \in [Job -> 0..MaxManagers] /\ step \in [Job -> GoSteps]
          /\ fin \in [Job -> Terminal \cup {"none"}]
        BY ScenarioAssumption DEF JInit, Phases, GoSteps
    <2> QED BY <1>3, <1>4, <2>1, <2>2 DEF JInit, EvTypeOK, Turns
<1>7. ManagersOK /\ TurnOK /\ WalkOK /\ ClearOK
    BY <1>1, <1>3, <1>4 DEF JInit, ManagersOK, TurnOK, WalkOK, ClearOK, Walking, Mgr, Open
<1>8. ASSUME NEW j \in Job
      PROVE  StepOK(j) /\ HomeOK(j) /\ TombOK(j) /\ CommittedOK(j) /\ FileOK(j) /\ LeaseOK(j)
    BY <1>1, <1>2, <1>5 DEF JInit, StepOK, HomeOK, TombOK, CommittedOK, FileOK, LeaseOK, Kept, Early, Late
<1> QED BY <1>6, <1>7, <1>8 DEF EvidenceInv

(***************************************************************************)
(* Every step of the job manager, its goroutines, the turn and the loader  *)
(* preserves the invariant.                                                *)
(***************************************************************************)
LEMMA EvidenceIsKept == EvidenceInv /\ [JNext]_<<svars, jvars>> => EvidenceInv'
<1> SUFFICES ASSUME EvidenceInv, [JNext]_<<svars, jvars>> PROVE EvidenceInv'
    OBVIOUS
<1>1. ASSUME NEW mode \in {"run", "plan"}, TurnStart(mode) PROVE EvidenceInv'
    BY <1>1, TurnStartSaves
<1>2. CASE TurnDelivers
    BY <1>2, TurnDeliversSaves
<1>3. CASE TurnEnds
    BY <1>3, TurnEndsSaves
<1>4. CASE TurnFails
    BY <1>4, TurnFailsSaves
<1>5. ASSUME NEW j \in Job, Register(j) \/ Collect(j) \/ CommitEvidence(j) \/ Kill(j) \/ Mutate(j) \/ GoStep(j)
      PROVE  EvidenceInv'
    <2>1. CASE Register(j)
        BY <2>1, RegisterSaves
    <2>2. CASE Collect(j)
        BY <2>2, CollectSaves
    <2>3. CASE CommitEvidence(j)
        BY <2>3, CommitLeaseSaves, CommitNothingSaves
    <2>4. CASE Kill(j)
        BY <2>4, KillSaves
    <2>5. CASE Mutate(j)
        BY <2>5, MutateSaves
    <2>6. CASE Launch(j)
        BY <2>6, LaunchSaves
    <2>7. CASE AcquireSlot(j)
        BY <2>7, IdleSaves DEF AcquireSlot, others2, work, ledger, history
    <2>8. CASE BeginRun(j)
        BY <2>8, BeginRunSaves
    <2>9. CASE RunEnds(j)
        BY <2>9, RunEndsSaves
    <2>10. CASE Unwind(j)
        BY <2>10, UnwindSaves
    <2>11. CASE WriteMeta(j)
        BY <2>11, WriteMetaSaves
    <2>12. CASE recordCompletion(j)
        BY <2>12, recordCompletionSaves
    <2>13. CASE PublishStatus(j)
        BY <2>13, PublishStatusSaves
    <2>14. CASE CloseDone(j)
        BY <2>14, CloseDoneSaves
    <2> QED BY <1>5, <2>1, <2>2, <2>3, <2>4, <2>5, <2>6, <2>7, <2>8, <2>9, <2>10, <2>11, <2>12, <2>13,
               <2>14
            DEF GoStep
<1>6. ASSUME NEW r, ForegroundRun(r) PROVE EvidenceInv'
    BY <1>6, IdleSaves DEF ForegroundRun, others, work, ledger, history
<1>7. ASSUME NEW w, WriteTool(w) PROVE EvidenceInv'
    BY <1>7, IdleSaves DEF WriteTool, others, work, ledger, history
<1>8. CASE Pump
    BY <1>8, IdleSaves DEF Pump, others, work, ledger, history
<1>9. CASE BeginDestroy
    BY <1>9, BeginDestroySaves
<1>10. CASE RemoveArtifacts
    BY <1>10, RemoveArtifactsSaves
<1>11. CASE FinishDestroy
    BY <1>11, FinishDestroySaves
<1>12. CASE Close
    BY <1>12, CloseSaves
<1>13. CASE Crash
    BY <1>13, CrashSaves
<1>14. ASSUME NEW m \in Mgr, ReleaseOwner(m) PROVE EvidenceInv'
    BY <1>14, ReleaseOwnerSaves
<1>15. CASE NewManager
    BY <1>15, NewManagerSaves
<1>16. CASE Rebind
    BY <1>16, RebindSaves
<1>17. CASE Loading
    <2>1. ASSUME NEW j \in Job, ReadRecord(j) PROVE EvidenceInv'
        BY <2>1, ReadRecordSaves
    <2> QED BY <1>17, <2>1, DeferRecordSaves, RepairRecordSaves, LoadEndsSaves DEF Loading
<1>18. CASE UNCHANGED <<svars, jvars>>
    BY <1>18, IdleSaves DEF jvars, work, ledger, history
<1>19. scenario.jobs \subseteq Job
    BY ScenarioAssumption DEF EvidenceInv, EvTypeOK
<1> QED BY <1>1, <1>2, <1>3, <1>4, <1>5, <1>6, <1>7, <1>8, <1>9, <1>10, <1>11, <1>12, <1>13, <1>14, <1>15,
           <1>16,
           <1>17, <1>18, <1>19 DEF JNext

(***************************************************************************)
(* The invariant of records and evidence holds in every reachable state.   *)
(***************************************************************************)
THEOREM EvidenceIsInductive == JSpec => []EvidenceInv
    BY EvidenceAtStart, EvidenceIsKept, PTL DEF JSpec

(***************************************************************************)
(* A manager that has loaded the session knows every job of an earlier one *)
(* but those its load missed; during the walk, a job it does not know yet  *)
(* is still to be read, has been found, or makes the load end unfinished.  *)
(***************************************************************************)
Known(k) == mem[cur][k].status # "none" \/ k \in missed
Found(k) == \E f \in load.found : f[1] = k
SeenInv ==
    \A k \in Job : home[k] # 0 /\ home[k] # cur /\ Kept =>
        /\ load.pc = "loaded" => Known(k)
        /\ load.pc = "walk" => Known(k) \/ load.deferred = TRUE \/ k \in load.todo \/ Found(k)
        /\ load.pc = "judge" => Known(k) \/ load.deferred = TRUE \/ k \in load.todo \/ Found(k) \/ load.job = k

(***************************************************************************)
(* Steps outside the loader forget nothing a manager knows.                *)
(***************************************************************************)
LEMMA SeenStays ==
    ASSUME SeenInv, cur' = cur, load' = load, missed' = missed,
           Kept' => Kept,
           \A k \in Job : home'[k] = home[k] \/ home'[k] = cur,
           \A k \in Job : Kept' /\ mem[cur][k].status # "none" => mem'[cur][k].status # "none"
    PROVE  SeenInv'
<1> SUFFICES ASSUME NEW k \in Job, home'[k] # 0, home'[k] # cur', Kept'
             PROVE  /\ load'.pc = "loaded" => Known(k)'
                    /\ load'.pc = "walk" =>
                          Known(k)' \/ load'.deferred = TRUE \/ k \in load'.todo \/ Found(k)'
                    /\ load'.pc = "judge" =>
                          Known(k)' \/ load'.deferred = TRUE \/ k \in load'.todo \/ Found(k)' \/ load'.job = k
    BY DEF SeenInv
<1>1. home[k] # 0 /\ home[k] # cur /\ Kept
    OBVIOUS
<1>2. (Known(k) => Known(k)') /\ (Found(k) => Found(k)')
    BY DEF Known, Found
<1> QED BY <1>1, <1>2 DEF SeenInv

(***************************************************************************)
(* Every step keeps what is known of the jobs of earlier managers.         *)
(***************************************************************************)
LEMMA SeenIsKept == EvidenceInv /\ SeenInv /\ [JNext]_<<svars, jvars>> => SeenInv'
<1> SUFFICES ASSUME EvidenceInv, SeenInv, [JNext]_<<svars, jvars>> PROVE SeenInv'
    OBVIOUS
<1>0. /\ EvTypeOK /\ ManagersOK /\ TurnOK /\ WalkOK /\ cur \in Mgr
      /\ \A k \in Job : mem[cur][k] \in MemRec /\ StepOK(k) /\ HomeOK(k)
    BY DEF EvidenceInv, ManagersOK, EvTypeOK
<1>1. ASSUME UNCHANGED <<phase, home, mem, load, missed, destroying>> PROVE SeenInv'
    <2>1. cur' = cur
        BY <1>1, SameCur
    <2> QED BY <1>1, <2>1, SeenStays DEF Kept
<1>2. ASSUME NEW mode \in {"run", "plan"}, TurnStart(mode) PROVE SeenInv'
    BY <1>1, <1>2 DEF TurnStart, history
<1>3. CASE TurnDelivers \/ TurnEnds \/ TurnFails
    BY <1>1, <1>3 DEF TurnDelivers, TurnEnds, TurnFails, history
<1>4. ASSUME NEW r, ForegroundRun(r) PROVE SeenInv'
    BY <1>1, <1>4 DEF ForegroundRun, others, history
<1>5. ASSUME NEW w, WriteTool(w) PROVE SeenInv'
    BY <1>1, <1>5 DEF WriteTool, others, history
<1>6. CASE Pump
    BY <1>1, <1>6 DEF Pump, others, history
<1>7. CASE UNCHANGED <<svars, jvars>>
    BY <1>1, <1>7 DEF jvars, history
<1>8. ASSUME NEW j \in Job, Collect(j) \/ Mutate(j) \/ Launch(j) \/ AcquireSlot(j) \/ BeginRun(j) \/ RunEnds(j)
                            \/ WriteMeta(j) \/ recordCompletion(j)
      PROVE  SeenInv'
    BY <1>1, <1>8 DEF Collect, Mutate, Launch, AcquireSlot, BeginRun, RunEnds, WriteMeta, recordCompletion,
       others2, history
<1>9. ASSUME NEW j \in Job, CommitEvidence(j) \/ Kill(j) \/ Unwind(j) \/ PublishStatus(j) \/ CloseDone(j)
      PROVE  SeenInv'
    <2>1. UNCHANGED <<phase, home, load, missed, destroying>>
        BY <1>9 DEF CommitEvidence, Kill, Unwind, PublishStatus, CloseDone, history
    <2>2. cur' = cur
        BY <2>1, SameCur
    <2>3. \A k \in Job : mem[cur][k].status # "none" => mem'[cur][k].status # "none"
        <3>1. mem \in [Mgr -> [Job -> MemRec]] /\ cur \in Mgr
            BY <1>0 DEF EvTypeOK
        <3>2. CASE CommitEvidence(j)
            <4>1. \/ mem' = mem
                  \/ mem' = [mem EXCEPT ![cur][j].committed = TRUE, ![cur][j].evidence = FALSE]
                BY <3>2 DEF CommitEvidence
            <4>2. \A k \in Job : mem'[cur][k].status = mem[cur][k].status
                <5> HIDE DEF cur
                <5> QED BY <3>1, <4>1 DEF MemRec
            <4> QED BY <4>2
        <3>3. CASE Kill(j)
            BY <3>1, <3>3 DEF Kill, MemRec
        <3>4. CASE Unwind(j)
            BY <3>1, <3>4 DEF Unwind, MemRec
        <3>5. CASE PublishStatus(j)
            <4>1. fin[j] \in Terminal
                BY <1>0, <3>5 DEF StepOK, PublishStatus, Late
            <4>2. "none" \notin Terminal
                BY DEF Terminal
            <4> QED BY <3>1, <3>5, <4>1, <4>2 DEF PublishStatus, MemRec
        <3>6. CASE CloseDone(j)
            BY <3>1, <3>6 DEF CloseDone, MemRec
        <3> QED BY <1>9, <3>2, <3>3, <3>4, <3>5, <3>6
    <2> QED BY <2>1, <2>2, <2>3, SeenStays DEF Kept
<1>10. ASSUME NEW j \in Job, Register(j) PROVE SeenInv'
    <2>1. /\ UNCHANGED <<phase, load, missed, destroying>>
          /\ home' = [home EXCEPT ![j] = cur]
          /\ mem' = [mem EXCEPT ![cur][j] = [Unknown EXCEPT !.status = "running"]]
        BY <1>10 DEF Register, history
    <2>2. cur' = cur
        BY <2>1, SameCur
    <2>3. \A k \in Job : home'[k] = home[k] \/ home'[k] = cur
        BY <1>0, <2>1 DEF EvTypeOK
    <2>4. \A k \in Job : mem[cur][k].status # "none" => mem'[cur][k].status # "none"
        BY <1>0, <2>1 DEF EvTypeOK, Unknown
    <2> QED BY <2>1, <2>2, <2>3, <2>4, SeenStays DEF Kept
<1>11. CASE BeginDestroy \/ Close
    <2>1. /\ home' = home /\ load' = load /\ missed' = missed /\ destroying.pc = "no"
          /\ \E S \in SUBSET Job : mem' = KilledAll(S)
        BY <1>11 DEF BeginDestroy, Close, Unfinished, history
    <2>2. cur' = cur
        <3>1. CASE BeginDestroy
            BY <3>1, SameCur DEF BeginDestroy
        <3>2. CASE Close
            BY <1>0, <3>2, CurIsLastNext DEF Close, ManagersOK, EvTypeOK, Open
        <3> QED BY <1>11, <3>1, <3>2
    <2>3. \A k \in Job : mem[cur][k].status # "none" => mem'[cur][k].status # "none"
        BY <1>0, <2>1 DEF KilledAll, EvTypeOK, MemRec
    <2> QED BY <2>1, <2>2, <2>3, SeenStays DEF Kept
<1>12. CASE RemoveArtifacts \/ FinishDestroy
    <2>1. destroying'.pc \in {"removed", "finished"}
        BY <1>0, <1>12 DEF RemoveArtifacts, FinishDestroy, EvTypeOK, DestroyRec
    <2> QED BY <2>1 DEF SeenInv, Kept
<1>13. CASE Crash
    <2>1. load'.pc = "off"
        BY <1>13, NoLoadType DEF Crash
    <2> QED BY <2>1 DEF SeenInv
<1>14. ASSUME NEW m \in Mgr, ReleaseOwner(m) PROVE SeenInv'
    <2>1. UNCHANGED <<home, load, missed, destroying, mem>>
        BY <1>14 DEF ReleaseOwner, history
    <2>2. cur' = cur
        BY <1>0, <1>14, CurIsLastNext DEF ReleaseOwner, ManagersOK, EvTypeOK
    <2> QED BY <2>1, <2>2, SeenStays DEF Kept
<1>15. ASSUME NEW m \in Mgr, ListRecords(m), cur' = m, UNCHANGED <<home, mem, destroying>> PROVE SeenInv'
    <2>1. ASSUME NEW k \in Job, home[k] # 0, k \in Untold(m) => k \in missed' PROVE Known(k)'
        BY <1>15, <2>1 DEF Known, Untold
    <2>2. CASE load'.pc = "walk" /\ load'.todo = OnDisk /\ missed' = Untold(m) \ OnDisk
        BY <1>15, <2>1, <2>2 DEF SeenInv
    <2>3. CASE load'.pc = "loaded" /\ missed' = Untold(m)
        BY <1>15, <2>1, <2>3 DEF SeenInv
    <2> QED BY <1>15, <2>2, <2>3, NoLoadType DEF ListRecords, LoadRec
<1>16. CASE NewManager
    <2>1. cur + 1 \in Mgr /\ cur' = cur + 1
        <3>1. cur + 1 \in Mgr
            BY <1>0, <1>16, ScenarioAssumption DEF NewManager, Mgr
        <3>2. \A m \in Mgr : phase'[m] # "unused" <=> m <= cur + 1
            BY <1>0, <1>16, <3>1 DEF NewManager, ManagersOK, EvTypeOK, Mgr
        <3> QED BY <3>1, <3>2, CurIsLastNext
    <2> QED BY <1>15, <1>16, <2>1 DEF NewManager
<1>17. CASE Rebind
    <2>1. cur' = cur
        BY <1>17, SameCur DEF Rebind
    <2> QED BY <1>0, <1>15, <1>17, <2>1 DEF Rebind
<1>18. CASE Loading
    <2>1. UNCHANGED <<phase, home, destroying>> /\ cur' = cur
        BY <1>18, SameCur DEF Loading, ReadRecord, DeferRecord, RepairRecord, LoadEnds, others3
    <2>2. ASSUME NEW j \in Job, ReadRecord(j) PROVE SeenInv'
        <3>1. mem' = mem /\ load.pc = "walk"
            BY <2>2 DEF ReadRecord
        <3> SUFFICES ASSUME NEW k \in Job, home[k] # 0, home[k] # cur, Kept
                     PROVE  /\ load'.pc \in {"walk", "judge"}
                            /\ load'.pc = "walk" =>
                                  Known(k)' \/ load'.deferred = TRUE \/ k \in load'.todo \/ Found(k)'
                            /\ load'.pc = "judge" => Known(k)' \/ load'.deferred = TRUE \/ k \in load'.todo
                                                     \/ Found(k)' \/ load'.job = k
            BY <2>1 DEF SeenInv, Kept
        <3>2. Known(k) \/ load.deferred = TRUE \/ k \in load.todo \/ Found(k)
            BY <3>1 DEF SeenInv
        <3>3. (Known(k) => Known(k)') /\ (Found(k) => Found(k)')
            BY <1>0, <2>1, <2>2, <3>1, RecordIsRead DEF Known, Found
        <3>4. load'.pc = "walk" => (k = j => Known(k)' \/ Found(k)')
            <4>1. \/ <<j, disk[j]>> \in load'.found \/ load'.pc = "judge"
                  \/ missed' = missed \cup ({j} \cap Untold(cur))
                BY <1>0, <2>2, RecordIsRead
            <4>2. <<j, disk[j]>> \in load'.found => Found(j)'
                BY DEF Found
            <4>3. j \in Untold(cur) \/ home[j] = 0 \/ mem[cur][j].status # "none"
                BY DEF Untold
            <4> QED BY <2>1, <3>1, <4>1, <4>2, <4>3 DEF Known
        <3> QED BY <1>0, <2>2, <3>2, <3>3, <3>4, RecordIsRead
    <2>3. CASE DeferRecord
        <3>1. load'.pc = "walk" /\ load'.deferred = TRUE
            BY <1>0, <2>3 DEF DeferRecord, EvTypeOK, LoadRec
        <3> QED BY <3>1 DEF SeenInv
    <2>4. CASE RepairRecord
        <3> DEFINE meta == [load.snap EXCEPT !.status = "interrupted"]
        <3>1. /\ load.pc = "judge" /\ load'.pc = "walk" /\ load'.todo = load.todo /\ load'.deferred = load.deferred
              /\ load'.found = load.found \cup {<<load.job, meta>>} /\ mem' = mem /\ missed' = missed
            BY <1>0, <2>4 DEF RepairRecord, EvTypeOK, LoadRec
        <3> HIDE DEF meta
        <3>2. \A k \in Job : (Known(k) => Known(k)') /\ (Found(k) \/ load.job = k => Found(k)')
            <4>1. \A k \in Job : Known(k) => Known(k)'
                BY <2>1, <3>1 DEF Known
            <4>2. \A k \in Job : Found(k) => Found(k)'
                BY <3>1 DEF Found
            <4>3. <<load.job, meta>> \in load'.found /\ <<load.job, meta>>[1] = load.job
                BY <3>1
            <4>4. \A k \in Job : load.job = k => Found(k)'
                BY <4>3 DEF Found
            <4> QED BY <4>1, <4>2, <4>4
        <3> QED BY <2>1, <3>1, <3>2 DEF SeenInv, Kept
    <2>5. CASE LoadEnds
        <3>1. /\ load.pc = "walk" /\ load.todo = {} /\ missed' = missed
              /\ load'.pc = (IF load.deferred THEN "partial" ELSE "loaded")
            BY <2>5, NoLoadType DEF LoadEnds, LoadRec
        <3>2. \A k \in Job : Known(k) \/ Found(k) => Known(k)'
            <4> SUFFICES ASSUME NEW k \in Job, Known(k) \/ Found(k) PROVE Known(k)'
                OBVIOUS
            <4> DEFINE f == CHOOSE g \in load.found : g[1] = k
            <4>1. mem'[cur][k] = IF mem[cur][k].status = "none" /\ Found(k) THEN Tombstone(f[2]) ELSE mem[cur][k]
                BY <1>0, <2>5 DEF LoadEnds, EvTypeOK, Found
            <4>2. Found(k) => f \in load.found
                BY DEF Found
            <4> HIDE DEF f
            <4>3. Found(k) => Tombstone(f[2]).status # "none"
                BY <1>0, <4>2 DEF WalkOK, Tombstone
            <4> QED BY <2>1, <3>1, <4>1, <4>3 DEF Known
        <3> QED BY <1>0, <2>1, <3>1, <3>2 DEF SeenInv, Kept, EvTypeOK, LoadRec
    <2> QED BY <1>18, <2>2, <2>3, <2>4, <2>5 DEF Loading
<1>19. scenario.jobs \subseteq Job
    BY <1>0, ScenarioAssumption DEF EvTypeOK
<1> QED BY <1>2, <1>3, <1>4, <1>5, <1>6, <1>7, <1>8, <1>9, <1>10, <1>11, <1>12, <1>13, <1>14, <1>16, <1>17,
           <1>18, <1>19 DEF JNext, GoStep

(***************************************************************************)
(* And holds in every reachable state.                                     *)
(***************************************************************************)
LEMMA SeenIsInductive == JSpec => [](EvidenceInv /\ SeenInv)
<1>1. JInit => SeenInv
    BY DEF JInit, SeenInv
<1> QED BY <1>1, EvidenceAtStart, EvidenceIsKept, SeenIsKept, PTL DEF JSpec

(***************************************************************************)
(* A mutation on record stays in front of the agent until a turn that had  *)
(* it in its ledger was delivered, for any number of jobs and managers,    *)
(* whatever turns fail and managers close or die on the way, unless a      *)
(* repair used a stale read or the load did not get to see the record.     *)
(***************************************************************************)
THEOREM MutationsAwaitReview == JSpec => []MutationAwaitsReview
<1>1. EvidenceInv /\ SeenInv => MutationAwaitsReview
    <2> SUFFICES ASSUME EvidenceInv, SeenInv, NEW j \in (mutated \cap saved) \ reviewed, staleRepair = FALSE, Kept
                 PROVE  /\ disk[j].evidence = TRUE
                        /\ Open /\ load.pc = "loaded" /\ step[j] \in Ended /\ j \notin missed => j \in Pending
        BY DEF EvidenceInv, EvTypeOK, Kept, MutationAwaitsReview
    <2>1. /\ j \in Job /\ cur \in Mgr /\ mem[cur][j] \in MemRec
          /\ StepOK(j) /\ HomeOK(j) /\ TombOK(j) /\ CommittedOK(j) /\ FileOK(j)
        BY DEF EvidenceInv, EvTypeOK, ManagersOK
    <2>2. disk[j].evidence = TRUE
        BY <2>1 DEF FileOK, Sound
    <2>3. ASSUME Open, load.pc = "loaded", step[j] \in Ended, j \notin missed PROVE j \in Pending
        <3>1. mem[cur][j].committed = FALSE
            BY <2>1 DEF CommittedOK, Sound, MemRec
        <3>2. mem[cur][j].done = TRUE /\ mem[cur][j].evidence = TRUE
            <4>1. CASE home[j] = cur
                BY <2>1, <2>3, <3>1, <4>1 DEF HomeOK, StepOK, Ended, Open, Late, Mgr
            <4>2. CASE home[j] # cur
                <5>1. home[j] # 0
                    BY <2>1, <2>3 DEF StepOK, Ended
                <5>2. mem[cur][j].status # "none"
                    BY <2>1, <2>3, <4>2, <5>1 DEF SeenInv, Known
                <5> QED BY <2>1, <2>3, <3>1, <4>2, <5>2 DEF TombOK, Sound, Unknown
            <4> QED BY <4>1, <4>2
        <3> QED BY <2>1, <3>1, <3>2 DEF Pending
    <2> QED BY <2>2, <2>3
<1> QED BY <1>1, SeenIsInductive, PTL

(***************************************************************************)
(* CommitEvidence never consumes a mutation that the delivered turn did    *)
(* not have in its ledger.                                                 *)
(***************************************************************************)
THEOREM EvidenceWasReviewed == JSpec => []CommittedWasReviewed
<1>1. EvidenceInv => CommittedWasReviewed
    BY DEF EvidenceInv, EvTypeOK, CommittedOK, Sound, CommittedWasReviewed, MemRec
<1> QED BY <1>1, EvidenceIsInductive, PTL

(***************************************************************************)
(* Once a cleared session's artifacts are removed no job writes one back,  *)
(* as long as no manager is closed while its jobs go on: a job of an       *)
(* earlier manager is not a target of BeginDestroySession.                 *)
(***************************************************************************)
THEOREM ClearedStaysCleared == JSpec => [](May("close") \/ RemovedStaysRemoved)
<1>1. EvidenceInv => May("close") \/ RemovedStaysRemoved
    BY DEF EvidenceInv, ClearOK, RemovedStaysRemoved, OnDisk
<1> QED BY <1>1, EvidenceIsInductive, PTL

=============================================================================
