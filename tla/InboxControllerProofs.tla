----------------------- MODULE InboxControllerProofs -----------------------

(***************************************************************************)
(* Theorems about the inbox controller, for any number of turns, items,    *)
(* retries and ways to use it.  The argument follows every item in flight: *)
(* at each step of the dispatcher, the agent, the steer commands and the   *)
(* settlement somebody holds it and will settle it, and somebody is awake  *)
(* for every item that is queued.                                          *)
(***************************************************************************)
EXTENDS InboxController, InboxManifestProofs, TurnAdmissionProofs

-----------------------------------------------------------------------------

(* What the manifest says of an item: its state and its body.               *)
StatusIn(m, x) == IF x \in Ids(m) THEN StateOf(m, x) ELSE "gone"
TextIn(m, x) == IF x \in Ids(m) THEN ItemOf(m, x).sum ELSE "none"

(***************************************************************************)
(* The manifests the controller can have: no items repeated, and each body  *)
(* filed under its own id (the store is idle between the steps modelled     *)
(* here).                                                                   *)
(***************************************************************************)
WellStocked(m) == WellMade(m, Stem, AllBodies, {0})
ManOK(m) == WellStocked(m) /\ \A i \in 1..Len(m.items) : m.items[i].blob = m.items[i].id

(* A numbered list has as many places as its last number.                   *)
LEMMA Interval ==
    ASSUME NEW n \in Nat
    PROVE  IsFiniteSet(1..n) /\ Cardinality(1..n) = n
    BY FS_Interval

(* A manifest read by id: each place tells the state and the body of the    *)
(* item it holds.                                                           *)
LEMMA Seen ==
    ASSUME NEW m, ManOK(m)
    PROVE  /\ Len(m.items) \in Nat /\ DOMAIN m.items = 1..Len(m.items) /\ m.paused \in BOOLEAN
           /\ \A i \in 1..Len(m.items) :
                 /\ StatusIn(m, m.items[i].id) = m.items[i].state
                 /\ TextIn(m, m.items[i].id) = m.items[i].sum
                 /\ m.items[i].id \in Stem /\ m.items[i].id \in Ids(m)
                 /\ m.items[i].state \in States /\ m.items[i].sum \in AllBodies
                 /\ m.items[i].intent \in Intents
           /\ \A x : x \in Ids(m) <=> \E i \in 1..Len(m.items) : m.items[i].id = x
           /\ \A x : x \in Ids(m) => x \in Stem /\ StatusIn(m, x) \in States /\ TextIn(m, x) \in AllBodies
           /\ \A x : x \notin Ids(m) => StatusIn(m, x) = "gone"
<1>1. m.items \in Seq(Items(Stem, AllBodies, {0})) /\ Distinct(m.items) /\ m.paused \in BOOLEAN
    BY DEF ManOK, WellStocked, WellMade
<1>2. /\ Len(m.items) \in Nat /\ DOMAIN m.items = 1..Len(m.items)
      /\ \A i \in 1..Len(m.items) : m.items[i] \in Items(Stem, AllBodies, {0})
      /\ \A x : x \in Ids(m) <=> \E i \in 1..Len(m.items) : m.items[i].id = x
    BY <1>1, ByPosition
<1>3. \A i \in 1..Len(m.items) : ItemOf(m, m.items[i].id) = m.items[i] /\ StateOf(m, m.items[i].id) = m.items[i].state
    BY <1>1, ItemAtPosition
<1>4. \A i \in 1..Len(m.items) :
          /\ m.items[i].id \in Stem /\ m.items[i].state \in States /\ m.items[i].sum \in AllBodies
          /\ m.items[i].intent \in Intents
    BY <1>2 DEF Items
<1>5. \A i \in 1..Len(m.items) : /\ m.items[i].id \in Ids(m)
                                 /\ StatusIn(m, m.items[i].id) = m.items[i].state
                                 /\ TextIn(m, m.items[i].id) = m.items[i].sum
    BY <1>2, <1>3 DEF StatusIn, TextIn
<1>6. \A x : x \in Ids(m) => x \in Stem /\ StatusIn(m, x) \in States /\ TextIn(m, x) \in AllBodies
    <2> SUFFICES ASSUME NEW x, x \in Ids(m)
                 PROVE  x \in Stem /\ StatusIn(m, x) \in States /\ TextIn(m, x) \in AllBodies
        OBVIOUS
    <2>1. PICK i \in 1..Len(m.items) : m.items[i].id = x
        BY <1>2
    <2> QED BY <1>4, <1>5, <2>1
<1>7. \A x : x \notin Ids(m) => StatusIn(m, x) = "gone"
    BY DEF StatusIn
<1> QED BY <1>1, <1>2, <1>4, <1>5, <1>6, <1>7

(* A manifest has a number of items.                                        *)
LEMMA Counted ==
    ASSUME NEW m, ManOK(m)
    PROVE  Len(m.items) \in Nat
    BY Seen

(* The conditions the store checks (Claim, Ack, Retry, Discard) in terms of *)
(* the state of the one item they are about.                                *)
LEMMA Guards ==
    ASSUME NEW m, ManOK(m), NEW x
    PROVE  /\ x \in Ids(m) <=> StatusIn(m, x) # "gone"
           /\ IsPending(m, x) <=> StatusIn(m, x) \in Pending
           /\ CanClaim(m, x) <=> m.paused = FALSE /\ StatusIn(m, x) = "queued"
           /\ CanAck(m, x) <=> StatusIn(m, x) \in InFlightStates
           /\ CanRetry(m, x) <=> StatusIn(m, x) \in {"uncertain", "blocked"}
           /\ CanDiscard(m, {x}) <=> StatusIn(m, x) \in Pending
           /\ StatusIn(m, x) \in States \cup {"gone"}
           /\ x \in Ids(m) => StateOf(m, x) = StatusIn(m, x) /\ ItemOf(m, x).sum = TextIn(m, x) /\ x \in Stem
<1>1. /\ x \in Ids(m) => StatusIn(m, x) \in States /\ x \in Stem
      /\ x \notin Ids(m) => StatusIn(m, x) = "gone"
      /\ m.paused \in BOOLEAN
    BY Seen
<1>2. x \in Ids(m) => StateOf(m, x) = StatusIn(m, x) /\ ItemOf(m, x).sum = TextIn(m, x)
    BY DEF StatusIn, TextIn
<1>3. "gone" \notin States
    BY DEF States, Pending, InFlightStates
<1>4. x \in Ids(m) <=> StatusIn(m, x) # "gone"
    BY <1>1, <1>3
<1>5. "gone" \notin Pending /\ "gone" \notin InFlightStates
    BY DEF Pending, InFlightStates
<1>6. IsPending(m, x) <=> StatusIn(m, x) \in Pending
    BY <1>2, <1>4, <1>5 DEF IsPending
<1>7. CanDiscard(m, {x}) <=> StatusIn(m, x) \in Pending
    BY <1>6, <1>4, <1>5 DEF CanDiscard
<1>8. /\ CanClaim(m, x) <=> m.paused = FALSE /\ StatusIn(m, x) = "queued"
      /\ CanAck(m, x) <=> StatusIn(m, x) \in InFlightStates
      /\ CanRetry(m, x) <=> StatusIn(m, x) \in {"uncertain", "blocked"}
    BY <1>1, <1>2, <1>4, <1>5 DEF CanClaim, CanAck, CanRetry
<1> QED BY <1>1, <1>2, <1>4, <1>6, <1>7, <1>8

(* Two manifests with the same ids at the same places.                       *)
LEMMA SamePlaces ==
    ASSUME NEW m, NEW n, ManOK(m), ManOK(n), Len(n.items) = Len(m.items),
           \A i \in 1..Len(m.items) : n.items[i].id = m.items[i].id, NEW x
    PROVE  \/ StatusIn(m, x) = "gone" /\ StatusIn(n, x) = "gone" /\ x \notin Ids(m)
           \/ \E i \in 1..Len(m.items) :
                 /\ m.items[i].id = x /\ x \in Ids(m)
                 /\ StatusIn(m, x) = m.items[i].state /\ TextIn(m, x) = m.items[i].sum
                 /\ StatusIn(n, x) = n.items[i].state /\ TextIn(n, x) = n.items[i].sum
<1>1. CASE x \in Ids(m)
    <2>1. PICK i \in 1..Len(m.items) : m.items[i].id = x
        BY <1>1, Seen
    <2>2. StatusIn(m, x) = m.items[i].state /\ TextIn(m, x) = m.items[i].sum
        BY <2>1, Seen
    <2>3. StatusIn(n, x) = n.items[i].state /\ TextIn(n, x) = n.items[i].sum
        BY <2>1, Seen
    <2> QED BY <1>1, <2>1, <2>2, <2>3
<1>2. CASE x \notin Ids(m)
    <2>1. x \notin Ids(n)
        BY <1>2, Seen
    <2> QED BY <1>2, <2>1, Seen
<1> QED BY <1>1, <1>2

(* The view of an operation that leaves the places alone.                     *)
Texts(n, m) == \A x : StatusIn(m, x) # "gone" => TextIn(n, x) = TextIn(m, x)

(* One item changes state, if it is there; nothing else does.               *)
ViewSet(n, m, id, s) ==
    /\ ManOK(n) /\ n.paused = m.paused /\ Len(n.items) = Len(m.items)
    /\ \A x : StatusIn(n, x) = IF x = id /\ StatusIn(m, x) # "gone" THEN s ELSE StatusIn(m, x)
    /\ Texts(n, m)

(* SetState changes the one item.                                           *)
LEMMA SetView ==
    ASSUME NEW m, ManOK(m), NEW id, NEW s \in States, NEW n, n = SetItemState(m, id, s)
    PROVE  ViewSet(n, m, id, s)
<1>1. /\ WellStocked(n) /\ Len(n.items) = Len(m.items) /\ n.paused = m.paused
      /\ \A i \in 1..Len(m.items) :
            n.items[i] = IF m.items[i].id = id THEN [m.items[i] EXCEPT !.state = s] ELSE m.items[i]
    BY StateSet DEF ManOK, WellStocked
<1>2. \A i \in 1..Len(m.items) : m.items[i] \in Items(Stem, AllBodies, {0})
    BY ByPosition DEF ManOK, WellStocked, WellMade
<1>3. \A i \in 1..Len(m.items) :
          /\ n.items[i].id = m.items[i].id /\ n.items[i].sum = m.items[i].sum
             /\ n.items[i].blob = m.items[i].blob
          /\ n.items[i].state = IF m.items[i].id = id THEN s ELSE m.items[i].state
    BY <1>1, <1>2 DEF Items
<1>4. ManOK(n)
    BY <1>1, <1>3 DEF ManOK
<1>5. ASSUME NEW x PROVE
          /\ StatusIn(n, x) = IF x = id /\ StatusIn(m, x) # "gone" THEN s ELSE StatusIn(m, x)
          /\ StatusIn(m, x) # "gone" => TextIn(n, x) = TextIn(m, x)
    <2>1. \/ StatusIn(m, x) = "gone" /\ StatusIn(n, x) = "gone" /\ x \notin Ids(m)
          \/ \E i \in 1..Len(m.items) :
                 /\ m.items[i].id = x /\ x \in Ids(m)
                 /\ StatusIn(m, x) = m.items[i].state /\ TextIn(m, x) = m.items[i].sum
                 /\ StatusIn(n, x) = n.items[i].state /\ TextIn(n, x) = n.items[i].sum
        BY <1>4, <1>1, <1>3, SamePlaces
    <2>2. x \in Ids(m) <=> StatusIn(m, x) # "gone"
        BY Guards
    <2> QED BY <1>3, <2>1, <2>2
<1> QED BY <1>4, <1>1, <1>5 DEF ViewSet, Texts

(* The pause flag is set, and no item changes.                              *)
ViewPaused(n, m, p) ==
    /\ ManOK(n) /\ n.paused = p /\ Len(n.items) = Len(m.items)
    /\ \A x : StatusIn(n, x) = StatusIn(m, x)
    /\ Texts(n, m)

(* What is read of an item depends on the items alone.                      *)
LEMMA SameItemsView ==
    ASSUME NEW m, NEW n, n.items = m.items
    PROVE  /\ \A x : StatusIn(n, x) = StatusIn(m, x)
           /\ Texts(n, m) /\ Len(n.items) = Len(m.items)
    BY DEF StatusIn, TextIn, Texts, Ids, StateOf, ItemOf

(* SetPaused changes no item.                                               *)
LEMMA PausedView ==
    ASSUME NEW m, ManOK(m), NEW p \in BOOLEAN, NEW n, n = SetPaused(m, p)
    PROVE  ViewPaused(n, m, p)
<1>1. WellMade(m, Stem, AllBodies, {0})
    BY DEF ManOK, WellStocked
<1>2. WellMade(n, Stem, AllBodies, {0}) /\ SameItems(n, m)
    <2>1. CASE p = TRUE
        <3>1. Pausing(n, m)
            BY <2>1 DEF Pausing
        <3> QED BY <1>1, <3>1, PauseFacts DEF NowPaused
    <2>2. CASE p = FALSE
        <3>1. Resuming(n, m)
            BY <2>2 DEF Resuming
        <3> QED BY <1>1, <3>1, ResumeFacts
    <2> QED BY <2>1, <2>2
<1>3. n.paused = p
    BY <1>1 DEF SetPaused, WellMade, Fields
<1>4. ManOK(n) /\ n.items = m.items
    BY <1>2 DEF ManOK, WellStocked, SameItems
<1> QED BY <1>3, <1>4, SameItemsView DEF ViewPaused

(* A forced pause changes no item.                                          *)
LEMMA ForcedView ==
    ASSUME NEW m, ManOK(m), NEW n, n = ForcePause(m)
    PROVE  ViewPaused(n, m, TRUE)
<1>1. WellMade(m, Stem, AllBodies, {0}) /\ Pausing(n, m)
    BY DEF ManOK, WellStocked, Pausing
<1>2. WellMade(n, Stem, AllBodies, {0}) /\ NowPaused(n, m)
    BY <1>1, PauseFacts
<1>3. ManOK(n) /\ n.items = m.items /\ n.paused = TRUE
    BY <1>2 DEF ManOK, WellStocked, SameItems, NowPaused
<1> QED BY <1>3, SameItemsView DEF ViewPaused

(* An item changes its intent: neither a state nor a body changes.          *)
ViewIntent(n, m) == ViewPaused(n, m, m.paused)

(* ConvertIntent changes neither a state nor a body.                        *)
LEMMA IntentView ==
    ASSUME NEW m, ManOK(m), NEW id, NEW intent \in Intents, NEW n, n = ConvertIntent(m, id, intent)
    PROVE  ViewIntent(n, m)
<1>1. /\ WellStocked(n) /\ Len(n.items) = Len(m.items) /\ n.paused = m.paused
      /\ \A i \in 1..Len(m.items) :
            n.items[i] = IF m.items[i].id = id THEN [m.items[i] EXCEPT !.intent = intent] ELSE m.items[i]
    BY IntentSet DEF ManOK, WellStocked
<1>2. \A i \in 1..Len(m.items) : m.items[i] \in Items(Stem, AllBodies, {0})
    BY ByPosition DEF ManOK, WellStocked, WellMade
<1>3. \A i \in 1..Len(m.items) :
          /\ n.items[i].id = m.items[i].id /\ n.items[i].sum = m.items[i].sum
             /\ n.items[i].blob = m.items[i].blob
          /\ n.items[i].state = m.items[i].state
    BY <1>1, <1>2 DEF Items
<1>4. ManOK(n)
    BY <1>1, <1>3 DEF ManOK
<1>5. ASSUME NEW x PROVE
          /\ StatusIn(n, x) = StatusIn(m, x)
          /\ StatusIn(m, x) # "gone" => TextIn(n, x) = TextIn(m, x)
    <2>1. \/ StatusIn(m, x) = "gone" /\ StatusIn(n, x) = "gone" /\ x \notin Ids(m)
          \/ \E i \in 1..Len(m.items) :
                 /\ m.items[i].id = x /\ x \in Ids(m)
                 /\ StatusIn(m, x) = m.items[i].state /\ TextIn(m, x) = m.items[i].sum
                 /\ StatusIn(n, x) = n.items[i].state /\ TextIn(n, x) = n.items[i].sum
        BY <1>4, <1>1, <1>3, SamePlaces
    <2> QED BY <1>3, <2>1
<1> QED BY <1>4, <1>1, <1>5 DEF ViewIntent, ViewPaused, Texts

(* The queue is paused and every item in flight that nobody owns is         *)
(* uncertain.                                                               *)
ViewOrphans(n, m, owned) ==
    /\ ManOK(n) /\ n.paused = TRUE /\ Len(n.items) = Len(m.items)
    /\ \A x : StatusIn(n, x) = IF x \notin owned /\ StatusIn(m, x) \in InFlightStates
                               THEN "uncertain" ELSE StatusIn(m, x)
    /\ Texts(n, m)

(* RecoverOrphanedInFlightOwnedBy marks the orphans and pauses the queue.   *)
LEMMA OrphansView ==
    ASSUME NEW m, ManOK(m), NEW owned, NEW n, n = RecoverOrphans(m, owned)
    PROVE  ViewOrphans(n, m, owned)
<1>1. /\ WellStocked(n) /\ Len(n.items) = Len(m.items) /\ n.paused = TRUE
      /\ \A i \in 1..Len(m.items) :
            n.items[i] = IF m.items[i].id \in Ids(m) \ owned /\ m.items[i].state \in InFlightStates
                         THEN [m.items[i] EXCEPT !.state = "uncertain"] ELSE m.items[i]
    <2>1. WellMade(m, Stem, AllBodies, {0})
        BY DEF ManOK, WellStocked
    <2>2. WellMade(n, Stem, AllBodies, {0}) /\ OrphansSettled(n, m, owned)
        BY <2>1, OrphansFacts
    <2> QED BY <2>2 DEF WellStocked, OrphansSettled, Settled
<1>2. \A i \in 1..Len(m.items) : m.items[i] \in Items(Stem, AllBodies, {0})
    BY ByPosition DEF ManOK, WellStocked, WellMade
<1>3. \A i \in 1..Len(m.items) :
          /\ n.items[i].id = m.items[i].id /\ n.items[i].sum = m.items[i].sum
             /\ n.items[i].blob = m.items[i].blob
          /\ n.items[i].state = IF m.items[i].id \in Ids(m) \ owned
             /\ m.items[i].state \in InFlightStates
                                THEN "uncertain" ELSE m.items[i].state
    BY <1>1, <1>2 DEF Items
<1>4. ManOK(n)
    BY <1>1, <1>3 DEF ManOK
<1>5. ASSUME NEW x PROVE
          /\ StatusIn(n, x) = IF x \notin owned /\ StatusIn(m, x) \in InFlightStates
                               THEN "uncertain" ELSE StatusIn(m, x)
          /\ StatusIn(m, x) # "gone" => TextIn(n, x) = TextIn(m, x)
    <2>1. \/ StatusIn(m, x) = "gone" /\ StatusIn(n, x) = "gone" /\ x \notin Ids(m)
          \/ \E i \in 1..Len(m.items) :
                 /\ m.items[i].id = x /\ x \in Ids(m)
                 /\ StatusIn(m, x) = m.items[i].state /\ TextIn(m, x) = m.items[i].sum
                 /\ StatusIn(n, x) = n.items[i].state /\ TextIn(n, x) = n.items[i].sum
        BY <1>4, <1>1, <1>3, SamePlaces
    <2>2. "gone" \notin InFlightStates
        BY DEF InFlightStates
    <2> QED BY <1>3, <2>1, <2>2
<1> QED BY <1>4, <1>1, <1>5 DEF ViewOrphans, Texts

(* One item is gone; a pause ends only when nothing is left.                *)
ViewRemoved(n, m, id) ==
    /\ ManOK(n) /\ Len(n.items) <= Len(m.items)
    /\ n.paused = TRUE => m.paused = TRUE
    /\ n.paused = FALSE /\ m.paused = TRUE => \A x : StatusIn(n, x) = "gone"
    /\ \A x : StatusIn(n, x) = IF x = id THEN "gone" ELSE StatusIn(m, x)
    /\ \A x : StatusIn(n, x) # "gone" => TextIn(n, x) = TextIn(m, x)

(* AckDequeue, DeleteItem and DiscardPendingItems take the one item out and *)
(* leave the others as they were.                                           *)
LEMMA RemovedView ==
    ASSUME NEW m, ManOK(m), NEW id, NEW n, n = RemoveItems(m, {id}, m.receipts)
    PROVE  ViewRemoved(n, m, id)
<1>1. WellMade(n, Stem, AllBodies, {0}) /\ LeftWithout(n, m, {id})
    BY Removed DEF ManOK, WellStocked
<1>2. PICK g : Picks(n.items, m.items, g)
    BY <1>1 DEF LeftWithout
<1>3. \A i \in 1..Len(n.items) : g[i] \in 1..Len(m.items) /\ n.items[i] = m.items[g[i]]
    BY <1>2 DEF Picks
<1>4. ManOK(n) /\ LeftWithout(n, m, {id})
    BY <1>1, <1>3 DEF ManOK, WellStocked
<1>5. Len(n.items) \in Nat /\ Len(m.items) \in Nat /\ n.paused \in BOOLEAN /\ m.paused \in BOOLEAN
    BY <1>4, Seen
<1>6. Len(n.items) <= Len(m.items)
    <2>1. g \in Injection(1..Len(n.items), 1..Len(m.items))
        BY <1>2 DEF Picks, Injection, IsInjective
    <2>2. IsFiniteSet(1..Len(n.items)) /\ Cardinality(1..Len(n.items)) = Len(n.items)
        BY <1>5, Interval
    <2>3. IsFiniteSet(1..Len(m.items)) /\ Cardinality(1..Len(m.items)) = Len(m.items)
        BY <1>5, Interval
    <2>4. Cardinality(1..Len(n.items)) <= Cardinality(1..Len(m.items))
        BY <2>1, <2>2, <2>3, FS_Injection
    <2> QED BY <2>2, <2>3, <2>4
<1>7. ASSUME NEW x PROVE
          /\ StatusIn(n, x) = IF x = id THEN "gone" ELSE StatusIn(m, x)
          /\ StatusIn(n, x) # "gone" => TextIn(n, x) = TextIn(m, x)
    <2>1. CASE x \in Ids(n)
        <3>1. PICK i \in 1..Len(n.items) : n.items[i].id = x
            BY <1>4, <2>1, Seen
        <3>2. x # id
            BY <1>4, <3>1 DEF LeftWithout
        <3>3. StatusIn(n, x) = n.items[i].state /\ TextIn(n, x) = n.items[i].sum
            BY <1>4, <3>1, Seen
        <3>4. g[i] \in 1..Len(m.items) /\ m.items[g[i]] = n.items[i] /\ m.items[g[i]].id = x
            BY <1>3, <3>1
        <3>5. StatusIn(m, x) = m.items[g[i]].state /\ TextIn(m, x) = m.items[g[i]].sum
            BY <3>4, Seen
        <3> QED BY <3>2, <3>3, <3>4, <3>5
    <2>2. CASE x \notin Ids(n)
        <3>1. StatusIn(n, x) = "gone"
            BY <1>4, <2>2, Seen
        <3>2. ASSUME x # id, x \in Ids(m) PROVE FALSE
            <4>1. PICK i \in 1..Len(m.items) : m.items[i].id = x
                BY <3>2, Seen
            <4>2. PICK j \in 1..Len(n.items) : n.items[j] = m.items[i]
                BY <1>4, <3>2, <4>1 DEF LeftWithout
            <4> QED BY <1>4, <2>2, <4>1, <4>2, Seen
        <3>3. x # id => StatusIn(m, x) = "gone"
            BY <3>2, Seen
        <3> QED BY <3>1, <3>3
    <2> QED BY <2>1, <2>2
<1>8. n.paused = (m.paused /\ n.items # <<>>)
    BY <1>4 DEF LeftWithout
<1>9. ASSUME n.items = <<>>, NEW x PROVE StatusIn(n, x) = "gone"
    <2>1. Len(n.items) = 0
        BY <1>9
    <2> QED BY <1>4, <2>1, Seen
<1>10. n.paused = FALSE /\ m.paused = TRUE => \A x : StatusIn(n, x) = "gone"
    BY <1>8, <1>9
<1>11. n.paused = TRUE => m.paused = TRUE
    BY <1>5, <1>8
<1> QED BY <1>4, <1>6, <1>7, <1>10, <1>11 DEF ViewRemoved

(* A new item is queued with its body.                                      *)
ViewAdded(n, m, id, b) ==
    /\ ManOK(n) /\ n.paused = m.paused /\ Len(n.items) = Len(m.items) + 1
    /\ \A x : StatusIn(n, x) = IF x = id THEN "queued" ELSE StatusIn(m, x)
    /\ Texts(n, m) /\ TextIn(n, id) = b

(* Enqueue queues the new item and touches no other.                        *)
LEMMA AddedView ==
    ASSUME NEW m, ManOK(m), NEW id \in Stem, NEW intent \in Intents, NEW b \in AllBodies,
           id \notin Ids(m), NEW n, n = Enqueue(m, id, intent, NoKey, b)
    PROVE  ViewAdded(n, m, id, b)
<1> DEFINE e == [id |-> id, intent |-> intent, state |-> "queued", blob |-> id, sum |-> b, run |-> m.run]
<1>1. id \notin BlobsOf(m) /\ WellMade(m, Stem, AllBodies, {0})
    <2>1. m.items \in Seq(Items(Stem, AllBodies, {0})) /\ WellMade(m, Stem, AllBodies, {0})
        BY DEF ManOK, WellStocked, WellMade
    <2> QED BY <2>1, ByPosition DEF ManOK
<1>2. /\ WellStocked(n) /\ n.items = Append(m.items, e) /\ Len(n.items) = Len(m.items) + 1
      /\ \A i \in 1..Len(m.items) : n.items[i] = m.items[i]
      /\ n.items[Len(m.items) + 1] = e
    BY <1>1, Enqueued DEF WellStocked
<1>3. n.paused = m.paused
    BY <1>1 DEF Enqueue, Bind, WellMade, Fields
<1>4. Len(m.items) \in Nat
    BY Seen
<1>5. /\ ManOK(n) /\ n.items = Append(m.items, e) /\ Len(n.items) = Len(m.items) + 1
      /\ \A i \in 1..Len(m.items) : n.items[i] = m.items[i]
      /\ n.items[Len(m.items) + 1] = e
    <2>1. \A i \in 1..Len(n.items) : i \in 1..Len(m.items) \/ i = Len(m.items) + 1
        BY <1>4, <1>2
    <2>2. e.blob = e.id
        OBVIOUS
    <2> QED BY <1>2, <2>1, <2>2 DEF ManOK
<1>6. ASSUME NEW x PROVE
          /\ StatusIn(n, x) = IF x = id THEN "queued" ELSE StatusIn(m, x)
          /\ StatusIn(m, x) # "gone" => TextIn(n, x) = TextIn(m, x)
    <2>1. CASE x = id
        <3>1. Len(m.items) + 1 \in 1..Len(n.items) /\ e.id = id /\ e.state = "queued"
            BY <1>5, <1>4
        <3>2. StatusIn(n, id) = "queued" /\ StatusIn(m, id) = "gone"
            <4> DEFINE j == Len(m.items) + 1
            <4>1. n.items[j].id = id /\ n.items[j].state = "queued" /\ j \in 1..Len(n.items)
                BY <1>5, <3>1
            <4> HIDE DEF j
            <4>2. StatusIn(n, n.items[j].id) = n.items[j].state
                BY <1>5, <4>1, Seen
            <4>3. StatusIn(m, id) = "gone"
                BY Seen
            <4> QED BY <4>1, <4>2, <4>3
        <3> QED BY <2>1, <3>2
    <2>2. CASE x # id /\ x \in Ids(m)
        <3>1. PICK i \in 1..Len(m.items) : m.items[i].id = x
            BY <2>2, Seen
        <3>2. i \in 1..Len(n.items) /\ n.items[i].id = x
            BY <1>5, <1>4, <3>1
        <3>3. StatusIn(n, x) = n.items[i].state /\ TextIn(n, x) = n.items[i].sum
            <4>1. ManOK(n)
                BY <1>5
            <4>2. /\ StatusIn(n, n.items[i].id) = n.items[i].state
                  /\ TextIn(n, n.items[i].id) = n.items[i].sum
                BY <3>2, <4>1, Seen
            <4> QED BY <3>2, <4>2
        <3>4. StatusIn(m, x) = m.items[i].state /\ TextIn(m, x) = m.items[i].sum
            BY <3>1, Seen
        <3> QED BY <1>5, <2>2, <3>1, <3>3, <3>4
    <2>3. CASE x # id /\ x \notin Ids(m)
        <3>1. ASSUME x \in Ids(n) PROVE FALSE
            <4>1. ManOK(n)
                BY <1>5
            <4>2. PICK i \in 1..Len(n.items) : n.items[i].id = x
                BY <3>1, <4>1, Seen
            <4>3. i = Len(m.items) + 1 \/ i \in 1..Len(m.items)
                BY <1>5, <1>4
            <4>4. e.id = id
                OBVIOUS
            <4>5. i \in 1..Len(m.items)
                BY <1>5, <2>3, <4>2, <4>3, <4>4
            <4> QED BY <1>5, <2>3, <4>2, <4>5, Seen
        <3> QED BY <1>5, <2>3, <3>1, Seen
    <2> QED BY <2>1, <2>2, <2>3
<1>7. TextIn(n, id) = b
    <2>1. Len(m.items) + 1 \in 1..Len(n.items) /\ e.id = id /\ e.sum = b
        BY <1>5, <1>4
    <2> QED BY <1>5, <2>1, Seen
<1> QED BY <1>5, <1>3, <1>6, <1>7 DEF ViewAdded, Texts

(* An edited item is queued again if it was blocked.                        *)
ViewEdited(n, m, id) ==
    /\ ManOK(n) /\ n.paused = m.paused /\ Len(n.items) = Len(m.items)
    /\ \A x : StatusIn(n, x) = IF x = id /\ StatusIn(m, x) = "blocked" THEN "queued" ELSE StatusIn(m, x)

(* UpdateItem puts a blocked item back in the queue and changes no other    *)
(* state.                                                                   *)
LEMMA EditedView ==
    ASSUME NEW m, ManOK(m), NEW id, NEW b \in AllBodies, NEW n, n = UpdateItem(m, id, id, b, NoKey, b)
    PROVE  ViewEdited(n, m, id)
<1> DEFINE q == [i \in 1..Len(m.items) |-> IF m.items[i].id = id
                    THEN [m.items[i] EXCEPT !.blob = id, !.sum = b,
                                            !.state = IF @ = "blocked" THEN "queued" ELSE @]
                    ELSE m.items[i]]
<1>1. /\ m.items \in Seq(Items(Stem, AllBodies, {0})) /\ Len(m.items) \in Nat
      /\ DOMAIN m.items = 1..Len(m.items)
      /\ \A i \in 1..Len(m.items) : m.items[i] \in Items(Stem, AllBodies, {0})
      /\ \A i \in 1..Len(m.items) : m.items[i].blob = m.items[i].id
      /\ WellMade(m, Stem, AllBodies, {0})
    BY ByPosition DEF ManOK, WellStocked, WellMade
<1>2. n = [m EXCEPT !.items = q]
    BY <1>1 DEF UpdateItem, Bind, MapItem, WellMade, Fields
<1>3. \A i \in 1..Len(m.items) : q[i] \in Items(Stem, AllBodies, {0})
    BY <1>1 DEF Items, States, Pending
<1>4. q \in [1..Len(m.items) -> Items(Stem, AllBodies, {0})]
    BY <1>3
<1>5. \A i \in 1..Len(m.items) : 
          /\ q[i].id = m.items[i].id /\ q[i].blob = m.items[i].id
          /\ q[i].state = IF m.items[i].id = id
             /\ m.items[i].state = "blocked" THEN "queued" ELSE m.items[i].state
    BY <1>1 DEF Items
<1> HIDE DEF q
<1>6. q \in Seq(Items(Stem, AllBodies, {0})) /\ Len(q) = Len(m.items)
    BY <1>1, <1>4, FunctionIsSeq
<1>7. Distinct(q)
    BY <1>1, <1>5, <1>6 DEF Distinct, WellMade
<1>8. WellMade(n, Stem, AllBodies, {0}) /\ n.items = q /\ n.paused = m.paused
    BY <1>1, <1>2, <1>5, <1>6, <1>7, Relisted
<1>9. ManOK(n) /\ Len(n.items) = Len(m.items) /\ \A i \in 1..Len(m.items) : n.items[i].id = m.items[i].id
    BY <1>5, <1>6, <1>8 DEF ManOK, WellStocked
<1>10. ASSUME NEW x
       PROVE StatusIn(n, x) = IF x = id /\ StatusIn(m, x) = "blocked" THEN "queued" ELSE StatusIn(m, x)
    <2>1. \/ StatusIn(m, x) = "gone" /\ StatusIn(n, x) = "gone" /\ x \notin Ids(m)
          \/ \E i \in 1..Len(m.items) :
                 /\ m.items[i].id = x /\ x \in Ids(m)
                 /\ StatusIn(m, x) = m.items[i].state /\ TextIn(m, x) = m.items[i].sum
                 /\ StatusIn(n, x) = n.items[i].state /\ TextIn(n, x) = n.items[i].sum
        BY <1>9, SamePlaces
    <2> QED BY <1>5, <1>8, <2>1
<1> QED BY <1>8, <1>9, <1>10 DEF ViewEdited

(* NextQueued names an item of the queue, and finds one whenever an         *)
(* unpaused queue has one.                                                  *)
LEMMA NextView ==
    ASSUME NEW m, ManOK(m)
    PROVE  /\ \A x \in NextQueued(m) : x \in Ids(m) /\ x \in Stem
           /\ NextQueued(m) = {} /\ m.paused = FALSE => \A x : StatusIn(m, x) # "queued"
<1> DEFINE f == Queued(m, {"followup"})
           a == Queued(m, Intents)
           at == IF f # {} THEN f ELSE a
<1>1. Len(m.items) \in Nat /\ DOMAIN m.items = 1..Len(m.items)
    BY Seen
<1>2. at \subseteq 1..Len(m.items) /\ f \subseteq a
    BY <1>1 DEF Queued, Intents
<1>3. NextQueued(m) = {m.items[i].id : i \in {i \in at : ~m.paused /\ \A j \in at : i <= j}}
    BY DEF NextQueued
<1>4. ASSUME NEW x \in NextQueued(m) PROVE x \in Ids(m) /\ x \in Stem
    <2>1. PICK i \in at : x = m.items[i].id
        BY <1>3
    <2> QED BY <1>2, <2>1, Seen
<1>5. ASSUME NextQueued(m) = {}, m.paused = FALSE, NEW x, StatusIn(m, x) = "queued" PROVE FALSE
    <2>1. x \in Ids(m)
        BY <1>5, Guards
    <2>2. PICK i \in 1..Len(m.items) : m.items[i].id = x
        BY <2>1, Seen
    <2>3. m.items[i].state = "queued" /\ m.items[i].intent \in Intents
        BY <1>5, <2>2, Seen
    <2>4. i \in a
        BY <1>1, <2>3 DEF Queued
    <2>5. at # {} /\ at \in SUBSET Nat
        BY <1>1, <1>2, <2>4
    <2> HIDE DEF at
    <2>6. PICK k \in at : \A j \in at : k <= j
        BY <2>5, LeastElement
    <2>7. m.items[k].id \in NextQueued(m)
        BY <1>3, <1>5, <2>6
    <2> QED BY <1>5, <2>7
<1> QED BY <1>4, <1>5

-----------------------------------------------------------------------------

(* A list without repetitions.                                              *)
Once(q) == \A i, j \in DOMAIN q : q[i] = q[j] => i = j

(* Taking the first of the agent's steers: the others keep their places.    *)
LEMMA FrontPopped ==
    ASSUME NEW S, NEW q \in Seq(S), q # <<>>
    PROVE  /\ Head(q) \in S /\ Tail(q) \in Seq(S)
           /\ ToSet(q) = {Head(q)} \cup ToSet(Tail(q))
           /\ Once(q) => Once(Tail(q)) /\ Head(q) \notin ToSet(Tail(q))
           /\ Len(q) > 1 <=> Tail(q) # <<>>
<1>1. /\ Head(q) \in S /\ Tail(q) \in Seq(S) /\ Len(q) \in Nat /\ Len(q) # 0
      /\ Len(Tail(q)) = Len(q) - 1 /\ DOMAIN q = 1..Len(q) /\ Head(q) = q[1]
      /\ DOMAIN Tail(q) = 1..(Len(q) - 1) /\ \A i \in 1..(Len(q) - 1) : Tail(q)[i] = q[i + 1]
    BY HeadTailProperties, LenProperties, EmptySeq
<1>2. ToSet(q) = {Head(q)} \cup ToSet(Tail(q))
    <2>1. \A x \in ToSet(q) : x = Head(q) \/ x \in ToSet(Tail(q))
        <3> SUFFICES ASSUME NEW x \in ToSet(q), x # Head(q) PROVE x \in ToSet(Tail(q))
            OBVIOUS
        <3>1. PICK i \in 1..Len(q) : q[i] = x
            BY <1>1 DEF ToSet
        <3>2. i - 1 \in 1..(Len(q) - 1) /\ (i - 1) + 1 = i
            BY <1>1, <3>1
        <3>3. Tail(q)[i - 1] = x
            BY <1>1, <3>1, <3>2
        <3> QED BY <1>1, <3>2, <3>3 DEF ToSet
    <2>2. Head(q) \in ToSet(q)
        BY <1>1 DEF ToSet
    <2>3. \A x \in ToSet(Tail(q)) : x \in ToSet(q)
        BY <1>1 DEF ToSet
    <2> QED BY <2>1, <2>2, <2>3
<1>3. ASSUME Once(q) PROVE Once(Tail(q)) /\ Head(q) \notin ToSet(Tail(q))
    <2>1. \A i, j \in 1..Len(q) : q[i] = q[j] => i = j
        BY <1>1, <1>3 DEF Once
    <2>2. \A i \in 1..(Len(q) - 1) : i + 1 \in 1..Len(q) /\ i + 1 # 1 /\ 1 \in 1..Len(q)
        BY <1>1
    <2>3. \A i \in 1..(Len(q) - 1) : Tail(q)[i] # Head(q)
        BY <1>1, <2>1, <2>2
    <2>4. \A i, j \in 1..(Len(q) - 1) : Tail(q)[i] = Tail(q)[j] => i = j
        <3> SUFFICES ASSUME NEW i \in 1..(Len(q) - 1), NEW j \in 1..(Len(q) - 1), Tail(q)[i] = Tail(q)[j]
                     PROVE  i = j
            OBVIOUS
        <3>1. q[i + 1] = q[j + 1]
            BY <1>1
        <3>2. i + 1 = j + 1
            BY <2>1, <2>2, <3>1
        <3> QED BY <1>1, <3>2
    <2> QED BY <1>1, <2>3, <2>4 DEF Once, ToSet
<1>4. Len(q) > 1 <=> Tail(q) # <<>>
    BY <1>1, EmptySeq, LenProperties
<1> QED BY <1>1, <1>2, <1>3, <1>4

(* Putting a steer at the end of the agent's queue.                         *)
LEMMA BackAdded ==
    ASSUME NEW S, NEW q \in Seq(S), NEW x \in S
    PROVE  /\ Append(q, x) \in Seq(S) /\ Append(q, x) # <<>>
           /\ ToSet(Append(q, x)) = ToSet(q) \cup {x}
           /\ Once(q) /\ x \notin ToSet(q) => Once(Append(q, x))
<1> DEFINE p == Append(q, x)
<1>1. /\ p \in Seq(S) /\ Len(q) \in Nat /\ Len(p) = Len(q) + 1 /\ DOMAIN q = 1..Len(q)
      /\ DOMAIN p = 1..(Len(q) + 1)
      /\ \A i \in 1..Len(q) : p[i] = q[i]
      /\ p[Len(q) + 1] = x
    BY AppendProperties, LenProperties
<1> HIDE DEF p
<1>2. p # <<>>
    BY <1>1, EmptySeq
<1>3. ToSet(p) = ToSet(q) \cup {x}
    <2>1. \A y \in ToSet(p) : y \in ToSet(q) \cup {x}
        BY <1>1 DEF ToSet
    <2>2. \A y \in ToSet(q) : y \in ToSet(p)
        BY <1>1 DEF ToSet
    <2>3. x \in ToSet(p)
        <3>1. Len(q) + 1 \in DOMAIN p
            BY <1>1
        <3> QED BY <1>1, <3>1 DEF ToSet
    <2> QED BY <2>1, <2>2, <2>3
<1>4. ASSUME Once(q), x \notin ToSet(q) PROVE Once(p)
    <2>1. \A i \in 1..Len(q) : q[i] # x
        BY <1>1, <1>4 DEF ToSet
    <2>2. \A i \in 1..(Len(q) + 1) : i \in 1..Len(q) \/ i = Len(q) + 1
        BY <1>1
    <2> QED BY <1>1, <1>4, <2>1, <2>2 DEF Once
<1> QED BY <1>1, <1>2, <1>3, <1>4 DEF p

(* The empty list lists nothing.                                            *)
LEMMA NoneListed == ToSet(<<>>) = {} /\ Once(<<>>)
    BY DEF ToSet, Once

(* A list of one steer.                                                     *)
LEMMA OneListed ==
    ASSUME NEW S, NEW x \in S
    PROVE  <<x>> \in Seq(S) /\ <<x>> # <<>> /\ ToSet(<<x>>) = {x} /\ Once(<<x>>) /\ Head(<<x>>) = x
           /\ Tail(<<x>>) = <<>>
<1>1. <<x>> \in Seq(S) /\ Len(<<x>>) = 1 /\ DOMAIN <<x>> = {1} /\ <<x>>[1] = x
    OBVIOUS
<1>2. ToSet(<<x>>) = {x} /\ Once(<<x>>)
    BY <1>1 DEF ToSet, Once
<1>3. Head(<<x>>) = x /\ Tail(<<x>>) = <<>>
    OBVIOUS
<1> QED BY <1>1, <1>2, <1>3

(* A list of items lists items.                                             *)
LEMMA ListedOnce ==
    ASSUME NEW S, NEW q \in Seq(S)
    PROVE  ToSet(q) \subseteq S
    BY ElementOfSeq, LenProperties DEF ToSet

-----------------------------------------------------------------------------

(* An item, or none.                                                        *)
Names == Stem \cup {NoStem}

(* Where the dispatcher holds an item it has claimed and not yet handed to  *)
(* a turn.                                                                  *)
DispHolds == {"ask", "admit", "onstart", "rollback"}

(* Where the dispatcher holds admissionMu.                                  *)
DispLocked == DispHolds \cup {"claim", "pause", "return", "error"}

(* Where a steer command holds admissionMu.                                 *)
SteerLocked == {"mark", "enqueue", "requeue", "convert", "return"}

(***************************************************************************)
(* The types of the records of the inbox wiring: an item handed to a turn,  *)
(* the settlement of a turn's items, the dispatcher, its bounded retries,   *)
(* the agent's steer queue, a steer command and a command of the frontend.  *)
(***************************************************************************)
ItemRec == [id : Names, body : AllBodies \cup {"none"}]
SettleRec == [pc : {"off", "capture", "ack", "unsaved", "done"}, ids : SUBSET Stem,
              left : SUBSET Stem, failed : BOOLEAN]
DispRec == [pc : DispLocked \cup {"off", "loop", "busy", "scan", "submit"}, kick : BOOLEAN,
            item : ItemRec, turn : Turn \cup {NoTurn}]
RetryRec == [attempts : 0..MaxDispatchRetries, scheduled : BOOLEAN]
AgentRec == [pc : {"off", "run", "applied", "unapplied", "unowned"}, up : BOOLEAN,
             queue : Seq(Stem), id : Names, flush : Seq(Stem)]
SteerRec == [pc : SteerLocked \cup {"off", "called"}, id : Names, image : BOOLEAN, kick : BOOLEAN]
UserRec == [pc : {"off", "followup", "steer", "badref", "badpause", "delete", "redelete", "unaccept",
                  "cwpause", "cwdiscard", "cwcancel", "cwcancelresume", "cwresume"},
            id : Names, wasPaused : BOOLEAN]

(* The manifest is well made, within its limit, and names only items that   *)
(* were drawn.                                                              *)
ManifestOK ==
    /\ ManOK(man) /\ Len(man.items) <= MaxItems
    /\ used \subseteq Stem /\ \A x : StatusIn(man, x) # "gone" => x \in used

(* The records have their types.                                            *)
RecordsOK ==
    /\ front \in Frontends
    /\ admMu \in {"free", "disp", "steer"}
    /\ item \in [Turn -> ItemRec] /\ settle \in [Turn -> SettleRec]
    /\ disp \in DispRec /\ retry \in RetryRec /\ agent \in AgentRec
    /\ steer \in SteerRec /\ user \in UserRec

(* Whoever is named is an item that was queued at some time.                *)
NamesOK ==
    /\ active \subseteq used /\ admitting \subseteq used /\ applied \subseteq used
       /\ acked \subseteq used /\ unsaved \subseteq used
    /\ \A t \in Turn : /\ settle[t].left \subseteq used
                       /\ item[t] # NoItem => item[t].id \in used
    /\ disp.pc \in DispLocked \cup {"submit"} => disp.item.id \in used
    /\ disp.pc \in {"admit", "onstart"} => disp.turn \in Turn
    /\ steer.pc # "off" => steer.id \in used
    /\ user.pc # "off" => user.id \in used
    /\ agent.pc \in {"unapplied", "unowned"} <=> agent.flush # <<>>
    /\ ToSet(agent.queue) \subseteq used /\ ToSet(agent.flush) \subseteq used
    /\ agent.id # NoStem => agent.id \in used

(* The type invariant that is inductive.                                    *)
Typed == ManifestOK /\ RecordsOK /\ NamesOK

(* What each step makes of the manifest.  The dispatcher's scan finds a     *)
(* queued item whenever an unpaused queue has one.                          *)
LEMMA DispScanDoes ==
    ASSUME ManifestOK
    PROVE  /\ \A x \in NextQueued(man) : x \in used /\ x \in Stem
           /\ NextQueued(man) = {} /\ man.paused = FALSE => \A x : StatusIn(man, x) # "queued"
    BY NextView, Guards DEF ManifestOK

(* What the tests on an item mean, item by item.                            *)
LEMMA DispReadDoes ==
    ASSUME ManifestOK, NEW x
    PROVE  /\ CanClaim(man, x) <=> man.paused = FALSE /\ StatusIn(man, x) = "queued"
           /\ Has(x) <=> StatusIn(man, x) # "gone"
           /\ Has(x) => StateOf(man, x) = StatusIn(man, x) /\ BodyOf(x) = TextIn(man, x)
                        /\ BodyOf(x) \in AllBodies /\ x \in Stem /\ x \in used
           /\ \A s : Is(x, s) <=> StatusIn(man, x) = s /\ StatusIn(man, x) # "gone"
           /\ StatusIn(man, x) \in States \cup {"gone"} /\ man.paused \in BOOLEAN
           /\ IsPending(man, x) <=> StatusIn(man, x) \in Pending
           /\ CanAck(man, x) <=> StatusIn(man, x) \in InFlightStates
           /\ CanRetry(man, x) <=> StatusIn(man, x) \in {"uncertain", "blocked"}
           /\ CanDiscard(man, {x}) <=> StatusIn(man, x) \in Pending
<1>1. ManOK(man)
    BY DEF ManifestOK
<1>2. /\ x \in Ids(man) <=> StatusIn(man, x) # "gone"
      /\ IsPending(man, x) <=> StatusIn(man, x) \in Pending
      /\ CanClaim(man, x) <=> man.paused = FALSE /\ StatusIn(man, x) = "queued"
      /\ CanAck(man, x) <=> StatusIn(man, x) \in InFlightStates
      /\ CanRetry(man, x) <=> StatusIn(man, x) \in {"uncertain", "blocked"}
      /\ CanDiscard(man, {x}) <=> StatusIn(man, x) \in Pending
      /\ StatusIn(man, x) \in States \cup {"gone"}
      /\ x \in Ids(man) => StateOf(man, x) = StatusIn(man, x) /\ ItemOf(man, x).sum = TextIn(man, x) /\ x \in Stem
    BY <1>1, Guards
<1>3. x \in Ids(man) => TextIn(man, x) \in AllBodies
    BY <1>1, Seen
<1>4. man.paused \in BOOLEAN
    BY <1>1, Seen
<1> QED BY <1>2, <1>3, <1>4 DEF Has, Is, BodyOf, ManifestOK

(* The dispatcher claims a queued item of an unpaused queue: it is running. *)
LEMMA DispClaimDoes ==
    ASSUME ManifestOK, DispClaim
    PROVE  StatusIn(man, disp.item.id) = "queued" /\ man.paused = FALSE
           /\ ViewSet(man', man, disp.item.id, "running")
    BY SetView, DispReadDoes DEF DispClaim, ManifestOK, States, InFlightStates

(* A write of m that fails leaves the manifest as it was.                   *)
LEMMA TriedDoes ==
    ASSUME NEW m, man' \in Tried(m)
    PROVE  man' = m \/ man' = man
    BY DEF Tried

(* An item whose references cannot be resolved is blocked, if that can be   *)
(* written.                                                                 *)
LEMMA DispBlockDoes ==
    ASSUME ManifestOK, DispBlock
    PROVE  ViewSet(man', man, disp.item.id, "blocked") \/ man' = man
    BY SetView, TriedDoes DEF DispBlock, ManifestOK, States, Pending

(* Blocking an item pauses the queue.                                       *)
LEMMA DispBlockPauseDoes ==
    ASSUME ManifestOK, DispBlockPause
    PROVE  ViewPaused(man', man, TRUE) \/ man' = man
    BY PausedView, TriedDoes DEF DispBlockPause, ManifestOK

(* An item is queued again, or it is gone or could not be written and the   *)
(* queue is paused, if that can be written.                                 *)
RequeueView(id) ==
    \/ StatusIn(man, id) # "gone" /\ ViewSet(man', man, id, "queued") /\ unsaved' = unsaved
    \/ (ViewPaused(man', man, TRUE) \/ man' = man) /\ unsaved' = unsaved \cup {id}

(* A rolled-back item is queued again; SetState failing pauses the queue.   *)
LEMMA RequeuedDoes ==
    ASSUME ManifestOK, NEW id, Requeued(id) \/ RequeueFailed(id)
    PROVE  RequeueView(id)
<1>1. Has(id) <=> StatusIn(man, id) # "gone"
    BY DispReadDoes
<1>2. CASE Requeued(id)
    BY <1>1, <1>2, SetView DEF Requeued, ManifestOK, States, Pending, RequeueView
<1>3. CASE RequeueFailed(id)
    BY <1>3, ForcedView, TriedDoes DEF RequeueFailed, Unsaved, ManifestOK, RequeueView
<1> QED BY <1>2, <1>3

(* An applied steer is recorded as consumed, if that can be written.        *)
LEMMA AgentMarkConsumedDoes ==
    ASSUME ManifestOK, AgentMarkConsumed
    PROVE  ViewSet(man', man, agent.id, "steer_consumed") \/ man' = man
    BY SetView, TriedDoes DEF AgentMarkConsumed, ManifestOK, States, InFlightStates

(* A steer that the agent dropped is recorded as uncertain, or that could   *)
(* not be written.                                                          *)
LEMMA AgentUnappliedDoes ==
    ASSUME ManifestOK, AgentUnapplied
    PROVE  \/ ViewSet(man', man, Head(agent.flush), "uncertain") /\ unsaved' = unsaved
           \/ man' = man /\ unsaved' = unsaved \cup {Head(agent.flush)}
    BY SetView DEF AgentUnapplied, Unsaved, ManifestOK, States, Pending

(* Dropping a steer pauses the queue, if that can be written.               *)
LEMMA AgentUnownDoes ==
    ASSUME ManifestOK, AgentUnown
    PROVE  ViewPaused(man', man, TRUE) \/ man' = man
    BY PausedView, TriedDoes DEF AgentUnown, ManifestOK

(* An item of a finished turn is acknowledged and gone, is left uncertain,  *)
(* or stays as it is because that could not be written.                     *)
SettleView(t, id) ==
    \/ /\ settle[t].pc = "ack" /\ StatusIn(man, id) \in InFlightStates
       /\ ViewRemoved(man', man, id) /\ acked' = acked \cup {id} /\ unsaved' = unsaved
       /\ \E f \in BOOLEAN : settle' = [settle EXCEPT ![t] = [settle[t] EXCEPT !.left = @ \ {id}, !.failed = f]]
    \/ /\ ViewSet(man', man, id, "uncertain") /\ acked' = acked /\ unsaved' = unsaved
       /\ \E f \in BOOLEAN : settle' = [settle EXCEPT ![t] = [settle[t] EXCEPT !.left = @ \ {id}, !.failed = f]]
    \/ /\ man' = man /\ acked' = acked /\ unsaved' = unsaved \cup {id}
       /\ \E f \in BOOLEAN : settle' = [settle EXCEPT ![t] = [settle[t] EXCEPT !.left = @ \ {id}, !.failed = f]]

(* onInboxTurnDone acknowledges an item that is still in flight and marks   *)
(* the others uncertain, as far as it can be written.                       *)
LEMMA SettleOneDoes ==
    ASSUME ManifestOK, RecordsOK, NEW t \in Turn, SettleOne(t)
    PROVE  \E id \in settle[t].left : SettleView(t, id)
<1>1. PICK id \in settle[t].left :
          \/ /\ settle[t].pc = "ack" /\ CanAck(man, id)
             /\ man' = RemoveItems(man, {id}, man.receipts) /\ acked' = acked \cup {id}
             /\ SettleNext(t, id, FALSE) /\ UNCHANGED unsaved
          \/ /\ man' = SetItemState(man, id, "uncertain")
             /\ SettleNext(t, id, Has(id)) /\ UNCHANGED <<acked, unsaved>>
          \/ /\ WritesFail /\ Has(id) /\ Unsaved(id)
             /\ SettleNext(t, id, TRUE) /\ UNCHANGED <<man, acked>>
    BY DEF SettleOne
<1>2. settle[t] \in SettleRec /\ settle \in [Turn -> SettleRec]
    BY DEF RecordsOK
<1>3. ASSUME NEW b, SettleNext(t, id, b)
      PROVE  \E f \in BOOLEAN : settle' = [settle EXCEPT ![t] = [settle[t] EXCEPT !.left = @ \ {id}, !.failed = f]]
    <2> DEFINE f == settle[t].failed \/ b
    <2>1. f \in BOOLEAN
        OBVIOUS
    <2>2. settle' = [settle EXCEPT ![t] = [settle[t] EXCEPT !.left = @ \ {id}, !.failed = f]]
        BY <1>2, <1>3 DEF SettleRec, SettleNext, Settle
    <2> HIDE DEF f
    <2> QED BY <2>1, <2>2
<1>4. CASE /\ settle[t].pc = "ack" /\ CanAck(man, id)
           /\ man' = RemoveItems(man, {id}, man.receipts) /\ acked' = acked \cup {id}
           /\ SettleNext(t, id, FALSE) /\ UNCHANGED unsaved
    <2>1. StatusIn(man, id) \in InFlightStates
        BY <1>4, DispReadDoes
    <2>2. ViewRemoved(man', man, id)
        BY <1>4, RemovedView DEF ManifestOK
    <2> QED BY <1>3, <1>4, <2>1, <2>2 DEF SettleView
<1>5. CASE /\ man' = SetItemState(man, id, "uncertain")
           /\ SettleNext(t, id, Has(id)) /\ UNCHANGED <<acked, unsaved>>
    <2>1. ViewSet(man', man, id, "uncertain")
        BY <1>5, SetView DEF ManifestOK, States, Pending
    <2> QED BY <1>3, <1>5, <2>1 DEF SettleView
<1>6. CASE Unsaved(id) /\ SettleNext(t, id, TRUE) /\ UNCHANGED <<man, acked>>
    BY <1>3, <1>6 DEF SettleView, Unsaved
<1> QED BY <1>1, <1>4, <1>5, <1>6

(* The end of the settlement changes at most the pause.                     *)
LEMMA SettleUntrackDoes ==
    ASSUME ManifestOK, NEW t \in Turn, SettleUntrack(t)
    PROVE  man' = man \/ ViewPaused(man', man, TRUE)
    BY PausedView, TriedDoes DEF SettleUntrack, ManifestOK

(* A blocking frontend's item that cannot run is blocked and the queue is   *)
(* paused, as far as it can be written.                                     *)
LEMMA RunItemBlocksDoes ==
    ASSUME ManifestOK
    PROVE  /\ RunItemRead => man' = man
           /\ RunItemBlock => ViewSet(man', man, runner.id, "blocked") \/ man' = man
           /\ RunItemPause => ViewPaused(man', man, TRUE) \/ man' = man
    BY SetView, PausedView, TriedDoes
    DEF RunItemRead, RunItemBlock, RunItemPause, ManifestOK, States, Pending

(* A blocking frontend's turn claims its item, or returns the error and     *)
(* carries none.                                                            *)
LEMMA RunItemClaimDoes ==
    ASSUME ManifestOK, NEW t \in Turn, RunItemClaim(t)
    PROVE  \/ /\ StatusIn(man, item[t].id) = "queued" /\ item[t].id \in used
              /\ ViewSet(man', man, item[t].id, "running") /\ Spawn(t)
              /\ active' = active \cup {item[t].id} /\ item' = item
           \/ /\ man' = man /\ SyncAdmittedError(t) /\ active' = active
              /\ item' = [item EXCEPT ![t] = NoItem]
<1>1. CanClaim(man, item[t].id) <=> man.paused = FALSE /\ StatusIn(man, item[t].id) = "queued"
    BY DispReadDoes
<1>2. \A n : n = SetItemState(man, item[t].id, "running") => ViewSet(n, man, item[t].id, "running")
    BY SetView DEF ManifestOK, States, InFlightStates
<1> QED BY <1>1, <1>2 DEF RunItemClaim, ManifestOK

(* Orphan recovery ran, failed, or did not have to.                         *)
OwnedRecovered == ViewOrphans(man', man, Owned) \/ man' = man

(* recoverOwnedInFlight, whose write may fail.                              *)
LEMMA RecoveredDoes ==
    ASSUME ManifestOK, RecoveryTried
    PROVE  OwnedRecovered
    BY OrphansView, TriedDoes DEF ManifestOK, OwnedRecovered, RecoveryTried

(* A steer command found its item queued or uncertain and goes on, found it *)
(* in flight and recovered the orphans, or gives up.                        *)
SteerReadView ==
    \/ /\ StatusIn(man, steer.id) \in {"queued", "uncertain"} /\ man.paused = FALSE
       /\ ViewSet(man', man, steer.id, "queued")
       /\ applied' = IF StatusIn(man, steer.id) = "uncertain" THEN applied \ {steer.id} ELSE applied
       /\ \E b \in BOOLEAN : steer' = [steer EXCEPT !.pc = "mark", !.image = b]
    \/ /\ StatusIn(man, steer.id) \in InFlightStates /\ OwnedRecovered
       /\ SteerTo("return", FALSE) /\ applied' = applied
    \/ /\ StatusIn(man, steer.id) \in {"gone", "blocked", "uncertain"}
          \/ (StatusIn(man, steer.id) = "queued" /\ man.paused = TRUE)
       /\ man' = man /\ SteerTo("return", FALSE) /\ applied' = applied

(* The first look of TrySteerInboxItem at its item has one of these         *)
(* outcomes.                                                                *)
LEMMA SteerReadDoes ==
    ASSUME ManifestOK, SteerRead
    PROVE  SteerReadView
<1> DEFINE s == IF Has(steer.id) THEN StateOf(man, steer.id) ELSE "missing"
<1>1. /\ Has(steer.id) <=> StatusIn(man, steer.id) # "gone"
      /\ Has(steer.id) => StateOf(man, steer.id) = StatusIn(man, steer.id)
      /\ StatusIn(man, steer.id) \in States \cup {"gone"} /\ man.paused \in BOOLEAN
    BY DispReadDoes
<1>2. s = IF StatusIn(man, steer.id) = "gone" THEN "missing" ELSE StatusIn(man, steer.id)
    BY <1>1
<1>3. CASE /\ s \in {"queued", "uncertain"} /\ ~man.paused
           /\ man' = SetItemState(man, steer.id, "queued")
           /\ applied' = IF s = "uncertain" THEN applied \ {steer.id} ELSE applied
           /\ steer' = [steer EXCEPT !.pc = "mark", !.image = BodyOf(steer.id) = "image"]
    <2>1. StatusIn(man, steer.id) = s /\ man.paused = FALSE
        BY <1>1, <1>2, <1>3
    <2>2. ViewSet(man', man, steer.id, "queued")
        BY <1>3, SetView DEF ManifestOK, States, Pending
    <2> DEFINE b == (BodyOf(steer.id) = "image")
    <2>3. b \in BOOLEAN /\ steer' = [steer EXCEPT !.pc = "mark", !.image = b]
        BY <1>3
    <2> HIDE DEF b, s
    <2> QED BY <1>3, <2>1, <2>2, <2>3 DEF SteerReadView
<1>4. CASE /\ s \in InFlightStates /\ RecoveryTried
           /\ SteerTo("return", FALSE) /\ UNCHANGED applied
    <2>1. StatusIn(man, steer.id) \in InFlightStates
        BY <1>2, <1>4 DEF InFlightStates
    <2>2. OwnedRecovered
        BY <1>4, RecoveredDoes
    <2> QED BY <1>4, <2>1, <2>2 DEF SteerReadView
<1>5. CASE /\ \/ s \in {"missing", "blocked"} \/ (s = "uncertain" /\ WritesFail)
              \/ s \in {"queued", "uncertain"} /\ man.paused
           /\ SteerTo("return", FALSE) /\ UNCHANGED <<man, applied>>
    <2>1. \/ StatusIn(man, steer.id) \in {"gone", "blocked", "uncertain"}
          \/ (StatusIn(man, steer.id) = "queued" /\ man.paused = TRUE)
        BY <1>1, <1>2, <1>5 DEF States, Pending, InFlightStates
    <2> QED BY <1>5, <2>1 DEF SteerReadView
<1> QED BY <1>3, <1>4, <1>5 DEF SteerRead

(* A steer command meets a closed or rotating controller, gives up the      *)
(* steer, or records it as accepted.                                        *)
SteerMarkView ==
    \/ /\ closed \/ rotating
       /\ SteerTo("return", ~closed) /\ man' = man /\ admitting' = admitting /\ unsaved' = unsaved
    \/ /\ ~closed /\ ~rotating /\ admitting' = admitting \cup {steer.id}
       /\ \/ SteerTo("convert", FALSE) /\ man' = man /\ unsaved' = unsaved
          \/ SteerTo("return", FALSE) /\ man' = man /\ unsaved' = unsaved \cup {steer.id}
          \/ /\ StatusIn(man, steer.id) # "gone" /\ ViewSet(man', man, steer.id, "steer_accepted")
             /\ SteerTo("enqueue", FALSE) /\ unsaved' = unsaved

(* The admission of a steer under admissionMu has one of these outcomes.    *)
LEMMA SteerMarkDoes ==
    ASSUME ManifestOK, SteerMark
    PROVE  SteerMarkView
<1>1. Has(steer.id) <=> StatusIn(man, steer.id) # "gone"
    BY DispReadDoes
<1>2. \A n : n = SetItemState(man, steer.id, "steer_accepted") => ViewSet(n, man, steer.id, "steer_accepted")
    BY SetView DEF ManifestOK, States, InFlightStates
<1> QED BY <1>1, <1>2 DEF SteerMark, SteerMarkView, Unsaved

(* A steer that could not be delivered becomes a follow-up, is no longer    *)
(* pending, or could not be written.                                        *)
SteerConvertView ==
    \/ /\ StatusIn(man, steer.id) \in Pending /\ ViewIntent(man', man)
       /\ SteerTo("return", TRUE) /\ unsaved' = unsaved
    \/ /\ StatusIn(man, steer.id) \notin Pending /\ man' = man
       /\ SteerTo("return", FALSE) /\ unsaved' = unsaved
    \/ man' = man /\ SteerTo("return", FALSE) /\ unsaved' = unsaved \cup {steer.id}

(* ConvertIntent at the end of a steer command has one of these outcomes.   *)
LEMMA SteerConvertDoes ==
    ASSUME ManifestOK, SteerConvert
    PROVE  SteerConvertView
<1>1. IsPending(man, steer.id) <=> StatusIn(man, steer.id) \in Pending
    BY DispReadDoes
<1>2. \A n : n = ConvertIntent(man, steer.id, "followup") => ViewIntent(n, man)
    BY IntentView DEF ManifestOK, Intents
<1> QED BY <1>1, <1>2 DEF SteerConvert, SteerConvertView, Unsaved

(* A frontend queues a new item under a fresh id.                           *)
LEMMA UserEnqueueDoes ==
    ASSUME ManifestOK, RecordsOK, NEW intent \in Intents, UserEnqueue(intent)
    PROVE  \E id \in Stem \ used, b \in Bodies :
              /\ ViewAdded(man', man, id, b) /\ Len(man.items) < MaxItems
              /\ used' = used \cup {id} /\ StatusIn(man, id) = "gone"
              /\ user' = [user EXCEPT !.id = id, !.pc = IF b = "badref" THEN "badref" ELSE intent]
<1>1. PICK id \in Stem \ used, b \in Bodies :
          /\ man' = Enqueue(man, id, intent, NoKey, b)
          /\ used' = used \cup {id}
          /\ user' = [user EXCEPT !.id = id, !.pc = IF b = "badref" THEN "badref" ELSE intent]
    BY DEF UserEnqueue
<1>2. b \in AllBodies
    BY FrontendsAssumption DEF RecordsOK, Bodies
<1>3. StatusIn(man, id) = "gone" /\ id \notin Ids(man)
    BY DispReadDoes DEF ManifestOK, Has
<1>4. ViewAdded(man', man, id, b)
    BY <1>1, <1>2, <1>3, AddedView DEF ManifestOK
<1>5. Len(man.items) < MaxItems
    BY DEF UserEnqueue, CanEnqueue
<1> QED BY <1>1, <1>3, <1>4, <1>5

(* A new item whose references cannot be frozen is blocked, or that could   *)
(* not be written.                                                          *)
UserBadRefView ==
    \/ /\ ViewSet(man', man, user.id, "blocked") /\ unsaved' = unsaved
       /\ user' = [user EXCEPT !.pc = "badpause"]
    \/ man' = man /\ unsaved' = unsaved \cup {user.id} /\ user' = UserOff

(* The second transaction of EnqueueInbox has one of these outcomes.        *)
LEMMA UserBadRefDoes ==
    ASSUME ManifestOK, UserBadRef
    PROVE  UserBadRefView
    BY SetView DEF UserBadRef, UserBadRefView, UserTo, Unsaved, ManifestOK, States, Pending

(* The commands that only pause or resume.                                  *)
LEMMA PausingDoes ==
    ASSUME ManifestOK
    PROVE  /\ UserBadPause \/ UserCancelPause => ViewPaused(man', man, TRUE) \/ man' = man
           /\ UserCancelResume => ViewPaused(man', man, FALSE) \/ man' = man
           /\ \A p \in BOOLEAN : UserPause(p) => ViewPaused(man', man, p)
    BY PausedView, TriedDoes DEF UserBadPause, UserCancelPause, UserCancelResume, UserPause, ManifestOK

(* Retry queues an uncertain or blocked item and forgets that it ran.       *)
LEMMA UserRetryDoes ==
    ASSUME ManifestOK, UserRetry
    PROVE  \E id \in used :
              /\ StatusIn(man, id) \in {"uncertain", "blocked"} /\ ViewSet(man', man, id, "queued")
              /\ applied' = applied \ {id}
<1>1. PICK id \in Ids(man) : /\ CanRetry(man, id) /\ man' = SetItemState(man, id, "queued")
                             /\ applied' = applied \ {id}
    BY DEF UserRetry
<1>2. StatusIn(man, id) \in {"uncertain", "blocked"} /\ id \in used
    BY <1>1, DispReadDoes DEF Has
<1>3. ViewSet(man', man, id, "queued")
    BY <1>1, SetView DEF ManifestOK, States, Pending
<1> QED BY <1>1, <1>2, <1>3

(* Edit changes a pending item and freezes its references again.            *)
LEMMA UserEditDoes ==
    ASSUME ManifestOK, RecordsOK, UserEdit
    PROVE  \E id \in used, b \in Bodies :
              /\ StatusIn(man, id) \in Pending /\ ViewEdited(man', man, id)
              /\ user' = IF b = "badref" THEN [user EXCEPT !.pc = "badref", !.id = id] ELSE user
<1>1. PICK id \in Ids(man), b \in Bodies :
          /\ CanUpdate(man, id, NoKey) /\ man' = UpdateItem(man, id, id, b, NoKey, b)
          /\ user' = IF b = "badref" THEN [user EXCEPT !.pc = "badref", !.id = id] ELSE user
    BY DEF UserEdit
<1>2. b \in AllBodies
    BY FrontendsAssumption DEF RecordsOK, Bodies
<1>3. StatusIn(man, id) \in Pending /\ id \in used
    BY <1>1, DispReadDoes DEF CanUpdate, Has
<1>4. ViewEdited(man', man, id)
    BY <1>1, <1>2, EditedView DEF ManifestOK
<1> QED BY <1>1, <1>3, <1>4

(* Delete recovers the orphans before it looks at its item.                 *)
LEMMA UserDeleteDoes ==
    ASSUME ManifestOK, UserDelete
    PROVE  OwnedRecovered /\ \E id \in used : user' = [user EXCEPT !.pc = "delete", !.id = id]
<1>1. OwnedRecovered
    BY RecoveredDoes DEF UserDelete
<1>2. \A id \in Ids(man) : id \in used
    BY DispReadDoes DEF Has
<1> QED BY <1>1, <1>2 DEF UserDelete

(* Delete removes a pending item, if that can be written; an accepted steer *)
(* is taken back first.                                                     *)
UserDeleteItemView ==
    /\ \/ /\ StatusIn(man, user.id) \in Pending /\ ViewRemoved(man', man, user.id)
          /\ unsaved' = unsaved
       \/ StatusIn(man, user.id) \notin Pending /\ man' = man /\ unsaved' = unsaved
       \/ man' = man /\ unsaved' = unsaved \cup {user.id}
    /\ user' = IF user.pc = "delete" /\ StatusIn(man, user.id) = "steer_accepted"
               THEN [user EXCEPT !.pc = "unaccept"] ELSE UserOff

(* DeleteItem has one of these outcomes.                                    *)
LEMMA UserDeleteItemDoes ==
    ASSUME ManifestOK, UserDeleteItem
    PROVE  UserDeleteItemView
<1>1. /\ IsPending(man, user.id) <=> StatusIn(man, user.id) \in Pending
      /\ Is(user.id, "steer_accepted") <=> StatusIn(man, user.id) = "steer_accepted"
    BY DispReadDoes
<1>2. \A n : n = RemoveItems(man, {user.id}, man.receipts) => ViewRemoved(n, man, user.id)
    BY RemovedView DEF ManifestOK
<1> QED BY <1>1, <1>2 DEF UserDeleteItem, UserDeleteItemView, Unsaved

(* Delete takes an accepted steer back to the queue.                        *)
LEMMA UserUnacceptDoes ==
    ASSUME ManifestOK, UserUnaccept
    PROVE  \/ ViewSet(man', man, user.id, "queued") /\ user' = [user EXCEPT !.pc = "redelete"]
           \/ man' = man /\ user' = UserOff
    BY SetView DEF UserUnaccept, UserTo, ManifestOK, States, Pending

(* Stop with discard removes its item if it is still pending.               *)
LEMMA UserCancelDiscardDoes ==
    ASSUME ManifestOK, UserCancelDiscard
    PROVE  \/ StatusIn(man, user.id) \in Pending /\ ViewRemoved(man', man, user.id)
           \/ man' = man
<1>1. CanDiscard(man, {user.id}) <=> StatusIn(man, user.id) \in Pending
    BY DispReadDoes
<1>2. \A n : n = RemoveItems(man, {user.id}, man.receipts) => ViewRemoved(n, man, user.id)
    BY RemovedView DEF ManifestOK
<1> QED BY <1>1, <1>2 DEF UserCancelDiscard

(* Reading the inbox recovers the orphans.                                  *)
LEMMA SnapshotDoes ==
    ASSUME ManifestOK, InboxSnapshot
    PROVE  ViewOrphans(man', man, Owned)
    BY OrphansView DEF ManifestOK, InboxSnapshot

(* The dispatcher's retries stay within their bound.                        *)
LEMMA RetriesTyped ==
    ASSUME retry \in RetryRec, ResetRetries \/ ScheduleRetry \/ retry' = retry
    PROVE  retry' \in RetryRec
<1>1. retry.attempts \in 0..MaxDispatchRetries /\ retry.scheduled \in BOOLEAN
    BY DEF RetryRec
<1>2. CASE ResetRetries
    BY <1>1, <1>2, RetriesAssumption DEF ResetRetries, RetryRec
<1>3. CASE ScheduleRetry
    BY <1>1, <1>3, RetriesAssumption DEF ScheduleRetry, RetryRec
<1> QED BY <1>2, <1>3

(* The dispatcher returns to the top of its loop.                           *)
LEMMA BackTyped ==
    ASSUME disp \in DispRec
    PROVE  /\ BackToLoop \in DispRec /\ BackToLoop.pc = "loop" /\ BackToLoop.kick = disp.kick
           /\ BackToLoop.item = NoItem /\ BackToLoop.turn = NoTurn
    BY DEF BackToLoop, DispRec, ItemRec, NoItem, Names, DispLocked, DispHolds

(* The dispatcher takes the item its scan found.                            *)
LEMMA ScanTakes ==
    ASSUME disp \in DispRec, NEW id, disp' = [disp EXCEPT !.pc = "submit", !.item.id = id]
    PROVE  disp'.pc = "submit" /\ disp'.kick = disp.kick /\ disp'.item.id = id
           /\ disp'.item.body = disp.item.body /\ disp'.turn = disp.turn
    BY DEF DispRec, ItemRec

(* The dispatcher reads its item and goes on to claim it, or schedules a    *)
(* retry.                                                                   *)
LEMMA ReadTakes ==
    ASSUME ManifestOK, disp \in DispRec, DispRead
    PROVE  \/ /\ StatusIn(man, disp.item.id) = "queued" /\ man.paused = FALSE
              /\ disp'.pc = "claim" /\ disp'.kick = disp.kick /\ disp'.item.id = disp.item.id
              /\ disp'.item.body = TextIn(man, disp.item.id) /\ disp'.turn = disp.turn
              /\ admMu' = "disp" /\ retry' = retry
           \/ disp' = BackToLoop /\ ScheduleRetry /\ admMu' = admMu
<1>1. /\ CanClaim(man, disp.item.id) <=> man.paused = FALSE /\ StatusIn(man, disp.item.id) = "queued"
      /\ Has(disp.item.id) <=> StatusIn(man, disp.item.id) # "gone"
      /\ Has(disp.item.id) => BodyOf(disp.item.id) = TextIn(man, disp.item.id)
    BY DispReadDoes
<1>2. ASSUME NEW b PROVE LET d == [disp EXCEPT !.pc = "claim", !.item.body = b]
                         IN  /\ d.pc = "claim" /\ d.kick = disp.kick /\ d.item.id = disp.item.id
                             /\ d.item.body = b /\ d.turn = disp.turn
    BY DEF DispRec, ItemRec
<1>3. CASE CanClaim(man, disp.item.id)
    <2>1. BodyOf(disp.item.id) = TextIn(man, disp.item.id)
        BY <1>1, <1>3
    <2>2. disp' = [disp EXCEPT !.pc = "claim", !.item.body = TextIn(man, disp.item.id)]
          /\ admMu' = "disp" /\ retry' = retry
        BY <1>3, <2>1 DEF DispRead
    <2> QED BY <1>1, <1>2, <1>3, <2>2
<1>4. CASE ~CanClaim(man, disp.item.id)
    BY <1>4 DEF DispRead
<1> QED BY <1>3, <1>4

(* Every step of the controller leaves a well-made manifest.                *)
LEMMA ManifestNext ==
    ASSUME Typed, INext
    PROVE  ManifestOK'
<1>1. ASSUME DispLoop \/ DispBusy \/ DispScan \/ DispRead \/ DispClaimError \/ DispReturn
             \/ AgentRun
      PROVE  ManifestOK'
    BY <1>1
    DEF Typed, ManifestOK, DispLoop, DispBusy, DispScan, DispRead, DispClaimError, DispReturn,
        AgentRun, BackToLoop, ResetRetries, ScheduleRetry
<1>2. ASSUME DispClaim PROVE ManifestOK'
    <2>1. StatusIn(man, disp.item.id) = "queued" /\ man.paused = FALSE
          /\ ViewSet(man', man, disp.item.id, "running")
        BY <1>2, DispClaimDoes DEF Typed
    <2>2. used' = used
        BY <1>2 DEF DispClaim
    <2> QED BY <2>1, <2>2 DEF Typed, ManifestOK, ViewSet
<1>3. ASSUME DispBlock PROVE ManifestOK'
    <2>1. ViewSet(man', man, disp.item.id, "blocked") \/ man' = man
        BY <1>3, DispBlockDoes DEF Typed
    <2>2. used' = used
        BY <1>3 DEF DispBlock
    <2> QED BY <2>1, <2>2 DEF Typed, ManifestOK, ViewSet
<1>4. ASSUME DispBlockPause PROVE ManifestOK'
    <2>1. ViewPaused(man', man, TRUE) \/ man' = man
        BY <1>4, DispBlockPauseDoes DEF Typed
    <2>2. used' = used
        BY <1>4 DEF DispBlockPause
    <2> QED BY <2>1, <2>2 DEF Typed, ManifestOK, ViewPaused
<1>5. ASSUME DispAsk PROVE ManifestOK'
    BY <1>5 DEF Typed, ManifestOK, DispAsk, Ask
<1>6. ASSUME DispStart PROVE ManifestOK'
    BY <1>6 DEF Typed, ManifestOK, DispStart, AdmitStart, Claim
<1>7. ASSUME DispDrop PROVE ManifestOK'
    BY <1>7 DEF Typed, ManifestOK, DispDrop, AdmitDrop
<1>8. ASSUME DispOnStart PROVE ManifestOK'
    BY <1>8 DEF Typed, ManifestOK, DispOnStart, Spawn
<1>9. ASSUME DispRollback PROVE ManifestOK'
    <2>1. RequeueView(disp.item.id)
        BY <1>9, RequeuedDoes DEF Typed, DispRollback
    <2>2. used' = used
        BY <1>9 DEF DispRollback
    <2> QED BY <2>1, <2>2 DEF Typed, ManifestOK, RequeueView, ViewSet, ViewPaused
<1>10. ASSUME RetryFires \/ UserFollowup PROVE ManifestOK'
    BY <1>10 DEF Typed, ManifestOK, RetryFires, UserFollowup, UserOff, CommandKick, Kicked
<1>11. ASSUME AgentConsume \/ AgentFinish \/ AgentAbort \/ UserCancelWith PROVE ManifestOK'
    BY <1>11 DEF Typed, ManifestOK, AgentConsume, AgentFinish, AgentAbort, UserCancelWith
<1>12. ASSUME AgentMarkConsumed PROVE ManifestOK'
    <2>1. ViewSet(man', man, agent.id, "steer_consumed") \/ man' = man
        BY <1>12, AgentMarkConsumedDoes DEF Typed
    <2>2. used' = used
        BY <1>12 DEF AgentMarkConsumed
    <2> QED BY <2>1, <2>2 DEF Typed, ManifestOK, ViewSet
<1>13. ASSUME AgentUnapplied PROVE ManifestOK'
    <2>1. ViewSet(man', man, Head(agent.flush), "uncertain") \/ man' = man
        BY <1>13, AgentUnappliedDoes DEF Typed
    <2>2. used' = used
        BY <1>13 DEF AgentUnapplied
    <2> QED BY <2>1, <2>2 DEF Typed, ManifestOK, ViewSet
<1>14. ASSUME AgentUnown PROVE ManifestOK'
    <2>1. ViewPaused(man', man, TRUE) \/ man' = man
        BY <1>14, AgentUnownDoes DEF Typed
    <2>2. used' = used
        BY <1>14 DEF AgentUnown
    <2> QED BY <2>1, <2>2 DEF Typed, ManifestOK, ViewPaused
<1>15. ASSUME SteerRead PROVE ManifestOK'
    <2>1. SteerReadView
        BY <1>15, SteerReadDoes DEF Typed
    <2>2. used' = used
        BY <1>15 DEF SteerRead
    <2> QED BY <2>1, <2>2
            DEF Typed, ManifestOK, SteerReadView, OwnedRecovered, ViewSet, ViewOrphans,
                InFlightStates
<1>16. ASSUME SteerMark PROVE ManifestOK'
    <2>1. SteerMarkView
        BY <1>16, SteerMarkDoes DEF Typed
    <2>2. used' = used
        BY <1>16 DEF SteerMark
    <2> QED BY <2>1, <2>2 DEF Typed, ManifestOK, SteerMarkView, ViewSet
<1>17. ASSUME SteerEnqueue PROVE ManifestOK'
    BY <1>17 DEF Typed, ManifestOK, SteerEnqueue, SteerTo
<1>18. ASSUME SteerRequeue PROVE ManifestOK'
    <2>1. RequeueView(steer.id)
        BY <1>18, RequeuedDoes DEF Typed, SteerRequeue
    <2>2. used' = used
        BY <1>18 DEF SteerRequeue
    <2> QED BY <2>1, <2>2 DEF Typed, ManifestOK, RequeueView, ViewSet, ViewPaused
<1>19. ASSUME SteerConvert PROVE ManifestOK'
    <2>1. SteerConvertView
        BY <1>19, SteerConvertDoes DEF Typed
    <2>2. used' = used
        BY <1>19 DEF SteerConvert
    <2> QED BY <2>1, <2>2 DEF Typed, ManifestOK, SteerConvertView, ViewIntent, ViewPaused
<1>20. ASSUME SteerReturn PROVE ManifestOK'
    BY <1>20 DEF Typed, ManifestOK, SteerReturn, Kicked, SteerOff
<1>21. ASSUME NEW intent \in Intents, UserEnqueue(intent) PROVE ManifestOK'
    <2>1. PICK id \in Stem \ used, b \in Bodies :
              /\ ViewAdded(man', man, id, b) /\ Len(man.items) < MaxItems
              /\ used' = used \cup {id} /\ StatusIn(man, id) = "gone"
              /\ user' = [user EXCEPT !.id = id, !.pc = IF b = "badref" THEN "badref" ELSE intent]
        BY <1>21, UserEnqueueDoes DEF Typed
    <2> QED BY <2>1, Counted, MaxItemsAssumption DEF Typed, ManifestOK, ViewAdded
<1>22. ASSUME UserBadRef PROVE ManifestOK'
    <2>1. UserBadRefView
        BY <1>22, UserBadRefDoes DEF Typed
    <2>2. used' = used
        BY <1>22 DEF UserBadRef
    <2> QED BY <2>1, <2>2 DEF Typed, ManifestOK, UserBadRefView, ViewSet
<1>23. ASSUME UserBadPause \/ UserCancelPause PROVE ManifestOK'
    <2>1. ViewPaused(man', man, TRUE) \/ man' = man
        BY <1>23, PausingDoes DEF Typed
    <2>2. used' = used
        BY <1>23 DEF UserBadPause, UserCancelPause
    <2> QED BY <2>1, <2>2 DEF Typed, ManifestOK, ViewPaused
<1>24. ASSUME UserSteer PROVE ManifestOK'
    BY <1>24 DEF Typed, ManifestOK, UserSteer, UserOff, SteerOff
<1>25. ASSUME NEW p \in BOOLEAN, UserPause(p) PROVE ManifestOK'
    <2>1. ViewPaused(man', man, p)
        BY <1>25, PausingDoes DEF Typed
    <2>2. used' = used
        BY <1>25 DEF UserPause
    <2> QED BY <2>1, <2>2 DEF Typed, ManifestOK, ViewPaused
<1>26. ASSUME UserRetry PROVE ManifestOK'
    <2>1. PICK id \in used :
              /\ StatusIn(man, id) \in {"uncertain", "blocked"} /\ ViewSet(man', man, id, "queued")
              /\ applied' = applied \ {id}
        BY <1>26, UserRetryDoes DEF Typed
    <2>2. used' = used
        BY <1>26 DEF UserRetry
    <2> QED BY <2>1, <2>2 DEF Typed, ManifestOK, ViewSet
<1>27. ASSUME UserEdit PROVE ManifestOK'
    <2>1. PICK id \in used, b \in Bodies :
              /\ StatusIn(man, id) \in Pending /\ ViewEdited(man', man, id)
              /\ user' = IF b = "badref" THEN [user EXCEPT !.pc = "badref", !.id = id] ELSE user
        BY <1>27, UserEditDoes DEF Typed
    <2>2. used' = used
        BY <1>27 DEF UserEdit
    <2> QED BY <2>1, <2>2 DEF Typed, ManifestOK, ViewEdited
<1>28. ASSUME UserDelete PROVE ManifestOK'
    <2>1. PICK id \in used :
              OwnedRecovered /\ user' = [user EXCEPT !.pc = "delete", !.id = id]
        BY <1>28, UserDeleteDoes DEF Typed
    <2>2. used' = used
        BY <1>28 DEF UserDelete
    <2> QED BY <2>1, <2>2 DEF Typed, ManifestOK, OwnedRecovered, ViewOrphans, InFlightStates
<1>29. ASSUME UserDeleteItem PROVE ManifestOK'
    <2>1. UserDeleteItemView
        BY <1>29, UserDeleteItemDoes DEF Typed
    <2>2. used' = used
        BY <1>29 DEF UserDeleteItem
    <2> QED BY <2>1, <2>2, Counted, MaxItemsAssumption
            DEF Typed, ManifestOK, UserDeleteItemView, ViewRemoved
<1>30. ASSUME UserUnaccept PROVE ManifestOK'
    <2>1. \/ ViewSet(man', man, user.id, "queued") /\ user' = [user EXCEPT !.pc = "redelete"]
          \/ man' = man /\ user' = UserOff
        BY <1>30, UserUnacceptDoes DEF Typed
    <2>2. used' = used
        BY <1>30 DEF UserUnaccept
    <2> QED BY <2>1, <2>2 DEF Typed, ManifestOK, ViewSet
<1>31. ASSUME UserCancelDiscard PROVE ManifestOK'
    <2>1. ViewRemoved(man', man, user.id) \/ man' = man
        BY <1>31, UserCancelDiscardDoes DEF Typed
    <2>2. used' = used
        BY <1>31 DEF UserCancelDiscard
    <2> QED BY <2>1, <2>2, Counted, MaxItemsAssumption DEF Typed, ManifestOK, ViewRemoved
<1>32. ASSUME UserCancelTurn PROVE ManifestOK'
    BY <1>32 DEF Typed, ManifestOK, UserCancelTurn, UserOff, Cancel
<1>33. ASSUME UserCancelResume PROVE ManifestOK'
    <2>1. ViewPaused(man', man, FALSE) \/ man' = man
        BY <1>33, PausingDoes DEF Typed
    <2>2. used' = used
        BY <1>33 DEF UserCancelResume
    <2> QED BY <2>1, <2>2 DEF Typed, ManifestOK, ViewPaused
<1>34. ASSUME InboxSnapshot PROVE ManifestOK'
    <2>1. ViewOrphans(man', man, Owned)
        BY <1>34, SnapshotDoes DEF Typed
    <2>2. used' = used
        BY <1>34 DEF InboxSnapshot
    <2> QED BY <2>1, <2>2 DEF Typed, ManifestOK, ViewOrphans, InFlightStates
<1>35. ASSUME Teardown PROVE ManifestOK'
    BY <1>35 DEF Typed, ManifestOK, Teardown, Close, LoseAuthority
<1>36. ASSUME RunItemBlocks PROVE ManifestOK'
    <2>1. \/ ViewSet(man', man, runner.id, "blocked")
          \/ ViewPaused(man', man, TRUE) \/ man' = man
        BY <1>36, RunItemBlocksDoes DEF Typed, RunItemBlocks
    <2>2. used' = used
        BY <1>36 DEF RunItemBlocks, RunItemRead, RunItemBlock, RunItemPause
    <2> QED BY <2>1, <2>2 DEF Typed, ManifestOK, ViewSet, ViewPaused
<1>37. ASSUME NEW t \in Turn, TurnAdmit(t) PROVE ManifestOK'
    BY <1>37 DEF Typed, ManifestOK, TurnAdmit, AdmitStart, AdmitPark, AdmitDrop, Claim
<1>38. ASSUME NEW t \in Turn, TurnSpawn(t) PROVE ManifestOK'
    BY <1>38 DEF Typed, ManifestOK, TurnSpawn, Spawn
<1>39. ASSUME NEW t \in Turn, RunItemClaim(t) PROVE ManifestOK'
    <2>1. \/ /\ StatusIn(man, item[t].id) = "queued" /\ item[t].id \in used
             /\ ViewSet(man', man, item[t].id, "running") /\ Spawn(t)
             /\ active' = active \cup {item[t].id} /\ item' = item
          \/ /\ man' = man /\ SyncAdmittedError(t) /\ active' = active
             /\ item' = [item EXCEPT ![t] = NoItem]
        BY <1>39, RunItemClaimDoes DEF Typed
    <2>2. used' = used
        BY <1>39 DEF RunItemClaim
    <2> QED BY <2>1, <2>2 DEF Typed, ManifestOK, ViewSet
<1>40. ASSUME NEW t \in Turn, TurnBodyEnds(t) PROVE ManifestOK'
    BY <1>40
    DEF Typed, ManifestOK, TurnBodyEnds, BodyEnds, SyncEnds, FinishGuarded, Release, Settle,
        SettleOff
<1>41. ASSUME NEW t \in Turn, SettleCapture(t) PROVE ManifestOK'
    BY <1>41 DEF Typed, ManifestOK, SettleCapture, Settle, SettleOff
<1>42. ASSUME NEW t \in Turn, SettleOne(t) PROVE ManifestOK'
    <2>1. PICK id \in settle[t].left : SettleView(t, id)
        BY <1>42, SettleOneDoes DEF Typed
    <2>2. ViewRemoved(man', man, id) \/ ViewSet(man', man, id, "uncertain") \/ man' = man
        BY <2>1 DEF SettleView
    <2>3. used' = used
        BY <1>42 DEF SettleOne
    <2> QED BY <2>2, <2>3, Counted, MaxItemsAssumption DEF Typed, ManifestOK, ViewSet, ViewRemoved
<1>43. ASSUME NEW t \in Turn, SettleUntrack(t) PROVE ManifestOK'
    <2>1. man' = man \/ ViewPaused(man', man, TRUE)
        BY <1>43, SettleUntrackDoes DEF Typed
    <2>2. used' = used
        BY <1>43 DEF SettleUntrack
    <2> QED BY <2>1, <2>2 DEF Typed, ManifestOK, ViewPaused
<1>44. ASSUME NEW t \in Turn, TurnSettled(t) PROVE ManifestOK'
    BY <1>44
    DEF Typed, ManifestOK, TurnSettled, Delivered, SyncSettled, EndWindow, Claim, Settle, SettleOff,
        Kicked
<1>45. ASSUME NEW t \in Turn, ChatAsk(t) \/ RunItemAsk(t) PROVE ManifestOK'
    BY <1>45 DEF Typed, ManifestOK, ChatAsk, RunItemAsk, Ask
<1>46. ASSUME NEW q \in Rotator, Rotation(q) PROVE ManifestOK'
    BY <1>46 DEF Typed, ManifestOK, Rotation, BeginRotation, EndRotation, Kicked
<1> QED BY <1>1, <1>2, <1>3, <1>4, <1>5, <1>6, <1>7, <1>8, <1>9, <1>10, <1>11, <1>12, <1>13, <1>14,
           <1>15, <1>16, <1>17, <1>18, <1>19, <1>20, <1>21, <1>22, <1>23, <1>24, <1>25, <1>26,
           <1>27, <1>28, <1>29, <1>30, <1>31, <1>32, <1>33, <1>34, <1>35, <1>36, <1>37, <1>38,
           <1>39, <1>40, <1>41, <1>42, <1>43, <1>44, <1>45, <1>46
        DEF INext, Dispatcher, Agent, Steering, User, Turns

(* Every step keeps the records in their types.                             *)
LEMMA RecordsNext ==
    ASSUME Typed, INext
    PROVE  RecordsOK'
<1>1. ASSUME DispLoop \/ DispClaim \/ DispBlock \/ DispRollback PROVE RecordsOK'
    BY <1>1
    DEF DispLoop, DispClaim, DispBlock, DispRollback, own, Typed, RecordsOK, DispRec, ItemRec,
        DispLocked, DispHolds, Names, NoItem
<1>2. ASSUME DispBusy PROVE RecordsOK'
    <2>1. retry' \in RetryRec
        BY <1>2, RetriesTyped DEF DispBusy, Typed, RecordsOK
    <2>2. disp' \in DispRec
        BY <1>2, BackTyped DEF DispBusy, Typed, RecordsOK, DispRec, DispLocked
    <2> QED BY <1>2, <2>1, <2>2 DEF DispBusy, own, Typed, RecordsOK
<1>3. ASSUME DispScan PROVE RecordsOK'
    <2>1. retry' \in RetryRec
        BY <1>3, RetriesTyped DEF DispScan, Typed, RecordsOK
    <2>2. ASSUME NEW id \in NextQueued(man), disp' = [disp EXCEPT !.pc = "submit", !.item.id = id]
          PROVE  disp' \in DispRec
        <3>1. id \in Names
            BY DispScanDoes DEF Typed, Names
        <3> QED BY <2>2, <3>1 DEF Typed, RecordsOK, DispRec, ItemRec
    <2>3. disp' \in DispRec
        BY <1>3, <2>2, BackTyped DEF DispScan, Typed, RecordsOK
    <2> QED BY <1>3, <2>1, <2>3 DEF DispScan, own, Typed, RecordsOK
<1>4. ASSUME DispRead PROVE RecordsOK'
    <2>1. retry' \in RetryRec
        BY <1>4, RetriesTyped DEF DispRead, Typed, RecordsOK
    <2>2. ASSUME CanClaim(man, disp.item.id),
                 disp' = [disp EXCEPT !.pc = "claim", !.item.body = BodyOf(disp.item.id)]
          PROVE  disp' \in DispRec
        <3>1. BodyOf(disp.item.id) \in AllBodies
            BY <2>2, DispReadDoes DEF Typed
        <3> QED BY <2>2, <3>1 DEF Typed, RecordsOK, DispRec, ItemRec, DispLocked
    <2>3. disp' \in DispRec
        BY <1>4, <2>2, BackTyped DEF DispRead, Typed, RecordsOK
    <2> QED BY <1>4, <2>1, <2>3 DEF DispRead, Typed, RecordsOK
<1>5. ASSUME DispClaimError \/ DispBlockPause \/ DispReturn PROVE RecordsOK'
    <2>1. retry' \in RetryRec /\ disp' \in DispRec
        BY <1>5, RetriesTyped, BackTyped
        DEF DispClaimError, DispBlockPause, DispReturn, Typed, RecordsOK
    <2> QED BY <1>5, <2>1 DEF DispClaimError, DispBlockPause, DispReturn, Typed, RecordsOK
<1>6. ASSUME DispAsk PROVE RecordsOK'
    BY <1>6
    DEF DispAsk, Ask, own, Typed, RecordsOK, DispRec, ItemRec, DispLocked, DispHolds, Names, NoItem
<1>7. ASSUME DispStart PROVE RecordsOK'
    BY <1>7
    DEF DispStart, AdmitStart, Claim, own, Typed, RecordsOK, DispRec, ItemRec, DispLocked,
        DispHolds, Names, NoItem
<1>8. ASSUME DispDrop PROVE RecordsOK'
    BY <1>8
    DEF DispDrop, AdmitDrop, own, Typed, RecordsOK, DispRec, ItemRec, DispLocked, DispHolds, Names,
        NoItem
<1>9. ASSUME DispOnStart PROVE RecordsOK'
    BY <1>9
    DEF DispOnStart, Spawn, own, Typed, RecordsOK, DispRec, ItemRec, DispLocked, DispHolds, Names,
        NoItem
<1>10. ASSUME RetryFires PROVE RecordsOK'
    BY <1>10, RetriesAssumption
    DEF RetryFires, Kicked, own, Typed, RecordsOK, DispRec, ItemRec, DispLocked, DispHolds, Names,
        NoItem, RetryRec
<1>11. ASSUME AgentRun \/ AgentMarkConsumed \/ AgentFinish \/ AgentUnapplied
      PROVE  RecordsOK'
    BY <1>11
    DEF AgentRun, AgentMarkConsumed, AgentFinish, AgentUnapplied, own, Typed, RecordsOK, AgentRec,
        Names
<1>12. ASSUME AgentConsume PROVE RecordsOK'
    <2>1. agent.queue \in Seq(Stem) /\ agent.queue # <<>> /\ agent \in AgentRec
        BY <1>12 DEF AgentConsume, Typed, RecordsOK, AgentRec
    <2> DEFINE id == Head(agent.queue)
               rest == Tail(agent.queue)
    <2>2. id \in Stem /\ rest \in Seq(Stem)
        BY <2>1, FrontPopped
    <2>3. <<id>> \in Seq(Stem)
        BY <2>2, OneListed
    <2>4. \/ agent' = [[agent EXCEPT !.queue = rest] EXCEPT !.pc = "applied", !.id = id]
          \/ agent' = [[agent EXCEPT !.queue = rest] EXCEPT !.pc = "unapplied", !.flush = <<id>>]
        BY <1>12 DEF AgentConsume
    <2> HIDE DEF id, rest
    <2>5. agent' \in AgentRec
        BY <2>1, <2>2, <2>3, <2>4 DEF AgentRec, Names
    <2> QED BY <1>12, <2>5 DEF AgentConsume, own, Typed, RecordsOK
<1>13. ASSUME AgentAbort PROVE RecordsOK'
    <2>1. agent \in AgentRec /\ <<>> \in Seq(Stem)
        BY EmptySeq DEF Typed, RecordsOK
    <2>2. agent' \in AgentRec
        BY <1>13, <2>1 DEF AgentAbort, AgentRec
    <2> QED BY <1>13, <2>2 DEF AgentAbort, own, Typed, RecordsOK
<1>14. ASSUME AgentUnown PROVE RecordsOK'
    BY <1>14, FrontPopped DEF AgentUnown, own, Typed, RecordsOK, AgentRec, Names, NamesOK
<1>15. ASSUME SteerRead PROVE RecordsOK'
    <2>1. SteerReadView
        BY <1>15, SteerReadDoes DEF Typed
    <2> QED BY <1>15, <2>1
            DEF SteerRead, own, Typed, RecordsOK, SteerRec, SteerLocked, Names, SteerReadView,
                SteerTo
<1>16. ASSUME SteerMark PROVE RecordsOK'
    <2>1. SteerMarkView
        BY <1>16, SteerMarkDoes DEF Typed
    <2> QED BY <1>16, <2>1
            DEF SteerMark, own, Typed, RecordsOK, SteerRec, SteerLocked, Names, SteerMarkView,
                SteerTo
<1>17. ASSUME SteerEnqueue PROVE RecordsOK'
    <2>1. agent \in AgentRec /\ agent.queue \in Seq(Stem) /\ steer \in SteerRec /\ steer.id \in Stem
        BY <1>17 DEF SteerEnqueue, Typed, RecordsOK, NamesOK, ManifestOK, AgentRec
    <2>2. Append(agent.queue, steer.id) \in Seq(Stem)
        BY <2>1, BackAdded
    <2>3. agent' \in AgentRec
        BY <1>17, <2>1, <2>2 DEF SteerEnqueue, AgentRec
    <2>4. steer' \in SteerRec
        BY <1>17, <2>1 DEF SteerEnqueue, SteerTo, SteerRec, SteerLocked
    <2> QED BY <1>17, <2>3, <2>4 DEF SteerEnqueue, Typed, RecordsOK
<1>18. ASSUME SteerRequeue PROVE RecordsOK'
    BY <1>18 DEF SteerRequeue, SteerTo, own, Typed, RecordsOK, SteerRec, SteerLocked, Names
<1>19. ASSUME SteerConvert PROVE RecordsOK'
    <2>1. SteerConvertView
        BY <1>19, SteerConvertDoes DEF Typed
    <2> QED BY <1>19, <2>1
            DEF SteerConvert, SteerConvertView, SteerTo, own, Typed, RecordsOK, SteerRec, SteerLocked,
                Names
<1>20. ASSUME SteerReturn PROVE RecordsOK'
    BY <1>20
    DEF SteerReturn, Kicked, SteerOff, own, Typed, RecordsOK, SteerRec, SteerLocked, Names, DispRec,
        ItemRec, DispLocked, DispHolds, NoItem
<1>21. ASSUME NEW intent \in Intents, UserEnqueue(intent) PROVE RecordsOK'
    <2>1. PICK id \in Stem \ used, b \in Bodies :
              /\ ViewAdded(man', man, id, b) /\ Len(man.items) < MaxItems
              /\ used' = used \cup {id} /\ StatusIn(man, id) = "gone"
              /\ user' = [user EXCEPT !.id = id, !.pc = IF b = "badref" THEN "badref" ELSE intent]
        BY <1>21, UserEnqueueDoes DEF Typed
    <2> QED BY <1>21, <2>1 DEF UserEnqueue, own, Typed, RecordsOK, UserRec, Names, Intents, ManifestOK
<1>22. ASSUME UserBadRef PROVE RecordsOK'
    <2>1. UserBadRefView
        BY <1>22, UserBadRefDoes DEF Typed
    <2>2. UserOff \in UserRec /\ [user EXCEPT !.pc = "badpause"] \in UserRec
        BY DEF Typed, RecordsOK, UserOff, UserRec, Names
    <2>3. user' \in UserRec
        BY <2>1, <2>2 DEF UserBadRefView
    <2> QED BY <1>22, <2>3 DEF UserBadRef, own, Typed, RecordsOK
<1>23. ASSUME UserBadPause PROVE RecordsOK'
    BY <1>23 DEF UserBadPause, UserOff, own, Typed, RecordsOK, UserRec, Names
<1>24. ASSUME UserFollowup PROVE RecordsOK'
    BY <1>24
    DEF UserFollowup, UserOff, CommandKick, Kicked, own, Typed, RecordsOK, UserRec, Names, DispRec, ItemRec,
        DispLocked, DispHolds, NoItem
<1>25. ASSUME UserSteer PROVE RecordsOK'
    <2>1. \A id \in Ids(man) : id \in Stem
        BY DispReadDoes DEF Typed, Has
    <2>2. steer' \in SteerRec
        BY <1>25, <2>1 DEF UserSteer, SteerOff, SteerRec, Names, SteerLocked
    <2>3. user' = UserOff \/ user' = user
        BY <1>25 DEF UserSteer
    <2>4. UserOff \in UserRec
        BY DEF UserOff, UserRec, Names
    <2>5. user' \in UserRec
        BY <2>3, <2>4 DEF Typed, RecordsOK
    <2> QED BY <1>25, <2>2, <2>5 DEF UserSteer, own, Typed, RecordsOK
<1>26. ASSUME NEW p \in BOOLEAN, UserPause(p) PROVE RecordsOK'
    BY <1>26
    DEF UserPause, CommandKick, Kicked, own, Typed, RecordsOK, DispRec, ItemRec, DispLocked, DispHolds, Names,
        NoItem
<1>27. ASSUME UserRetry PROVE RecordsOK'
    <2>1. PICK id \in used :
              /\ StatusIn(man, id) \in {"uncertain", "blocked"} /\ ViewSet(man', man, id, "queued")
              /\ applied' = applied \ {id}
        BY <1>27, UserRetryDoes DEF Typed
    <2> QED BY <1>27, <2>1
            DEF UserRetry, CommandKick, Kicked, own, Typed, RecordsOK, DispRec, ItemRec, DispLocked, DispHolds,
                Names, NoItem
<1>28. ASSUME UserEdit PROVE RecordsOK'
    <2>1. PICK id \in used, b \in Bodies :
              /\ StatusIn(man, id) \in Pending /\ ViewEdited(man', man, id)
              /\ user' = IF b = "badref" THEN [user EXCEPT !.pc = "badref", !.id = id] ELSE user
        BY <1>28, UserEditDoes DEF Typed
    <2> QED BY <1>28, <2>1 DEF UserEdit, own, Typed, RecordsOK, UserRec, Names, ManifestOK
<1>29. ASSUME UserDelete PROVE RecordsOK'
    <2>1. PICK id \in used :
              OwnedRecovered /\ user' = [user EXCEPT !.pc = "delete", !.id = id]
        BY <1>29, UserDeleteDoes DEF Typed
    <2> QED BY <1>29, <2>1 DEF UserDelete, own, Typed, RecordsOK, UserRec, Names, ManifestOK
<1>30. ASSUME UserDeleteItem PROVE RecordsOK'
    <2>1. UserDeleteItemView
        BY <1>30, UserDeleteItemDoes DEF Typed
    <2> QED BY <1>30, <2>1 DEF UserDeleteItem, UserDeleteItemView, own, Typed, RecordsOK, UserRec, Names, UserOff
<1>31. ASSUME UserUnaccept PROVE RecordsOK'
    <2>1. \/ ViewSet(man', man, user.id, "queued") /\ user' = [user EXCEPT !.pc = "redelete"]
          \/ man' = man /\ user' = UserOff
        BY <1>31, UserUnacceptDoes DEF Typed
    <2>2. UserOff \in UserRec /\ [user EXCEPT !.pc = "redelete"] \in UserRec
        BY DEF Typed, RecordsOK, UserOff, UserRec, Names
    <2>3. user' \in UserRec
        BY <2>1, <2>2
    <2> QED BY <1>31, <2>3 DEF UserUnaccept, own, Typed, RecordsOK
<1>32. ASSUME UserCancelWith PROVE RecordsOK'
    <2>1. man.paused \in BOOLEAN /\ \A id \in Ids(man) : id \in Stem
        BY DispReadDoes DEF Typed, Has
    <2> QED BY <1>32, <2>1 DEF UserCancelWith, own, Typed, RecordsOK, UserRec, Names
<1>33. ASSUME UserCancelPause \/ UserCancelDiscard PROVE RecordsOK'
    BY <1>33 DEF UserCancelPause, UserCancelDiscard, UserTo, own, Typed, RecordsOK, UserRec, Names
<1>34. ASSUME UserCancelTurn PROVE RecordsOK'
    BY <1>34 DEF UserCancelTurn, UserOff, Cancel, own, Typed, RecordsOK, UserRec, Names
<1>35. ASSUME UserCancelResume PROVE RecordsOK'
    BY <1>35 DEF UserCancelResume, UserOff, own, Typed, RecordsOK, UserRec, Names
<1>36. ASSUME InboxSnapshot \/ RunItemBlocks PROVE RecordsOK'
    BY <1>36 DEF InboxSnapshot, RunItemBlocks, RunItemRead, RunItemBlock, RunItemPause, own, Typed, RecordsOK
<1>37. ASSUME Teardown PROVE RecordsOK'
    BY <1>37 DEF Teardown, Close, LoseAuthority, own, Typed, RecordsOK
<1>38. ASSUME NEW t \in Turn, TurnAdmit(t) PROVE RecordsOK'
    BY <1>38
    DEF TurnAdmit, AdmitStart, AdmitPark, AdmitDrop, Claim, own, Typed, RecordsOK, ItemRec, Names,
        NoItem
<1>39. ASSUME NEW t \in Turn, TurnSpawn(t) PROVE RecordsOK'
    BY <1>39 DEF TurnSpawn, Spawn, own, Typed, RecordsOK
<1>40. ASSUME NEW t \in Turn, RunItemClaim(t) PROVE RecordsOK'
    <2>1. \/ /\ StatusIn(man, item[t].id) = "queued" /\ item[t].id \in used
             /\ ViewSet(man', man, item[t].id, "running") /\ Spawn(t)
             /\ active' = active \cup {item[t].id} /\ item' = item
          \/ /\ man' = man /\ SyncAdmittedError(t) /\ active' = active
             /\ item' = [item EXCEPT ![t] = NoItem]
        BY <1>40, RunItemClaimDoes DEF Typed
    <2> QED BY <1>40, <2>1 DEF RunItemClaim, own, Typed, RecordsOK, ItemRec, Names, NoItem
<1>41. ASSUME NEW t \in Turn, TurnBodyEnds(t) PROVE RecordsOK'
    BY <1>41
    DEF TurnBodyEnds, BodyEnds, SyncEnds, FinishGuarded, Release, Settle, SettleOff, own, Typed,
        RecordsOK, ItemRec, Names, NoItem, SettleRec
<1>42. ASSUME NEW t \in Turn, SettleCapture(t) PROVE RecordsOK'
    <2>1. active \in SUBSET Stem
        BY DEF Typed, NamesOK, ManifestOK
    <2>2. \E s \in SettleRec : settle' = [settle EXCEPT ![t] = s]
        BY <1>42, <2>1 DEF SettleCapture, Settle, SettleOff, SettleRec
    <2> QED BY <1>42, <2>2 DEF SettleCapture, own, Typed, RecordsOK
<1>43. ASSUME NEW t \in Turn, SettleOne(t) PROVE RecordsOK'
    <2>1. PICK id \in settle[t].left : SettleView(t, id)
        BY <1>43, SettleOneDoes DEF Typed
    <2>2. settle \in [Turn -> SettleRec] /\ settle[t] \in SettleRec
        BY DEF Typed, RecordsOK
    <2>3. \A f \in BOOLEAN : /\ [settle[t] EXCEPT !.left = @ \ {id}] \in SettleRec
                            /\ [settle[t] EXCEPT !.left = @ \ {id}, !.failed = f] \in SettleRec
        BY <2>2 DEF SettleRec
    <2>4. settle' \in [Turn -> SettleRec]
        BY <2>1, <2>2, <2>3 DEF SettleView
    <2> QED BY <1>43, <2>4 DEF SettleOne, own, Typed, RecordsOK
<1>44. ASSUME NEW t \in Turn, SettleUntrack(t) PROVE RecordsOK'
    BY <1>44 DEF SettleUntrack, Settle, SettleOff, own, Typed, RecordsOK, SettleRec
<1>45. ASSUME NEW t \in Turn, TurnSettled(t) PROVE RecordsOK'
    BY <1>45
    DEF TurnSettled, Delivered, SyncSettled, EndWindow, Claim, Settle, SettleOff, Kicked, own,
        Typed, RecordsOK, SettleRec, DispRec, ItemRec, DispLocked, DispHolds, Names, NoItem
<1>46. ASSUME NEW t \in Turn, ChatAsk(t) PROVE RecordsOK'
    BY <1>46 DEF ChatAsk, Ask, own, Typed, RecordsOK
<1>47. ASSUME NEW t \in Turn, RunItemAsk(t) PROVE RecordsOK'
    <2>1. \A id \in Ids(man) : id \in Stem /\ BodyOf(id) \in AllBodies
        BY DispReadDoes DEF Typed, Has
    <2> QED BY <1>47, <2>1 DEF RunItemAsk, own, Typed, RecordsOK, ItemRec, Names
<1>48. ASSUME NEW q \in Rotator, Rotation(q) PROVE RecordsOK'
    BY <1>48
    DEF Rotation, BeginRotation, EndRotation, Kicked, own, Typed, RecordsOK, DispRec, ItemRec,
        DispLocked, DispHolds, Names, NoItem
<1> QED BY <1>1, <1>2, <1>3, <1>4, <1>5, <1>6, <1>7, <1>8, <1>9, <1>10, <1>11, <1>12, <1>13, <1>14,
           <1>15, <1>16, <1>17, <1>18, <1>19, <1>20, <1>21, <1>22, <1>23, <1>24, <1>25, <1>26,
           <1>27, <1>28, <1>29, <1>30, <1>31, <1>32, <1>33, <1>34, <1>35, <1>36, <1>37, <1>38,
           <1>39, <1>40, <1>41, <1>42, <1>43, <1>44, <1>45, <1>46, <1>47, <1>48
        DEF INext, Dispatcher, Agent, Steering, User, Turns

(* Every step names only items that were drawn.                             *)
LEMMA NamesNext ==
    ASSUME Typed, INext
    PROVE  NamesOK'
<1>1. ASSUME DispLoop \/ DispClaim \/ DispBlock PROVE NamesOK'
    <2>1. /\ disp'.pc \in {"off", "busy", "ask", "pause"} /\ disp'.item = disp.item
          /\ disp.pc = "claim" \/ disp'.pc \in {"off", "busy"}
        BY <1>1 DEF DispLoop, DispClaim, DispBlock, Typed, RecordsOK, DispRec
    <2> QED BY <1>1, <2>1
            DEF DispLoop, DispClaim, DispBlock, own, hist, Typed, NamesOK, DispLocked, DispHolds
<1>50. ASSUME DispRollback PROVE NamesOK'
    <2>1. disp \in DispRec /\ disp.item.id \in used
        BY <1>50 DEF DispRollback, Typed, RecordsOK, NamesOK, DispLocked, DispHolds
    <2>2. disp'.pc \in {"return", "error"} /\ disp'.item = disp.item
        BY <1>50, <2>1 DEF DispRollback, DispRec
    <2>3. unsaved' = unsaved \/ unsaved' = unsaved \cup {disp.item.id}
        BY <1>50 DEF DispRollback, Requeued, RequeueFailed, Unsaved
    <2> QED BY <1>50, <2>1, <2>2, <2>3 DEF DispRollback, own, Typed, NamesOK
<1>2. ASSUME DispBusy PROVE NamesOK'
    <2>1. disp'.pc \in {"loop", "scan"}
        BY <1>2, BackTyped DEF DispBusy, Typed, RecordsOK, DispRec
    <2> QED BY <1>2, <2>1 DEF DispBusy, own, hist, Typed, NamesOK, DispLocked, DispHolds
<1>3. ASSUME DispScan PROVE NamesOK'
    <2>1. disp \in DispRec /\ \A id \in NextQueued(man) : id \in used
        BY DispScanDoes DEF Typed, RecordsOK
    <2>2. ASSUME NEW id \in NextQueued(man), disp' = [disp EXCEPT !.pc = "submit", !.item.id = id]
          PROVE  disp'.pc = "submit" /\ disp'.item.id \in used
        BY <2>1, <2>2, ScanTakes
    <2>3. disp'.pc = "loop" \/ (disp'.pc = "submit" /\ disp'.item.id \in used)
        BY <1>3, <2>1, <2>2, BackTyped DEF DispScan
    <2> QED BY <1>3, <2>3 DEF DispScan, own, hist, Typed, NamesOK, DispLocked, DispHolds
<1>4. ASSUME DispRead PROVE NamesOK'
    <2>1. disp \in DispRec /\ disp.item.id \in used
        BY <1>4 DEF DispRead, Typed, RecordsOK, NamesOK
    <2>2. disp'.pc = "loop" \/ (disp'.pc = "claim" /\ disp'.item.id = disp.item.id)
        BY <1>4, <2>1, BackTyped, ReadTakes DEF Typed
    <2> QED BY <1>4, <2>1, <2>2 DEF DispRead, hist, Typed, NamesOK, DispLocked, DispHolds
<1>5. ASSUME DispClaimError \/ DispBlockPause \/ DispReturn PROVE NamesOK'
    BY <1>5
    DEF DispClaimError, DispBlockPause, DispReturn, BackToLoop, ResetRetries, ScheduleRetry, own,
        hist, Typed, RecordsOK, NamesOK, DispRec, ItemRec, DispLocked, DispHolds, Names, NoItem,
        RetryRec
<1>6. ASSUME DispAsk PROVE NamesOK'
    BY <1>6
    DEF DispAsk, Ask, own, hist, Typed, RecordsOK, NamesOK, DispRec, ItemRec, DispLocked, DispHolds,
        Names, NoItem
<1>7. ASSUME DispStart PROVE NamesOK'
    BY <1>7
    DEF DispStart, AdmitStart, Claim, own, hist, Typed, RecordsOK, NamesOK, DispRec, ItemRec,
        DispLocked, DispHolds, Names, NoItem
<1>8. ASSUME DispDrop PROVE NamesOK'
    BY <1>8
    DEF DispDrop, AdmitDrop, own, hist, Typed, RecordsOK, NamesOK, DispRec, ItemRec, DispLocked,
        DispHolds, Names, NoItem
<1>9. ASSUME DispOnStart PROVE NamesOK'
    BY <1>9
    DEF DispOnStart, Spawn, own, hist, Typed, RecordsOK, NamesOK, DispRec, ItemRec, DispLocked,
        DispHolds, Names, NoItem
<1>10. ASSUME RetryFires PROVE NamesOK'
    BY <1>10
    DEF RetryFires, Kicked, own, hist, Typed, RecordsOK, NamesOK, DispRec, ItemRec, DispLocked,
        DispHolds, Names, NoItem, RetryRec
<1>11. ASSUME AgentRun \/ AgentMarkConsumed \/ AgentFinish PROVE NamesOK'
    BY <1>11
    DEF AgentRun, AgentMarkConsumed, AgentFinish, own, hist, Typed, RecordsOK, NamesOK, AgentRec,
        Names
<1>49. ASSUME AgentUnapplied PROVE NamesOK'
    <2>1. agent.flush \in Seq(Stem) /\ agent.flush # <<>> /\ agent \in AgentRec
        BY <1>49 DEF AgentUnapplied, Typed, RecordsOK, NamesOK, AgentRec
    <2>2. Head(agent.flush) \in used
        BY <2>1, FrontPopped DEF Typed, NamesOK
    <2> QED BY <1>49, <2>1, <2>2 DEF AgentUnapplied, Unsaved, own, Typed, NamesOK, AgentRec
<1>12. ASSUME AgentConsume PROVE NamesOK'
    <2>1. agent.queue \in Seq(Stem) /\ agent.queue # <<>> /\ agent \in AgentRec /\ agent.pc = "run"
          /\ ToSet(agent.queue) \subseteq used /\ ToSet(agent.flush) \subseteq used
             /\ agent.flush = <<>>
        BY <1>12 DEF AgentConsume, Typed, RecordsOK, NamesOK, AgentRec
    <2> DEFINE id == Head(agent.queue)
               rest == Tail(agent.queue)
    <2>2. id \in Stem /\ id \in used /\ ToSet(rest) \subseteq used
        BY <2>1, FrontPopped
    <2>3. <<id>> # <<>> /\ ToSet(<<id>>) = {id}
        BY <2>2, OneListed
    <2>4. \/ /\ agent' = [[agent EXCEPT !.queue = rest] EXCEPT !.pc = "applied", !.id = id]
             /\ applied' = applied \cup {id}
          \/ /\ agent' = [[agent EXCEPT !.queue = rest] EXCEPT !.pc = "unapplied", !.flush = <<id>>]
             /\ applied' = applied
        BY <1>12 DEF AgentConsume
    <2> HIDE DEF id, rest
    <2>5. /\ ToSet(agent'.queue) \subseteq used /\ ToSet(agent'.flush) \subseteq used
          /\ agent'.id # NoStem => agent'.id \in used
          /\ agent'.pc \in {"unapplied", "unowned"} <=> agent'.flush # <<>>
        BY <2>1, <2>2, <2>3, <2>4 DEF Typed, NamesOK, AgentRec
    <2>6. applied' \subseteq used
        BY <2>2, <2>4 DEF Typed, NamesOK
    <2> QED BY <1>12, <2>5, <2>6 DEF AgentConsume, own, Typed, NamesOK
<1>13. ASSUME AgentAbort PROVE NamesOK'
    <2>1. ToSet(<<>>) = {} /\ agent \in AgentRec
        BY NoneListed DEF Typed, RecordsOK
    <2> QED BY <1>13, <2>1 DEF AgentAbort, own, hist, Typed, NamesOK, AgentRec
<1>14. ASSUME AgentUnown PROVE NamesOK'
    <2>1. agent.flush \in Seq(Stem) /\ agent.flush # <<>> /\ agent \in AgentRec
        BY <1>14 DEF AgentUnown, Typed, RecordsOK, NamesOK, AgentRec
    <2>2. ToSet(Tail(agent.flush)) \subseteq used /\ (Len(agent.flush) > 1 <=> Tail(agent.flush) # <<>>)
        BY <2>1, FrontPopped DEF Typed, NamesOK
    <2> DEFINE rest == Tail(agent.flush)
    <2>3. agent' = [agent EXCEPT !.flush = rest,
                                 !.pc = IF rest # <<>> THEN "unapplied" ELSE IF agent.up THEN "run" ELSE "off"]
        BY <1>14, <2>2 DEF AgentUnown
    <2> HIDE DEF rest
    <2> QED BY <1>14, <2>1, <2>2, <2>3 DEF AgentUnown, hist, Typed, NamesOK, AgentRec, rest
<1>15. ASSUME SteerRead PROVE NamesOK'
    <2>1. SteerReadView
        BY <1>15, SteerReadDoes DEF Typed
    <2> QED BY <1>15, <2>1
            DEF SteerRead, own, hist, Typed, RecordsOK, NamesOK, SteerRec, SteerLocked, Names,
                SteerReadView, SteerTo
<1>16. ASSUME SteerMark PROVE NamesOK'
    <2>1. SteerMarkView
        BY <1>16, SteerMarkDoes DEF Typed
    <2> QED BY <1>16, <2>1
            DEF SteerMark, own, hist, Typed, RecordsOK, NamesOK, SteerRec, SteerLocked, Names,
                SteerMarkView, SteerTo
<1>17. ASSUME SteerEnqueue PROVE NamesOK'
    <2>1. agent \in AgentRec /\ agent.queue \in Seq(Stem) /\ steer \in SteerRec /\ steer.id \in Stem
          /\ steer.id \in used
        BY <1>17 DEF SteerEnqueue, Typed, RecordsOK, NamesOK, ManifestOK, AgentRec
    <2>2. ToSet(Append(agent.queue, steer.id)) \subseteq used
        BY <2>1, BackAdded DEF Typed, NamesOK
    <2>3. /\ ToSet(agent'.queue) \subseteq used
          /\ agent'.flush = agent.flush /\ agent'.pc = agent.pc /\ agent'.id = agent.id
        BY <1>17, <2>1, <2>2 DEF SteerEnqueue, Typed, NamesOK, AgentRec
    <2>4. steer'.id \in used /\ active' \subseteq used
        BY <1>17, <2>1 DEF SteerEnqueue, SteerTo, SteerRec, Typed, NamesOK
    <2> QED BY <1>17, <2>3, <2>4 DEF SteerEnqueue, hist, Typed, NamesOK
<1>18. ASSUME SteerRequeue PROVE NamesOK'
    BY <1>18
    DEF SteerRequeue, Requeued, RequeueFailed, Unsaved, SteerTo, own, Typed, RecordsOK, NamesOK,
        SteerRec, SteerLocked, Names
<1>19. ASSUME SteerConvert PROVE NamesOK'
    <2>1. SteerConvertView
        BY <1>19, SteerConvertDoes DEF Typed
    <2> QED BY <1>19, <2>1
            DEF SteerConvert, SteerConvertView, SteerTo, own, Typed, RecordsOK, NamesOK,
                SteerRec, SteerLocked, Names
<1>20. ASSUME SteerReturn PROVE NamesOK'
    BY <1>20
    DEF SteerReturn, Kicked, SteerOff, own, hist, Typed, RecordsOK, NamesOK, SteerRec, SteerLocked,
        Names, DispRec, ItemRec, DispLocked, DispHolds, NoItem
<1>21. ASSUME NEW intent \in Intents, UserEnqueue(intent) PROVE NamesOK'
    <2>1. PICK id \in Stem \ used, b \in Bodies :
              /\ ViewAdded(man', man, id, b) /\ Len(man.items) < MaxItems
              /\ used' = used \cup {id} /\ StatusIn(man, id) = "gone"
              /\ user' = [user EXCEPT !.id = id, !.pc = IF b = "badref" THEN "badref" ELSE intent]
        BY <1>21, UserEnqueueDoes DEF Typed
    <2>2. user'.id \in used' /\ used \subseteq used'
        BY <2>1 DEF Typed, RecordsOK, UserRec
    <2> QED BY <1>21, <2>2 DEF UserEnqueue, own, hist, Typed, NamesOK
<1>22. ASSUME UserBadRef PROVE NamesOK'
    <2>1. UserBadRefView
        BY <1>22, UserBadRefDoes DEF Typed
    <2> QED BY <1>22, <2>1 DEF UserBadRef, UserBadRefView, own, hist, Typed, RecordsOK, NamesOK, UserRec, Names, UserOff
<1>23. ASSUME UserBadPause PROVE NamesOK'
    BY <1>23 DEF UserBadPause, UserOff, own, hist, Typed, RecordsOK, NamesOK, UserRec, Names
<1>24. ASSUME UserFollowup PROVE NamesOK'
    BY <1>24
    DEF UserFollowup, UserOff, CommandKick, Kicked, own, hist, Typed, RecordsOK, NamesOK, UserRec, Names,
        DispRec, ItemRec, DispLocked, DispHolds, NoItem
<1>25. ASSUME UserSteer PROVE NamesOK'
    <2>1. \A id \in Ids(man) : id \in used
        BY DispReadDoes DEF Typed, Has
    <2>2. steer'.pc = "called" /\ steer'.id \in used
        BY <1>25, <2>1 DEF UserSteer, SteerOff
    <2>3. user' = UserOff \/ user' = user
        BY <1>25 DEF UserSteer
    <2>4. user'.pc # "off" => user'.id \in used
        BY <2>3 DEF Typed, NamesOK, UserOff
    <2> QED BY <1>25, <2>2, <2>4 DEF UserSteer, own, hist, Typed, NamesOK
<1>26. ASSUME NEW p \in BOOLEAN, UserPause(p) PROVE NamesOK'
    BY <1>26
    DEF UserPause, CommandKick, Kicked, own, hist, Typed, RecordsOK, NamesOK, DispRec, ItemRec, DispLocked,
        DispHolds, Names, NoItem
<1>27. ASSUME UserRetry PROVE NamesOK'
    <2>1. PICK id \in used :
              /\ StatusIn(man, id) \in {"uncertain", "blocked"} /\ ViewSet(man', man, id, "queued")
              /\ applied' = applied \ {id}
        BY <1>27, UserRetryDoes DEF Typed
    <2> QED BY <1>27, <2>1
            DEF UserRetry, CommandKick, Kicked, own, hist, Typed, RecordsOK, NamesOK, DispRec, ItemRec,
                DispLocked, DispHolds, Names, NoItem
<1>28. ASSUME UserEdit PROVE NamesOK'
    <2>1. PICK id \in used, b \in Bodies :
              /\ StatusIn(man, id) \in Pending /\ ViewEdited(man', man, id)
              /\ user' = IF b = "badref" THEN [user EXCEPT !.pc = "badref", !.id = id] ELSE user
        BY <1>28, UserEditDoes DEF Typed
    <2> QED BY <1>28, <2>1 DEF UserEdit, own, hist, Typed, RecordsOK, NamesOK, UserRec, Names
<1>29. ASSUME UserDelete PROVE NamesOK'
    <2>1. PICK id \in used :
              OwnedRecovered /\ user' = [user EXCEPT !.pc = "delete", !.id = id]
        BY <1>29, UserDeleteDoes DEF Typed
    <2> QED BY <1>29, <2>1 DEF UserDelete, own, hist, Typed, RecordsOK, NamesOK, UserRec, Names
<1>30. ASSUME UserDeleteItem PROVE NamesOK'
    <2>1. UserDeleteItemView
        BY <1>30, UserDeleteItemDoes DEF Typed
    <2> QED BY <1>30, <2>1
            DEF UserDeleteItem, UserDeleteItemView, own, hist, Typed, RecordsOK, NamesOK, UserRec, Names, UserOff
<1>31. ASSUME UserUnaccept PROVE NamesOK'
    <2>1. \/ ViewSet(man', man, user.id, "queued") /\ user' = [user EXCEPT !.pc = "redelete"]
          \/ man' = man /\ user' = UserOff
        BY <1>31, UserUnacceptDoes DEF Typed
    <2> QED BY <1>31, <2>1
            DEF UserUnaccept, own, hist, Typed, RecordsOK, NamesOK, UserRec, Names, UserOff
<1>32. ASSUME UserCancelWith PROVE NamesOK'
    <2>1. \A id \in Ids(man) : id \in used
        BY DispReadDoes DEF Typed, Has
    <2> QED BY <1>32, <2>1 DEF UserCancelWith, own, hist, Typed, NamesOK
<1>33. ASSUME UserCancelPause \/ UserCancelDiscard PROVE NamesOK'
    BY <1>33
    DEF UserCancelPause, UserCancelDiscard, UserTo, own, hist, Typed, RecordsOK, NamesOK, UserRec,
        Names
<1>34. ASSUME UserCancelTurn PROVE NamesOK'
    BY <1>34 DEF UserCancelTurn, UserOff, Cancel, own, hist, Typed, RecordsOK, NamesOK, UserRec, Names
<1>35. ASSUME UserCancelResume PROVE NamesOK'
    BY <1>35 DEF UserCancelResume, UserOff, own, hist, Typed, RecordsOK, NamesOK, UserRec, Names
<1>36. ASSUME InboxSnapshot \/ RunItemBlocks PROVE NamesOK'
    BY <1>36
    DEF InboxSnapshot, RunItemBlocks, RunItemRead, RunItemBlock, RunItemPause, own, hist, Typed,
        RecordsOK, NamesOK
<1>37. ASSUME Teardown PROVE NamesOK'
    BY <1>37 DEF Teardown, Close, LoseAuthority, own, hist, Typed, RecordsOK, NamesOK
<1>38. ASSUME NEW t \in Turn, TurnAdmit(t) PROVE NamesOK'
    BY <1>38
    DEF TurnAdmit, AdmitStart, AdmitPark, AdmitDrop, Claim, own, hist, Typed, RecordsOK, NamesOK,
        ItemRec, Names, NoItem
<1>39. ASSUME NEW t \in Turn, TurnSpawn(t) PROVE NamesOK'
    BY <1>39 DEF TurnSpawn, Spawn, own, hist, Typed, RecordsOK, NamesOK
<1>40. ASSUME NEW t \in Turn, RunItemClaim(t) PROVE NamesOK'
    <2>1. \/ /\ StatusIn(man, item[t].id) = "queued" /\ item[t].id \in used
             /\ ViewSet(man', man, item[t].id, "running") /\ Spawn(t)
             /\ active' = active \cup {item[t].id} /\ item' = item
          \/ /\ man' = man /\ SyncAdmittedError(t) /\ active' = active
             /\ item' = [item EXCEPT ![t] = NoItem]
        BY <1>40, RunItemClaimDoes DEF Typed
    <2> QED BY <1>40, <2>1
            DEF RunItemClaim, own, hist, Typed, RecordsOK, NamesOK, ItemRec, Names, NoItem
<1>41. ASSUME NEW t \in Turn, TurnBodyEnds(t) PROVE NamesOK'
    BY <1>41
    DEF TurnBodyEnds, BodyEnds, SyncEnds, FinishGuarded, Release, Settle, SettleOff, own, hist,
        Typed, RecordsOK, NamesOK, ItemRec, Names, NoItem, SettleRec
<1>42. ASSUME NEW t \in Turn, SettleCapture(t) PROVE NamesOK'
    <2>1. \E s : settle' = [settle EXCEPT ![t] = s] /\ s.left \subseteq active
        BY <1>42 DEF SettleCapture, Settle, SettleOff
    <2> QED BY <1>42, <2>1 DEF SettleCapture, own, hist, Typed, RecordsOK, NamesOK
<1>43. ASSUME NEW t \in Turn, SettleOne(t) PROVE NamesOK'
    <2>1. PICK id \in settle[t].left : SettleView(t, id)
        BY <1>43, SettleOneDoes DEF Typed
    <2>2. id \in used /\ acked' \subseteq used /\ unsaved' \subseteq used
        BY <2>1 DEF Typed, NamesOK, SettleView
    <2>3. settle \in [Turn -> SettleRec] /\ settle[t] \in SettleRec
        BY DEF Typed, RecordsOK
    <2>4. \A f : /\ [settle[t] EXCEPT !.left = @ \ {id}].left \subseteq settle[t].left
                  /\ [settle[t] EXCEPT !.left = @ \ {id}, !.failed = f].left \subseteq settle[t].left
        BY <2>3 DEF SettleRec
    <2>5. \A s \in Turn : settle'[s].left \subseteq settle[s].left
        BY <2>1, <2>3, <2>4 DEF SettleView
    <2> QED BY <1>43, <2>2, <2>5 DEF SettleOne, own, Typed, NamesOK
<1>44. ASSUME NEW t \in Turn, SettleUntrack(t) PROVE NamesOK'
    BY <1>44 DEF SettleUntrack, Settle, SettleOff, own, hist, Typed, RecordsOK, NamesOK, SettleRec
<1>45. ASSUME NEW t \in Turn, TurnSettled(t) PROVE NamesOK'
    BY <1>45
    DEF TurnSettled, Delivered, SyncSettled, EndWindow, Claim, Settle, SettleOff, Kicked, own, hist,
        Typed, RecordsOK, NamesOK, SettleRec, DispRec, ItemRec, DispLocked, DispHolds, Names, NoItem
<1>46. ASSUME NEW t \in Turn, ChatAsk(t) PROVE NamesOK'
    BY <1>46 DEF ChatAsk, Ask, own, hist, Typed, RecordsOK, NamesOK
<1>47. ASSUME NEW t \in Turn, RunItemAsk(t) PROVE NamesOK'
    <2>1. \A id \in Ids(man) : id \in used
        BY DispReadDoes DEF Typed, Has
    <2> QED BY <1>47, <2>1 DEF RunItemAsk, own, hist, Typed, RecordsOK, NamesOK, NoItem
<1>48. ASSUME NEW q \in Rotator, Rotation(q) PROVE NamesOK'
    BY <1>48
    DEF Rotation, BeginRotation, EndRotation, Kicked, own, hist, Typed, RecordsOK, NamesOK, DispRec,
        ItemRec, DispLocked, DispHolds, Names, NoItem
<1> QED BY <1>1, <1>2, <1>3, <1>4, <1>5, <1>6, <1>7, <1>8, <1>9, <1>10, <1>11, <1>12, <1>13, <1>14,
           <1>15, <1>16, <1>17, <1>18, <1>19, <1>20, <1>21, <1>22, <1>23, <1>24, <1>25, <1>26,
           <1>27, <1>28, <1>29, <1>30, <1>31, <1>32, <1>33, <1>34, <1>35, <1>36, <1>37, <1>38,
           <1>39, <1>40, <1>41, <1>42, <1>43, <1>44, <1>45, <1>46, <1>47, <1>48, <1>49, <1>50
        DEF INext, Dispatcher, Agent, Steering, User, Turns

-----------------------------------------------------------------------------

(* A turn that asks for the gate does not change what the gate promises.    *)
LEMMA AskKeepsGate ==
    ASSUME GateInv, NEW t \in Turn, NEW k \in AllKinds, Ask(t, k)
    PROVE  GateInv'
<1> USE DEF GateInv, Ask, InFlight, flags
<1>1. TypeOK'
    BY DEF TypeOK, PC
<1>2. QueueMatchesCallers'
    BY DEF QueueMatchesCallers, TypeOK
<1>3. OneDelivery' /\ OneTurnInFlight' /\ CancelTargetsTurnInFlight'
    BY DEF OneDelivery, OneTurnInFlight, CancelTargetsTurnInFlight, TypeOK
<1>4. RotationExclusive' /\ DeliveryHoldsGate' /\ CloseSeals'
    BY DEF RotationExclusive, DeliveryHoldsGate, CloseSeals, TypeOK
<1> QED BY <1>1, <1>2, <1>3, <1>4

(* A step that leaves the gate alone keeps its invariant.                   *)
LEMMA GateKept ==
    ASSUME GateInv, UNCHANGED gate
    PROVE  GateInv'
    BY DEF gate, GateInv, TypeOK, QueueMatchesCallers, OneDelivery, OneTurnInFlight,
           CancelTargetsTurnInFlight, RotationExclusive, DeliveryHoldsGate, CloseSeals

(* Every step of the composition keeps the invariant of the gate: the inbox *)
(* uses the gate only through its own steps.                                *)
LEMMA GateINext ==
    ASSUME GateInv, front \in Frontends, NamesOK, INext
    PROVE  GateInv'
<1>1. "inbox" \in AllKinds /\ "sync" \in AllKinds /\ \A k \in front.chat : k \in AllKinds
    BY FrontendsAssumption, KindsAssumption DEF AllKinds
<1>2. CASE Agent
    BY <1>2, GateKept DEF Agent, AgentRun, AgentConsume, AgentMarkConsumed, AgentFinish, AgentAbort,
                          AgentUnapplied, AgentUnown
<1>3. CASE Steering
    BY <1>3, GateKept
    DEF Steering, SteerRead, SteerMark, SteerEnqueue, SteerRequeue, SteerConvert, SteerReturn
<1>4. CASE Dispatcher
    <2>1. ASSUME DispAsk PROVE GateInv'
        BY <1>1, <2>1, AskKeepsGate, GateKept DEF DispAsk
    <2>2. ASSUME DispStart \/ DispDrop \/ DispOnStart PROVE disp.turn \in Turn
        BY <2>2 DEF DispStart, DispDrop, DispOnStart, NamesOK
    <2> QED BY <1>4, <2>1, <2>2, GateKept, StartKeepsGate, CallerKeepsGate
            DEF Dispatcher, DispLoop, DispBusy, DispScan, DispRead, DispClaim, DispClaimError,
                DispBlock, DispBlockPause,
                DispStart, DispDrop, DispOnStart, DispRollback, DispReturn, RetryFires
<1>5. CASE User
    BY <1>5, GateKept, TeardownKeepsGate
    DEF User, UserEnqueue, UserBadRef, UserBadPause, UserFollowup, UserSteer, UserPause,
        UserRetry, UserEdit, UserDelete, UserDeleteItem, UserUnaccept, UserCancelWith,
        UserCancelPause, UserCancelDiscard,
        UserCancelTurn, UserCancelResume, InboxSnapshot
<1>6. CASE Teardown \/ RunItemBlocks
    BY <1>6, GateKept, TeardownKeepsGate
    DEF Teardown, RunItemBlocks, RunItemRead, RunItemBlock, RunItemPause
<1>7. ASSUME NEW t \in Turn, Turns(t) PROVE GateInv'
    BY <1>7, GateKept, StartKeepsGate, ParkKeepsGate, CallerKeepsGate, FinishKeepsGate,
       DeliveredKeepsGate
       DEF Turns, TurnAdmit, TurnSpawn, RunItemClaim, TurnBodyEnds, SettleCapture, SettleOne,
           SettleUntrack, TurnSettled
<1>8. ASSUME NEW t \in Turn, ChatAsk(t) \/ RunItemAsk(t) PROVE GateInv'
    BY <1>1, <1>8, AskKeepsGate DEF ChatAsk, RunItemAsk
<1>9. ASSUME NEW q \in Rotator, Rotation(q) PROVE GateInv'
    BY <1>9, RotationKeepsGate DEF Rotation
<1> QED BY <1>2, <1>3, <1>4, <1>5, <1>6, <1>7, <1>8, <1>9 DEF INext

-----------------------------------------------------------------------------

(***************************************************************************)
(* A frontend that leaves items in flight alone: it never steers an item a  *)
(* second time, deletes none, runs none itself, sends no blocking turns,    *)
(* and does not edit an item into one whose references cannot be frozen.    *)
(* Each of those uses can take an item in flight away from its owner.       *)
(***************************************************************************)
Plain == /\ Ops \cap {"resteer", "delete", "runitem"} = {} /\ "sync" \notin front.chat
         /\ "edit" \notin Ops \/ "badref" \notin Bodies

(* A turn body is running.                                                  *)
Bodyful == \E t \in Turn : pc[t] = "body"

(* The steer that the agent recorded as uncertain and whose ownership it is *)
(* about to give up.                                                        *)
HandedBack == IF agent.pc = "unowned" THEN {Head(agent.flush)} ELSE {}

(* The steers the agent has and has not yet applied or given up.            *)
Waiting == ToSet(agent.queue) \cup (ToSet(agent.flush) \ HandedBack)

(* Every steer the agent still answers for.                                 *)
Steered == ToSet(agent.queue) \cup ToSet(agent.flush) \cup ({agent.id} \ {NoStem})

(* What a plain frontend never starts.                                      *)
PlainUse ==
    /\ Plain /\ user.pc \notin {"delete", "redelete", "unaccept"} /\ runner.pc = "off"
    /\ \A t \in Turn : kind[t] # "sync"

(* admissionMu belongs to whoever is between its lock and its unlock, and   *)
(* the admitting set holds exactly the item that is being admitted.         *)
Locks ==
    /\ admMu = "disp" <=> disp.pc \in DispLocked
    /\ admMu = "steer" <=> steer.pc \in SteerLocked
    /\ disp.pc \in DispHolds => disp.item.id \in admitting
    /\ steer.pc \in {"enqueue", "requeue"} => steer.id \in admitting
    /\ \A x \in admitting : \/ disp.pc \in DispHolds \cup {"return", "error"} /\ x = disp.item.id
                            \/ steer.pc \in {"enqueue", "requeue", "convert", "return"} /\ x = steer.id

(* While a turn is in its finishing window no other turn runs or starts.    *)
DeliveryAlone ==
    \A s, t \in Turn : pc[s] = "delivering" /\ pc[t] \in {"starting", "body", "delivering"} => s = t

(* A turn carries an item only on its way from the dispatcher to its body.  *)
Carried ==
    /\ \A t \in Turn : item[t] # NoItem =>
          \/ pc[t] = "asking" /\ disp.pc = "admit" /\ disp.turn = t
          \/ pc[t] = "starting" /\ disp.pc = "onstart" /\ disp.turn = t
          \/ pc[t] = "body"
    /\ disp.pc = "admit" => pc[disp.turn] = "asking" /\ item[disp.turn] = disp.item
    /\ disp.pc = "onstart" => pc[disp.turn] = "starting" /\ item[disp.turn] = disp.item

(* No steer is listed twice, and the agent has steers only while it runs.   *)
Lists ==
    /\ Once(agent.queue) /\ Once(agent.flush) /\ ToSet(agent.queue) \cap ToSet(agent.flush) = {}
    /\ agent.up = FALSE => agent.queue = <<>>
    /\ agent.up = TRUE => agent.pc # "off"
    /\ agent.pc \in {"run", "applied"} => agent.up = TRUE
    /\ agent.pc = "applied" <=> agent.id # NoStem

(* The agent's steers are owned, accepted and not yet applied; one that is  *)
(* handed back is in flight only if that could not be written or the        *)
(* dispatcher claimed it again.                                             *)
Guided ==
    /\ agent.pc # "off" => Bodyful
    /\ Steered \subseteq active
    /\ \A x \in Waiting : StatusIn(man, x) = "steer_accepted" /\ x \notin applied
    /\ agent.pc = "applied" => StatusIn(man, agent.id) = "steer_accepted" /\ agent.id \in applied
    /\ \A x \in HandedBack : StatusIn(man, x) \in InFlightStates
             => x \in unsaved \/ (disp.pc \in DispHolds /\ disp.item.id = x)

(* A steer or a bad reference that a frontend is still working on is not    *)
(* with the agent.                                                          *)
Commands ==
    /\ steer.pc \in {"called", "mark", "enqueue", "requeue"} => steer.id \notin Steered
    /\ steer.pc = "mark" => StatusIn(man, steer.id) \in {"queued", "gone"}
    /\ steer.pc \in {"enqueue", "requeue"} => StatusIn(man, steer.id) = "steer_accepted" /\ steer.id \notin applied
    /\ user.pc \in {"steer", "badref"} => user.id \notin Steered /\ (steer.pc # "off" => steer.id # user.id)
    /\ user.pc = "badref" =>
          /\ StatusIn(man, user.id) \in {"queued", "blocked", "gone"} /\ "badref" \in Bodies
          /\ StatusIn(man, user.id) # "gone" => TextIn(man, user.id) = "badref"
          /\ disp.pc = "claim" /\ disp.item.id = user.id => disp.item.body = "badref"

(* The item the dispatcher holds is running, was not applied, and is no     *)
(* other turn's.                                                            *)
Claims ==
    /\ disp.pc \in DispHolds => /\ StatusIn(man, disp.item.id) = "running" /\ disp.item.id \notin applied
                                /\ \A t \in Turn : pc[t] = "body" => item[t].id # disp.item.id
    /\ disp.pc = "claim" => StatusIn(man, disp.item.id) \in {"queued", "blocked", "gone"}

(* An item that is owned and that no settlement has dealt with.             *)
Unsettled(x) == x \in active /\ \A t \in Turn : settle[t].pc \in {"ack", "unsaved"} => x \in settle[t].left

(* The item of a running turn is running, owned and not yet applied.        *)
TurnItemHeld ==
    \A t \in Turn : pc[t] = "body" /\ item[t] # NoItem =>
       StatusIn(man, item[t].id) = "running" /\ item[t].id \in active /\ item[t].id \notin applied

(* A steer that was handed back is no running turn's item.                  *)
Returned == \A x \in HandedBack, t \in Turn : pc[t] = "body" => item[t].id # x

(* Every item in flight has somebody who will settle it: the dispatcher, a  *)
(* steer command, or the turn that owns it; or it was given up after a      *)
(* write about it failed.                                                   *)
InFlightHeld ==
    \A x : StatusIn(man, x) \in InFlightStates =>
       \/ disp.pc \in DispHolds /\ x = disp.item.id
       \/ steer.pc \in {"enqueue", "requeue"} /\ x = steer.id
       \/ Unsettled(x) \/ x \in unsaved

(* Items are owned only while a turn runs or is being settled.              *)
ActiveLive == active # {} => \E t \in Turn : pc[t] \in {"body", "delivering"}

(* While a turn runs, an owned item is the turn's own, one of the agent's   *)
(* steers, or an applied steer, recorded as consumed or not.                *)
ActiveKnown ==
    Bodyful => \A x \in active :
       \/ \E t \in Turn : pc[t] = "body" /\ item[t].id = x
       \/ x \in Steered
       \/ StatusIn(man, x) \in {"steer_consumed", "steer_accepted"} /\ x \in applied

(* Who holds what is in flight.                                             *)
Holders == TurnItemHeld /\ InFlightHeld /\ ActiveLive /\ ActiveKnown

(* An item that ran and waits for its acknowledgement.                      *)
Finished(x) == x \in applied /\ StatusIn(man, x) \in InFlightStates

(* The settlement of a turn: what it captured is what is owned, and         *)
(* everything it will acknowledge ran.                                      *)
Settling ==
    \A t \in Turn :
       /\ pc[t] # "delivering" => settle[t].pc = "off"
       /\ pc[t] = "delivering" => settle[t].pc # "off"
       /\ settle[t].pc = "capture" => \A x \in active : Finished(x)
       /\ settle[t].pc \in {"ack", "unsaved"} =>
             settle[t].ids = active /\ settle[t].left \subseteq active /\ \A x \in settle[t].left : Finished(x)
       /\ settle[t].pc = "done" => active = {}

(* Acknowledged items ran and are gone; an item that ran is not in the      *)
(* queue again.                                                             *)
History ==
    /\ acked \subseteq applied
    /\ \A x \in acked : StatusIn(man, x) = "gone"
    /\ \A x \in applied : StatusIn(man, x) \notin {"queued", "blocked"}

(***************************************************************************)
(* Who owns which item, at every step: the parts hold each other up, and    *)
(* none is inductive alone.                                                 *)
(***************************************************************************)
Own == /\ PlainUse /\ Locks /\ DeliveryAlone /\ Carried /\ Lists /\ Guided /\ Returned /\ Commands
       /\ Claims /\ Holders /\ Settling /\ History

(***************************************************************************)
(* The inductive invariant of the controller.                               *)
(***************************************************************************)
Orderly == Typed /\ GateInv /\ Own

(* A step that leaves the agent alone leaves its steers alone.              *)
LEMMA AgentKept ==
    ASSUME agent' = agent
    PROVE  Waiting' = Waiting /\ Steered' = Steered /\ HandedBack' = HandedBack /\ (Lists => Lists')
    BY DEF Waiting, Steered, HandedBack, Lists, Once

(* An agent that does not run has no steers.                                *)
LEMMA AgentOff ==
    ASSUME Typed, Lists, agent.pc = "off"
    PROVE  /\ Waiting = {} /\ Steered = {} /\ HandedBack = {} /\ agent.queue = <<>>
           /\ agent.flush = <<>>
           /\ agent.up = FALSE /\ agent.id = NoStem
<1>1. agent.up \in BOOLEAN /\ agent.flush = <<>>
    BY DEF Typed, RecordsOK, AgentRec, NamesOK
<1>2. agent.up = FALSE /\ agent.queue = <<>> /\ agent.id = NoStem
    BY <1>1 DEF Lists
<1> QED BY <1>1, <1>2, NoneListed DEF Waiting, Steered, HandedBack

(* Agent.Run starts with no steers.                                         *)
LEMMA RunDoes ==
    ASSUME Typed, Lists, AgentRun
    PROVE  /\ Lists' /\ agent'.pc = "run" /\ agent'.id = NoStem /\ agent'.up = TRUE
           /\ Waiting' = {} /\ Steered' = {} /\ HandedBack' = {}
<1>1. agent.pc = "off" /\ agent \in AgentRec
    BY DEF AgentRun, Typed, RecordsOK
<1>2. agent'.pc = "run" /\ agent'.up = TRUE /\ agent'.queue = <<>> /\ agent'.flush = <<>>
      /\ agent'.id = NoStem
    BY <1>1, AgentOff DEF AgentRun, AgentRec
<1>3. Waiting' = {} /\ Steered' = {} /\ HandedBack' = {}
    BY <1>2, NoneListed DEF Waiting, Steered, HandedBack
<1>4. Lists'
    BY <1>2, NoneListed DEF Lists
<1> QED BY <1>2, <1>3, <1>4

(* The agent takes its first steer and applies it, or aborts with it still  *)
(* unapplied.                                                               *)
LEMMA ConsumeDoes ==
    ASSUME Typed, Lists, AgentConsume
    PROVE  \E id \in used :
              /\ id \in Waiting /\ id # NoStem /\ agent.pc = "run" /\ Lists'
              /\ Waiting' = Waiting \ {id} \/ (Waiting' = Waiting /\ agent'.pc = "unapplied")
              /\ Steered' = Steered /\ HandedBack' = {} /\ HandedBack = {}
              /\ \/ agent'.pc = "applied" /\ agent'.id = id /\ applied' = applied \cup {id} /\ Waiting' = Waiting \ {id}
                 \/ agent'.pc = "unapplied" /\ agent'.id = NoStem /\ applied' = applied /\ Waiting' = Waiting
<1> DEFINE id == Head(agent.queue)
           rest == Tail(agent.queue)
<1>1. /\ agent.queue \in Seq(Stem) /\ agent.queue # <<>> /\ agent \in AgentRec /\ agent.pc = "run"
      /\ ToSet(agent.queue) \subseteq used /\ agent.flush = <<>> /\ used \subseteq Stem
    BY DEF AgentConsume, Typed, RecordsOK, NamesOK, ManifestOK, AgentRec
<1>2. id \in Stem /\ ToSet(agent.queue) = {id} \cup ToSet(rest) /\ Once(rest) /\ id \notin ToSet(rest)
    BY <1>1, FrontPopped DEF Lists
<1>3. <<id>> # <<>> /\ ToSet(<<id>>) = {id} /\ Once(<<id>>) /\ Head(<<id>>) = id
    BY <1>2, OneListed
<1>4. \/ /\ agent' = [[agent EXCEPT !.queue = rest] EXCEPT !.pc = "applied", !.id = id]
         /\ applied' = applied \cup {id}
      \/ /\ agent' = [[agent EXCEPT !.queue = rest] EXCEPT !.pc = "unapplied", !.flush = <<id>>]
         /\ applied' = applied
    BY DEF AgentConsume
<1> HIDE DEF id, rest
<1>5. /\ agent.up = TRUE /\ agent.id = NoStem /\ id \in used /\ id # NoStem
      /\ ToSet(agent.flush) = {} /\ Once(agent.flush)
    BY <1>1, <1>2, NoneListed, NoStemAssumption DEF Lists
<1>6. Waiting = ToSet(agent.queue) /\ Steered = ToSet(agent.queue) /\ HandedBack = {}
    BY <1>1, <1>5 DEF Waiting, Steered, HandedBack
<1>7. CASE /\ agent' = [[agent EXCEPT !.queue = rest] EXCEPT !.pc = "applied", !.id = id]
           /\ applied' = applied \cup {id}
    <2>1. /\ agent'.pc = "applied" /\ agent'.id = id /\ agent'.queue = rest
          /\ agent'.flush = agent.flush /\ agent'.up = TRUE
        BY <1>1, <1>5, <1>7 DEF AgentRec
    <2>2. Waiting' = ToSet(rest) /\ Steered' = ToSet(rest) \cup {id} /\ HandedBack' = {}
        BY <1>5, <2>1 DEF Waiting, Steered, HandedBack
    <2>3. Lists'
        BY <1>2, <1>5, <2>1 DEF Lists
    <2>4. Waiting' = Waiting \ {id} /\ Steered' = Steered /\ id \in Waiting
        BY <1>2, <1>6, <2>2
    <2> QED BY <1>1, <1>5, <1>6, <1>7, <2>1, <2>2, <2>3, <2>4
<1>8. CASE /\ agent' = [[agent EXCEPT !.queue = rest] EXCEPT !.pc = "unapplied", !.flush = <<id>>]
           /\ applied' = applied
    <2>1. /\ agent'.pc = "unapplied" /\ agent'.id = NoStem /\ agent'.queue = rest
          /\ agent'.flush = <<id>> /\ agent'.up = TRUE
        BY <1>1, <1>5, <1>8 DEF AgentRec
    <2>2. Waiting' = ToSet(rest) \cup {id} /\ Steered' = ToSet(rest) \cup {id} /\ HandedBack' = {}
        BY <1>3, <2>1 DEF Waiting, Steered, HandedBack
    <2>3. Lists'
        BY <1>2, <1>3, <2>1 DEF Lists
    <2>4. Waiting' = Waiting /\ Steered' = Steered /\ id \in Waiting
        BY <1>2, <1>6, <2>2
    <2> QED BY <1>1, <1>5, <1>6, <1>8, <2>1, <2>2, <2>3, <2>4
<1> QED BY <1>4, <1>7, <1>8

(* The agent has recorded the steer it applied and goes on.                 *)
LEMMA MarkDoes ==
    ASSUME Typed, Lists, AgentMarkConsumed
    PROVE  /\ Lists' /\ agent'.pc = "run" /\ agent'.id = NoStem /\ agent.id # NoStem
           /\ agent.id \in used
           /\ Waiting' = Waiting /\ HandedBack' = {} /\ HandedBack = {}
           /\ Steered' \subseteq Steered /\ agent.id \in Steered /\ \A x \in Steered : x \in Steered' \/ x = agent.id
<1>1. agent \in AgentRec /\ agent.pc = "applied" /\ agent.id # NoStem /\ agent.up = TRUE
      /\ agent.id \in used
    BY DEF AgentMarkConsumed, Typed, RecordsOK, Lists, NamesOK
<1>2. agent'.pc = "run" /\ agent'.id = NoStem /\ agent'.queue = agent.queue
      /\ agent'.flush = agent.flush /\ agent'.up = TRUE
    BY <1>1 DEF AgentMarkConsumed, AgentRec
<1>3. Lists'
    BY <1>2 DEF Lists
<1> QED BY <1>1, <1>2, <1>3 DEF Waiting, Steered, HandedBack

(* Agent.Run returns with nothing left in its queue.                        *)
LEMMA FinishDoes ==
    ASSUME Typed, Lists, AgentFinish
    PROVE  /\ Lists' /\ agent'.pc = "off" /\ agent'.id = NoStem /\ agent.id = NoStem
           /\ Waiting' = Waiting /\ HandedBack' = {} /\ Steered' = Steered /\ HandedBack = {}
<1>1. agent \in AgentRec /\ agent.pc = "run" /\ agent.id = NoStem /\ agent.queue = <<>>
    BY DEF AgentFinish, Typed, RecordsOK, Lists
<1>2. agent'.pc = "off" /\ agent'.id = NoStem /\ agent'.queue = agent.queue
      /\ agent'.flush = agent.flush /\ agent'.up = FALSE
    BY <1>1 DEF AgentFinish, AgentRec
<1>3. Lists'
    BY <1>1, <1>2 DEF Lists
<1> QED BY <1>1, <1>2, <1>3 DEF Waiting, Steered, HandedBack

(* Agent.Run returns with steers left, which become the ones to hand back.  *)
LEMMA AbortDoes ==
    ASSUME Typed, Lists, AgentAbort
    PROVE  /\ Lists' /\ agent'.pc = "unapplied" /\ agent'.id = NoStem /\ agent.id = NoStem
           /\ agent.pc = "run"
           /\ Waiting' = Waiting /\ HandedBack' = {} /\ Steered' = Steered /\ HandedBack = {}
<1>1. agent \in AgentRec /\ agent.pc = "run" /\ agent.id = NoStem /\ agent.flush = <<>>
    BY DEF AgentAbort, Typed, RecordsOK, Lists, NamesOK
<1>2. agent'.pc = "unapplied" /\ agent'.id = NoStem /\ agent'.queue = <<>>
      /\ agent'.flush = agent.queue /\ agent'.up = FALSE
    BY <1>1 DEF AgentAbort, AgentRec
<1>3. Lists'
    BY <1>2, NoneListed DEF Lists
<1> QED BY <1>1, <1>2, <1>3, NoneListed DEF Waiting, Steered, HandedBack

(* The agent hands its first unapplied steer back.                          *)
LEMMA UnappliedDoes ==
    ASSUME Typed, Lists, AgentUnapplied
    PROVE  /\ Lists' /\ agent'.pc = "unowned" /\ agent'.id = NoStem /\ agent.id = NoStem
           /\ agent.pc = "unapplied"
           /\ Head(agent.flush) \in Waiting /\ Head(agent.flush) \in used
              /\ HandedBack' = {Head(agent.flush)}
           /\ Waiting' = Waiting \ {Head(agent.flush)} /\ Steered' = Steered /\ HandedBack = {}
<1>1. /\ agent \in AgentRec /\ agent.pc = "unapplied" /\ agent.id = NoStem
      /\ agent.flush \in Seq(Stem) /\ agent.flush # <<>>
      /\ ToSet(agent.flush) \subseteq used
    BY DEF AgentUnapplied, Typed, RecordsOK, Lists, NamesOK, AgentRec
<1>2. /\ agent'.pc = "unowned" /\ agent'.id = NoStem /\ agent'.queue = agent.queue
      /\ agent'.flush = agent.flush /\ agent'.up = agent.up
    BY <1>1 DEF AgentUnapplied, AgentRec
<1>3. Lists'
    BY <1>1, <1>2 DEF Lists
<1> DEFINE h == Head(agent.flush)
<1>4. h \in ToSet(agent.flush)
    BY <1>1, FrontPopped
<1>5. h \notin ToSet(agent.queue)
    BY <1>4 DEF Lists
<1>6. HandedBack = {} /\ HandedBack' = {h}
    BY <1>1, <1>2 DEF HandedBack
<1>7. Waiting = ToSet(agent.queue) \cup ToSet(agent.flush)
      /\ Waiting' = ToSet(agent.queue) \cup (ToSet(agent.flush) \ {h})
    BY <1>2, <1>6 DEF Waiting
<1>8. Steered' = Steered
    BY <1>1, <1>2 DEF Steered
<1> QED BY <1>1, <1>2, <1>3, <1>4, <1>5, <1>6, <1>7, <1>8

(* The agent gives up the ownership of the steer it handed back.            *)
LEMMA UnownDoes ==
    ASSUME Typed, Lists, AgentUnown
    PROVE  /\ Lists' /\ agent'.pc \in {"unapplied", "run", "off"} /\ agent'.id = NoStem
           /\ agent.pc = "unowned"
           /\ HandedBack = {Head(agent.flush)} /\ HandedBack' = {}
           /\ Waiting' = Waiting /\ Steered' = Steered \ HandedBack
<1> DEFINE h == Head(agent.flush)
           rest == Tail(agent.flush)
<1>1. /\ agent \in AgentRec /\ agent.pc = "unowned" /\ agent.id = NoStem
      /\ agent.flush \in Seq(Stem) /\ agent.flush # <<>>
      /\ agent.up \in BOOLEAN
    BY DEF AgentUnown, Typed, RecordsOK, Lists, NamesOK, AgentRec
<1>2. /\ ToSet(agent.flush) = {h} \cup ToSet(rest) /\ Once(rest) /\ h \notin ToSet(rest)
      /\ Len(agent.flush) > 1 <=> rest # <<>>
    BY <1>1, FrontPopped DEF Lists
<1>3. agent' = [agent EXCEPT !.flush = rest,
                             !.pc = IF rest # <<>> THEN "unapplied" ELSE IF agent.up THEN "run" ELSE "off"]
    BY <1>2 DEF AgentUnown
<1>4. h \notin ToSet(agent.queue)
    BY <1>2 DEF Lists
<1>5. HandedBack = {h}
    BY <1>1 DEF HandedBack
<1> HIDE DEF rest, h
<1>6. /\ agent'.pc = IF rest # <<>> THEN "unapplied" ELSE IF agent.up THEN "run" ELSE "off"
      /\ agent'.id = NoStem /\ agent'.queue = agent.queue /\ agent'.flush = rest /\ agent'.up = agent.up
    BY <1>1, <1>3 DEF AgentRec
<1>7. Lists'
    BY <1>1, <1>2, <1>6 DEF Lists
<1>8. HandedBack' = {}
    BY <1>6 DEF HandedBack
<1>9. Waiting = ToSet(agent.queue) \cup ToSet(rest) /\ Waiting' = ToSet(agent.queue) \cup ToSet(rest)
    BY <1>2, <1>4, <1>5, <1>6, <1>8 DEF Waiting
<1>10. Steered = ToSet(agent.queue) \cup ToSet(rest) \cup {h}
       /\ Steered' = ToSet(agent.queue) \cup ToSet(rest)
    BY <1>1, <1>2, <1>6 DEF Steered
<1> QED BY <1>1, <1>2, <1>4, <1>5, <1>6, <1>7, <1>8, <1>9, <1>10 DEF h

(* A steer reaches a running agent once, or is turned away.                 *)
LEMMA EnqueueDoes ==
    ASSUME Typed, Lists, SteerEnqueue, steer.id \notin Steered
    PROVE  \/ /\ agent.up = TRUE /\ Lists' /\ agent'.pc = agent.pc /\ agent'.id = agent.id
              /\ Waiting' = Waiting \cup {steer.id} /\ Steered' = Steered \cup {steer.id}
                 /\ HandedBack' = HandedBack
              /\ active' = active \cup {steer.id} /\ SteerTo("return", FALSE)
           \/ agent' = agent /\ active' = active /\ SteerTo("requeue", FALSE)
<1>1. /\ agent \in AgentRec /\ agent.queue \in Seq(Stem) /\ steer.id \in Stem /\ agent.up \in BOOLEAN
      /\ agent.flush \in Seq(Stem)
    BY DEF SteerEnqueue, Typed, RecordsOK, NamesOK, ManifestOK, AgentRec
<1> DEFINE p == Append(agent.queue, steer.id)
<1>2. /\ ToSet(p) = ToSet(agent.queue) \cup {steer.id}
      /\ Once(agent.queue) /\ steer.id \notin ToSet(agent.queue) => Once(p)
    BY <1>1, BackAdded
<1>3. CASE ~closed /\ ~rotating /\ running /\ agent.up
    <2>1. agent' = [agent EXCEPT !.queue = p] /\ active' = active \cup {steer.id}
          /\ SteerTo("return", FALSE)
        BY <1>3 DEF SteerEnqueue
    <2> HIDE DEF p
    <2>2. agent'.pc = agent.pc /\ agent'.id = agent.id /\ agent'.queue = p
          /\ agent'.flush = agent.flush /\ agent'.up = agent.up
        BY <1>1, <2>1 DEF AgentRec
    <2>3. agent.up = TRUE
        BY <1>1, <1>3
    <2>4. steer.id \notin ToSet(agent.queue) /\ steer.id \notin ToSet(agent.flush)
        BY DEF Steered
    <2>5. Lists'
        BY <1>2, <2>2, <2>3, <2>4 DEF Lists
    <2>6. HandedBack' = HandedBack /\ HandedBack \subseteq {Head(agent.flush)}
        BY <2>2 DEF HandedBack
    <2>7. Waiting' = Waiting \cup {steer.id}
        BY <1>2, <2>2, <2>6 DEF Waiting
    <2>8. Steered' = Steered \cup {steer.id}
        BY <1>2, <2>2 DEF Steered
    <2> QED BY <2>1, <2>2, <2>3, <2>5, <2>6, <2>7, <2>8
<1>4. CASE ~(~closed /\ ~rotating /\ running /\ agent.up)
    BY <1>4 DEF SteerEnqueue
<1> QED BY <1>3, <1>4

(* The steps a plain frontend never causes.                                 *)
LEMMA Excluded ==
    ASSUME Orderly
    PROVE  /\ ~UserDelete /\ ~UserDeleteItem /\ ~UserUnaccept /\ ~RunItemBlocks
           /\ \A t \in Turn : ~RunItemAsk(t) /\ ~RunItemClaim(t)
    BY DEF Orderly, Own, PlainUse, Plain, UserDelete, UserDeleteItem, UserUnaccept, RunItemBlocks,
           RunItemRead, RunItemBlock, RunItemPause, RunItemAsk, RunItemClaim

(* maybeDispatchInbox starts the dispatcher or leaves a note for it.        *)
LEMMA KickDoes ==
    ASSUME disp \in DispRec
    PROVE  /\ Kicked(disp).pc = IF disp.pc = "off" THEN "loop" ELSE disp.pc
           /\ Kicked(disp).kick = TRUE /\ Kicked(disp).item = disp.item /\ Kicked(disp).turn = disp.turn
           /\ "runitem" \notin Ops => CommandKick(disp) = Kicked(disp)
           /\ "runitem" \in Ops => CommandKick(disp) = disp
    BY DEF Kicked, CommandKick, DispRec

(* What is not written once is remembered; only the dispatcher falls asleep. *)
LEMMA UnsavedGrows ==
    ASSUME INext
    PROVE  unsaved \subseteq unsaved' /\ (DispBusy \/ asleep' = asleep)
<1>1. CASE Dispatcher
    BY <1>1 DEF Dispatcher, DispLoop, DispBusy, DispScan, DispRead, DispClaim, DispClaimError,
                DispBlock, DispBlockPause, DispAsk, DispStart, DispDrop, DispOnStart, DispRollback,
                Requeued, RequeueFailed, Unsaved, DispReturn, RetryFires, hist
<1>2. CASE Agent
    BY <1>2 DEF Agent, AgentRun, AgentConsume, AgentMarkConsumed, AgentFinish, AgentAbort,
                AgentUnapplied, AgentUnown, Unsaved, hist
<1>3. CASE Steering
    BY <1>3 DEF Steering, SteerRead, SteerMark, SteerEnqueue, SteerRequeue, SteerConvert, SteerReturn,
                Requeued, RequeueFailed, Unsaved, hist
<1>4. CASE User
    BY <1>4 DEF User, UserEnqueue, UserBadRef, UserBadPause, UserFollowup, UserSteer, UserPause,
                UserRetry, UserEdit, UserDelete, UserDeleteItem, UserUnaccept, UserCancelWith,
                UserCancelPause, UserCancelDiscard, UserCancelTurn, UserCancelResume, InboxSnapshot,
                Unsaved, hist
<1>5. CASE Teardown \/ RunItemBlocks
    BY <1>5 DEF Teardown, RunItemBlocks, RunItemRead, RunItemBlock, RunItemPause, hist
<1>6. ASSUME NEW t \in Turn, Turns(t) \/ ChatAsk(t) \/ RunItemAsk(t) PROVE unsaved \subseteq unsaved' /\ (DispBusy \/ asleep' = asleep)
    BY <1>6 DEF Turns, TurnAdmit, TurnSpawn, RunItemClaim, TurnBodyEnds, SettleCapture, SettleOne,
                SettleUntrack, TurnSettled, ChatAsk, RunItemAsk, Unsaved, hist
<1>7. ASSUME NEW q \in Rotator, Rotation(q) PROVE unsaved \subseteq unsaved' /\ (DispBusy \/ asleep' = asleep)
    BY <1>7 DEF Rotation, hist
<1> QED BY <1>1, <1>2, <1>3, <1>4, <1>5, <1>6, <1>7 DEF INext

(* A turn is admitted only when no other is in flight.                      *)
LEMMA NoDelivery ==
    ASSUME GateInv, NEW t \in Turn, AdmitStart(t)
    PROVE  /\ \A s \in Turn : pc[s] \notin {"delivering", "body", "starting"}
           /\ \A s \in Turn : pc'[s] = IF s = t THEN "starting" ELSE pc[s]
           /\ kind' = kind /\ running' = TRUE
    BY DEF GateInv, AdmitStart, Claim, GateOpen, Idle, DeliveryHoldsGate, OneTurnInFlight, InFlight,
           TypeOK

(* The finishing window ends with the gate free or handed to the first      *)
(* parked turn.                                                             *)
LEMMA WindowEnds ==
    ASSUME GateInv, DeliveryAlone, NEW t \in Turn, Delivered(t)
    PROVE  /\ pc[t] = "delivering" /\ kind' = kind
           /\ \A s \in Turn : s # t => pc[s] \notin {"delivering", "body", "starting"}
           /\ \/ \A s \in Turn : pc'[s] = IF s = t THEN "idle" ELSE pc[s]
              \/ \E h \in Turn : /\ h # t /\ pc[h] = "parked" /\ h = Head(parked) /\ running' = TRUE
                              /\ \A s \in Turn : pc'[s] = IF s = t THEN "idle" ELSE IF s = h THEN "body" ELSE pc[s]
<1>1. /\ pc[t] = "delivering" /\ kind' = kind /\ pc \in [Turn -> PC]
      /\ \A s \in Turn : s # t => pc[s] \notin {"delivering", "body", "starting"}
    BY DEF Delivered, EndWindow, DeliveryAlone, GateInv, TypeOK
<1>2. CASE closed \/ parked = <<>>
    BY <1>1, <1>2 DEF Delivered, EndWindow
<1>3. CASE ~(closed \/ parked = <<>>)
    <2>1. parked \in Seq(Turn) /\ parked # <<>>
        BY <1>3 DEF GateInv, TypeOK
    <2>2. Head(parked) \in Turn /\ pc[Head(parked)] = "parked"
        BY <2>1, QueueHandoff DEF GateInv, QueueMatchesCallers
    <2>3. pc' = [pc EXCEPT ![t] = "idle", ![Head(parked)] = "body"] /\ running' = TRUE
        BY <1>3 DEF Delivered, EndWindow, Claim
    <2> DEFINE h == Head(parked)
    <2>4. h # t /\ h \in Turn /\ pc[h] = "parked"
          /\ \A s \in Turn : pc'[s] = IF s = t THEN "idle" ELSE IF s = h THEN "body" ELSE pc[s]
        BY <1>1, <2>2, <2>3
    <2> HIDE DEF h
    <2> QED BY <1>1, <2>3, <2>4 DEF h
<1> QED BY <1>2, <1>3

(* A turn body ends in the finishing window.                                *)
LEMMA BodyDone ==
    ASSUME Orderly, NEW t \in Turn, TurnBodyEnds(t)
    PROVE  /\ pc[t] = "body" /\ BodyEnds(t) /\ kind' = kind
           /\ \A s \in Turn : s # t => pc[s] \notin {"delivering", "body", "starting"}
           /\ \A s \in Turn : pc'[s] = IF s = t THEN "delivering" ELSE pc[s]
<1>1. pc[t] = "body" /\ BodyEnds(t)
    BY DEF TurnBodyEnds, BodyEnds, SyncEnds, Orderly, Own, PlainUse
<1>2. \A s \in Turn : s # t => pc[s] \notin {"delivering", "body", "starting"}
    BY <1>1 DEF Orderly, Own, DeliveryAlone, GateInv, OneTurnInFlight, InFlight
<1> QED BY <1>1, <1>2 DEF BodyEnds, FinishGuarded, Orderly, GateInv, TypeOK

(* close, and the loss of the write authority, move only parked turns.      *)
LEMMA ClosedDown ==
    ASSUME GateInv, Teardown
    PROVE  /\ kind' = kind
           /\ \A s \in Turn : pc'[s] = pc[s] \/ (pc[s] = "parked" /\ pc'[s] = "idle")
    BY DEF Teardown, Close, LoseAuthority, GateInv, TypeOK

-----------------------------------------------------------------------------

(* One item moves from one of some states to one of others.                 *)
Changes(id, from, to) ==
    /\ StatusIn(man, id) \in from /\ StatusIn(man', id) \in to
    /\ \A y : y # id => StatusIn(man', y) = StatusIn(man, y)

(* No item changes its state.                                               *)
Still == \A y : StatusIn(man', y) = StatusIn(man, y)

(* No item changes its body.                                                *)
Worded == \A y : StatusIn(man', y) # "gone" /\ StatusIn(man, y) # "gone" => TextIn(man', y) = TextIn(man, y)

(* A claim moves a queued item into flight.                                 *)
LEMMA ClaimMoves ==
    ASSUME Orderly, DispClaim
    PROVE  Changes(disp.item.id, {"queued"}, {"running"}) /\ Worded
<1>1. StatusIn(man, disp.item.id) = "queued" /\ ViewSet(man', man, disp.item.id, "running")
    BY DispClaimDoes DEF Orderly, Typed
<1> QED BY <1>1 DEF ViewSet, Changes, Worded, Texts

(* The dispatcher blocks only an item that is not in flight.                *)
LEMMA BlockMoves ==
    ASSUME Orderly, DispBlock
    PROVE  Changes(disp.item.id, {"queued", "blocked", "gone"}, {"queued", "blocked", "gone"}) /\ Worded
           /\ (StatusIn(man, disp.item.id) = "gone" => StatusIn(man', disp.item.id) = "gone")
<1>1. ViewSet(man', man, disp.item.id, "blocked") \/ man' = man
    BY DispBlockDoes DEF Orderly, Typed
<1>2. StatusIn(man, disp.item.id) \in {"queued", "blocked", "gone"}
    BY DEF Orderly, Own, Claims, DispBlock
<1> QED BY <1>1, <1>2 DEF ViewSet, Changes, Worded, Texts

(* A claim whose turn was not started is rolled back to the queue, or that  *)
(* could not be written.                                                    *)
LEMMA RollbackMoves ==
    ASSUME Orderly, DispRollback
    PROVE  Changes(disp.item.id, {"running"}, {"queued", "running"}) /\ Worded
           /\ (StatusIn(man', disp.item.id) = "running" => disp.item.id \in unsaved')
<1>1. RequeueView(disp.item.id)
    BY RequeuedDoes DEF Orderly, Typed, DispRollback
<1>2. StatusIn(man, disp.item.id) = "running"
    BY DEF Orderly, Own, Claims, DispRollback, DispHolds
<1> QED BY <1>1, <1>2 DEF RequeueView, ViewSet, ViewPaused, Changes, Worded, Texts

(* Recording a steer moves it from accepted to consumed, if that can be     *)
(* written.                                                                 *)
LEMMA ConsumedMoves ==
    ASSUME Orderly, AgentMarkConsumed
    PROVE  Changes(agent.id, {"steer_accepted"}, {"steer_consumed", "steer_accepted"}) /\ Worded
<1>1. ViewSet(man', man, agent.id, "steer_consumed") \/ man' = man
    BY AgentMarkConsumedDoes DEF Orderly, Typed
<1>2. StatusIn(man, agent.id) = "steer_accepted"
    BY DEF Orderly, Own, Guided, AgentMarkConsumed
<1> QED BY <1>1, <1>2 DEF ViewSet, Changes, Worded, Texts

(* Handing a steer back moves it from accepted to uncertain, or that could  *)
(* not be written.                                                          *)
LEMMA UnappliedMoves ==
    ASSUME Orderly, AgentUnapplied
    PROVE  Changes(Head(agent.flush), {"steer_accepted"}, {"uncertain", "steer_accepted"}) /\ Worded
           /\ (StatusIn(man', Head(agent.flush)) = "steer_accepted" => Head(agent.flush) \in unsaved')
<1>1. \/ ViewSet(man', man, Head(agent.flush), "uncertain")
      \/ man' = man /\ unsaved' = unsaved \cup {Head(agent.flush)}
    BY AgentUnappliedDoes DEF Orderly, Typed
<1>2. StatusIn(man, Head(agent.flush)) = "steer_accepted"
    BY UnappliedDoes DEF Orderly, Own, Guided
<1> QED BY <1>1, <1>2 DEF ViewSet, Changes, Worded, Texts

(* Recovery moves only items in flight that nobody owns, to uncertain.      *)
Rescued ==
    /\ \A y \in active \cup admitting : StatusIn(man', y) = StatusIn(man, y)
    /\ \A y : \/ StatusIn(man', y) = StatusIn(man, y)
              \/ StatusIn(man, y) \in InFlightStates /\ StatusIn(man', y) = "uncertain"

(* Orphan recovery leaves what is owned alone.                              *)
LEMMA RecoveryRescues ==
    ASSUME OwnedRecovered
    PROVE  Rescued /\ Worded
<1>1. CASE man' = man
    BY <1>1 DEF Rescued, Worded
<1>2. CASE ViewOrphans(man', man, Owned)
    BY <1>2 DEF ViewOrphans, Rescued, Owned, Worded, Texts
<1> QED BY <1>1, <1>2 DEF OwnedRecovered

(* And so does reading the inbox.                                           *)
LEMMA SnapshotRescues ==
    ASSUME Orderly, InboxSnapshot
    PROVE  Rescued /\ Worded
    BY SnapshotDoes, RecoveryRescues DEF Orderly, Typed, OwnedRecovered

(* The first look of a steer command moves an uncertain item back to the    *)
(* queue, or nothing.                                                       *)
LEMMA SteerReadMoves ==
    ASSUME Orderly, SteerRead
    PROVE  /\ Worded /\ steer'.id = steer.id
           /\ \/ /\ Changes(steer.id, {"queued", "uncertain"}, {"queued"}) /\ steer'.pc = "mark"
                 /\ applied' = applied \/ (applied' = applied \ {steer.id} /\ StatusIn(man, steer.id) = "uncertain")
                 /\ StatusIn(man, steer.id) = "uncertain" => applied' = applied \ {steer.id}
              \/ Rescued /\ steer'.pc = "return" /\ applied' = applied
<1>1. SteerReadView /\ steer \in SteerRec
    BY SteerReadDoes DEF Orderly, Typed, RecordsOK
<1>2. CASE /\ StatusIn(man, steer.id) \in {"queued", "uncertain"} /\ man.paused = FALSE
           /\ ViewSet(man', man, steer.id, "queued")
           /\ applied' = IF StatusIn(man, steer.id) = "uncertain" THEN applied \ {steer.id} ELSE applied
           /\ \E b \in BOOLEAN : steer' = [steer EXCEPT !.pc = "mark", !.image = b]
    <2>1. steer'.pc = "mark" /\ steer'.id = steer.id
        BY <1>1, <1>2 DEF SteerRec
    <2> QED BY <1>2, <2>1 DEF ViewSet, Changes, Worded, Texts
<1>3. CASE /\ StatusIn(man, steer.id) \in InFlightStates /\ OwnedRecovered
           /\ SteerTo("return", FALSE) /\ applied' = applied
    <2>1. steer'.pc = "return" /\ steer'.id = steer.id
        BY <1>1, <1>3 DEF SteerTo, SteerRec
    <2> QED BY <1>3, <2>1, RecoveryRescues
<1>4. CASE man' = man /\ SteerTo("return", FALSE) /\ applied' = applied
    <2>1. steer'.pc = "return" /\ steer'.id = steer.id
        BY <1>1, <1>4 DEF SteerTo, SteerRec
    <2> QED BY <1>4, <2>1 DEF Rescued, Worded
<1> QED BY <1>1, <1>2, <1>3, <1>4 DEF SteerReadView

(* The admission of a steer moves a queued item to accepted, or nothing.    *)
LEMMA SteerMarkMoves ==
    ASSUME Orderly, SteerMark
    PROVE  /\ Worded /\ steer'.id = steer.id
           /\ \/ Changes(steer.id, {"queued"}, {"steer_accepted"}) /\ steer'.pc = "enqueue"
              \/ Still /\ steer'.pc \in {"convert", "return"}
<1>1. SteerMarkView /\ steer \in SteerRec
    BY SteerMarkDoes DEF Orderly, Typed, RecordsOK
<1>2. StatusIn(man, steer.id) \in {"queued", "gone"}
    BY DEF Orderly, Own, Commands, SteerMark
<1>3. \A s, k : SteerTo(s, k) => steer'.pc = s /\ steer'.id = steer.id
    BY <1>1 DEF SteerTo, SteerRec
<1>4. man' = man => Still /\ Worded
    BY DEF Still, Worded
<1>5. ViewSet(man', man, steer.id, "steer_accepted") /\ StatusIn(man, steer.id) # "gone"
         => Changes(steer.id, {"queued"}, {"steer_accepted"}) /\ Worded
    BY <1>2 DEF ViewSet, Changes, Worded, Texts
<1> QED BY <1>1, <1>3, <1>4, <1>5 DEF SteerMarkView

(* A steer turned away by the agent moves back to the queue, or that could  *)
(* not be written.                                                          *)
LEMMA SteerRequeueMoves ==
    ASSUME Orderly, SteerRequeue
    PROVE  /\ Worded /\ steer'.id = steer.id /\ steer'.pc \in {"convert", "return"}
           /\ Changes(steer.id, {"steer_accepted"}, {"queued", "steer_accepted"})
           /\ (StatusIn(man', steer.id) = "steer_accepted" => steer.id \in unsaved')
<1>1. RequeueView(steer.id) /\ steer \in SteerRec
    BY RequeuedDoes DEF Orderly, Typed, RecordsOK, SteerRequeue
<1>2. StatusIn(man, steer.id) = "steer_accepted"
    BY DEF Orderly, Own, Commands, SteerRequeue
<1>3. steer'.id = steer.id /\ steer'.pc \in {"convert", "return"}
    BY <1>1 DEF SteerRequeue, SteerTo, SteerRec
<1> QED BY <1>1, <1>2, <1>3 DEF RequeueView, ViewSet, ViewPaused, Changes, Worded, Texts

(* Making it a follow-up moves nothing.                                     *)
LEMMA SteerConvertStill ==
    ASSUME Orderly, SteerConvert
    PROVE  Still /\ Worded /\ steer'.id = steer.id /\ steer'.pc = "return"
<1>1. ViewIntent(man', man) \/ man' = man
    BY SteerConvertDoes DEF Orderly, Typed, SteerConvertView
<1>2. steer'.id = steer.id /\ steer'.pc = "return"
    BY DEF SteerConvert, SteerTo, Orderly, Typed, RecordsOK, SteerRec
<1> QED BY <1>1, <1>2 DEF ViewIntent, ViewPaused, Still, Worded, Texts

(* A frontend adds a queued item.                                           *)
LEMMA UserEnqueueMoves ==
    ASSUME Orderly, NEW intent \in Intents, UserEnqueue(intent)
    PROVE  \E id \in Stem \ used, b \in Bodies :
              /\ Changes(id, {"gone"}, {"queued"}) /\ Worded /\ TextIn(man', id) = b /\ user.pc = "off"
              /\ used' = used \cup {id}
              /\ user'.id = id /\ user'.pc = (IF b = "badref" THEN "badref" ELSE intent)
<1>1. PICK id \in Stem \ used, b \in Bodies :
              /\ ViewAdded(man', man, id, b) /\ Len(man.items) < MaxItems
              /\ used' = used \cup {id} /\ StatusIn(man, id) = "gone"
              /\ user' = [user EXCEPT !.id = id, !.pc = IF b = "badref" THEN "badref" ELSE intent]
    BY UserEnqueueDoes DEF Orderly, Typed
<1>2. user'.id = id /\ user'.pc = (IF b = "badref" THEN "badref" ELSE intent) /\ user.pc = "off"
    BY <1>1 DEF Orderly, Typed, RecordsOK, UserRec, UserEnqueue
<1>3. Changes(id, {"gone"}, {"queued"}) /\ Worded /\ TextIn(man', id) = b
    BY <1>1 DEF ViewAdded, Changes, Worded, Texts
<1> QED BY <1>1, <1>2, <1>3

(* A bad reference blocks an item that is not in flight.                    *)
LEMMA UserBadRefMoves ==
    ASSUME Orderly, UserBadRef
    PROVE  /\ Changes(user.id, {"queued", "blocked", "gone"}, {"queued", "blocked", "gone"}) /\ Worded
           /\ (StatusIn(man, user.id) = "gone" => StatusIn(man', user.id) = "gone")
           /\ user.pc = "badref" /\ user'.pc \in {"badpause", "off"}
<1>1. (ViewSet(man', man, user.id, "blocked") \/ man' = man) /\ user'.pc \in {"badpause", "off"}
    BY UserBadRefDoes DEF UserBadRefView, UserOff, Orderly, Typed, RecordsOK, UserRec
<1>2. StatusIn(man, user.id) \in {"queued", "blocked", "gone"} /\ user.pc = "badref"
    BY DEF Orderly, Own, Commands, UserBadRef
<1> QED BY <1>1, <1>2 DEF ViewSet, Changes, Worded, Texts

(* Pausing, resuming and giving up ownership move nothing.                  *)
LEMMA PausingStill ==
    ASSUME Orderly
    PROVE  /\ UserBadPause \/ UserCancelPause \/ UserCancelResume \/ DispBlockPause \/ AgentUnown => Still /\ Worded
           /\ \A p \in BOOLEAN : UserPause(p) => Still /\ Worded
           /\ \A t \in Turn : SettleUntrack(t) => Still /\ Worded
<1>1. \A p : ViewPaused(man', man, p) => Still /\ Worded
    BY DEF ViewPaused, Still, Worded, Texts
<1>2. man' = man => Still /\ Worded
    BY DEF Still, Worded
<1> QED BY <1>1, <1>2, PausingDoes, DispBlockPauseDoes, AgentUnownDoes, SettleUntrackDoes
        DEF Orderly, Typed

(* Retry moves an uncertain or blocked item back to the queue.              *)
LEMMA UserRetryMoves ==
    ASSUME Orderly, UserRetry
    PROVE  \E id \in used : /\ Changes(id, {"uncertain", "blocked"}, {"queued"}) /\ Worded
                            /\ applied' = applied \ {id}
<1>1. PICK id \in used : /\ StatusIn(man, id) \in {"uncertain", "blocked"} /\ ViewSet(man', man, id, "queued")
                         /\ applied' = applied \ {id}
    BY UserRetryDoes DEF Orderly, Typed
<1> QED BY <1>1 DEF ViewSet, Changes, Worded, Texts

(* Edit moves a blocked item back to the queue, or nothing.                 *)
LEMMA UserEditMoves ==
    ASSUME Orderly, UserEdit
    PROVE  /\ (\E id \in used : Changes(id, {"blocked"}, {"queued"})) \/ Still
           /\ user' = user /\ user.pc = "off"
<1>1. PICK id \in used, b \in Bodies :
              /\ StatusIn(man, id) \in Pending /\ ViewEdited(man', man, id)
              /\ user' = IF b = "badref" THEN [user EXCEPT !.pc = "badref", !.id = id] ELSE user
    BY UserEditDoes DEF Orderly, Typed
<1>2. user' = user
    BY <1>1 DEF UserEdit, Orderly, Own, PlainUse, Plain
<1>3. CASE StatusIn(man, id) = "blocked"
    BY <1>1, <1>2, <1>3 DEF ViewEdited, Changes, UserEdit
<1>4. CASE StatusIn(man, id) # "blocked"
    BY <1>1, <1>2, <1>4 DEF ViewEdited, Still, UserEdit
<1> QED BY <1>3, <1>4

(* Stop with discard removes a pending item, or nothing.                    *)
LEMMA DiscardMoves ==
    ASSUME Orderly, UserCancelDiscard
    PROVE  /\ Worded /\ (Changes(user.id, Pending, {"gone"}) \/ Still)
           /\ user.pc = "cwdiscard" /\ user'.pc \in {"cwcancel", "cwcancelresume"}
<1>1. \/ StatusIn(man, user.id) \in Pending /\ ViewRemoved(man', man, user.id)
      \/ man' = man
    BY UserCancelDiscardDoes DEF Orderly, Typed
<1>2. user.pc = "cwdiscard" /\ user'.pc \in {"cwcancel", "cwcancelresume"}
    BY DEF UserCancelDiscard, UserTo, Orderly, Typed, RecordsOK, UserRec
<1> QED BY <1>1, <1>2 DEF ViewRemoved, Changes, Worded, Still

(* The settlement of one item ends its flight, or that could not be         *)
(* written.                                                                 *)
LEMMA SettleOneMoves ==
    ASSUME Orderly, NEW t \in Turn, SettleOne(t)
    PROVE  \E id \in settle[t].left :
              /\ Changes(id, InFlightStates, InFlightStates \cup {"gone", "uncertain"}) /\ Worded
                 /\ Finished(id)
              /\ StatusIn(man', id) \in InFlightStates => id \in unsaved'
              /\ acked' = acked \/ (acked' = acked \cup {id} /\ StatusIn(man', id) = "gone")
              /\ \A s \in Turn : /\ settle'[s].pc = settle[s].pc /\ settle'[s].ids = settle[s].ids
                                 /\ settle'[s].left = IF s = t THEN settle[s].left \ {id} ELSE settle[s].left
<1>1. PICK id \in settle[t].left : SettleView(t, id)
    BY SettleOneDoes DEF Orderly, Typed
<1>2. Finished(id)
    BY <1>1 DEF Orderly, Own, Settling, SettleOne
<1>3. settle \in [Turn -> SettleRec] /\ settle[t] \in SettleRec
    BY DEF Orderly, Typed, RecordsOK
<1>4. \A f : /\ [settle[t] EXCEPT !.left = @ \ {id}, !.failed = f].left = settle[t].left \ {id}
             /\ [settle[t] EXCEPT !.left = @ \ {id}, !.failed = f].pc = settle[t].pc
             /\ [settle[t] EXCEPT !.left = @ \ {id}, !.failed = f].ids = settle[t].ids
    BY <1>3 DEF SettleRec
<1>5. \A s \in Turn : /\ settle'[s].pc = settle[s].pc /\ settle'[s].ids = settle[s].ids
                      /\ settle'[s].left = IF s = t THEN settle[s].left \ {id} ELSE settle[s].left
    BY <1>1, <1>3, <1>4 DEF SettleView
<1> DEFINE C == Changes(id, InFlightStates, InFlightStates \cup {"gone", "uncertain"}) /\ Worded
<1>6. CASE ViewRemoved(man', man, id) /\ acked' = acked \cup {id}
    <2>1. C /\ StatusIn(man', id) = "gone"
        BY <1>2, <1>6 DEF ViewRemoved, Changes, Worded, Finished
    <2>2. "gone" \notin InFlightStates
        BY DEF InFlightStates
    <2> QED BY <1>2, <1>5, <1>6, <2>1, <2>2
<1>7. CASE ViewSet(man', man, id, "uncertain") /\ acked' = acked
    <2>1. C /\ StatusIn(man', id) = "uncertain"
        BY <1>2, <1>7 DEF ViewSet, Changes, Worded, Texts, Finished, InFlightStates
    <2>2. "uncertain" \notin InFlightStates
        BY DEF InFlightStates
    <2> QED BY <1>2, <1>5, <1>7, <2>1, <2>2
<1>8. CASE man' = man /\ acked' = acked /\ unsaved' = unsaved \cup {id}
    <2>1. C
        BY <1>2, <1>8 DEF Changes, Worded, Finished
    <2> QED BY <1>2, <1>5, <1>8, <2>1
<1> QED BY <1>1, <1>6, <1>7, <1>8 DEF SettleView

-----------------------------------------------------------------------------

(* Every step keeps what a plain frontend never starts.                     *)
LEMMA PlainUseNext ==
    ASSUME Orderly, INext
    PROVE  PlainUse'
<1>1. ASSUME DispLoop \/ DispBusy \/ DispScan \/ DispRead \/ DispClaim \/ DispClaimError
             \/ DispBlock
      PROVE  PlainUse'
    BY <1>1
    DEF DispLoop, DispBusy, DispScan, DispRead, DispClaim, DispClaimError, DispBlock, BackToLoop,
        ResetRetries, ScheduleRetry, gate, own, hist, Orderly, Own, PlainUse, Plain, Ops, Bodies
<1>2. ASSUME DispBlockPause \/ DispRollback \/ DispReturn \/ AgentRun \/ AgentConsume
             \/ AgentMarkConsumed \/ AgentFinish
      PROVE  PlainUse'
    BY <1>2
    DEF DispBlockPause, DispRollback, DispReturn, AgentRun, AgentConsume, AgentMarkConsumed,
        AgentFinish, BackToLoop, ResetRetries, ScheduleRetry, gate, own, hist, Orderly, Own,
        PlainUse, Plain, Ops, Bodies
<1>3. ASSUME DispAsk PROVE PlainUse'
    BY <1>3 DEF DispAsk, Ask, gate, Orderly, Own, PlainUse, Plain, Ops, Bodies, GateInv, TypeOK
<1>4. ASSUME DispStart PROVE PlainUse'
    BY <1>4
    DEF DispStart, AdmitStart, Claim, gate, own, hist, Orderly, Own, PlainUse, Plain, Ops, Bodies
<1>5. ASSUME DispDrop PROVE PlainUse'
    BY <1>5 DEF DispDrop, AdmitDrop, gate, own, hist, Orderly, Own, PlainUse, Plain, Ops, Bodies
<1>6. ASSUME DispOnStart PROVE PlainUse'
    BY <1>6 DEF DispOnStart, Spawn, gate, own, hist, Orderly, Own, PlainUse, Plain, Ops, Bodies
<1>7. ASSUME RetryFires \/ UserRetry PROVE PlainUse'
    BY <1>7
    DEF RetryFires, UserRetry, CommandKick, Kicked, gate, own, hist, Orderly, Own, PlainUse, Plain, Ops, Bodies
<1>8. ASSUME AgentAbort \/ AgentUnapplied \/ AgentUnown \/ SteerRead \/ SteerMark \/ InboxSnapshot
      PROVE  PlainUse'
    BY <1>8
    DEF AgentAbort, AgentUnapplied, AgentUnown, SteerRead, SteerMark, InboxSnapshot, gate, own,
        hist, Orderly, Own, PlainUse, Plain, Ops, Bodies
<1>9. ASSUME SteerEnqueue \/ SteerRequeue \/ SteerConvert PROVE PlainUse'
    BY <1>9
    DEF SteerEnqueue, SteerRequeue, SteerConvert, SteerTo, gate, own, hist, Orderly, Own, PlainUse,
        Plain, Ops, Bodies
<1>10. ASSUME SteerReturn PROVE PlainUse'
    BY <1>10
    DEF SteerReturn, Kicked, SteerOff, gate, own, hist, Orderly, Own, PlainUse, Plain, Ops, Bodies
<1>11. ASSUME NEW intent \in Intents, UserEnqueue(intent) PROVE PlainUse'
    <2>1. PICK id \in Stem \ used, b \in Bodies :
              /\ ViewAdded(man', man, id, b) /\ Len(man.items) < MaxItems
              /\ used' = used \cup {id} /\ StatusIn(man, id) = "gone"
              /\ user' = [user EXCEPT !.id = id, !.pc = IF b = "badref" THEN "badref" ELSE intent]
        BY <1>11, UserEnqueueDoes DEF Orderly, Typed
    <2>2. user'.pc \notin {"delete", "redelete", "unaccept"}
        BY <2>1 DEF Intents, Orderly, Typed, RecordsOK, UserRec
    <2> QED BY <1>11, <2>2 DEF UserEnqueue, gate, Orderly, Own, PlainUse, Plain, Ops, Bodies
<1>12. ASSUME UserBadRef PROVE PlainUse'
    BY <1>12, UserBadRefMoves DEF UserBadRef, gate, Orderly, Own, PlainUse, Plain, Ops, Bodies
<1>13. ASSUME UserBadPause PROVE PlainUse'
    BY <1>13
    DEF UserBadPause, UserOff, gate, own, hist, Orderly, Own, PlainUse, Plain, Ops, Bodies, Typed,
        RecordsOK, UserRec, Names
<1>14. ASSUME UserFollowup PROVE PlainUse'
    BY <1>14
    DEF UserFollowup, UserOff, CommandKick, Kicked, gate, own, hist, Orderly, Own, PlainUse, Plain, Ops, Bodies,
        Typed, RecordsOK, UserRec, Names
<1>15. ASSUME UserSteer PROVE PlainUse'
    BY <1>15
    DEF UserSteer, UserOff, SteerOff, gate, own, hist, Orderly, Own, PlainUse, Plain, Ops, Bodies,
        Typed, RecordsOK, UserRec, Names
<1>16. ASSUME NEW p \in BOOLEAN, UserPause(p) PROVE PlainUse'
    BY <1>16 DEF UserPause, CommandKick, Kicked, gate, own, hist, Orderly, Own, PlainUse, Plain, Ops, Bodies
<1>17. ASSUME UserEdit PROVE PlainUse'
    BY <1>17
    DEF UserEdit, gate, own, hist, Orderly, Own, PlainUse, Plain, Ops, Bodies, Typed, RecordsOK,
        UserRec, Names
<1>18. ASSUME UserCancelWith PROVE PlainUse'
    BY <1>18
    DEF UserCancelWith, gate, own, hist, Orderly, Own, PlainUse, Plain, Ops, Bodies, Typed,
        RecordsOK, UserRec, Names
<1>19. ASSUME UserCancelPause \/ UserCancelDiscard PROVE PlainUse'
    BY <1>19
    DEF UserCancelPause, UserCancelDiscard, UserTo, gate, own, hist, Orderly, Own, PlainUse, Plain,
        Ops, Bodies, Typed, RecordsOK, UserRec, Names
<1>20. ASSUME UserCancelTurn PROVE PlainUse'
    BY <1>20
    DEF UserCancelTurn, UserOff, Cancel, gate, own, hist, Orderly, Own, PlainUse, Plain, Ops,
        Bodies, Typed, RecordsOK, UserRec, Names
<1>21. ASSUME UserCancelResume PROVE PlainUse'
    BY <1>21
    DEF UserCancelResume, UserOff, gate, own, hist, Orderly, Own, PlainUse, Plain, Ops, Bodies,
        Typed, RecordsOK, UserRec, Names
<1>22. ASSUME Teardown PROVE PlainUse'
    BY <1>22
    DEF Teardown, Close, LoseAuthority, gate, own, hist, Orderly, Own, PlainUse, Plain, Ops, Bodies
<1>23. ASSUME NEW t \in Turn, TurnAdmit(t) PROVE PlainUse'
    BY <1>23
    DEF TurnAdmit, AdmitStart, AdmitPark, AdmitDrop, Claim, gate, own, hist, Orderly, Own, PlainUse,
        Plain, Ops, Bodies
<1>24. ASSUME NEW t \in Turn, TurnSpawn(t) PROVE PlainUse'
    BY <1>24 DEF TurnSpawn, Spawn, gate, own, hist, Orderly, Own, PlainUse, Plain, Ops, Bodies
<1>25. ASSUME NEW t \in Turn, TurnBodyEnds(t) PROVE PlainUse'
    BY <1>25
    DEF TurnBodyEnds, BodyEnds, SyncEnds, FinishGuarded, Release, Settle, SettleOff, gate, own,
        hist, Orderly, Own, PlainUse, Plain, Ops, Bodies
<1>26. ASSUME NEW t \in Turn, SettleCapture(t) \/ SettleUntrack(t) PROVE PlainUse'
    BY <1>26
    DEF SettleCapture, SettleUntrack, Settle, SettleOff, gate, own, hist, Orderly, Own, PlainUse,
        Plain, Ops, Bodies
<1>27. ASSUME NEW t \in Turn, SettleOne(t) PROVE PlainUse'
    BY <1>27 DEF SettleOne, gate, own, hist, Orderly, Own, PlainUse, Plain, Ops, Bodies
<1>28. ASSUME NEW t \in Turn, TurnSettled(t) PROVE PlainUse'
    BY <1>28
    DEF TurnSettled, Delivered, SyncSettled, EndWindow, Claim, Settle, SettleOff, Kicked, gate, own,
        hist, Orderly, Own, PlainUse, Plain, Ops, Bodies
<1>29. ASSUME NEW t \in Turn, ChatAsk(t) PROVE PlainUse'
    BY <1>29 DEF ChatAsk, Ask, gate, own, hist, Orderly, Own, PlainUse, Plain, Ops, Bodies
<1>30. ASSUME NEW q \in Rotator, Rotation(q) PROVE PlainUse'
    BY <1>30
    DEF Rotation, BeginRotation, EndRotation, Kicked, gate, own, hist, Orderly, Own, PlainUse,
        Plain, Ops, Bodies
<1> QED BY <1>1, <1>2, <1>3, <1>4, <1>5, <1>6, <1>7, <1>8, <1>9, <1>10, <1>11, <1>12, <1>13, <1>14,
           <1>15, <1>16, <1>17, <1>18, <1>19, <1>20, <1>21, <1>22, <1>23, <1>24, <1>25, <1>26,
           <1>27, <1>28, <1>29, <1>30, Excluded
        DEF INext, Dispatcher, Agent, Steering, User, Turns

(* Every step keeps the admission lock and the admitting set.               *)
LEMMA LocksNext ==
    ASSUME Orderly, INext
    PROVE  Locks'
<1>1. ASSUME DispLoop \/ DispBusy \/ DispScan \/ DispRead \/ DispClaim \/ DispClaimError
             \/ DispBlock
      PROVE  Locks'
    <2>1. CASE DispLoop \/ DispBusy \/ DispScan \/ DispBlock
        BY <2>1
        DEF DispLoop, DispBusy, DispScan, DispBlock, BackToLoop, own, Orderly, Own, Locks,
            DispLocked, DispHolds, SteerLocked, Typed, RecordsOK, DispRec, ItemRec, Names, NoItem
    <2>2. CASE DispRead \/ DispClaim \/ DispClaimError
        BY <2>2
        DEF DispRead, DispClaim, DispClaimError, BackToLoop, own, Orderly, Own, Locks,
            DispLocked, DispHolds, SteerLocked, Typed, RecordsOK, DispRec, ItemRec, Names, NoItem
    <2> QED BY <1>1, <2>1, <2>2
<1>2. ASSUME DispBlockPause \/ DispRollback \/ DispReturn PROVE Locks'
    BY <1>2
    DEF DispBlockPause, DispRollback, DispReturn, BackToLoop, ResetRetries, ScheduleRetry, gate,
        own, hist, Orderly, Own, Locks, DispLocked, DispHolds, SteerLocked, Typed, RecordsOK,
        DispRec, ItemRec, Names, NoItem
<1>3. ASSUME DispAsk PROVE Locks'
    BY <1>3
    DEF DispAsk, Ask, gate, own, hist, Orderly, Own, Locks, DispLocked, DispHolds, SteerLocked,
        Typed, RecordsOK, DispRec, ItemRec, Names, NoItem
<1>4. ASSUME DispStart PROVE Locks'
    BY <1>4
    DEF DispStart, AdmitStart, Claim, gate, own, hist, Orderly, Own, Locks, DispLocked, DispHolds,
        SteerLocked, Typed, RecordsOK, DispRec, ItemRec, Names, NoItem
<1>5. ASSUME DispDrop PROVE Locks'
    BY <1>5
    DEF DispDrop, AdmitDrop, gate, own, hist, Orderly, Own, Locks, DispLocked, DispHolds,
        SteerLocked, Typed, RecordsOK, DispRec, ItemRec, Names, NoItem
<1>6. ASSUME DispOnStart PROVE Locks'
    BY <1>6
    DEF DispOnStart, Spawn, gate, own, hist, Orderly, Own, Locks, DispLocked, DispHolds,
        SteerLocked, Typed, RecordsOK, DispRec, ItemRec, Names, NoItem
<1>7. ASSUME RetryFires \/ UserFollowup \/ UserRetry PROVE Locks'
    BY <1>7
    DEF RetryFires, UserFollowup, UserRetry, UserOff, CommandKick, Kicked, gate, own, hist, Orderly, Own, Locks,
        DispLocked, DispHolds, SteerLocked, Typed, RecordsOK, DispRec, ItemRec, Names, NoItem
<1>8. ASSUME AgentRun \/ AgentConsume \/ AgentMarkConsumed \/ AgentFinish \/ AgentAbort
              \/ AgentUnapplied \/ AgentUnown
      PROVE  Locks'
    BY <1>8
    DEF AgentRun, AgentConsume, AgentMarkConsumed, AgentFinish, AgentAbort, AgentUnapplied,
        AgentUnown, gate, own, hist, Orderly, Own, Locks, DispLocked, DispHolds, SteerLocked
<1>9. ASSUME SteerRead PROVE Locks'
    <2>1. SteerReadView
        BY <1>9, SteerReadDoes DEF Orderly, Typed
    <2>2. steer'.pc \in {"mark", "return"} /\ steer'.id = steer.id
        BY <2>1 DEF SteerReadView, SteerTo, Orderly, Typed, RecordsOK, SteerRec
    <2> QED BY <1>9, <2>2 DEF SteerRead, Orderly, Own, Locks, DispLocked, DispHolds, SteerLocked
<1>10. ASSUME SteerMark PROVE Locks'
    <2>1. SteerMarkView
        BY <1>10, SteerMarkDoes DEF Orderly, Typed
    <2>2. \/ steer'.pc = "return" /\ steer'.id = steer.id /\ admitting' = admitting
          \/ /\ steer'.pc \in {"convert", "return", "enqueue"} /\ steer'.id = steer.id
             /\ admitting' = admitting \cup {steer.id}
        BY <2>1 DEF SteerMarkView, SteerTo, Orderly, Typed, RecordsOK, SteerRec
    <2> QED BY <1>10, <2>2 DEF SteerMark, Orderly, Own, Locks, DispLocked, DispHolds, SteerLocked
<1>11. ASSUME SteerEnqueue \/ SteerRequeue \/ SteerConvert PROVE Locks'
    BY <1>11
    DEF SteerEnqueue, SteerRequeue, SteerConvert, SteerTo, gate, own, hist, Orderly, Own, Locks,
        DispLocked, DispHolds, SteerLocked, Typed, RecordsOK, SteerRec, Names
<1>12. ASSUME SteerReturn PROVE Locks'
    BY <1>12
    DEF SteerReturn, Kicked, SteerOff, gate, own, hist, Orderly, Own, Locks, DispLocked, DispHolds,
        SteerLocked, Typed, RecordsOK, DispRec, ItemRec, Names, NoItem, SteerRec
<1>13. ASSUME NEW intent \in Intents, UserEnqueue(intent) PROVE Locks'
    BY <1>13 DEF UserEnqueue, gate, own, hist, Orderly, Own, Locks, DispLocked, DispHolds, SteerLocked
<1>14. ASSUME UserBadRef \/ UserBadPause \/ UserEdit \/ UserCancelWith \/ UserCancelResume
              \/ InboxSnapshot
      PROVE  Locks'
    BY <1>14
    DEF UserBadRef, UserBadPause, UserEdit, UserCancelWith, UserCancelResume, InboxSnapshot,
        UserOff, gate, own, hist, Orderly, Own, Locks, DispLocked, DispHolds, SteerLocked
<1>15. ASSUME UserSteer PROVE Locks'
    BY <1>15
    DEF UserSteer, UserOff, SteerOff, gate, own, hist, Orderly, Own, Locks, DispLocked, DispHolds,
        SteerLocked, Typed, RecordsOK, SteerRec, Names
<1>16. ASSUME NEW p \in BOOLEAN, UserPause(p) PROVE Locks'
    BY <1>16
    DEF UserPause, CommandKick, Kicked, gate, own, hist, Orderly, Own, Locks, DispLocked, DispHolds, SteerLocked,
        Typed, RecordsOK, DispRec, ItemRec, Names, NoItem
<1>17. ASSUME UserCancelPause \/ UserCancelDiscard PROVE Locks'
    BY <1>17
    DEF UserCancelPause, UserCancelDiscard, UserTo, gate, own, hist, Orderly, Own, Locks,
        DispLocked, DispHolds, SteerLocked
<1>18. ASSUME UserCancelTurn PROVE Locks'
    BY <1>18
    DEF UserCancelTurn, UserOff, Cancel, gate, own, hist, Orderly, Own, Locks, DispLocked,
        DispHolds, SteerLocked
<1>19. ASSUME Teardown PROVE Locks'
    BY <1>19
    DEF Teardown, Close, LoseAuthority, gate, own, hist, Orderly, Own, Locks, DispLocked, DispHolds,
        SteerLocked
<1>20. ASSUME NEW t \in Turn, TurnAdmit(t) PROVE Locks'
    BY <1>20
    DEF TurnAdmit, AdmitStart, AdmitPark, AdmitDrop, Claim, gate, own, hist, Orderly, Own, Locks,
        DispLocked, DispHolds, SteerLocked
<1>21. ASSUME NEW t \in Turn, TurnSpawn(t) PROVE Locks'
    BY <1>21
    DEF TurnSpawn, Spawn, gate, own, hist, Orderly, Own, Locks, DispLocked, DispHolds, SteerLocked
<1>22. ASSUME NEW t \in Turn, TurnBodyEnds(t) PROVE Locks'
    BY <1>22
    DEF TurnBodyEnds, BodyEnds, SyncEnds, FinishGuarded, Release, Settle, SettleOff, gate, own,
        hist, Orderly, Own, Locks, DispLocked, DispHolds, SteerLocked
<1>23. ASSUME NEW t \in Turn, SettleCapture(t) \/ SettleUntrack(t) PROVE Locks'
    BY <1>23
    DEF SettleCapture, SettleUntrack, Settle, SettleOff, gate, own, hist, Orderly, Own, Locks,
        DispLocked, DispHolds, SteerLocked
<1>24. ASSUME NEW t \in Turn, SettleOne(t) PROVE Locks'
    BY <1>24 DEF SettleOne, gate, own, hist, Orderly, Own, Locks, DispLocked, DispHolds, SteerLocked
<1>25. ASSUME NEW t \in Turn, TurnSettled(t) PROVE Locks'
    <2>1. UNCHANGED <<admMu, admitting, steer>> /\ disp'.item = disp.item
          /\ (disp'.pc = disp.pc \/ (disp.pc = "off" /\ disp'.pc = "loop"))
        BY <1>25, KickDoes DEF TurnSettled, own, Orderly, Typed, RecordsOK
    <2> QED BY <2>1 DEF Orderly, Own, Locks, DispLocked, DispHolds, SteerLocked
<1>26. ASSUME NEW t \in Turn, ChatAsk(t) PROVE Locks'
    BY <1>26 DEF ChatAsk, Ask, gate, own, hist, Orderly, Own, Locks, DispLocked, DispHolds, SteerLocked
<1>27. ASSUME NEW q \in Rotator, Rotation(q) PROVE Locks'
    BY <1>27
    DEF Rotation, BeginRotation, EndRotation, Kicked, gate, own, hist, Orderly, Own, Locks,
        DispLocked, DispHolds, SteerLocked, Typed, RecordsOK, DispRec, ItemRec, Names, NoItem
<1> QED BY <1>1, <1>2, <1>3, <1>4, <1>5, <1>6, <1>7, <1>8, <1>9, <1>10, <1>11, <1>12, <1>13, <1>14,
           <1>15, <1>16, <1>17, <1>18, <1>19, <1>20, <1>21, <1>22, <1>23, <1>24, <1>25, <1>26,
           <1>27, Excluded
        DEF INext, Dispatcher, Agent, Steering, User, Turns

(* Every step keeps the shape of the agent's queue.                         *)
LEMMA ListsNext ==
    ASSUME Orderly, INext
    PROVE  Lists'
<1>1. ASSUME DispLoop \/ DispBusy \/ DispScan \/ DispRead \/ DispClaim \/ DispClaimError
             \/ DispBlock
      PROVE  Lists'
    BY <1>1, AgentKept
    DEF DispLoop, DispBusy, DispScan, DispRead, DispClaim, DispClaimError, DispBlock, BackToLoop,
        ResetRetries, ScheduleRetry, gate, own, hist, Orderly, Own, Lists
<1>2. ASSUME DispBlockPause \/ DispRollback \/ DispReturn \/ SteerRead \/ SteerMark \/ UserBadRef
             \/ UserBadPause
      PROVE  Lists'
    BY <1>2, AgentKept
    DEF DispBlockPause, DispRollback, DispReturn, SteerRead, SteerMark, UserBadRef, UserBadPause,
        BackToLoop, ResetRetries, ScheduleRetry, UserOff, gate, own, hist, Orderly, Own, Lists
<1>3. ASSUME DispAsk PROVE Lists'
    BY <1>3, AgentKept DEF DispAsk, Ask, gate, own, hist, Orderly, Own, Lists
<1>4. ASSUME DispStart PROVE Lists'
    BY <1>4, AgentKept DEF DispStart, AdmitStart, Claim, gate, own, hist, Orderly, Own, Lists
<1>5. ASSUME DispDrop PROVE Lists'
    BY <1>5, AgentKept DEF DispDrop, AdmitDrop, gate, own, hist, Orderly, Own, Lists
<1>6. ASSUME DispOnStart PROVE Lists'
    BY <1>6, AgentKept DEF DispOnStart, Spawn, gate, own, hist, Orderly, Own, Lists
<1>7. ASSUME RetryFires \/ UserFollowup \/ UserRetry PROVE Lists'
    BY <1>7, AgentKept
    DEF RetryFires, UserFollowup, UserRetry, UserOff, CommandKick, Kicked, gate, own, hist, Orderly, Own, Lists
<1>8. ASSUME AgentRun PROVE Lists'
    BY <1>8, RunDoes
    DEF AgentRun, gate, own, hist, Orderly, Own, Lists, Typed, RecordsOK, AgentRec, Names
<1>9. ASSUME AgentConsume PROVE Lists'
    BY <1>9, ConsumeDoes
    DEF AgentConsume, gate, own, hist, Orderly, Own, Lists, Typed, RecordsOK, AgentRec, Names
<1>10. ASSUME AgentMarkConsumed PROVE Lists'
    BY <1>10, MarkDoes
    DEF AgentMarkConsumed, gate, own, hist, Orderly, Own, Lists, Typed, RecordsOK, AgentRec, Names
<1>11. ASSUME AgentFinish PROVE Lists'
    BY <1>11, FinishDoes
    DEF AgentFinish, gate, own, hist, Orderly, Own, Lists, Typed, RecordsOK, AgentRec, Names
<1>12. ASSUME AgentAbort PROVE Lists'
    BY <1>12, AbortDoes
    DEF AgentAbort, gate, own, hist, Orderly, Own, Lists, Typed, RecordsOK, AgentRec, Names
<1>13. ASSUME AgentUnapplied PROVE Lists'
    BY <1>13, UnappliedDoes
    DEF AgentUnapplied, gate, own, hist, Orderly, Own, Lists, Typed, RecordsOK, AgentRec, Names
<1>14. ASSUME AgentUnown PROVE Lists'
    BY <1>14, UnownDoes
    DEF AgentUnown, gate, own, hist, Orderly, Own, Lists, Typed, RecordsOK, AgentRec, Names
<1>15. ASSUME SteerEnqueue PROVE Lists'
    <2>1. steer.id \notin Steered
        BY <1>15 DEF SteerEnqueue, Orderly, Own, Commands
    <2> QED BY <1>15, <2>1, EnqueueDoes, AgentKept DEF Orderly, Own
<1>16. ASSUME SteerRequeue \/ SteerConvert PROVE Lists'
    BY <1>16, AgentKept DEF SteerRequeue, SteerConvert, SteerTo, gate, own, hist, Orderly, Own, Lists
<1>17. ASSUME SteerReturn PROVE Lists'
    BY <1>17, AgentKept DEF SteerReturn, Kicked, SteerOff, gate, own, hist, Orderly, Own, Lists
<1>18. ASSUME NEW intent \in Intents, UserEnqueue(intent) PROVE Lists'
    BY <1>18, AgentKept DEF UserEnqueue, gate, own, hist, Orderly, Own, Lists
<1>19. ASSUME UserSteer PROVE Lists'
    BY <1>19, AgentKept DEF UserSteer, UserOff, SteerOff, gate, own, hist, Orderly, Own, Lists
<1>20. ASSUME NEW p \in BOOLEAN, UserPause(p) PROVE Lists'
    BY <1>20, AgentKept DEF UserPause, CommandKick, Kicked, gate, own, hist, Orderly, Own, Lists
<1>21. ASSUME UserEdit \/ UserCancelWith \/ UserCancelResume \/ InboxSnapshot PROVE Lists'
    BY <1>21, AgentKept
    DEF UserEdit, UserCancelWith, UserCancelResume, InboxSnapshot, UserOff, gate, own, hist,
        Orderly, Own, Lists
<1>22. ASSUME UserCancelPause \/ UserCancelDiscard PROVE Lists'
    BY <1>22, AgentKept
    DEF UserCancelPause, UserCancelDiscard, UserTo, gate, own, hist, Orderly, Own, Lists
<1>23. ASSUME UserCancelTurn PROVE Lists'
    BY <1>23, AgentKept DEF UserCancelTurn, UserOff, Cancel, gate, own, hist, Orderly, Own, Lists
<1>24. ASSUME Teardown PROVE Lists'
    BY <1>24, AgentKept DEF Teardown, Close, LoseAuthority, gate, own, hist, Orderly, Own, Lists
<1>25. ASSUME NEW t \in Turn, TurnAdmit(t) PROVE Lists'
    BY <1>25, AgentKept
    DEF TurnAdmit, AdmitStart, AdmitPark, AdmitDrop, Claim, gate, own, hist, Orderly, Own, Lists
<1>26. ASSUME NEW t \in Turn, TurnSpawn(t) PROVE Lists'
    BY <1>26, AgentKept DEF TurnSpawn, Spawn, gate, own, hist, Orderly, Own, Lists
<1>27. ASSUME NEW t \in Turn, TurnBodyEnds(t) PROVE Lists'
    BY <1>27, AgentKept
    DEF TurnBodyEnds, BodyEnds, SyncEnds, FinishGuarded, Release, Settle, SettleOff, gate, own,
        hist, Orderly, Own, Lists
<1>28. ASSUME NEW t \in Turn, SettleCapture(t) \/ SettleUntrack(t) PROVE Lists'
    BY <1>28, AgentKept
    DEF SettleCapture, SettleUntrack, Settle, SettleOff, gate, own, hist, Orderly, Own, Lists
<1>29. ASSUME NEW t \in Turn, SettleOne(t) PROVE Lists'
    BY <1>29, AgentKept DEF SettleOne, gate, own, hist, Orderly, Own, Lists
<1>30. ASSUME NEW t \in Turn, TurnSettled(t) PROVE Lists'
    BY <1>30, AgentKept
    DEF TurnSettled, Delivered, SyncSettled, EndWindow, Claim, Settle, SettleOff, Kicked, gate, own,
        hist, Orderly, Own, Lists
<1>31. ASSUME NEW t \in Turn, ChatAsk(t) PROVE Lists'
    BY <1>31, AgentKept DEF ChatAsk, Ask, gate, own, hist, Orderly, Own, Lists
<1>32. ASSUME NEW q \in Rotator, Rotation(q) PROVE Lists'
    BY <1>32, AgentKept
    DEF Rotation, BeginRotation, EndRotation, Kicked, gate, own, hist, Orderly, Own, Lists
<1> QED BY <1>1, <1>2, <1>3, <1>4, <1>5, <1>6, <1>7, <1>8, <1>9, <1>10, <1>11, <1>12, <1>13, <1>14,
           <1>15, <1>16, <1>17, <1>18, <1>19, <1>20, <1>21, <1>22, <1>23, <1>24, <1>25, <1>26,
           <1>27, <1>28, <1>29, <1>30, <1>31, <1>32, Excluded
        DEF INext, Dispatcher, Agent, Steering, User, Turns

(* Every step keeps the finishing window to one turn.                       *)
LEMMA DeliveryAloneNext ==
    ASSUME Orderly, INext
    PROVE  DeliveryAlone'
<1>1. ASSUME DispLoop \/ DispBusy \/ DispScan \/ DispRead \/ DispClaim \/ DispClaimError
             \/ DispBlock
      PROVE  DeliveryAlone'
    BY <1>1
    DEF DispLoop, DispBusy, DispScan, DispRead, DispClaim, DispClaimError, DispBlock, BackToLoop,
        ResetRetries, ScheduleRetry, gate, own, hist, Orderly, Own, DeliveryAlone
<1>2. ASSUME DispBlockPause \/ DispRollback \/ DispReturn \/ AgentRun \/ AgentConsume
             \/ AgentMarkConsumed \/ AgentFinish
      PROVE  DeliveryAlone'
    BY <1>2
    DEF DispBlockPause, DispRollback, DispReturn, AgentRun, AgentConsume, AgentMarkConsumed,
        AgentFinish, BackToLoop, ResetRetries, ScheduleRetry, gate, own, hist, Orderly, Own,
        DeliveryAlone
<1>3. ASSUME DispAsk PROVE DeliveryAlone'
    BY <1>3
    DEF DispAsk, Ask, gate, own, hist, Orderly, Own, DeliveryAlone, GateInv, TypeOK, InFlight, flags
<1>4. ASSUME DispStart PROVE DeliveryAlone'
    <2>1. disp.turn \in Turn /\ AdmitStart(disp.turn)
        BY <1>4 DEF DispStart, Orderly, Typed, NamesOK
    <2> QED BY <2>1, NoDelivery DEF Orderly, DeliveryAlone
<1>5. ASSUME DispDrop PROVE DeliveryAlone'
    BY <1>5
    DEF DispDrop, AdmitDrop, gate, own, hist, Orderly, Own, DeliveryAlone, GateInv, TypeOK,
        InFlight, flags
<1>6. ASSUME DispOnStart PROVE DeliveryAlone'
    BY <1>6
    DEF DispOnStart, Spawn, gate, own, hist, Orderly, Own, DeliveryAlone, GateInv, TypeOK, InFlight,
        flags
<1>7. ASSUME RetryFires \/ UserFollowup \/ UserRetry PROVE DeliveryAlone'
    BY <1>7
    DEF RetryFires, UserFollowup, UserRetry, UserOff, CommandKick, Kicked, gate, own, hist, Orderly, Own,
        DeliveryAlone
<1>8. ASSUME AgentAbort \/ AgentUnapplied \/ AgentUnown \/ SteerRead \/ SteerMark \/ UserBadRef
              \/ UserBadPause
      PROVE  DeliveryAlone'
    BY <1>8
    DEF AgentAbort, AgentUnapplied, AgentUnown, SteerRead, SteerMark, UserBadRef, UserBadPause,
        UserOff, gate, own, hist, Orderly, Own, DeliveryAlone
<1>9. ASSUME SteerEnqueue \/ SteerRequeue \/ SteerConvert PROVE DeliveryAlone'
    BY <1>9
    DEF SteerEnqueue, SteerRequeue, SteerConvert, SteerTo, gate, own, hist, Orderly, Own,
        DeliveryAlone
<1>10. ASSUME SteerReturn PROVE DeliveryAlone'
    BY <1>10 DEF SteerReturn, Kicked, SteerOff, gate, own, hist, Orderly, Own, DeliveryAlone
<1>11. ASSUME NEW intent \in Intents, UserEnqueue(intent) PROVE DeliveryAlone'
    BY <1>11 DEF UserEnqueue, gate, own, hist, Orderly, Own, DeliveryAlone
<1>12. ASSUME UserSteer PROVE DeliveryAlone'
    BY <1>12 DEF UserSteer, UserOff, SteerOff, gate, own, hist, Orderly, Own, DeliveryAlone
<1>13. ASSUME NEW p \in BOOLEAN, UserPause(p) PROVE DeliveryAlone'
    BY <1>13 DEF UserPause, CommandKick, Kicked, gate, own, hist, Orderly, Own, DeliveryAlone
<1>14. ASSUME UserEdit \/ UserCancelWith \/ UserCancelResume \/ InboxSnapshot
      PROVE  DeliveryAlone'
    BY <1>14
    DEF UserEdit, UserCancelWith, UserCancelResume, InboxSnapshot, UserOff, gate, own, hist,
        Orderly, Own, DeliveryAlone
<1>15. ASSUME UserCancelPause \/ UserCancelDiscard PROVE DeliveryAlone'
    BY <1>15
    DEF UserCancelPause, UserCancelDiscard, UserTo, gate, own, hist, Orderly, Own, DeliveryAlone
<1>16. ASSUME UserCancelTurn PROVE DeliveryAlone'
    BY <1>16 DEF UserCancelTurn, UserOff, Cancel, gate, own, hist, Orderly, Own, DeliveryAlone
<1>17. ASSUME Teardown PROVE DeliveryAlone'
    BY <1>17
    DEF Teardown, Close, LoseAuthority, gate, own, hist, Orderly, Own, DeliveryAlone, GateInv,
        TypeOK, InFlight, flags
<1>18. ASSUME NEW t \in Turn, TurnAdmit(t) PROVE DeliveryAlone'
    <2>1. CASE AdmitStart(t)
        BY <2>1, NoDelivery DEF Orderly, DeliveryAlone
    <2>2. CASE AdmitPark(t) \/ AdmitDrop(t)
        BY <2>2 DEF AdmitPark, AdmitDrop, Orderly, Own, DeliveryAlone, GateInv, TypeOK
    <2> QED BY <1>18, <2>1, <2>2 DEF TurnAdmit
<1>19. ASSUME NEW t \in Turn, TurnSpawn(t) PROVE DeliveryAlone'
    BY <1>19
    DEF TurnSpawn, Spawn, gate, own, hist, Orderly, Own, DeliveryAlone, GateInv, TypeOK, InFlight,
        flags
<1>20. ASSUME NEW t \in Turn, TurnBodyEnds(t) PROVE DeliveryAlone'
    BY <1>20, BodyDone DEF DeliveryAlone
<1>21. ASSUME NEW t \in Turn, SettleCapture(t) \/ SettleUntrack(t) PROVE DeliveryAlone'
    BY <1>21
    DEF SettleCapture, SettleUntrack, Settle, SettleOff, gate, own, hist, Orderly, Own,
        DeliveryAlone
<1>22. ASSUME NEW t \in Turn, SettleOne(t) PROVE DeliveryAlone'
    BY <1>22 DEF SettleOne, gate, own, hist, Orderly, Own, DeliveryAlone
<1>23. ASSUME NEW t \in Turn, TurnSettled(t) PROVE DeliveryAlone'
    BY <1>23
    DEF TurnSettled, Delivered, SyncSettled, EndWindow, Claim, Settle, SettleOff, Kicked, gate, own,
        hist, Orderly, Own, DeliveryAlone, GateInv, TypeOK, InFlight, flags
<1>24. ASSUME NEW t \in Turn, ChatAsk(t) PROVE DeliveryAlone'
    BY <1>24
    DEF ChatAsk, Ask, gate, own, hist, Orderly, Own, DeliveryAlone, GateInv, TypeOK, InFlight, flags
<1>25. ASSUME NEW q \in Rotator, Rotation(q) PROVE DeliveryAlone'
    BY <1>25
    DEF Rotation, BeginRotation, EndRotation, Kicked, gate, own, hist, Orderly, Own, DeliveryAlone
<1> QED BY <1>1, <1>2, <1>3, <1>4, <1>5, <1>6, <1>7, <1>8, <1>9, <1>10, <1>11, <1>12, <1>13, <1>14,
           <1>15, <1>16, <1>17, <1>18, <1>19, <1>20, <1>21, <1>22, <1>23, <1>24, <1>25, Excluded
        DEF INext, Dispatcher, Agent, Steering, User, Turns

(* Every step keeps the path of an item from the dispatcher to its turn.    *)
LEMMA CarriedNext ==
    ASSUME Orderly, INext
    PROVE  Carried'
<1>1. ASSUME DispLoop PROVE Carried'
    BY <1>1
    DEF DispLoop, gate, own, hist, Orderly, Own, Carried, Typed, RecordsOK, DispRec, ItemRec,
        DispLocked, DispHolds, Names, NoItem, GateInv, TypeOK, flags, NamesOK
<1>2. ASSUME DispBusy PROVE Carried'
    BY <1>2
    DEF DispBusy, BackToLoop, ResetRetries, gate, own, hist, Orderly, Own, Carried, Typed,
        RecordsOK, DispRec, ItemRec, DispLocked, DispHolds, Names, NoItem, GateInv, TypeOK, flags,
        NamesOK
<1>3. ASSUME DispScan PROVE Carried'
    BY <1>3
    DEF DispScan, BackToLoop, ResetRetries, gate, own, hist, Orderly, Own, Carried, Typed,
        RecordsOK, DispRec, ItemRec, DispLocked, DispHolds, Names, NoItem, GateInv, TypeOK, flags,
        NamesOK
<1>4. ASSUME DispRead PROVE Carried'
    BY <1>4
    DEF DispRead, BackToLoop, ScheduleRetry, gate, own, hist, Orderly, Own, Carried, Typed,
        RecordsOK, DispRec, ItemRec, DispLocked, DispHolds, Names, NoItem, GateInv, TypeOK, flags,
        NamesOK
<1>5. ASSUME DispClaim PROVE Carried'
    BY <1>5
    DEF DispClaim, gate, own, hist, Orderly, Own, Carried, Typed, RecordsOK, DispRec, ItemRec,
        DispLocked, DispHolds, Names, NoItem, GateInv, TypeOK, flags, NamesOK
<1>6. ASSUME DispClaimError PROVE Carried'
    BY <1>6
    DEF DispClaimError, BackToLoop, ScheduleRetry, gate, own, hist, Orderly, Own, Carried, Typed,
        RecordsOK, DispRec, ItemRec, DispLocked, DispHolds, Names, NoItem, GateInv, TypeOK, flags,
        NamesOK
<1>7. ASSUME DispBlock PROVE Carried'
    BY <1>7
    DEF DispBlock, gate, own, hist, Orderly, Own, Carried, Typed, RecordsOK, DispRec, ItemRec,
        DispLocked, DispHolds, Names, NoItem, GateInv, TypeOK, flags, NamesOK
<1>8. ASSUME DispBlockPause PROVE Carried'
    BY <1>8
    DEF DispBlockPause, BackToLoop, ScheduleRetry, gate, own, hist, Orderly, Own, Carried, Typed,
        RecordsOK, DispRec, ItemRec, DispLocked, DispHolds, Names, NoItem, GateInv, TypeOK, flags,
        NamesOK
<1>9. ASSUME DispAsk PROVE Carried'
    <2>1. item \in [Turn -> ItemRec] /\ pc \in [Turn -> PC] /\ disp \in DispRec
        BY DEF Orderly, Typed, RecordsOK, GateInv, TypeOK
    <2>2. CASE ~writable /\ disp' = [disp EXCEPT !.pc = "rollback"] /\ UNCHANGED <<gate, item>>
        <3>1. disp'.pc = "rollback" /\ disp.pc = "ask"
            BY <1>9, <2>1, <2>2 DEF DispAsk, DispRec
        <3> QED BY <2>2, <3>1 DEF Orderly, Own, Carried, gate
    <2>3. ASSUME NEW t \in Turn, Ask(t, "inbox"), item' = [item EXCEPT ![t] = disp.item],
                 disp' = [disp EXCEPT !.pc = "admit", !.turn = t]
          PROVE  Carried'
        <3>1. disp'.pc = "admit" /\ disp'.turn = t /\ disp'.item = disp.item /\ disp.pc = "ask"
            BY <1>9, <2>1, <2>3 DEF DispAsk, DispRec
        <3>2. \A s \in Turn : s # t => pc'[s] = pc[s] /\ item'[s] = item[s]
            BY <2>1, <2>3 DEF Ask
        <3>3. pc'[t] = "asking" /\ item'[t] = disp.item
            BY <2>1, <2>3 DEF Ask
        <3> QED BY <3>1, <3>2, <3>3 DEF Orderly, Own, Carried
    <2> QED BY <1>9, <2>2, <2>3 DEF DispAsk
<1>10. ASSUME DispStart PROVE Carried'
    BY <1>10
    DEF DispStart, AdmitStart, Claim, gate, own, hist, Orderly, Own, Carried, Typed, RecordsOK,
        DispRec, ItemRec, DispLocked, DispHolds, Names, NoItem, GateInv, TypeOK, flags, NamesOK
<1>11. ASSUME DispDrop PROVE Carried'
    BY <1>11
    DEF DispDrop, AdmitDrop, gate, own, hist, Orderly, Own, Carried, Typed, RecordsOK, DispRec,
        ItemRec, DispLocked, DispHolds, Names, NoItem, GateInv, TypeOK, flags, NamesOK
<1>12. ASSUME DispOnStart PROVE Carried'
    BY <1>12
    DEF DispOnStart, Spawn, gate, own, hist, Orderly, Own, Carried, Typed, RecordsOK, DispRec,
        ItemRec, DispLocked, DispHolds, Names, NoItem, GateInv, TypeOK, flags, NamesOK
<1>13. ASSUME DispRollback PROVE Carried'
    BY <1>13
    DEF DispRollback, gate, own, hist, Orderly, Own, Carried, Typed, RecordsOK, DispRec, ItemRec,
        DispLocked, DispHolds, Names, NoItem, GateInv, TypeOK, flags, NamesOK
<1>14. ASSUME DispReturn PROVE Carried'
    BY <1>14
    DEF DispReturn, BackToLoop, ResetRetries, gate, own, hist, Orderly, Own, Carried, Typed,
        RecordsOK, DispRec, ItemRec, DispLocked, DispHolds, Names, NoItem, GateInv, TypeOK, flags,
        NamesOK
<1>15. ASSUME RetryFires PROVE Carried'
    BY <1>15
    DEF RetryFires, Kicked, gate, own, hist, Orderly, Own, Carried, Typed, RecordsOK, DispRec,
        ItemRec, DispLocked, DispHolds, Names, NoItem, GateInv, TypeOK, flags, NamesOK
<1>16. ASSUME AgentRun \/ AgentConsume \/ AgentMarkConsumed \/ AgentFinish \/ AgentAbort
              \/ AgentUnapplied \/ AgentUnown
      PROVE  Carried'
    BY <1>16
    DEF AgentRun, AgentConsume, AgentMarkConsumed, AgentFinish, AgentAbort, AgentUnapplied,
        AgentUnown, gate, own, hist, Orderly, Own, Carried
<1>17. ASSUME SteerRead \/ SteerMark \/ UserBadRef \/ UserBadPause \/ UserEdit \/ UserCancelWith
              \/ UserCancelResume
      PROVE  Carried'
    BY <1>17
    DEF SteerRead, SteerMark, UserBadRef, UserBadPause, UserEdit, UserCancelWith, UserCancelResume,
        UserOff, gate, own, hist, Orderly, Own, Carried
<1>18. ASSUME SteerEnqueue \/ SteerRequeue \/ SteerConvert PROVE Carried'
    BY <1>18
    DEF SteerEnqueue, SteerRequeue, SteerConvert, SteerTo, gate, own, hist, Orderly, Own, Carried
<1>19. ASSUME SteerReturn PROVE Carried'
    BY <1>19
    DEF SteerReturn, Kicked, SteerOff, gate, own, hist, Orderly, Own, Carried, Typed, RecordsOK,
        DispRec, ItemRec, DispLocked, DispHolds, Names, NoItem, GateInv, TypeOK, flags, NamesOK
<1>20. ASSUME NEW intent \in Intents, UserEnqueue(intent) PROVE Carried'
    BY <1>20 DEF UserEnqueue, gate, own, hist, Orderly, Own, Carried
<1>21. ASSUME UserFollowup PROVE Carried'
    BY <1>21
    DEF UserFollowup, UserOff, CommandKick, Kicked, gate, own, hist, Orderly, Own, Carried, Typed, RecordsOK,
        DispRec, ItemRec, DispLocked, DispHolds, Names, NoItem, GateInv, TypeOK, flags, NamesOK
<1>22. ASSUME UserSteer PROVE Carried'
    BY <1>22 DEF UserSteer, UserOff, SteerOff, gate, own, hist, Orderly, Own, Carried
<1>23. ASSUME NEW p \in BOOLEAN, UserPause(p) PROVE Carried'
    BY <1>23
    DEF UserPause, CommandKick, Kicked, gate, own, hist, Orderly, Own, Carried, Typed, RecordsOK, DispRec,
        ItemRec, DispLocked, DispHolds, Names, NoItem, GateInv, TypeOK, flags, NamesOK
<1>24. ASSUME UserRetry PROVE Carried'
    BY <1>24
    DEF UserRetry, CommandKick, Kicked, gate, own, hist, Orderly, Own, Carried, Typed, RecordsOK, DispRec,
        ItemRec, DispLocked, DispHolds, Names, NoItem, GateInv, TypeOK, flags, NamesOK
<1>25. ASSUME UserCancelPause \/ UserCancelDiscard PROVE Carried'
    BY <1>25 DEF UserCancelPause, UserCancelDiscard, UserTo, gate, own, hist, Orderly, Own, Carried
<1>26. ASSUME UserCancelTurn PROVE Carried'
    BY <1>26 DEF UserCancelTurn, UserOff, Cancel, gate, own, hist, Orderly, Own, Carried
<1>27. ASSUME InboxSnapshot PROVE Carried'
    BY <1>27 DEF InboxSnapshot, gate, own, hist, Orderly, Own, Carried
<1>28. ASSUME Teardown PROVE Carried'
    <2>1. disp' = disp /\ item' = item
        BY <1>28 DEF Teardown
    <2> QED BY <1>28, <2>1, ClosedDown DEF Orderly, Own, Carried, Typed, NamesOK
<1>29. ASSUME NEW t \in Turn, TurnAdmit(t) PROVE Carried'
    BY <1>29
    DEF TurnAdmit, AdmitStart, AdmitPark, AdmitDrop, Claim, gate, own, hist, Orderly, Own, Carried,
        Typed, RecordsOK, ItemRec, Names, NoItem, GateInv, TypeOK, flags, NamesOK
<1>30. ASSUME NEW t \in Turn, TurnSpawn(t) PROVE Carried'
    BY <1>30
    DEF TurnSpawn, Spawn, gate, own, hist, Orderly, Own, Carried, GateInv, TypeOK, flags, NamesOK
<1>31. ASSUME NEW t \in Turn, TurnBodyEnds(t) PROVE Carried'
    BY <1>31
    DEF TurnBodyEnds, BodyEnds, SyncEnds, FinishGuarded, Release, Settle, SettleOff, gate, own,
        hist, Orderly, Own, Carried, Typed, RecordsOK, ItemRec, Names, NoItem, GateInv, TypeOK,
        flags, NamesOK
<1>32. ASSUME NEW t \in Turn, SettleCapture(t) \/ SettleUntrack(t) PROVE Carried'
    BY <1>32 DEF SettleCapture, SettleUntrack, Settle, SettleOff, gate, own, hist, Orderly, Own, Carried
<1>33. ASSUME NEW t \in Turn, SettleOne(t) PROVE Carried'
    BY <1>33 DEF SettleOne, gate, own, hist, Orderly, Own, Carried
<1>34. ASSUME NEW t \in Turn, TurnSettled(t) PROVE Carried'
    <2>1. Delivered(t) /\ item' = item /\ disp'.turn = disp.turn /\ disp'.item = disp.item
          /\ (disp'.pc = disp.pc \/ (disp.pc = "off" /\ disp'.pc = "loop"))
        BY <1>34, KickDoes DEF TurnSettled, SyncSettled, Orderly, Own, Settling, Typed, RecordsOK
    <2>2. \A s \in Turn : pc[s] \in {"asking", "starting", "body"} => pc'[s] = pc[s]
        BY <2>1, WindowEnds DEF Orderly, Own
    <2> QED BY <2>1, <2>2 DEF Orderly, Own, Carried, Typed, NamesOK
<1>35. ASSUME NEW t \in Turn, ChatAsk(t) PROVE Carried'
    BY <1>35 DEF ChatAsk, Ask, gate, own, hist, Orderly, Own, Carried, GateInv, TypeOK, flags, NamesOK
<1>36. ASSUME NEW q \in Rotator, Rotation(q) PROVE Carried'
    <2>1. item' = item /\ pc' = pc /\ disp'.turn = disp.turn /\ disp'.item = disp.item
          /\ (disp'.pc = disp.pc \/ (disp.pc = "off" /\ disp'.pc = "loop"))
        BY <1>36, KickDoes DEF Rotation, BeginRotation, EndRotation, Orderly, Typed, RecordsOK
    <2> QED BY <2>1 DEF Orderly, Own, Carried
<1> QED BY <1>1, <1>2, <1>3, <1>4, <1>5, <1>6, <1>7, <1>8, <1>9, <1>10, <1>11, <1>12, <1>13, <1>14,
           <1>15, <1>16, <1>17, <1>18, <1>19, <1>20, <1>21, <1>22, <1>23, <1>24, <1>25, <1>26,
           <1>27, <1>28, <1>29, <1>30, <1>31, <1>32, <1>33, <1>34, <1>35, <1>36, Excluded
        DEF INext, Dispatcher, Agent, Steering, User, Turns

(* Every step keeps the record of what ran and was acknowledged.            *)
LEMMA HistoryNext ==
    ASSUME Orderly, INext
    PROVE  History'
<1>1. ASSUME DispLoop \/ DispBusy \/ DispScan \/ DispRead \/ DispClaimError \/ DispReturn
             \/ AgentRun
      PROVE  History'
    BY <1>1
    DEF DispLoop, DispBusy, DispScan, DispRead, DispClaimError, DispReturn, AgentRun, BackToLoop,
        ResetRetries, ScheduleRetry, gate, own, hist, Orderly, Own, History
<1>2. ASSUME DispClaim PROVE History'
    BY <1>2, ClaimMoves DEF DispClaim, gate, own, hist, Orderly, Own, History, Changes, Still
<1>3. ASSUME DispBlock PROVE History'
    BY <1>3, BlockMoves DEF Orderly, Own, DispBlock, hist, History, Changes
<1>4. ASSUME DispBlockPause \/ AgentUnown \/ UserBadPause \/ UserCancelResume PROVE History'
    BY <1>4, PausingStill
    DEF DispBlockPause, AgentUnown, UserBadPause, UserCancelResume, BackToLoop, ScheduleRetry,
        UserOff, gate, own, hist, Orderly, Own, History, Changes, Still
<1>5. ASSUME DispAsk PROVE History'
    BY <1>5 DEF DispAsk, Ask, gate, own, hist, Orderly, Own, History
<1>6. ASSUME DispStart PROVE History'
    BY <1>6 DEF DispStart, AdmitStart, Claim, gate, own, hist, Orderly, Own, History
<1>7. ASSUME DispDrop PROVE History'
    BY <1>7 DEF DispDrop, AdmitDrop, gate, own, hist, Orderly, Own, History
<1>8. ASSUME DispOnStart PROVE History'
    BY <1>8 DEF DispOnStart, Spawn, gate, own, hist, Orderly, Own, History
<1>9. ASSUME DispRollback PROVE History'
    BY <1>9, RollbackMoves DEF Orderly, Own, DispRollback, hist, History, Claims, DispHolds, Changes
<1>10. ASSUME RetryFires \/ UserFollowup PROVE History'
    BY <1>10 DEF RetryFires, UserFollowup, UserOff, CommandKick, Kicked, gate, own, hist, Orderly, Own, History
<1>11. ASSUME AgentConsume PROVE History'
    <2>1. \E id \in Waiting : applied' \subseteq applied \cup {id} /\ applied \subseteq applied'
        BY <1>11, ConsumeDoes DEF Orderly, Own
    <2> QED BY <1>11, <2>1 DEF AgentConsume, Orderly, Own, Guided, History
<1>12. ASSUME AgentMarkConsumed PROVE History'
    BY <1>12, ConsumedMoves
    DEF AgentMarkConsumed, gate, own, hist, Orderly, Own, History, Changes, Still
<1>13. ASSUME AgentFinish \/ AgentAbort \/ UserCancelWith PROVE History'
    BY <1>13 DEF AgentFinish, AgentAbort, UserCancelWith, gate, own, hist, Orderly, Own, History
<1>14. ASSUME AgentUnapplied PROVE History'
    BY <1>14, UnappliedMoves DEF AgentUnapplied, gate, own, hist, Orderly, Own, History, Changes, Still
<1>15. ASSUME SteerRead PROVE History'
    BY <1>15, SteerReadMoves
        DEF SteerRead, gate, own, hist, Orderly, Own, History, Changes, Rescued, Locks,
            InFlightStates
<1>16. ASSUME SteerMark PROVE History'
    BY <1>16, SteerMarkMoves DEF SteerMark, gate, own, hist, Orderly, Own, History, Changes, Still
<1>17. ASSUME SteerEnqueue PROVE History'
    BY <1>17 DEF SteerEnqueue, SteerTo, gate, own, hist, Orderly, Own, History
<1>18. ASSUME SteerRequeue PROVE History'
    BY <1>18, SteerRequeueMoves DEF Orderly, Own, SteerRequeue, hist, History, Commands, Changes
<1>19. ASSUME SteerConvert PROVE History'
    BY <1>19, SteerConvertStill
    DEF SteerConvert, SteerTo, gate, own, hist, Orderly, Own, History, Changes, Still
<1>20. ASSUME SteerReturn PROVE History'
    BY <1>20 DEF SteerReturn, Kicked, SteerOff, gate, own, hist, Orderly, Own, History
<1>21. ASSUME NEW intent \in Intents, UserEnqueue(intent) PROVE History'
    <2>1. PICK id \in Stem \ used, b \in Bodies :
              /\ Changes(id, {"gone"}, {"queued"}) /\ Worded /\ TextIn(man', id) = b /\ user.pc = "off"
              /\ used' = used \cup {id}
              /\ user'.id = id /\ user'.pc = (IF b = "badref" THEN "badref" ELSE intent)
        BY <1>21, UserEnqueueMoves
    <2>2. applied' = applied /\ acked' = acked /\ applied \subseteq used
        BY <1>21 DEF UserEnqueue, hist, Orderly, Typed, NamesOK
    <2> QED BY <2>1, <2>2 DEF Orderly, Own, History, Changes
<1>22. ASSUME UserBadRef PROVE History'
    BY <1>22, UserBadRefMoves DEF Orderly, Own, UserBadRef, hist, History, Changes
<1>23. ASSUME UserSteer PROVE History'
    BY <1>23 DEF UserSteer, UserOff, SteerOff, gate, own, hist, Orderly, Own, History
<1>24. ASSUME NEW p \in BOOLEAN, UserPause(p) PROVE History'
    BY <1>24, PausingStill DEF UserPause, CommandKick, Kicked, gate, own, hist, Orderly, Own, History, Changes, Still
<1>25. ASSUME UserRetry PROVE History'
    <2>1. PICK id \in used : /\ Changes(id, {"uncertain", "blocked"}, {"queued"}) /\ Worded
                            /\ applied' = applied \ {id}
        BY <1>25, UserRetryMoves
    <2> QED BY <1>25, <2>1 DEF UserRetry, CommandKick, Kicked, gate, own, hist, Orderly, Own, History, Changes, Still
<1>26. ASSUME UserEdit PROVE History'
    BY <1>26, UserEditMoves DEF UserEdit, gate, own, hist, Orderly, Own, History, Changes, Still
<1>27. ASSUME UserCancelPause PROVE History'
    BY <1>27, PausingStill
    DEF UserCancelPause, UserTo, gate, own, hist, Orderly, Own, History, Changes, Still
<1>28. ASSUME UserCancelDiscard PROVE History'
    BY <1>28, DiscardMoves
    DEF UserCancelDiscard, UserTo, gate, own, hist, Orderly, Own, History, Changes, Still
<1>29. ASSUME UserCancelTurn PROVE History'
    BY <1>29 DEF UserCancelTurn, UserOff, Cancel, gate, own, hist, Orderly, Own, History
<1>30. ASSUME InboxSnapshot PROVE History'
    BY <1>30, SnapshotRescues
        DEF InboxSnapshot, gate, own, hist, Orderly, Own, History, Changes, Rescued, Locks,
            InFlightStates
<1>31. ASSUME Teardown PROVE History'
    BY <1>31 DEF Teardown, Close, LoseAuthority, gate, own, hist, Orderly, Own, History
<1>32. ASSUME NEW t \in Turn, TurnAdmit(t) PROVE History'
    BY <1>32
    DEF TurnAdmit, AdmitStart, AdmitPark, AdmitDrop, Claim, gate, own, hist, Orderly, Own, History
<1>33. ASSUME NEW t \in Turn, TurnSpawn(t) PROVE History'
    BY <1>33 DEF TurnSpawn, Spawn, gate, own, hist, Orderly, Own, History
<1>34. ASSUME NEW t \in Turn, TurnBodyEnds(t) PROVE History'
    <2>1. applied' = applied \cup ({item[t].id} \ {NoStem}) /\ man' = man /\ acked' = acked
          /\ pc[t] = "body"
        BY <1>34, BodyDone DEF TurnBodyEnds
    <2>2. item[t].id # NoStem => StatusIn(man, item[t].id) = "running"
        BY <2>1 DEF Orderly, Own, Holders, TurnItemHeld, NoItem
    <2> QED BY <2>1, <2>2 DEF Orderly, Own, History
<1>35. ASSUME NEW t \in Turn, SettleCapture(t) PROVE History'
    BY <1>35 DEF SettleCapture, Settle, SettleOff, gate, own, hist, Orderly, Own, History
<1>36. ASSUME NEW t \in Turn, SettleOne(t) PROVE History'
    <2>1. PICK id \in settle[t].left :
              /\ Changes(id, InFlightStates, InFlightStates \cup {"gone", "uncertain"}) /\ Worded
                 /\ Finished(id)
              /\ StatusIn(man', id) \in InFlightStates => id \in unsaved'
              /\ acked' = acked \/ (acked' = acked \cup {id} /\ StatusIn(man', id) = "gone")
              /\ \A s \in Turn : /\ settle'[s].pc = settle[s].pc /\ settle'[s].ids = settle[s].ids
                                 /\ settle'[s].left = IF s = t THEN settle[s].left \ {id} ELSE settle[s].left
        BY <1>36, SettleOneMoves
    <2>2. applied' = applied
        BY <1>36 DEF SettleOne
    <2> QED BY <2>1, <2>2 DEF Orderly, Own, History, Changes, Finished, InFlightStates
<1>37. ASSUME NEW t \in Turn, SettleUntrack(t) PROVE History'
    BY <1>37, PausingStill
    DEF SettleUntrack, Settle, SettleOff, gate, own, hist, Orderly, Own, History, Changes, Still
<1>38. ASSUME NEW t \in Turn, TurnSettled(t) PROVE History'
    BY <1>38
    DEF TurnSettled, Delivered, SyncSettled, EndWindow, Claim, Settle, SettleOff, Kicked, gate, own,
        hist, Orderly, Own, History
<1>39. ASSUME NEW t \in Turn, ChatAsk(t) PROVE History'
    BY <1>39 DEF ChatAsk, Ask, gate, own, hist, Orderly, Own, History
<1>40. ASSUME NEW q \in Rotator, Rotation(q) PROVE History'
    BY <1>40 DEF Rotation, BeginRotation, EndRotation, Kicked, gate, own, hist, Orderly, Own, History
<1> QED BY <1>1, <1>2, <1>3, <1>4, <1>5, <1>6, <1>7, <1>8, <1>9, <1>10, <1>11, <1>12, <1>13, <1>14,
           <1>15, <1>16, <1>17, <1>18, <1>19, <1>20, <1>21, <1>22, <1>23, <1>24, <1>25, <1>26,
           <1>27, <1>28, <1>29, <1>30, <1>31, <1>32, <1>33, <1>34, <1>35, <1>36, <1>37, <1>38,
           <1>39, <1>40, Excluded
        DEF INext, Dispatcher, Agent, Steering, User, Turns

(* Every step keeps the dispatcher's claim.                                 *)
LEMMA ClaimsNext ==
    ASSUME Orderly, INext
    PROVE  Claims'
<1>1. ASSUME DispLoop PROVE Claims'
    BY <1>1
    DEF DispLoop, gate, own, hist, Orderly, Own, Claims, DispHolds, Typed, RecordsOK, DispRec,
        ItemRec, DispLocked, Names, NoItem, GateInv, TypeOK, flags, NamesOK, SteerLocked, Carried
<1>2. ASSUME DispBusy PROVE Claims'
    BY <1>2
    DEF DispBusy, BackToLoop, ResetRetries, gate, own, hist, Orderly, Own, Claims, DispHolds, Typed,
        RecordsOK, DispRec, ItemRec, DispLocked, Names, NoItem, GateInv, TypeOK, flags, NamesOK,
        SteerLocked, Carried
<1>3. ASSUME DispScan PROVE Claims'
    BY <1>3
    DEF DispScan, BackToLoop, ResetRetries, gate, own, hist, Orderly, Own, Claims, DispHolds, Typed,
        RecordsOK, DispRec, ItemRec, DispLocked, Names, NoItem, GateInv, TypeOK, flags, NamesOK,
        SteerLocked, Carried
<1>4. ASSUME DispRead PROVE Claims'
    <2>1. \/ disp'.pc = "loop"
          \/ disp'.pc = "claim" /\ disp'.item.id = disp.item.id /\ StatusIn(man, disp.item.id) = "queued"
        BY <1>4, ReadTakes, BackTyped DEF Orderly, Typed, RecordsOK
    <2> QED BY <1>4, <2>1 DEF DispRead, Orderly, Own, Claims, DispHolds
<1>5. ASSUME DispClaim PROVE Claims'
    <2>1. disp'.pc = "ask" /\ disp'.item = disp.item /\ pc' = pc /\ item' = item /\ applied' = applied
        BY <1>5 DEF DispClaim, gate, hist, Orderly, Typed, RecordsOK, DispRec
    <2>2. Changes(disp.item.id, {"queued"}, {"running"}) /\ disp.item.id # NoStem
        BY <1>5, ClaimMoves, NoStemAssumption
        DEF DispClaim, Orderly, Typed, NamesOK, DispLocked, ManifestOK
    <2>3. \A t \in Turn : pc[t] = "body" => item[t].id # disp.item.id
        BY <2>2 DEF Orderly, Own, Holders, TurnItemHeld, NoItem, Changes
    <2> QED BY <2>1, <2>2, <2>3 DEF Orderly, Own, Claims, History, Changes
<1>6. ASSUME DispClaimError PROVE Claims'
    BY <1>6
    DEF DispClaimError, BackToLoop, ScheduleRetry, gate, own, hist, Orderly, Own, Claims, DispHolds,
        Typed, RecordsOK, DispRec, ItemRec, DispLocked, Names, NoItem, GateInv, TypeOK, flags,
        NamesOK, SteerLocked, Carried
<1>7. ASSUME DispBlock PROVE Claims'
    BY <1>7, BlockMoves
    DEF DispBlock, gate, own, hist, Orderly, Own, Claims, DispHolds, Changes, Still, Typed,
        RecordsOK, DispRec, ItemRec, DispLocked, Names, NoItem, GateInv, TypeOK, flags, NamesOK,
        SteerLocked, Carried
<1>8. ASSUME DispBlockPause PROVE Claims'
    BY <1>8, PausingStill
    DEF DispBlockPause, BackToLoop, ScheduleRetry, gate, own, hist, Orderly, Own, Claims, DispHolds,
        Changes, Still, Typed, RecordsOK, DispRec, ItemRec, DispLocked, Names, NoItem, GateInv,
        TypeOK, flags, NamesOK, SteerLocked, Carried
<1>9. ASSUME DispAsk PROVE Claims'
    <2>1. /\ disp'.pc \in {"rollback", "admit"} /\ disp'.item = disp.item /\ disp.pc = "ask"
          /\ man' = man /\ applied' = applied
        BY <1>9 DEF DispAsk, hist, Orderly, Typed, RecordsOK, DispRec
    <2>2. \A s \in Turn : pc'[s] = "body" => pc[s] = "body" /\ item'[s] = item[s]
        BY <1>9 DEF DispAsk, Ask, gate, Orderly, Typed, RecordsOK, GateInv, TypeOK
    <2> QED BY <2>1, <2>2 DEF Orderly, Own, Claims, DispHolds
<1>10. ASSUME DispStart PROVE Claims'
    BY <1>10
    DEF DispStart, AdmitStart, Claim, gate, own, hist, Orderly, Own, Claims, DispHolds, Typed,
        RecordsOK, DispRec, ItemRec, DispLocked, Names, NoItem, GateInv, TypeOK, flags, NamesOK,
        SteerLocked, Carried
<1>11. ASSUME DispDrop PROVE Claims'
    BY <1>11
    DEF DispDrop, AdmitDrop, gate, own, hist, Orderly, Own, Claims, DispHolds, Typed, RecordsOK,
        DispRec, ItemRec, DispLocked, Names, NoItem, GateInv, TypeOK, flags, NamesOK, SteerLocked,
        Carried
<1>12. ASSUME DispOnStart PROVE Claims'
    BY <1>12
    DEF DispOnStart, Spawn, gate, own, hist, Orderly, Own, Claims, DispHolds, Typed, RecordsOK,
        DispRec, ItemRec, DispLocked, Names, NoItem, GateInv, TypeOK, flags, NamesOK, SteerLocked,
        Carried
<1>13. ASSUME DispRollback PROVE Claims'
    BY <1>13, RollbackMoves
    DEF DispRollback, gate, own, hist, Orderly, Own, Claims, DispHolds, Changes, Still, Typed,
        RecordsOK, DispRec, ItemRec, DispLocked, Names, NoItem, GateInv, TypeOK, flags, NamesOK,
        SteerLocked, Carried
<1>14. ASSUME DispReturn PROVE Claims'
    BY <1>14
    DEF DispReturn, BackToLoop, ResetRetries, gate, own, hist, Orderly, Own, Claims, DispHolds,
        Typed, RecordsOK, DispRec, ItemRec, DispLocked, Names, NoItem, GateInv, TypeOK, flags,
        NamesOK, SteerLocked, Carried
<1>15. ASSUME RetryFires PROVE Claims'
    BY <1>15
    DEF RetryFires, Kicked, gate, own, hist, Orderly, Own, Claims, DispHolds, Typed, RecordsOK,
        DispRec, ItemRec, DispLocked, Names, NoItem, GateInv, TypeOK, flags, NamesOK, SteerLocked,
        Carried
<1>16. ASSUME AgentRun \/ AgentFinish \/ AgentAbort \/ UserCancelWith PROVE Claims'
    BY <1>16
    DEF AgentRun, AgentFinish, AgentAbort, UserCancelWith, gate, own, hist, Orderly, Own, Claims,
        DispHolds
<1>17. ASSUME AgentConsume PROVE Claims'
    <2>1. \E id \in Waiting : applied' \subseteq applied \cup {id}
        BY <1>17, ConsumeDoes DEF Orderly, Own
    <2> QED BY <1>17, <2>1 DEF AgentConsume, gate, Orderly, Own, Guided, Claims
<1>18. ASSUME AgentMarkConsumed PROVE Claims'
    BY <1>18, ConsumedMoves
    DEF AgentMarkConsumed, gate, own, hist, Orderly, Own, Claims, DispHolds, Changes, Still,
        GateInv, TypeOK, flags, Typed, NamesOK, DispLocked, SteerLocked, Carried, NoItem
<1>19. ASSUME AgentUnapplied PROVE Claims'
    BY <1>19, UnappliedMoves
    DEF AgentUnapplied, gate, own, hist, Orderly, Own, Claims, DispHolds, Changes, Still, GateInv,
        TypeOK, flags, Typed, NamesOK, DispLocked, SteerLocked, Carried, NoItem
<1>20. ASSUME AgentUnown \/ UserBadPause \/ UserCancelResume PROVE Claims'
    BY <1>20, PausingStill
    DEF AgentUnown, UserBadPause, UserCancelResume, UserOff, gate, own, hist, Orderly, Own, Claims,
        DispHolds, Changes, Still, GateInv, TypeOK, flags, Typed, NamesOK, DispLocked, SteerLocked,
        Carried, NoItem
<1>21. ASSUME SteerRead PROVE Claims'
    BY <1>21, SteerReadMoves
        DEF SteerRead, gate, own, hist, Orderly, Own, Claims, DispHolds, Changes, Rescued, GateInv,
            TypeOK, flags, Typed, NamesOK, DispLocked, SteerLocked, Carried, NoItem, Locks,
            InFlightStates
<1>22. ASSUME SteerMark PROVE Claims'
    <2>1. disp.pc # "claim" /\ disp.pc \notin DispHolds
        BY <1>22 DEF SteerMark, Orderly, Own, Locks, DispLocked, DispHolds, SteerLocked
    <2> QED BY <1>22, <2>1 DEF SteerMark, Claims
<1>23. ASSUME SteerEnqueue PROVE Claims'
    BY <1>23 DEF SteerEnqueue, SteerTo, gate, own, hist, Orderly, Own, Claims, DispHolds
<1>24. ASSUME SteerRequeue PROVE Claims'
    BY <1>24, SteerRequeueMoves
    DEF SteerRequeue, SteerTo, gate, own, hist, Orderly, Own, Claims, DispHolds, Changes, Still,
        GateInv, TypeOK, flags, Typed, NamesOK, DispLocked, SteerLocked, Carried, NoItem
<1>25. ASSUME SteerConvert PROVE Claims'
    BY <1>25, SteerConvertStill
    DEF SteerConvert, SteerTo, gate, own, hist, Orderly, Own, Claims, DispHolds, Changes, Still,
        GateInv, TypeOK, flags, Typed, NamesOK, DispLocked, SteerLocked, Carried, NoItem
<1>26. ASSUME SteerReturn PROVE Claims'
    BY <1>26
    DEF SteerReturn, Kicked, SteerOff, gate, own, hist, Orderly, Own, Claims, DispHolds, Typed,
        RecordsOK, DispRec, ItemRec, DispLocked, Names, NoItem, GateInv, TypeOK, flags, NamesOK,
        SteerLocked, Carried
<1>27. ASSUME NEW intent \in Intents, UserEnqueue(intent) PROVE Claims'
    <2>1. PICK id \in Stem \ used, b \in Bodies :
              /\ Changes(id, {"gone"}, {"queued"}) /\ Worded /\ TextIn(man', id) = b /\ user.pc = "off"
              /\ used' = used \cup {id}
              /\ user'.id = id /\ user'.pc = (IF b = "badref" THEN "badref" ELSE intent)
        BY <1>27, UserEnqueueMoves
    <2> QED BY <1>27, <2>1
            DEF UserEnqueue, gate, own, hist, Orderly, Own, Claims, DispHolds, Changes, Still,
                GateInv, TypeOK, flags, Typed, NamesOK, DispLocked, SteerLocked, Carried, NoItem
<1>28. ASSUME UserBadRef PROVE Claims'
    BY <1>28, UserBadRefMoves
    DEF UserBadRef, gate, own, hist, Orderly, Own, Claims, DispHolds, Changes, Still, GateInv,
        TypeOK, flags, Typed, NamesOK, DispLocked, SteerLocked, Carried, NoItem
<1>29. ASSUME UserFollowup PROVE Claims'
    BY <1>29
    DEF UserFollowup, UserOff, CommandKick, Kicked, gate, own, hist, Orderly, Own, Claims, DispHolds, Typed,
        RecordsOK, DispRec, ItemRec, DispLocked, Names, NoItem, GateInv, TypeOK, flags, NamesOK,
        SteerLocked, Carried
<1>30. ASSUME UserSteer PROVE Claims'
    BY <1>30 DEF UserSteer, UserOff, SteerOff, gate, own, hist, Orderly, Own, Claims, DispHolds
<1>31. ASSUME NEW p \in BOOLEAN, UserPause(p) PROVE Claims'
    BY <1>31, PausingStill
    DEF UserPause, CommandKick, Kicked, gate, own, hist, Orderly, Own, Claims, DispHolds, Changes, Still, Typed,
        RecordsOK, DispRec, ItemRec, DispLocked, Names, NoItem, GateInv, TypeOK, flags, NamesOK,
        SteerLocked, Carried
<1>32. ASSUME UserRetry PROVE Claims'
    <2>1. PICK id \in used : /\ Changes(id, {"uncertain", "blocked"}, {"queued"}) /\ Worded
                            /\ applied' = applied \ {id}
        BY <1>32, UserRetryMoves
    <2> QED BY <1>32, <2>1
            DEF UserRetry, CommandKick, Kicked, gate, own, hist, Orderly, Own, Claims, DispHolds, Changes, Still,
                Typed, RecordsOK, DispRec, ItemRec, DispLocked, Names, NoItem, GateInv, TypeOK,
                flags, NamesOK, SteerLocked, Carried
<1>33. ASSUME UserEdit PROVE Claims'
    BY <1>33, UserEditMoves
    DEF UserEdit, gate, own, hist, Orderly, Own, Claims, DispHolds, Changes, Still, GateInv, TypeOK,
        flags, Typed, NamesOK, DispLocked, SteerLocked, Carried, NoItem
<1>34. ASSUME UserCancelPause PROVE Claims'
    BY <1>34, PausingStill
    DEF UserCancelPause, UserTo, gate, own, hist, Orderly, Own, Claims, DispHolds, Changes, Still,
        GateInv, TypeOK, flags, Typed, NamesOK, DispLocked, SteerLocked, Carried, NoItem
<1>35. ASSUME UserCancelDiscard PROVE Claims'
    <2>1. UNCHANGED <<pc, item, disp, applied>>
        BY <1>35 DEF UserCancelDiscard, gate, hist
    <2> QED BY <1>35, <2>1, DiscardMoves DEF Orderly, Own, Claims, Changes, Still, Pending
<1>36. ASSUME UserCancelTurn PROVE Claims'
    BY <1>36 DEF UserCancelTurn, UserOff, Cancel, gate, own, hist, Orderly, Own, Claims, DispHolds
<1>37. ASSUME InboxSnapshot PROVE Claims'
    BY <1>37, SnapshotRescues
        DEF InboxSnapshot, gate, own, hist, Orderly, Own, Claims, DispHolds, Changes, Rescued,
            GateInv, TypeOK, flags, Typed, NamesOK, DispLocked, SteerLocked, Carried, NoItem, Locks,
            InFlightStates
<1>38. ASSUME Teardown PROVE Claims'
    BY <1>38
    DEF Teardown, Close, LoseAuthority, gate, own, hist, Orderly, Own, Claims, DispHolds, GateInv,
        TypeOK, flags, Typed, NamesOK, DispLocked, SteerLocked, Carried, NoItem
<1>39. ASSUME NEW t \in Turn, TurnAdmit(t) PROVE Claims'
    BY <1>39
    DEF TurnAdmit, AdmitStart, AdmitPark, AdmitDrop, Claim, gate, own, hist, Orderly, Own, Claims,
        DispHolds, Typed, RecordsOK, ItemRec, Names, NoItem, GateInv, TypeOK, flags, NamesOK,
        DispLocked, SteerLocked, Carried
<1>40. ASSUME NEW t \in Turn, TurnSpawn(t) PROVE Claims'
    <2>1. UNCHANGED <<item, disp, man, applied>> /\ disp.turn # t /\ item[t] = NoItem
        BY <1>40 DEF TurnSpawn, hist
    <2>2. \A s \in Turn : pc'[s] = IF s = t THEN "body" ELSE pc[s]
        BY <1>40 DEF TurnSpawn, Spawn, Orderly, GateInv, TypeOK
    <2>3. disp.pc \in DispHolds => disp.item.id # NoStem
        BY NoStemAssumption DEF Orderly, Typed, NamesOK, ManifestOK, DispLocked
    <2> QED BY <2>1, <2>2, <2>3 DEF Orderly, Own, Claims, NoItem
<1>41. ASSUME NEW t \in Turn, TurnBodyEnds(t) PROVE Claims'
    BY <1>41
    DEF TurnBodyEnds, BodyEnds, SyncEnds, FinishGuarded, Release, Settle, SettleOff, gate, own,
        hist, Orderly, Own, Claims, DispHolds, Typed, RecordsOK, ItemRec, Names, NoItem, GateInv,
        TypeOK, flags, NamesOK, DispLocked, SteerLocked, Carried
<1>42. ASSUME NEW t \in Turn, SettleCapture(t) PROVE Claims'
    BY <1>42 DEF SettleCapture, Settle, SettleOff, gate, own, hist, Orderly, Own, Claims, DispHolds
<1>43. ASSUME NEW t \in Turn, SettleOne(t) PROVE Claims'
    <2>1. PICK id \in settle[t].left :
              /\ Changes(id, InFlightStates, InFlightStates \cup {"gone", "uncertain"}) /\ Worded
                 /\ Finished(id)
              /\ StatusIn(man', id) \in InFlightStates => id \in unsaved'
              /\ acked' = acked \/ (acked' = acked \cup {id} /\ StatusIn(man', id) = "gone")
              /\ \A s \in Turn : /\ settle'[s].pc = settle[s].pc /\ settle'[s].ids = settle[s].ids
                                 /\ settle'[s].left = IF s = t THEN settle[s].left \ {id} ELSE settle[s].left
        BY <1>43, SettleOneMoves
    <2>2. UNCHANGED <<pc, item, disp, applied>>
        BY <1>43 DEF SettleOne, gate
    <2>3. disp.pc = "claim" \/ disp.pc \in DispHolds => id # disp.item.id
        BY <2>1 DEF Orderly, Own, Claims, Changes, Finished, InFlightStates
    <2> QED BY <2>1, <2>2, <2>3 DEF Orderly, Own, Claims, Changes
<1>44. ASSUME NEW t \in Turn, SettleUntrack(t) PROVE Claims'
    BY <1>44, PausingStill
    DEF SettleUntrack, Settle, SettleOff, gate, own, hist, Orderly, Own, Claims, DispHolds, Changes,
        Still, GateInv, TypeOK, flags, Typed, NamesOK, DispLocked, SteerLocked, Carried, NoItem
<1>45. ASSUME NEW t \in Turn, TurnSettled(t) PROVE Claims'
    <2>1. Delivered(t) /\ item' = item /\ man' = man /\ applied' = applied /\ disp'.item = disp.item
          /\ (disp'.pc = disp.pc \/ (disp.pc = "off" /\ disp'.pc = "loop"))
        BY <1>45, KickDoes DEF TurnSettled, SyncSettled, hist, Orderly, Own, Settling, Typed, RecordsOK
    <2>2. \A s \in Turn : pc'[s] = "body" => pc[s] = "body" \/ pc[s] = "parked"
        BY <2>1, WindowEnds DEF Orderly, Own
    <2>3. \A s \in Turn : pc[s] = "parked" => item[s].id = NoStem
        BY DEF Orderly, Own, Carried, NoItem
    <2>4. disp.pc \in DispHolds => disp.item.id # NoStem
        BY NoStemAssumption DEF Orderly, Typed, NamesOK, ManifestOK, DispLocked
    <2> QED BY <2>1, <2>2, <2>3, <2>4 DEF Orderly, Own, Claims, DispHolds
<1>46. ASSUME NEW t \in Turn, ChatAsk(t) PROVE Claims'
    BY <1>46
    DEF ChatAsk, Ask, gate, own, hist, Orderly, Own, Claims, DispHolds, GateInv, TypeOK, flags,
        Typed, NamesOK, DispLocked, SteerLocked, Carried, NoItem
<1>47. ASSUME NEW q \in Rotator, Rotation(q) PROVE Claims'
    <2>1. pc' = pc /\ item' = item /\ man' = man /\ applied' = applied /\ disp'.item = disp.item
          /\ (disp'.pc = disp.pc \/ (disp.pc = "off" /\ disp'.pc = "loop"))
        BY <1>47, KickDoes
        DEF Rotation, BeginRotation, EndRotation, hist, gate, Orderly, Typed, RecordsOK
    <2> QED BY <2>1 DEF Orderly, Own, Claims, DispHolds
<1> QED BY <1>1, <1>2, <1>3, <1>4, <1>5, <1>6, <1>7, <1>8, <1>9, <1>10, <1>11, <1>12, <1>13, <1>14,
           <1>15, <1>16, <1>17, <1>18, <1>19, <1>20, <1>21, <1>22, <1>23, <1>24, <1>25, <1>26,
           <1>27, <1>28, <1>29, <1>30, <1>31, <1>32, <1>33, <1>34, <1>35, <1>36, <1>37, <1>38,
           <1>39, <1>40, <1>41, <1>42, <1>43, <1>44, <1>45, <1>46, <1>47, Excluded
        DEF INext, Dispatcher, Agent, Steering, User, Turns

(* The steers handed back and the ones waiting are all the agent's.         *)
LEMMA FlushHeld ==
    ASSUME Typed
    PROVE  HandedBack \subseteq Steered /\ Waiting \subseteq Steered
<1>1. agent.pc = "unowned" => agent.flush \in Seq(Stem) /\ agent.flush # <<>>
    BY DEF Typed, RecordsOK, NamesOK, AgentRec
<1>2. agent.pc = "unowned" => Head(agent.flush) \in ToSet(agent.flush)
    BY <1>1, FrontPopped
<1> QED BY <1>2 DEF HandedBack, Steered, Waiting

(* Every step keeps the agent's steers accepted and owned.                  *)
LEMMA GuidedNext ==
    ASSUME Orderly, INext
    PROVE  Guided'
<1>0. unsaved \subseteq unsaved'
    BY UnsavedGrows
<1>1. ASSUME DispLoop \/ DispBusy \/ DispScan \/ DispRead \/ DispClaimError \/ DispReturn
      PROVE  Guided'
    BY <1>0, <1>1, AgentKept
    DEF DispLoop, DispBusy, DispScan, DispRead, DispClaimError, DispReturn, BackToLoop,
        ResetRetries, ScheduleRetry, gate, own, hist, Orderly, Own, Guided, Bodyful, Typed,
        RecordsOK, DispRec, ItemRec, DispLocked, DispHolds, Names, NoItem, GateInv, TypeOK, flags,
        InFlightStates, Pending
<1>2. ASSUME DispClaim PROVE Guided'
    <2>1. disp'.pc = "ask" /\ disp'.item = disp.item /\ UNCHANGED <<pc, active, applied, agent>>
        BY <1>2 DEF DispClaim, gate, hist, Orderly, Typed, RecordsOK, DispRec
    <2> QED BY <1>0, <1>2, <2>1, ClaimMoves, AgentKept DEF Orderly, Own, Guided, Bodyful, DispHolds, Changes
<1>3. ASSUME DispBlock PROVE Guided'
    BY <1>0, <1>3, BlockMoves, AgentKept
    DEF DispBlock, gate, own, hist, Orderly, Own, Guided, Bodyful, Changes, Still, Typed, RecordsOK,
        DispRec, ItemRec, DispLocked, DispHolds, Names, NoItem, GateInv, TypeOK, flags,
        InFlightStates, Pending
<1>4. ASSUME DispBlockPause PROVE Guided'
    BY <1>0, <1>4, PausingStill, AgentKept
    DEF DispBlockPause, BackToLoop, ScheduleRetry, gate, own, hist, Orderly, Own, Guided, Bodyful,
        Changes, Still, Typed, RecordsOK, DispRec, ItemRec, DispLocked, DispHolds, Names, NoItem,
        GateInv, TypeOK, flags, InFlightStates, Pending
<1>5. ASSUME DispAsk PROVE Guided'
    <2>1. /\ disp'.pc \in {"rollback", "admit"} /\ disp'.item = disp.item /\ disp.pc = "ask"
          /\ man' = man /\ applied' = applied /\ active' = active /\ agent' = agent
        BY <1>5 DEF DispAsk, hist, own, Orderly, Typed, RecordsOK, DispRec
    <2>2. Bodyful => Bodyful'
        BY <1>5 DEF DispAsk, Ask, gate, Bodyful, Orderly, GateInv, TypeOK
    <2> QED BY <1>0, <2>1, <2>2, AgentKept DEF Orderly, Own, Guided, DispHolds
<1>6. ASSUME DispStart PROVE Guided'
    <2>1. disp'.pc = "onstart" /\ disp'.item = disp.item /\ disp.pc = "admit"
          /\ UNCHANGED <<man, active, applied, agent>>
        BY <1>6 DEF DispStart, own, hist, Orderly, Typed, RecordsOK, DispRec
    <2>2. Bodyful => Bodyful'
        BY <1>6 DEF DispStart, AdmitStart, Bodyful, Orderly, GateInv, TypeOK
    <2> QED BY <1>0, <2>1, <2>2, AgentKept DEF Orderly, Own, Guided, DispHolds
<1>7. ASSUME DispDrop PROVE Guided'
    BY <1>0, <1>7, AgentKept
    DEF DispDrop, AdmitDrop, gate, own, hist, Orderly, Own, Guided, Bodyful, Typed, RecordsOK,
        DispRec, ItemRec, DispLocked, DispHolds, Names, NoItem, GateInv, TypeOK, flags,
        InFlightStates, Pending
<1>8. ASSUME DispOnStart PROVE Guided'
    <2>1. /\ disp.turn \in Turn /\ pc[disp.turn] = "starting" /\ active' = active \cup {disp.item.id}
          /\ UNCHANGED <<man, applied, agent>>
        BY <1>8 DEF DispOnStart, Spawn, hist, Orderly, Typed, NamesOK
    <2>2. ~Bodyful
        BY <2>1 DEF Bodyful, Orderly, GateInv, OneTurnInFlight, InFlight
    <2>3. agent.pc = "off"
        BY <2>2 DEF Orderly, Own, Guided
    <2> QED BY <2>1, <2>3, AgentKept, AgentOff DEF Orderly, Own, Guided
<1>9. ASSUME DispRollback PROVE Guided'
    <2>1. disp'.pc \in {"return", "error"} /\ disp'.item = disp.item /\ disp.pc = "rollback"
          /\ UNCHANGED <<pc, active, applied, agent>>
        BY <1>9 DEF DispRollback, gate, own, hist, Orderly, Typed, RecordsOK, DispRec
    <2> QED BY <1>0, <1>9, <2>1, RollbackMoves, AgentKept
            DEF Orderly, Own, Guided, Bodyful, DispHolds, Changes, InFlightStates
<1>10. ASSUME RetryFires \/ UserFollowup PROVE Guided'
    BY <1>0, <1>10, AgentKept
    DEF RetryFires, UserFollowup, UserOff, CommandKick, Kicked, gate, own, hist, Orderly, Own, Guided, Bodyful,
        Typed, RecordsOK, DispRec, ItemRec, DispLocked, DispHolds, Names, NoItem, GateInv, TypeOK,
        flags, InFlightStates, Pending
<1>11. ASSUME AgentRun PROVE Guided'
    <2>1. UNCHANGED <<man, active, applied, pc>> /\ Bodyful
        BY <1>11 DEF AgentRun, gate, own, hist, Bodyful
    <2>2. Bodyful'
        BY <2>1 DEF Bodyful
    <2> QED BY <1>11, <2>1, <2>2, RunDoes DEF Orderly, Own, Guided
<1>12. ASSUME AgentConsume PROVE Guided'
    <2>1. UNCHANGED <<man, active, pc, disp>> /\ Bodyful
        BY <1>12 DEF AgentConsume, gate, own, Orderly, Own, Guided
    <2>2. Bodyful'
        BY <2>1 DEF Bodyful
    <2> QED BY <1>0, <1>12, <2>1, <2>2, ConsumeDoes DEF Orderly, Own, Guided
<1>13. ASSUME AgentMarkConsumed PROVE Guided'
    <2>1. UNCHANGED <<active, pc, disp, applied>> /\ Bodyful /\ agent.pc = "applied"
        BY <1>13 DEF AgentMarkConsumed, gate, own, hist, Orderly, Own, Guided
    <2>2. Bodyful'
        BY <2>1 DEF Bodyful
    <2> QED BY <1>0, <1>13, <2>1, <2>2, MarkDoes, ConsumedMoves DEF Orderly, Own, Guided, Changes
<1>14. ASSUME AgentFinish PROVE Guided'
    <2>1. UNCHANGED <<man, active, pc, disp, applied>>
        BY <1>14 DEF AgentFinish, gate, own, hist
    <2> QED BY <1>14, <2>1, FinishDoes DEF Orderly, Own, Guided
<1>15. ASSUME AgentAbort PROVE Guided'
    <2>1. UNCHANGED <<man, active, pc, disp, applied>> /\ Bodyful
        BY <1>15 DEF AgentAbort, gate, own, hist, Orderly, Own, Guided
    <2>2. Bodyful'
        BY <2>1 DEF Bodyful
    <2> QED BY <1>0, <1>15, <2>1, <2>2, AbortDoes DEF Orderly, Own, Guided
<1>16. ASSUME AgentUnapplied PROVE Guided'
    <2>1. UNCHANGED <<active, pc, disp, applied>> /\ Bodyful
        BY <1>16 DEF AgentUnapplied, gate, own, hist, Orderly, Own, Guided
    <2>2. Bodyful'
        BY <2>1 DEF Bodyful
    <2> QED BY <1>0, <1>16, <2>1, <2>2, UnappliedDoes, UnappliedMoves
            DEF Orderly, Own, Guided, Changes, InFlightStates
<1>17. ASSUME AgentUnown PROVE Guided'
    <2>1. UNCHANGED <<pc, disp, applied>> /\ Bodyful /\ active' = active \ {Head(agent.flush)}
        BY <1>17 DEF AgentUnown, gate, hist, Orderly, Own, Guided
    <2>2. Bodyful'
        BY <2>1 DEF Bodyful
    <2> QED BY <1>17, <2>1, <2>2, UnownDoes, PausingStill DEF Orderly, Own, Guided, Still
<1>18. ASSUME SteerRead PROVE Guided'
    <2>1. UNCHANGED <<pc, disp, agent, active>>
        BY <1>18 DEF SteerRead, gate, own
    <2>2. HandedBack \subseteq active /\ Waiting \subseteq active
          /\ (agent.pc = "applied" => agent.id \in active)
        BY FlushHeld DEF Orderly, Own, Guided, Lists, Steered
    <2> QED BY <1>0, <1>18, <2>1, <2>2, SteerReadMoves, AgentKept
            DEF Orderly, Own, Guided, Bodyful, Changes, Rescued, InFlightStates
<1>19. ASSUME SteerMark PROVE Guided'
    <2>1. UNCHANGED <<pc, disp, applied, agent, active>> /\ steer.id \notin Steered
        BY <1>19 DEF SteerMark, gate, hist, Orderly, Own, Commands
    <2>2. HandedBack \subseteq Steered
        BY FlushHeld DEF Orderly
    <2> QED BY <1>0, <1>19, <2>1, <2>2, SteerMarkMoves, AgentKept
            DEF Orderly, Own, Guided, Bodyful, Changes, Still
<1>20. ASSUME SteerEnqueue PROVE Guided'
    <2>1. UNCHANGED <<man, pc, disp, applied>> /\ steer.id \notin Steered
        BY <1>20 DEF SteerEnqueue, gate, hist, Orderly, Own, Commands
    <2>2. Bodyful => Bodyful'
        BY <2>1 DEF Bodyful
    <2>3. StatusIn(man, steer.id) = "steer_accepted" /\ steer.id \notin applied
        BY <1>20 DEF SteerEnqueue, Orderly, Own, Commands
    <2>4. agent' = agent \/ (Waiting' = Waiting \cup {steer.id} /\ Steered' = Steered \cup {steer.id} /\ HandedBack' = HandedBack
             /\ agent'.pc = agent.pc /\ agent'.id = agent.id /\ active' = active \cup {steer.id})
        BY <1>20, <2>1, EnqueueDoes DEF Orderly, Own
    <2>5. active \subseteq active'
        BY <1>20 DEF SteerEnqueue
    <2> QED BY <1>0, <2>1, <2>2, <2>3, <2>4, <2>5, AgentKept DEF Orderly, Own, Guided
<1>21. ASSUME SteerRequeue PROVE Guided'
    <2>1. UNCHANGED <<pc, disp, applied, agent, active>> /\ steer.id \notin Steered
        BY <1>21 DEF SteerRequeue, gate, hist, own, Orderly, Own, Commands
    <2>2. HandedBack \subseteq Steered /\ Waiting \subseteq Steered
          /\ (agent.pc = "applied" => agent.id \in Steered)
        BY FlushHeld DEF Orderly, Own, Lists, Steered
    <2> QED BY <1>0, <1>21, <2>1, <2>2, SteerRequeueMoves, AgentKept
            DEF Orderly, Own, Guided, Bodyful, Changes
<1>22. ASSUME SteerConvert PROVE Guided'
    BY <1>0, <1>22, SteerConvertStill, AgentKept
    DEF SteerConvert, SteerTo, gate, own, hist, Orderly, Own, Guided, Bodyful, Changes, Still,
        GateInv, TypeOK, flags, DispHolds, InFlightStates, Pending
<1>23. ASSUME SteerReturn PROVE Guided'
    BY <1>23, AgentKept
    DEF SteerReturn, Kicked, SteerOff, gate, own, hist, Orderly, Own, Guided, Bodyful, Typed,
        RecordsOK, DispRec, ItemRec, DispLocked, DispHolds, Names, NoItem, GateInv, TypeOK, flags,
        InFlightStates, Pending
<1>24. ASSUME NEW intent \in Intents, UserEnqueue(intent) PROVE Guided'
    <2>1. PICK id \in Stem \ used, b \in Bodies :
              /\ Changes(id, {"gone"}, {"queued"}) /\ Worded /\ TextIn(man', id) = b /\ user.pc = "off"
              /\ used' = used \cup {id}
              /\ user'.id = id /\ user'.pc = (IF b = "badref" THEN "badref" ELSE intent)
        BY <1>24, UserEnqueueMoves
    <2>2. UNCHANGED <<pc, agent, active>> /\ disp'.item = disp.item
          /\ (disp'.pc = disp.pc \/ (disp.pc = "off" /\ disp'.pc = "loop"))
        BY <1>24, KickDoes DEF UserEnqueue, gate, own, Orderly, Typed, RecordsOK
    <2>3. applied' \subseteq applied /\ (agent.id \in applied => agent.id \in applied' \/ agent.id = id)
        BY <1>24, <2>1 DEF UserEnqueue, hist
    <2> QED BY <1>0, <1>24, <2>1, <2>2, <2>3, AgentKept
            DEF Orderly, Own, Guided, Bodyful, DispHolds, Changes, InFlightStates
<1>25. ASSUME UserBadRef PROVE Guided'
    BY <1>0, <1>25, UserBadRefMoves, AgentKept
    DEF UserBadRef, gate, own, hist, Orderly, Own, Guided, Bodyful, Changes, Still, GateInv, TypeOK,
        flags, DispHolds, InFlightStates, Pending
<1>26. ASSUME UserBadPause \/ UserCancelResume PROVE Guided'
    BY <1>0, <1>26, PausingStill, AgentKept
    DEF UserBadPause, UserCancelResume, UserOff, gate, own, hist, Orderly, Own, Guided, Bodyful,
        Changes, Still, GateInv, TypeOK, flags, DispHolds, InFlightStates, Pending
<1>27. ASSUME UserSteer PROVE Guided'
    BY <1>27, AgentKept DEF UserSteer, UserOff, SteerOff, gate, own, hist, Orderly, Own, Guided, Bodyful
<1>28. ASSUME NEW p \in BOOLEAN, UserPause(p) PROVE Guided'
    BY <1>0, <1>28, PausingStill, AgentKept
    DEF UserPause, CommandKick, Kicked, gate, own, hist, Orderly, Own, Guided, Bodyful, Changes, Still, Typed,
        RecordsOK, DispRec, ItemRec, DispLocked, DispHolds, Names, NoItem, GateInv, TypeOK, flags,
        InFlightStates, Pending
<1>29. ASSUME UserRetry PROVE Guided'
    <2>1. PICK id \in used : /\ Changes(id, {"uncertain", "blocked"}, {"queued"}) /\ Worded
                            /\ applied' = applied \ {id}
        BY <1>29, UserRetryMoves
    <2>2. UNCHANGED <<pc, agent, active>> /\ disp'.item = disp.item
          /\ (disp'.pc = disp.pc \/ (disp.pc = "off" /\ disp'.pc = "loop"))
        BY <1>29, KickDoes DEF UserRetry, gate, own, Orderly, Typed, RecordsOK
    <2>3. applied' \subseteq applied /\ (agent.id \in applied => agent.id \in applied' \/ agent.id = id)
        BY <1>29, <2>1 DEF UserRetry, hist
    <2> QED BY <1>0, <1>29, <2>1, <2>2, <2>3, AgentKept
            DEF Orderly, Own, Guided, Bodyful, DispHolds, Changes, InFlightStates
<1>30. ASSUME UserEdit PROVE Guided'
    BY <1>0, <1>30, UserEditMoves, AgentKept
    DEF UserEdit, gate, own, hist, Orderly, Own, Guided, Bodyful, Changes, Still, GateInv, TypeOK,
        flags, DispHolds, InFlightStates, Pending
<1>31. ASSUME UserCancelWith PROVE Guided'
    BY <1>31, AgentKept DEF UserCancelWith, gate, own, hist, Orderly, Own, Guided, Bodyful
<1>32. ASSUME UserCancelPause PROVE Guided'
    BY <1>0, <1>32, PausingStill, AgentKept
    DEF UserCancelPause, UserTo, gate, own, hist, Orderly, Own, Guided, Bodyful, Changes, Still,
        GateInv, TypeOK, flags, DispHolds, InFlightStates, Pending
<1>33. ASSUME UserCancelDiscard PROVE Guided'
    BY <1>0, <1>33, DiscardMoves, AgentKept
    DEF UserCancelDiscard, UserTo, gate, own, hist, Orderly, Own, Guided, Bodyful, Changes, Still,
        GateInv, TypeOK, flags, DispHolds, InFlightStates, Pending
<1>34. ASSUME UserCancelTurn PROVE Guided'
    BY <1>34, AgentKept
    DEF UserCancelTurn, UserOff, Cancel, gate, own, hist, Orderly, Own, Guided, Bodyful
<1>35. ASSUME InboxSnapshot PROVE Guided'
    <2>1. UNCHANGED <<pc, disp, agent, active, applied>>
        BY <1>35 DEF InboxSnapshot, gate, own, hist
    <2>2. HandedBack \subseteq active /\ Waiting \subseteq active
          /\ (agent.pc = "applied" => agent.id \in active)
        BY FlushHeld DEF Orderly, Own, Guided, Lists, Steered
    <2> QED BY <1>0, <1>35, <2>1, <2>2, SnapshotRescues, AgentKept
            DEF Orderly, Own, Guided, Bodyful, Rescued
<1>36. ASSUME Teardown PROVE Guided'
    <2>1. UNCHANGED <<man, active, disp, applied, agent>>
        BY <1>36 DEF Teardown, own, hist
    <2>2. Bodyful => Bodyful'
        BY <1>36, ClosedDown DEF Bodyful, Orderly
    <2> QED BY <1>0, <2>1, <2>2, AgentKept DEF Orderly, Own, Guided
<1>37. ASSUME NEW t \in Turn, TurnAdmit(t) PROVE Guided'
    BY <1>0, <1>37, AgentKept
    DEF TurnAdmit, AdmitStart, AdmitPark, AdmitDrop, Claim, gate, own, hist, Orderly, Own, Guided,
        Bodyful, GateInv, TypeOK, flags, DispHolds, InFlightStates, Pending
<1>38. ASSUME NEW t \in Turn, TurnSpawn(t) PROVE Guided'
    BY <1>0, <1>38, AgentKept
    DEF TurnSpawn, Spawn, gate, own, hist, Orderly, Own, Guided, Bodyful, GateInv, TypeOK, flags,
        DispHolds, InFlightStates, Pending
<1>39. ASSUME NEW t \in Turn, TurnBodyEnds(t) PROVE Guided'
    <2>1. UNCHANGED <<man, active, disp, agent>> /\ agent.pc = "off"
        BY <1>39 DEF TurnBodyEnds, own
    <2> QED BY <2>1, AgentKept, AgentOff DEF Orderly, Own, Guided
<1>40. ASSUME NEW t \in Turn, SettleCapture(t) PROVE Guided'
    BY <1>40, AgentKept
    DEF SettleCapture, Settle, SettleOff, gate, own, hist, Orderly, Own, Guided, Bodyful
<1>41. ASSUME NEW t \in Turn, SettleOne(t) PROVE Guided'
    <2>1. UNCHANGED <<pc, disp, applied, agent, active>> /\ pc[t] = "delivering"
        BY <1>41 DEF SettleOne, gate, own, Orderly, Own, Settling
    <2>2. agent.pc = "off"
        BY <2>1 DEF Bodyful, Orderly, Own, Guided, DeliveryAlone
    <2> QED BY <2>1, <2>2, AgentKept, AgentOff DEF Orderly, Own, Guided
<1>42. ASSUME NEW t \in Turn, SettleUntrack(t) PROVE Guided'
    <2>1. UNCHANGED <<pc, disp, applied, agent>> /\ pc[t] = "delivering"
        BY <1>42 DEF SettleUntrack, gate, hist, Orderly, Own, Settling
    <2>2. agent.pc = "off"
        BY <2>1 DEF Bodyful, Orderly, Own, Guided, DeliveryAlone
    <2> QED BY <2>1, <2>2, AgentKept, AgentOff DEF Orderly, Own, Guided
<1>43. ASSUME NEW t \in Turn, TurnSettled(t) PROVE Guided'
    <2>1. UNCHANGED <<man, active, agent, applied>> /\ Delivered(t)
        BY <1>43 DEF TurnSettled, SyncSettled, hist, own, Orderly, Own, Settling
    <2>2. ~Bodyful
        BY <2>1, WindowEnds DEF Bodyful, Orderly, Own
    <2>3. agent.pc = "off"
        BY <2>2 DEF Orderly, Own, Guided
    <2> QED BY <2>1, <2>3, AgentKept, AgentOff DEF Orderly, Own, Guided
<1>44. ASSUME NEW t \in Turn, ChatAsk(t) PROVE Guided'
    BY <1>0, <1>44, AgentKept
    DEF ChatAsk, Ask, gate, own, hist, Orderly, Own, Guided, Bodyful, GateInv, TypeOK, flags,
        DispHolds, InFlightStates, Pending
<1>45. ASSUME NEW q \in Rotator, Rotation(q) PROVE Guided'
    <2>1. UNCHANGED <<man, active, pc, applied, agent>> /\ disp'.item = disp.item
          /\ (disp'.pc = disp.pc \/ (disp.pc = "off" /\ disp'.pc = "loop"))
        BY <1>45, KickDoes
        DEF Rotation, BeginRotation, EndRotation, hist, own, Orderly, Typed, RecordsOK
    <2> QED BY <1>0, <2>1, AgentKept DEF Orderly, Own, Guided, Bodyful, DispHolds
<1> QED BY <1>1, <1>2, <1>3, <1>4, <1>5, <1>6, <1>7, <1>8, <1>9, <1>10, <1>11, <1>12, <1>13, <1>14,
           <1>15, <1>16, <1>17, <1>18, <1>19, <1>20, <1>21, <1>22, <1>23, <1>24, <1>25, <1>26,
           <1>27, <1>28, <1>29, <1>30, <1>31, <1>32, <1>33, <1>34, <1>35, <1>36, <1>37, <1>38,
           <1>39, <1>40, <1>41, <1>42, <1>43, <1>44, <1>45, Excluded
        DEF INext, Dispatcher, Agent, Steering, User, Turns

(* Who moves the agent.                                                     *)
LEMMA AgentMoves ==
    ASSUME INext
    PROVE  agent' = agent \/ Agent \/ SteerEnqueue
    BY
    DEF INext, Dispatcher, Agent, Steering, User, Turns, DispLoop, DispBusy, DispScan,
        DispRead, DispClaim, DispClaimError, DispBlock, DispBlockPause, DispAsk, DispStart,
        DispDrop, DispOnStart, DispRollback, DispReturn, RetryFires, SteerRead, SteerMark,
        SteerRequeue, SteerConvert, SteerReturn, UserEnqueue, UserBadRef, UserBadPause,
        UserFollowup, UserSteer, UserPause, UserRetry, UserEdit, UserDelete, UserDeleteItem,
        UserUnaccept, UserCancelWith, UserCancelPause, UserCancelDiscard, UserCancelTurn,
        UserCancelResume, InboxSnapshot, Rotation, Teardown, ChatAsk, RunItemAsk,
        RunItemBlocks, RunItemRead, RunItemBlock, RunItemPause, TurnAdmit, TurnSpawn,
        RunItemClaim, TurnBodyEnds, SettleCapture, SettleOne, SettleUntrack, TurnSettled

(* Every step keeps what was handed back out of the running turn.           *)
LEMMA ReturnedNext ==
    ASSUME Orderly, INext
    PROVE  Returned'
<1>1. ASSUME NEW t \in Turn, pc'[t] = "body"
      PROVE  (pc[t] = "body" /\ item'[t] = item[t]) \/ (agent' = agent /\ ~Bodyful)
    <2>1. CASE DispAsk \/ DispStart \/ DispDrop
        BY <1>1, <2>1
        DEF DispAsk, DispStart, DispDrop, Ask, AdmitStart, AdmitDrop, gate, Orderly, GateInv,
            TypeOK, Typed, RecordsOK, NamesOK
    <2>2. CASE DispOnStart \/ \E u \in Turn : TurnSpawn(u)
        <3>1. PICK u \in Turn : Spawn(u) /\ UNCHANGED <<item, agent>>
            BY <2>2 DEF DispOnStart, TurnSpawn, Orderly, Typed, NamesOK
        <3>2. pc[u] = "starting" /\ ~Bodyful
            BY <3>1 DEF Spawn, Bodyful, Orderly, GateInv, OneTurnInFlight, InFlight
        <3> QED BY <3>1, <3>2
    <2>3. CASE \E u \in Turn : TurnAdmit(u) \/ ChatAsk(u)
        BY <1>1, <2>3
        DEF TurnAdmit, ChatAsk, Ask, AdmitStart, AdmitPark, AdmitDrop, Orderly, GateInv, TypeOK,
            Typed, RecordsOK
    <2>4. CASE \E u \in Turn : TurnBodyEnds(u)
        BY <1>1, <2>4, BodyDone DEF TurnBodyEnds, Orderly, Typed, RecordsOK
    <2>5. CASE Teardown
        BY <1>1, <2>5, ClosedDown DEF Teardown, Orderly
    <2>6. CASE \E u \in Turn : TurnSettled(u)
        <3>1. PICK u \in Turn : Delivered(u) /\ UNCHANGED <<item, agent>>
            BY <2>6 DEF TurnSettled, SyncSettled, Orderly, Own, Settling
        <3>2. ~Bodyful
            BY <3>1, WindowEnds DEF Bodyful, Orderly, Own
        <3> QED BY <3>1, <3>2
    <2>7. CASE UNCHANGED <<pc, item>>
        BY <1>1, <2>7
    <2>8. ASSUME Dispatcher PROVE DispAsk \/ DispStart \/ DispDrop \/ DispOnStart \/ UNCHANGED <<pc, item>>
        BY <2>8
        DEF Dispatcher, DispLoop, DispBusy, DispScan, DispRead, DispClaim, DispClaimError,
            DispBlock, DispBlockPause, DispRollback, DispReturn, RetryFires, gate
    <2>9. Agent \/ Steering => UNCHANGED <<pc, item>>
        BY DEF Agent, AgentRun, AgentConsume, AgentMarkConsumed, AgentFinish, AgentAbort,
               AgentUnapplied, AgentUnown, Steering, SteerRead, SteerMark, SteerEnqueue,
               SteerRequeue, SteerConvert, SteerReturn, gate
    <2>10. User => UNCHANGED <<pc, item>>
        BY DEF User, UserEnqueue, UserBadRef, UserBadPause, UserFollowup, UserSteer, UserPause,
               UserRetry, UserEdit, UserDelete, UserDeleteItem, UserUnaccept, UserCancelWith,
               UserCancelPause, UserCancelDiscard, UserCancelTurn, UserCancelResume,
               InboxSnapshot, Cancel, gate
    <2>11. \A u \in Turn : SettleCapture(u) \/ SettleOne(u) \/ SettleUntrack(u) => UNCHANGED <<pc, item>>
        BY DEF SettleCapture, SettleOne, SettleUntrack, gate
    <2>12. \A q \in Rotator : Rotation(q) => UNCHANGED <<pc, item>>
        BY DEF Rotation, BeginRotation, EndRotation, gate
    <2> QED BY <2>1, <2>2, <2>3, <2>4, <2>5, <2>6, <2>7, <2>8, <2>9, <2>10, <2>11, <2>12, Excluded
            DEF INext, Turns
<1>2. HandedBack' \subseteq HandedBack \/ AgentUnapplied
    <2>1. SteerEnqueue => HandedBack' = HandedBack
        BY EnqueueDoes, AgentKept DEF SteerEnqueue, Orderly, Own, Commands
    <2> QED BY <2>1, AgentMoves, AgentKept, RunDoes, ConsumeDoes, MarkDoes, FinishDoes, AbortDoes,
               UnownDoes
            DEF Agent, Orderly, Own
<1>3. CASE AgentUnapplied
    <2>1. pc' = pc /\ item' = item
        BY <1>3 DEF AgentUnapplied, gate
    <2>2. HandedBack' = {Head(agent.flush)} /\ StatusIn(man, Head(agent.flush)) = "steer_accepted"
          /\ Head(agent.flush) # NoStem
        BY <1>3, UnappliedDoes, NoStemAssumption DEF Orderly, Own, Guided, Typed, ManifestOK
    <2> QED BY <2>1, <2>2 DEF Returned, Orderly, Own, Holders, TurnItemHeld, NoItem
<1>4. CASE HandedBack' \subseteq HandedBack
    <2>1. ~Bodyful => HandedBack = {}
        BY AgentOff DEF Orderly, Own, Guided
    <2> QED BY <1>1, <1>4, <2>1 DEF Returned, Orderly, Own
<1> QED BY <1>2, <1>3, <1>4

(* Every step keeps the settlement of a turn.                               *)
LEMMA SettlingNext ==
    ASSUME Orderly, INext
    PROVE  Settling'
<1>1. ASSUME DispLoop \/ DispBusy \/ DispScan \/ DispRead \/ DispClaimError \/ DispReturn
             \/ AgentRun
      PROVE  Settling'
    BY <1>1
    DEF DispLoop, DispBusy, DispScan, DispRead, DispClaimError, DispReturn, AgentRun, BackToLoop,
        ResetRetries, ScheduleRetry, gate, own, hist, Orderly, Own, Settling, Finished
<1>2. ASSUME DispClaim PROVE Settling'
    BY <1>2, ClaimMoves
    DEF DispClaim, gate, own, hist, Orderly, Own, Settling, Finished, Changes, Still, GateInv,
        TypeOK, flags, Pending, InFlightStates
<1>3. ASSUME DispBlock PROVE Settling'
    BY <1>3, BlockMoves
    DEF DispBlock, gate, own, hist, Orderly, Own, Settling, Finished, Changes, Still, GateInv,
        TypeOK, flags, Pending, InFlightStates
<1>4. ASSUME DispBlockPause \/ UserBadPause \/ UserCancelResume PROVE Settling'
    BY <1>4, PausingStill
    DEF DispBlockPause, UserBadPause, UserCancelResume, BackToLoop, ScheduleRetry, UserOff, gate,
        own, hist, Orderly, Own, Settling, Finished, Changes, Still, GateInv, TypeOK, flags, Pending
<1>5. ASSUME DispAsk PROVE Settling'
    BY <1>5
    DEF DispAsk, Ask, gate, own, hist, Orderly, Own, Settling, Finished, GateInv, TypeOK, flags,
        Pending
<1>6. ASSUME DispStart PROVE Settling'
    <2>1. UNCHANGED <<man, settle, active, applied>> /\ disp.turn \in Turn /\ AdmitStart(disp.turn)
          /\ pc[disp.turn] = "asking"
        BY <1>6 DEF DispStart, AdmitStart, own, hist, Orderly, Typed, NamesOK
    <2> QED BY <2>1, NoDelivery DEF Orderly, Own, Settling, Finished
<1>7. ASSUME DispDrop PROVE Settling'
    BY <1>7
    DEF DispDrop, AdmitDrop, gate, own, hist, Orderly, Own, Settling, Finished, GateInv, TypeOK,
        flags, Pending
<1>8. ASSUME DispOnStart PROVE Settling'
    <2>1. disp.turn \in Turn /\ pc[disp.turn] = "starting" /\ UNCHANGED <<man, applied, settle>>
        BY <1>8 DEF DispOnStart, Spawn, hist, Orderly, Typed, NamesOK
    <2>2. \A s \in Turn : pc[s] # "delivering" /\ pc'[s] # "delivering"
        BY <1>8, <2>1 DEF DispOnStart, Spawn, Orderly, Own, DeliveryAlone, GateInv, TypeOK
    <2> QED BY <2>1, <2>2 DEF Orderly, Own, Settling
<1>9. ASSUME DispRollback PROVE Settling'
    <2>1. UNCHANGED <<pc, settle, active, applied>> /\ disp.pc = "rollback"
        BY <1>9 DEF DispRollback, gate, own, hist
    <2>2. disp.item.id \notin applied
        BY <2>1 DEF Orderly, Own, Claims, DispHolds
    <2> QED BY <1>9, <2>1, <2>2, RollbackMoves DEF Orderly, Own, Settling, Finished, Changes
<1>10. ASSUME RetryFires \/ UserFollowup PROVE Settling'
    BY <1>10
    DEF RetryFires, UserFollowup, UserOff, CommandKick, Kicked, gate, own, hist, Orderly, Own, Settling, Finished
<1>11. ASSUME AgentConsume PROVE Settling'
    <2>1. UNCHANGED <<man, active, pc, settle>> /\ applied \subseteq applied'
        BY <1>11 DEF AgentConsume, gate, own
    <2> QED BY <2>1 DEF Orderly, Own, Settling, Finished
<1>12. ASSUME AgentMarkConsumed PROVE Settling'
    BY <1>12, ConsumedMoves
    DEF AgentMarkConsumed, gate, own, hist, Orderly, Own, Settling, Finished, Changes, Still,
        GateInv, TypeOK, flags, Pending, InFlightStates
<1>13. ASSUME AgentFinish \/ AgentAbort \/ UserCancelWith PROVE Settling'
    BY <1>13
    DEF AgentFinish, AgentAbort, UserCancelWith, gate, own, hist, Orderly, Own, Settling, Finished
<1>14. ASSUME AgentUnapplied PROVE Settling'
    <2>1. UNCHANGED <<pc, settle, active, applied>>
        BY <1>14 DEF AgentUnapplied, gate, own, hist
    <2>2. Head(agent.flush) \notin applied
        BY <1>14, UnappliedDoes DEF Orderly, Own, Guided
    <2> QED BY <1>14, <2>1, <2>2, UnappliedMoves DEF Orderly, Own, Settling, Finished, Changes
<1>15. ASSUME AgentUnown PROVE Settling'
    <2>1. UNCHANGED <<pc, settle>> /\ agent.pc = "unowned"
        BY <1>15 DEF AgentUnown, gate
    <2>2. \A s \in Turn : pc[s] # "delivering"
        BY <2>1 DEF Bodyful, Orderly, Own, Guided, DeliveryAlone
    <2> QED BY <2>1, <2>2 DEF Orderly, Own, Settling
<1>16. ASSUME SteerRead PROVE Settling'
    BY <1>16, SteerReadMoves
        DEF SteerRead, gate, own, hist, Orderly, Own, Settling, Finished, Changes, Rescued, GateInv,
            TypeOK, flags, Pending, Locks, InFlightStates
<1>17. ASSUME SteerMark PROVE Settling'
    BY <1>17, SteerMarkMoves
    DEF SteerMark, gate, own, hist, Orderly, Own, Settling, Finished, Changes, Still, GateInv,
        TypeOK, flags, Pending, InFlightStates
<1>18. ASSUME SteerEnqueue PROVE Settling'
    <2>1. UNCHANGED <<man, pc, settle, applied>> /\ steer.id \notin Steered
        BY <1>18 DEF SteerEnqueue, gate, hist, Orderly, Own, Commands
    <2>2. active' = active \/ agent.up = TRUE
        BY <1>18, <2>1, EnqueueDoes DEF Orderly, Own
    <2>3. agent.up = TRUE => \A s \in Turn : pc[s] # "delivering"
        BY DEF Bodyful, Orderly, Own, Lists, Guided, DeliveryAlone
    <2> QED BY <2>1, <2>2, <2>3 DEF Orderly, Own, Settling, Finished
<1>19. ASSUME SteerRequeue PROVE Settling'
    <2>1. UNCHANGED <<pc, settle, active, applied>> /\ steer.id \notin applied
        BY <1>19 DEF SteerRequeue, gate, own, hist, Orderly, Own, Commands
    <2> QED BY <1>19, <2>1, SteerRequeueMoves DEF Orderly, Own, Settling, Finished, Changes
<1>20. ASSUME SteerConvert PROVE Settling'
    BY <1>20, SteerConvertStill
    DEF SteerConvert, SteerTo, gate, own, hist, Orderly, Own, Settling, Finished, Changes, Still,
        GateInv, TypeOK, flags, Pending
<1>21. ASSUME SteerReturn PROVE Settling'
    BY <1>21 DEF SteerReturn, Kicked, SteerOff, gate, own, hist, Orderly, Own, Settling, Finished
<1>22. ASSUME NEW intent \in Intents, UserEnqueue(intent) PROVE Settling'
    <2>1. PICK id \in Stem \ used, b \in Bodies :
              /\ Changes(id, {"gone"}, {"queued"}) /\ Worded /\ TextIn(man', id) = b /\ user.pc = "off"
              /\ used' = used \cup {id}
              /\ user'.id = id /\ user'.pc = (IF b = "badref" THEN "badref" ELSE intent)
        BY <1>22, UserEnqueueMoves
    <2>2. UNCHANGED <<active, pc, settle, applied>>
        BY <1>22 DEF UserEnqueue, gate, own, hist
    <2> QED BY <2>1, <2>2 DEF Orderly, Own, Settling, Finished, Changes, InFlightStates
<1>23. ASSUME UserBadRef PROVE Settling'
    BY <1>23, UserBadRefMoves
    DEF UserBadRef, gate, own, hist, Orderly, Own, Settling, Finished, Changes, Still, GateInv,
        TypeOK, flags, Pending, InFlightStates
<1>24. ASSUME UserSteer PROVE Settling'
    BY <1>24 DEF UserSteer, UserOff, SteerOff, gate, own, hist, Orderly, Own, Settling, Finished
<1>25. ASSUME NEW p \in BOOLEAN, UserPause(p) PROVE Settling'
    BY <1>25, PausingStill
    DEF UserPause, CommandKick, Kicked, gate, own, hist, Orderly, Own, Settling, Finished, Changes, Still,
        GateInv, TypeOK, flags, Pending
<1>26. ASSUME UserRetry PROVE Settling'
    <2>1. PICK id \in used : /\ Changes(id, {"uncertain", "blocked"}, {"queued"}) /\ Worded
                            /\ applied' = applied \ {id}
        BY <1>26, UserRetryMoves
    <2>2. UNCHANGED <<active, pc, settle>>
        BY <1>26 DEF UserRetry, gate, own
    <2> QED BY <2>1, <2>2 DEF Orderly, Own, Settling, Finished, Changes, InFlightStates
<1>27. ASSUME UserEdit PROVE Settling'
    BY <1>27, UserEditMoves
    DEF UserEdit, gate, own, hist, Orderly, Own, Settling, Finished, Changes, Still, GateInv,
        TypeOK, flags, Pending, InFlightStates
<1>28. ASSUME UserCancelPause PROVE Settling'
    BY <1>28, PausingStill
    DEF UserCancelPause, UserTo, gate, own, hist, Orderly, Own, Settling, Finished, Changes, Still,
        GateInv, TypeOK, flags, Pending
<1>29. ASSUME UserCancelDiscard PROVE Settling'
    BY <1>29, DiscardMoves
    DEF UserCancelDiscard, UserTo, gate, own, hist, Orderly, Own, Settling, Finished, Changes,
        Still, GateInv, TypeOK, flags, Pending, InFlightStates
<1>30. ASSUME UserCancelTurn PROVE Settling'
    BY <1>30 DEF UserCancelTurn, UserOff, Cancel, gate, own, hist, Orderly, Own, Settling, Finished
<1>31. ASSUME InboxSnapshot PROVE Settling'
    BY <1>31, SnapshotRescues
        DEF InboxSnapshot, gate, own, hist, Orderly, Own, Settling, Finished, Changes, Rescued,
            GateInv, TypeOK, flags, Pending, Locks, InFlightStates
<1>32. ASSUME Teardown PROVE Settling'
    <2>1. UNCHANGED <<man, settle, active, applied>>
        BY <1>32 DEF Teardown, own, hist
    <2>2. \A s \in Turn : pc'[s] = "delivering" <=> pc[s] = "delivering"
        BY <1>32, ClosedDown DEF Orderly
    <2> QED BY <2>1, <2>2 DEF Orderly, Own, Settling, Finished
<1>33. ASSUME NEW t \in Turn, TurnAdmit(t) PROVE Settling'
    <2>1. UNCHANGED <<man, settle, active, applied>> /\ pc[t] = "asking"
        BY <1>33 DEF TurnAdmit, AdmitStart, AdmitPark, AdmitDrop, own, hist
    <2>2. \A s \in Turn : pc'[s] = "delivering" <=> pc[s] = "delivering"
        BY <1>33, <2>1 DEF TurnAdmit, AdmitStart, AdmitPark, AdmitDrop, Orderly, GateInv, TypeOK
    <2> QED BY <2>1, <2>2 DEF Orderly, Own, Settling, Finished
<1>34. ASSUME NEW t \in Turn, TurnSpawn(t) PROVE Settling'
    BY <1>34
    DEF TurnSpawn, Spawn, gate, own, hist, Orderly, Own, Settling, Finished, GateInv, TypeOK, flags,
        Pending
<1>35. ASSUME NEW t \in Turn, TurnBodyEnds(t) PROVE Settling'
    <2>1. UNCHANGED <<man, active>> /\ agent.pc = "off" /\ pc[t] = "body"
          /\ applied' = applied \cup ({item[t].id} \ {NoStem})
        BY <1>35, BodyDone DEF TurnBodyEnds, own
    <2>2. \A s \in Turn : settle'[s].pc = IF s = t THEN "capture" ELSE settle[s].pc
        BY <1>35 DEF TurnBodyEnds, Settle, SettleOff, Orderly, Typed, RecordsOK
    <2>3. ASSUME NEW x \in active PROVE Finished(x)'
        <3>1. x # NoStem /\ x \notin Steered
            BY <2>1, AgentOff, NoStemAssumption DEF Orderly, Own, Typed, NamesOK, ManifestOK
        <3>2. \/ \E s \in Turn : pc[s] = "body" /\ item[s].id = x
              \/ StatusIn(man, x) \in {"steer_consumed", "steer_accepted"} /\ x \in applied
            BY <2>1, <3>1 DEF Orderly, Own, Holders, ActiveKnown, Bodyful
        <3>3. \/ item[t].id = x /\ item[t] # NoItem
              \/ StatusIn(man, x) \in {"steer_consumed", "steer_accepted"} /\ x \in applied
            BY <1>35, <3>1, <3>2, BodyDone DEF NoItem
        <3> QED BY <2>1, <3>1, <3>3 DEF Finished, Orderly, Own, Holders, TurnItemHeld, InFlightStates
    <2> QED BY <1>35, <2>1, <2>2, <2>3, BodyDone DEF Orderly, Own, Settling
<1>36. ASSUME NEW t \in Turn, SettleCapture(t) PROVE Settling'
    <2>1. UNCHANGED <<man, active, applied, pc>> /\ settle[t].pc = "capture"
          /\ settle \in [Turn -> SettleRec]
        BY <1>36 DEF SettleCapture, gate, own, hist, Orderly, Typed, RecordsOK
    <2>2. CASE active = {} /\ settle' = [settle EXCEPT ![t] = [SettleOff EXCEPT !.pc = "done"]]
        <3>1. \A s \in Turn : settle'[s].pc = (IF s = t THEN "done" ELSE settle[s].pc) /\ (s # t => settle'[s] = settle[s])
            BY <2>1, <2>2 DEF SettleOff
        <3> QED BY <2>1, <2>2, <3>1 DEF Orderly, Own, Settling, Finished
    <2>3. ASSUME NEW next \in {"ack", "unsaved"}, NEW f,
                 settle' = [settle EXCEPT ![t] = [pc |-> next, ids |-> active, left |-> active, failed |-> f]]
          PROVE  Settling'
        <3>1. settle'[t].pc = next /\ settle'[t].ids = active /\ settle'[t].left = active
            BY <2>1, <2>3
        <3>2. \A s \in Turn : s # t => settle'[s] = settle[s]
            BY <2>1, <2>3
        <3> QED BY <2>1, <3>1, <3>2 DEF Orderly, Own, Settling, Finished
    <2> QED BY <1>36, <2>2, <2>3 DEF SettleCapture, Settle
<1>37. ASSUME NEW t \in Turn, SettleOne(t) PROVE Settling'
    <2>1. PICK id \in settle[t].left :
              /\ Changes(id, InFlightStates, InFlightStates \cup {"gone", "uncertain"}) /\ Worded
                 /\ Finished(id)
              /\ StatusIn(man', id) \in InFlightStates => id \in unsaved'
              /\ acked' = acked \/ (acked' = acked \cup {id} /\ StatusIn(man', id) = "gone")
              /\ \A s \in Turn : /\ settle'[s].pc = settle[s].pc /\ settle'[s].ids = settle[s].ids
                                 /\ settle'[s].left = IF s = t THEN settle[s].left \ {id} ELSE settle[s].left
        BY <1>37, SettleOneMoves
    <2>2. UNCHANGED <<active, applied, pc>> /\ settle[t].pc \in {"ack", "unsaved"}
        BY <1>37 DEF SettleOne, gate, own
    <2>3. \A s \in Turn : s # t => settle[s].pc = "off"
        BY <2>2 DEF Orderly, Own, Settling, DeliveryAlone
    <2>4. \A x \in settle[t].left : x # id => Finished(x)'
        BY <2>1, <2>2 DEF Orderly, Own, Settling, Finished, Changes
    <2>5. settle[t].ids = active /\ settle[t].left \subseteq active /\ pc[t] = "delivering"
        BY <2>2 DEF Orderly, Own, Settling
    <2>6. \A s \in Turn : s # t => pc[s] # "delivering"
        BY <2>5 DEF Orderly, Own, DeliveryAlone
    <2> QED BY <2>1, <2>2, <2>3, <2>4, <2>5, <2>6 DEF Settling, InFlightStates
<1>38. ASSUME NEW t \in Turn, SettleUntrack(t) PROVE Settling'
    <2>1. UNCHANGED <<applied, pc>> /\ settle[t].pc \in {"ack", "unsaved"}
          /\ active' = active \ settle[t].ids
        BY <1>38 DEF SettleUntrack, gate, hist
    <2>2. \A s \in Turn : settle'[s].pc = IF s = t THEN "done" ELSE settle[s].pc
        BY <1>38 DEF SettleUntrack, Settle, SettleOff, Orderly, Typed, RecordsOK
    <2>3. active' = {} /\ pc[t] = "delivering" /\ \A s \in Turn : s # t => settle[s].pc = "off"
        BY <2>1 DEF Orderly, Own, Settling, DeliveryAlone
    <2> QED BY <2>1, <2>2, <2>3 DEF Orderly, Own, Settling
<1>39. ASSUME NEW t \in Turn, TurnSettled(t) PROVE Settling'
    <2>1. UNCHANGED <<man, active, applied>> /\ Delivered(t)
        BY <1>39 DEF TurnSettled, SyncSettled, hist, own, Orderly, Own, Settling
    <2>2. \A s \in Turn : settle'[s].pc = IF s = t THEN "off" ELSE settle[s].pc
        BY <1>39 DEF TurnSettled, Settle, SettleOff, Orderly, Typed, RecordsOK
    <2>3. \A s \in Turn : pc'[s] # "delivering" /\ (s # t => settle[s].pc = "off")
        BY <2>1, WindowEnds DEF Orderly, Own, Settling
    <2> QED BY <2>2, <2>3 DEF Settling
<1>40. ASSUME NEW t \in Turn, ChatAsk(t) PROVE Settling'
    BY <1>40
    DEF ChatAsk, Ask, gate, own, hist, Orderly, Own, Settling, Finished, GateInv, TypeOK, flags,
        Pending
<1>41. ASSUME NEW q \in Rotator, Rotation(q) PROVE Settling'
    BY <1>41
    DEF Rotation, BeginRotation, EndRotation, Kicked, gate, own, hist, Orderly, Own, Settling,
        Finished
<1> QED BY <1>1, <1>2, <1>3, <1>4, <1>5, <1>6, <1>7, <1>8, <1>9, <1>10, <1>11, <1>12, <1>13, <1>14,
           <1>15, <1>16, <1>17, <1>18, <1>19, <1>20, <1>21, <1>22, <1>23, <1>24, <1>25, <1>26,
           <1>27, <1>28, <1>29, <1>30, <1>31, <1>32, <1>33, <1>34, <1>35, <1>36, <1>37, <1>38,
           <1>39, <1>40, <1>41, Excluded
        DEF INext, Dispatcher, Agent, Steering, User, Turns

(* The agent's steers are items that were drawn.                            *)
LEMMA SteeredUsed ==
    ASSUME Typed
    PROVE  Steered \subseteq used
    BY DEF Typed, NamesOK, Steered

(* Every step keeps the commands in progress apart from the agent.          *)
LEMMA CommandsNext ==
    ASSUME Orderly, INext
    PROVE  Commands'
<1>1. ASSUME DispLoop \/ DispBusy \/ DispScan \/ DispClaimError \/ DispReturn
      PROVE  Commands'
    BY <1>1, AgentKept
    DEF DispLoop, DispBusy, DispScan, DispClaimError, DispReturn, BackToLoop, ResetRetries,
        ScheduleRetry, gate, own, hist, Orderly, Own, Commands, Typed, RecordsOK, DispRec, ItemRec,
        DispLocked, DispHolds, Names, NoItem, Worded, Bodies
<1>2. ASSUME DispRead PROVE Commands'
    <2>1. \/ disp'.pc = "loop"
          \/ disp'.item.id = disp.item.id /\ disp'.item.body = TextIn(man, disp.item.id) /\ StatusIn(man, disp.item.id) = "queued"
        BY <1>2, ReadTakes, BackTyped DEF Orderly, Typed, RecordsOK
    <2>2. UNCHANGED <<steer, user, agent, man, applied, front>>
        BY <1>2 DEF DispRead, hist
    <2> QED BY <2>1, <2>2, AgentKept DEF Orderly, Own, Commands, Bodies
<1>3. ASSUME DispClaim PROVE Commands'
    <2>1. disp.item.body # "badref" /\ disp.pc = "claim" /\ disp'.pc = "ask"
          /\ UNCHANGED <<steer, user, agent, applied, front>>
        BY <1>3 DEF DispClaim, hist, Orderly, Typed, RecordsOK, DispRec
    <2>2. steer.pc \notin {"mark", "enqueue", "requeue"}
        BY <2>1 DEF Orderly, Own, Locks, DispLocked, SteerLocked
    <2> QED BY <1>3, <2>1, <2>2, ClaimMoves, AgentKept
            DEF Orderly, Own, Commands, Changes, Worded, Bodies
<1>4. ASSUME DispBlock PROVE Commands'
    <2>1. disp.pc = "claim" /\ disp'.pc = "pause" /\ UNCHANGED <<steer, user, agent, applied, front>>
        BY <1>4 DEF DispBlock, hist, Orderly, Typed, RecordsOK, DispRec
    <2>2. steer.pc \notin {"mark", "enqueue", "requeue"}
        BY <2>1 DEF Orderly, Own, Locks, DispLocked, SteerLocked
    <2> QED BY <1>4, <2>1, <2>2, BlockMoves, AgentKept
            DEF Orderly, Own, Commands, Changes, Worded, Bodies
<1>5. ASSUME DispBlockPause PROVE Commands'
    BY <1>5, PausingStill, AgentKept
    DEF DispBlockPause, BackToLoop, ScheduleRetry, gate, own, hist, Orderly, Own, Commands, Changes,
        Still, Typed, RecordsOK, DispRec, ItemRec, DispLocked, DispHolds, Names, NoItem, Worded,
        Bodies
<1>6. ASSUME DispAsk PROVE Commands'
    BY <1>6, AgentKept
    DEF DispAsk, Ask, gate, own, hist, Orderly, Own, Commands, Typed, RecordsOK, DispRec, ItemRec,
        DispLocked, DispHolds, Names, NoItem, Worded, Bodies
<1>7. ASSUME DispStart PROVE Commands'
    BY <1>7, AgentKept
    DEF DispStart, AdmitStart, Claim, gate, own, hist, Orderly, Own, Commands, Typed, RecordsOK,
        DispRec, ItemRec, DispLocked, DispHolds, Names, NoItem, Worded, Bodies
<1>8. ASSUME DispDrop PROVE Commands'
    BY <1>8, AgentKept
    DEF DispDrop, AdmitDrop, gate, own, hist, Orderly, Own, Commands, Typed, RecordsOK, DispRec,
        ItemRec, DispLocked, DispHolds, Names, NoItem, Worded, Bodies
<1>9. ASSUME DispOnStart PROVE Commands'
    BY <1>9, AgentKept
    DEF DispOnStart, Spawn, gate, own, hist, Orderly, Own, Commands, Typed, RecordsOK, DispRec,
        ItemRec, DispLocked, DispHolds, Names, NoItem, Worded, Bodies
<1>10. ASSUME DispRollback PROVE Commands'
    <2>1. disp.pc = "rollback" /\ disp'.pc \in {"return", "error"}
          /\ UNCHANGED <<steer, user, agent, applied, front>>
        BY <1>10 DEF DispRollback, hist, Orderly, Typed, RecordsOK, DispRec
    <2>2. steer.pc \notin {"mark", "enqueue", "requeue"}
        BY <2>1 DEF Orderly, Own, Locks, DispLocked, DispHolds, SteerLocked
    <2> QED BY <1>10, <2>1, <2>2, RollbackMoves, AgentKept
            DEF Orderly, Own, Commands, Changes, Worded, Bodies
<1>11. ASSUME RetryFires PROVE Commands'
    <2>1. UNCHANGED <<steer, user, agent, man, applied, front>> /\ disp'.item = disp.item
          /\ (disp'.pc = disp.pc \/ disp'.pc = "loop")
        BY <1>11, KickDoes DEF RetryFires, hist, Orderly, Typed, RecordsOK
    <2> QED BY <2>1, AgentKept DEF Orderly, Own, Commands, Bodies
<1>12. ASSUME AgentRun PROVE Commands'
    <2>1. UNCHANGED <<steer, user, disp, man, applied, front>>
        BY <1>12 DEF AgentRun, hist
    <2> QED BY <1>12, <2>1, RunDoes DEF Orderly, Own, Commands, Bodies
<1>13. ASSUME AgentConsume PROVE Commands'
    <2>1. UNCHANGED <<steer, user, disp, man, front>> /\ Steered' = Steered
        BY <1>13, ConsumeDoes DEF AgentConsume, Orderly, Own
    <2>2. \E id \in Steered : applied' \subseteq applied \cup {id}
        BY <1>13, ConsumeDoes, FlushHeld DEF Orderly, Own
    <2> QED BY <2>1, <2>2 DEF Orderly, Own, Commands, Bodies
<1>14. ASSUME AgentMarkConsumed PROVE Commands'
    <2>1. UNCHANGED <<steer, user, disp, applied, front>>
        BY <1>14 DEF AgentMarkConsumed, hist
    <2> QED BY <1>14, <2>1, MarkDoes, ConsumedMoves DEF Orderly, Own, Commands, Bodies, Changes, Worded
<1>15. ASSUME AgentFinish PROVE Commands'
    <2>1. UNCHANGED <<steer, user, disp, man, applied, front>>
        BY <1>15 DEF AgentFinish, hist
    <2> QED BY <1>15, <2>1, FinishDoes DEF Orderly, Own, Commands, Bodies
<1>16. ASSUME AgentAbort PROVE Commands'
    <2>1. UNCHANGED <<steer, user, disp, man, applied, front>>
        BY <1>16 DEF AgentAbort, hist
    <2> QED BY <1>16, <2>1, AbortDoes DEF Orderly, Own, Commands, Bodies
<1>17. ASSUME AgentUnapplied PROVE Commands'
    <2>1. UNCHANGED <<steer, user, disp, applied, front>> /\ Steered' = Steered
          /\ Head(agent.flush) \in Steered
        BY <1>17, UnappliedDoes, FlushHeld DEF AgentUnapplied, hist, Orderly, Own
    <2> QED BY <1>17, <2>1, UnappliedMoves DEF Orderly, Own, Commands, Bodies, Changes, Worded
<1>18. ASSUME AgentUnown PROVE Commands'
    <2>1. UNCHANGED <<steer, user, disp, applied, front>> /\ Steered' \subseteq Steered
        BY <1>18, UnownDoes DEF AgentUnown, hist, Orderly, Own
    <2> QED BY <1>18, <2>1, PausingStill DEF Orderly, Own, Commands, Bodies, Still, Worded
<1>19. ASSUME SteerRead PROVE Commands'
    <2>1. UNCHANGED <<user, disp, agent, front>> /\ steer.pc = "called"
        BY <1>19 DEF SteerRead
    <2> QED BY <1>19, <2>1, SteerReadMoves, AgentKept
        DEF Orderly, Own, Commands, Bodies, Changes, Rescued, Worded, Locks, InFlightStates
<1>20. ASSUME SteerMark PROVE Commands'
    <2>1. UNCHANGED <<user, disp, agent, applied, front>> /\ steer.pc = "mark"
        BY <1>20 DEF SteerMark, hist
    <2> QED BY <1>20, <2>1, SteerMarkMoves, AgentKept
            DEF Orderly, Own, Commands, History, Bodies, Changes, Still, Worded
<1>21. ASSUME SteerEnqueue PROVE Commands'
    <2>1. UNCHANGED <<man, user, disp, applied, front>> /\ steer.pc = "enqueue"
          /\ steer.id \notin Steered
        BY <1>21 DEF SteerEnqueue, hist, Orderly, Own, Commands
    <2>2. \/ Steered' = Steered \cup {steer.id} /\ SteerTo("return", FALSE)
          \/ agent' = agent /\ SteerTo("requeue", FALSE)
        BY <1>21, <2>1, EnqueueDoes DEF Orderly, Own
    <2>3. steer'.id = steer.id /\ (steer'.pc = "return" \/ (steer'.pc = "requeue" /\ Steered' = Steered))
          /\ Steered' \subseteq Steered \cup {steer.id}
        BY <2>2, AgentKept DEF SteerTo, Orderly, Typed, RecordsOK, SteerRec
    <2> QED BY <2>1, <2>3 DEF Orderly, Own, Commands, Bodies
<1>22. ASSUME SteerRequeue PROVE Commands'
    <2>1. UNCHANGED <<user, disp, agent, applied, front>> /\ steer.pc = "requeue"
        BY <1>22 DEF SteerRequeue, hist
    <2> QED BY <1>22, <2>1, SteerRequeueMoves, AgentKept
            DEF Orderly, Own, Commands, Bodies, Changes, Worded
<1>23. ASSUME SteerConvert PROVE Commands'
    <2>1. UNCHANGED <<user, disp, agent, applied, front>> /\ steer.pc = "convert"
        BY <1>23 DEF SteerConvert, hist
    <2> QED BY <1>23, <2>1, SteerConvertStill, AgentKept
            DEF Orderly, Own, Commands, Bodies, Still, Worded
<1>24. ASSUME SteerReturn PROVE Commands'
    BY <1>24, AgentKept
    DEF SteerReturn, Kicked, SteerOff, gate, own, hist, Orderly, Own, Commands, Typed, RecordsOK,
        SteerRec, SteerLocked, Names, DispRec, ItemRec, DispLocked, DispHolds, NoItem, Worded,
        Bodies
<1>25. ASSUME NEW intent \in Intents, UserEnqueue(intent) PROVE Commands'
    <2>1. PICK id \in Stem \ used, b \in Bodies :
              /\ Changes(id, {"gone"}, {"queued"}) /\ Worded /\ TextIn(man', id) = b /\ user.pc = "off"
              /\ used' = used \cup {id}
              /\ user'.id = id /\ user'.pc = (IF b = "badref" THEN "badref" ELSE intent)
        BY <1>25, UserEnqueueMoves
    <2>2. UNCHANGED <<steer, disp, agent, applied, front>>
        BY <1>25 DEF UserEnqueue, hist
    <2>3. id \notin Steered /\ (steer.pc # "off" => steer.id # id) /\ (disp.pc = "claim" => disp.item.id # id)
        BY SteeredUsed DEF Orderly, Typed, NamesOK, DispLocked
    <2>4. /\ steer.pc \in {"called", "mark", "enqueue", "requeue"} => steer.id # id /\ StatusIn(man', steer.id) = StatusIn(man, steer.id)
          /\ StatusIn(man', id) = "queued" /\ Steered' = Steered
        BY <2>1, <2>2, <2>3, AgentKept DEF Changes
    <2>5. user'.pc = "badref" => b = "badref"
        BY <2>1 DEF Intents
    <2>6. b \in Bodies'
        BY <2>2 DEF Bodies
    <2> QED BY <2>1, <2>2, <2>3, <2>4, <2>5, <2>6 DEF Orderly, Own, Commands
<1>26. ASSUME UserBadRef PROVE Commands'
    <2>1. UNCHANGED <<steer, disp, agent, applied, front>>
        BY <1>26 DEF UserBadRef, hist
    <2> QED BY <1>26, <2>1, UserBadRefMoves, AgentKept
            DEF Orderly, Own, Commands, Bodies, Changes, Worded
<1>27. ASSUME UserBadPause PROVE Commands'
    <2>1. UNCHANGED <<steer, disp, agent, applied, front>> /\ user'.pc \in {"off", "cwdiscard"}
        BY <1>27 DEF UserBadPause, UserOff, UserTo, hist, Orderly, Typed, RecordsOK, UserRec
    <2> QED BY <1>27, <2>1, PausingStill, AgentKept DEF Orderly, Own, Commands, Bodies, Still, Worded
<1>28. ASSUME UserFollowup PROVE Commands'
    BY <1>28, AgentKept
    DEF UserFollowup, UserOff, CommandKick, Kicked, gate, own, hist, Orderly, Own, Commands, Typed, RecordsOK,
        UserRec, Names, DispRec, ItemRec, DispLocked, DispHolds, NoItem, Worded, Bodies
<1>29. ASSUME UserSteer PROVE Commands'
    <2>1. UNCHANGED <<disp, agent, applied, man, front>> /\ steer.pc = "off"
        BY <1>29 DEF UserSteer, hist
    <2>2. user.pc = "steer" /\ user'.pc = "off" /\ steer'.pc = "called" /\ steer'.id = user.id
        BY <1>29 DEF UserSteer, SteerOff, UserOff, Orderly, Own, PlainUse, Plain
    <2> QED BY <2>1, <2>2, AgentKept DEF Orderly, Own, Commands, Bodies
<1>30. ASSUME NEW p \in BOOLEAN, UserPause(p) PROVE Commands'
    BY <1>30, PausingStill, AgentKept
    DEF UserPause, CommandKick, Kicked, gate, own, hist, Orderly, Own, Commands, Changes, Still, Typed,
        RecordsOK, DispRec, ItemRec, DispLocked, DispHolds, Names, NoItem, Worded, Bodies
<1>31. ASSUME UserRetry PROVE Commands'
    <2>1. PICK id \in used : /\ Changes(id, {"uncertain", "blocked"}, {"queued"}) /\ Worded
                            /\ applied' = applied \ {id}
        BY <1>31, UserRetryMoves
    <2>2. UNCHANGED <<steer, user, agent, front>> /\ disp'.item = disp.item
          /\ (disp'.pc = disp.pc \/ disp'.pc = "loop")
        BY <1>31, KickDoes DEF UserRetry, Orderly, Typed, RecordsOK
    <2> QED BY <2>1, <2>2, AgentKept DEF Orderly, Own, Commands, Bodies, Changes, Worded
<1>32. ASSUME UserEdit PROVE Commands'
    <2>1. UNCHANGED <<steer, disp, agent, applied, front>>
        BY <1>32 DEF UserEdit, hist
    <2> QED BY <1>32, <2>1, UserEditMoves, AgentKept DEF Orderly, Own, Commands, Bodies, Changes, Still
<1>33. ASSUME UserCancelWith PROVE Commands'
    BY <1>33, AgentKept
    DEF UserCancelWith, gate, own, hist, Orderly, Own, Commands, Typed, RecordsOK, UserRec, Names,
        Worded, Bodies
<1>34. ASSUME UserCancelPause PROVE Commands'
    <2>1. UNCHANGED <<steer, disp, agent, applied, front>> /\ user'.pc \in {"cwcancel", "cwdiscard"}
        BY <1>34 DEF UserCancelPause, UserOff, UserTo, hist, Orderly, Typed, RecordsOK, UserRec
    <2> QED BY <1>34, <2>1, PausingStill, AgentKept DEF Orderly, Own, Commands, Bodies, Still, Worded
<1>35. ASSUME UserCancelDiscard PROVE Commands'
    <2>1. UNCHANGED <<steer, disp, agent, applied, front>>
        BY <1>35 DEF UserCancelDiscard, hist
    <2> QED BY <1>35, <2>1, DiscardMoves, AgentKept
            DEF Orderly, Own, Commands, Bodies, Changes, Still, Pending
<1>36. ASSUME UserCancelTurn PROVE Commands'
    BY <1>36, AgentKept
    DEF UserCancelTurn, UserOff, Cancel, gate, own, hist, Orderly, Own, Commands, Typed, RecordsOK,
        UserRec, Names, Worded, Bodies
<1>37. ASSUME UserCancelResume PROVE Commands'
    <2>1. UNCHANGED <<steer, disp, agent, applied, front>> /\ user'.pc \in {"off", "cwdiscard"}
        BY <1>37 DEF UserCancelResume, UserOff, UserTo, hist, Orderly, Typed, RecordsOK, UserRec
    <2> QED BY <1>37, <2>1, PausingStill, AgentKept DEF Orderly, Own, Commands, Bodies, Still, Worded
<1>38. ASSUME InboxSnapshot PROVE Commands'
    <2>1. UNCHANGED <<steer, user, disp, agent, applied, front>>
        BY <1>38 DEF InboxSnapshot, hist
    <2> QED BY <1>38, <2>1, SnapshotRescues, AgentKept
        DEF Orderly, Own, Commands, Bodies, Rescued, Worded, Locks, InFlightStates
<1>39. ASSUME Teardown PROVE Commands'
    <2>1. UNCHANGED <<steer, user, disp, agent, man, applied, front>>
        BY <1>39 DEF Teardown, hist
    <2> QED BY <2>1, AgentKept DEF Orderly, Own, Commands, Bodies
<1>40. ASSUME NEW t \in Turn, TurnAdmit(t) \/ TurnSpawn(t) \/ SettleCapture(t) \/ ChatAsk(t)
      PROVE  Commands'
    <2>1. UNCHANGED <<steer, user, disp, agent, man, applied, front>>
        BY <1>40 DEF TurnAdmit, TurnSpawn, SettleCapture, ChatAsk, hist
    <2> QED BY <2>1, AgentKept DEF Orderly, Own, Commands, Bodies
<1>41. ASSUME NEW t \in Turn, TurnBodyEnds(t) PROVE Commands'
    <2>1. UNCHANGED <<steer, user, disp, agent, man, front>> /\ pc[t] = "body"
          /\ applied' = applied \cup ({item[t].id} \ {NoStem})
        BY <1>41, BodyDone DEF TurnBodyEnds
    <2>2. item[t].id # NoStem => StatusIn(man, item[t].id) = "running"
        BY <2>1 DEF Orderly, Own, Holders, TurnItemHeld, NoItem
    <2> QED BY <2>1, <2>2, AgentKept DEF Orderly, Own, Commands, Bodies
<1>42. ASSUME NEW t \in Turn, SettleOne(t) PROVE Commands'
    <2>1. PICK id \in settle[t].left :
              /\ Changes(id, InFlightStates, InFlightStates \cup {"gone", "uncertain"}) /\ Worded
                 /\ Finished(id)
              /\ StatusIn(man', id) \in InFlightStates => id \in unsaved'
              /\ acked' = acked \/ (acked' = acked \cup {id} /\ StatusIn(man', id) = "gone")
              /\ \A s \in Turn : /\ settle'[s].pc = settle[s].pc /\ settle'[s].ids = settle[s].ids
                                 /\ settle'[s].left = IF s = t THEN settle[s].left \ {id} ELSE settle[s].left
        BY <1>42, SettleOneMoves
    <2>2. UNCHANGED <<steer, user, disp, agent, applied, front>>
        BY <1>42 DEF SettleOne
    <2> QED BY <2>1, <2>2, AgentKept DEF Orderly, Own, Commands, Bodies, Changes, Worded, Finished, InFlightStates
<1>43. ASSUME NEW t \in Turn, SettleUntrack(t) PROVE Commands'
    <2>1. UNCHANGED <<steer, user, disp, agent, applied, front>>
        BY <1>43 DEF SettleUntrack, hist
    <2> QED BY <1>43, <2>1, PausingStill, AgentKept DEF Orderly, Own, Commands, Bodies, Still, Worded
<1>44. ASSUME NEW t \in Turn, TurnSettled(t) PROVE Commands'
    <2>1. UNCHANGED <<steer, user, agent, man, applied, front>> /\ disp'.item = disp.item
          /\ (disp'.pc = disp.pc \/ disp'.pc = "loop")
        BY <1>44, KickDoes DEF TurnSettled, hist, Orderly, Typed, RecordsOK
    <2> QED BY <2>1, AgentKept DEF Orderly, Own, Commands, Bodies
<1>45. ASSUME NEW q \in Rotator, Rotation(q) PROVE Commands'
    <2>1. UNCHANGED <<steer, user, agent, man, applied, front>> /\ disp'.item = disp.item
          /\ (disp'.pc = disp.pc \/ disp'.pc = "loop")
        BY <1>45, KickDoes DEF Rotation, hist, Orderly, Typed, RecordsOK
    <2> QED BY <2>1, AgentKept DEF Orderly, Own, Commands, Bodies
<1> QED BY <1>1, <1>2, <1>3, <1>4, <1>5, <1>6, <1>7, <1>8, <1>9, <1>10, <1>11, <1>12, <1>13, <1>14,
           <1>15, <1>16, <1>17, <1>18, <1>19, <1>20, <1>21, <1>22, <1>23, <1>24, <1>25, <1>26,
           <1>27, <1>28, <1>29, <1>30, <1>31, <1>32, <1>33, <1>34, <1>35, <1>36, <1>37, <1>38,
           <1>39, <1>40, <1>41, <1>42, <1>43, <1>44, <1>45, Excluded
        DEF INext, Dispatcher, Agent, Steering, User, Turns

(* Every step keeps ownership to live turns.                                *)
LEMMA ActiveLiveNext ==
    ASSUME Orderly, INext
    PROVE  ActiveLive'
<1>1. ASSUME DispLoop \/ DispBusy \/ DispScan \/ DispRead \/ DispClaim \/ DispClaimError
             \/ DispBlock
      PROVE  ActiveLive'
    BY <1>1
    DEF DispLoop, DispBusy, DispScan, DispRead, DispClaim, DispClaimError, DispBlock, BackToLoop,
        ResetRetries, ScheduleRetry, gate, own, hist, Orderly, Own, Holders, ActiveLive
<1>2. ASSUME DispBlockPause \/ DispRollback \/ DispReturn \/ AgentRun \/ AgentConsume
             \/ AgentMarkConsumed \/ AgentFinish
      PROVE  ActiveLive'
    BY <1>2
    DEF DispBlockPause, DispRollback, DispReturn, AgentRun, AgentConsume, AgentMarkConsumed,
        AgentFinish, BackToLoop, ResetRetries, ScheduleRetry, gate, own, hist, Orderly, Own,
        Holders, ActiveLive
<1>3. ASSUME DispAsk PROVE ActiveLive'
    <2>1. active' = active /\ \A s \in Turn : pc[s] \in {"body", "delivering"} => pc'[s] = pc[s]
        BY <1>3 DEF DispAsk, Ask, gate, own, Orderly, GateInv, TypeOK
    <2> QED BY <2>1 DEF Orderly, Own, Holders, ActiveLive
<1>4. ASSUME DispStart PROVE ActiveLive'
    <2>1. disp.turn \in Turn /\ AdmitStart(disp.turn) /\ active' = active
        BY <1>4 DEF DispStart, own, Orderly, Typed, NamesOK
    <2> QED BY <2>1, NoDelivery DEF Orderly, Own, Holders, ActiveLive
<1>5. ASSUME DispDrop PROVE ActiveLive'
    <2>1. active' = active /\ \A s \in Turn : pc[s] \in {"body", "delivering"} => pc'[s] = pc[s]
        BY <1>5 DEF DispDrop, AdmitDrop, own, Orderly, GateInv, TypeOK, Typed, NamesOK
    <2> QED BY <2>1 DEF Orderly, Own, Holders, ActiveLive
<1>6. ASSUME DispOnStart PROVE ActiveLive'
    <2>1. disp.turn \in Turn /\ pc'[disp.turn] = "body"
        BY <1>6 DEF DispOnStart, Spawn, Orderly, Typed, NamesOK, GateInv, TypeOK
    <2> QED BY <2>1 DEF ActiveLive
<1>7. ASSUME RetryFires \/ UserFollowup \/ UserRetry PROVE ActiveLive'
    BY <1>7
    DEF RetryFires, UserFollowup, UserRetry, UserOff, CommandKick, Kicked, gate, own, hist, Orderly, Own,
        Holders, ActiveLive
<1>8. ASSUME AgentAbort \/ AgentUnapplied \/ SteerRead \/ SteerMark \/ UserBadRef \/ UserBadPause
              \/ UserEdit
      PROVE  ActiveLive'
    BY <1>8
    DEF AgentAbort, AgentUnapplied, SteerRead, SteerMark, UserBadRef, UserBadPause, UserEdit,
        UserOff, gate, own, hist, Orderly, Own, Holders, ActiveLive
<1>9. ASSUME AgentUnown PROVE ActiveLive'
    <2>1. pc' = pc /\ active' \subseteq active
        BY <1>9 DEF AgentUnown, gate
    <2> QED BY <2>1 DEF Orderly, Own, Holders, ActiveLive
<1>10. ASSUME SteerEnqueue PROVE ActiveLive'
    <2>1. pc' = pc /\ steer.id \notin Steered
        BY <1>10 DEF SteerEnqueue, gate, Orderly, Own, Commands
    <2>2. active' = active \/ agent.up = TRUE
        BY <1>10, <2>1, EnqueueDoes DEF Orderly, Own
    <2>3. agent.up = TRUE => Bodyful
        BY DEF Orderly, Own, Lists, Guided
    <2> QED BY <2>1, <2>2, <2>3 DEF Orderly, Own, Holders, ActiveLive, Bodyful
<1>11. ASSUME SteerRequeue \/ SteerConvert PROVE ActiveLive'
    BY <1>11 DEF SteerRequeue, SteerConvert, SteerTo, gate, own, hist, Orderly, Own, Holders, ActiveLive
<1>12. ASSUME SteerReturn PROVE ActiveLive'
    BY <1>12 DEF SteerReturn, Kicked, SteerOff, gate, own, hist, Orderly, Own, Holders, ActiveLive
<1>13. ASSUME NEW intent \in Intents, UserEnqueue(intent) PROVE ActiveLive'
    BY <1>13 DEF UserEnqueue, gate, own, hist, Orderly, Own, Holders, ActiveLive
<1>14. ASSUME UserSteer PROVE ActiveLive'
    BY <1>14 DEF UserSteer, UserOff, SteerOff, gate, own, hist, Orderly, Own, Holders, ActiveLive
<1>15. ASSUME NEW p \in BOOLEAN, UserPause(p) PROVE ActiveLive'
    BY <1>15 DEF UserPause, CommandKick, Kicked, gate, own, hist, Orderly, Own, Holders, ActiveLive
<1>16. ASSUME UserCancelWith \/ UserCancelResume \/ InboxSnapshot PROVE ActiveLive'
    BY <1>16
    DEF UserCancelWith, UserCancelResume, InboxSnapshot, UserOff, gate, own, hist, Orderly, Own,
        Holders, ActiveLive
<1>17. ASSUME UserCancelPause \/ UserCancelDiscard PROVE ActiveLive'
    BY <1>17
    DEF UserCancelPause, UserCancelDiscard, UserTo, gate, own, hist, Orderly, Own, Holders,
        ActiveLive
<1>18. ASSUME UserCancelTurn PROVE ActiveLive'
    BY <1>18 DEF UserCancelTurn, UserOff, Cancel, gate, own, hist, Orderly, Own, Holders, ActiveLive
<1>19. ASSUME Teardown PROVE ActiveLive'
    <2>1. active' = active /\ \A s \in Turn : pc[s] \in {"body", "delivering"} => pc'[s] = pc[s]
        BY <1>19, ClosedDown DEF Teardown, own, Orderly
    <2> QED BY <2>1 DEF Orderly, Own, Holders, ActiveLive
<1>20. ASSUME NEW t \in Turn, TurnAdmit(t) PROVE ActiveLive'
    <2>1. active' = active /\ \A s \in Turn : pc[s] \in {"body", "delivering"} => pc'[s] = pc[s]
        BY <1>20 DEF TurnAdmit, AdmitStart, AdmitPark, AdmitDrop, own, Orderly, GateInv, TypeOK
    <2> QED BY <2>1 DEF Orderly, Own, Holders, ActiveLive
<1>21. ASSUME NEW t \in Turn, TurnSpawn(t) PROVE ActiveLive'
    <2>1. pc'[t] = "body"
        BY <1>21 DEF TurnSpawn, Spawn, Orderly, GateInv, TypeOK
    <2> QED BY <2>1 DEF ActiveLive
<1>22. ASSUME NEW t \in Turn, TurnBodyEnds(t) PROVE ActiveLive'
    <2>1. pc'[t] = "delivering"
        BY <1>22, BodyDone
    <2> QED BY <2>1 DEF ActiveLive
<1>23. ASSUME NEW t \in Turn, SettleCapture(t) PROVE ActiveLive'
    BY <1>23 DEF SettleCapture, Settle, SettleOff, gate, own, hist, Orderly, Own, Holders, ActiveLive
<1>24. ASSUME NEW t \in Turn, SettleOne(t) PROVE ActiveLive'
    BY <1>24 DEF SettleOne, gate, own, hist, Orderly, Own, Holders, ActiveLive
<1>25. ASSUME NEW t \in Turn, SettleUntrack(t) PROVE ActiveLive'
    <2>1. pc' = pc /\ active' \subseteq active
        BY <1>25 DEF SettleUntrack, gate
    <2> QED BY <2>1 DEF Orderly, Own, Holders, ActiveLive
<1>26. ASSUME NEW t \in Turn, TurnSettled(t) PROVE ActiveLive'
    <2>1. active' = active /\ active = {}
        BY <1>26 DEF TurnSettled, own, Orderly, Own, Settling
    <2> QED BY <2>1 DEF ActiveLive
<1>27. ASSUME NEW t \in Turn, ChatAsk(t) PROVE ActiveLive'
    <2>1. active' = active /\ \A s \in Turn : pc[s] \in {"body", "delivering"} => pc'[s] = pc[s]
        BY <1>27 DEF ChatAsk, Ask, own, Orderly, GateInv, TypeOK
    <2> QED BY <2>1 DEF Orderly, Own, Holders, ActiveLive
<1>28. ASSUME NEW q \in Rotator, Rotation(q) PROVE ActiveLive'
    BY <1>28
    DEF Rotation, BeginRotation, EndRotation, Kicked, gate, own, hist, Orderly, Own, Holders,
        ActiveLive
<1> QED BY <1>1, <1>2, <1>3, <1>4, <1>5, <1>6, <1>7, <1>8, <1>9, <1>10, <1>11, <1>12, <1>13, <1>14,
           <1>15, <1>16, <1>17, <1>18, <1>19, <1>20, <1>21, <1>22, <1>23, <1>24, <1>25, <1>26,
           <1>27, <1>28, Excluded
        DEF INext, Dispatcher, Agent, Steering, User, Turns

(* Every step keeps the item of a running turn.                             *)
LEMMA TurnItemHeldNext ==
    ASSUME Orderly, INext
    PROVE  TurnItemHeld'
<1>1. ASSUME DispLoop \/ DispBusy \/ DispScan \/ DispRead \/ DispClaimError \/ DispReturn
             \/ AgentRun
      PROVE  TurnItemHeld'
    BY <1>1
    DEF DispLoop, DispBusy, DispScan, DispRead, DispClaimError, DispReturn, AgentRun, BackToLoop,
        ResetRetries, ScheduleRetry, gate, own, hist, Orderly, Own, Holders, TurnItemHeld
<1>2. ASSUME DispClaim PROVE TurnItemHeld'
    BY <1>2, ClaimMoves
    DEF DispClaim, gate, own, hist, Orderly, Own, Holders, TurnItemHeld, Changes, Still
<1>3. ASSUME DispBlock PROVE TurnItemHeld'
    BY <1>3, BlockMoves
    DEF DispBlock, gate, own, hist, Orderly, Own, Holders, TurnItemHeld, Changes, Still
<1>4. ASSUME DispBlockPause \/ UserBadPause \/ UserCancelResume PROVE TurnItemHeld'
    BY <1>4, PausingStill
    DEF DispBlockPause, UserBadPause, UserCancelResume, BackToLoop, ScheduleRetry, UserOff, gate,
        own, hist, Orderly, Own, Holders, TurnItemHeld, Changes, Still
<1>5. ASSUME DispAsk PROVE TurnItemHeld'
    <2>1. UNCHANGED <<man, active, applied>>
          /\ \A s \in Turn : pc'[s] = "body" => pc[s] = "body" /\ item'[s] = item[s]
        BY <1>5 DEF DispAsk, Ask, gate, own, hist, Orderly, GateInv, TypeOK, Typed, NamesOK, RecordsOK
    <2> QED BY <2>1 DEF Orderly, Own, Holders, TurnItemHeld
<1>6. ASSUME DispStart PROVE TurnItemHeld'
    <2>1. UNCHANGED <<man, active, applied>>
          /\ \A s \in Turn : pc'[s] = "body" => pc[s] = "body" /\ item'[s] = item[s]
        BY <1>6
        DEF DispStart, AdmitStart, own, hist, Orderly, GateInv, TypeOK, Typed, NamesOK, RecordsOK
    <2> QED BY <2>1 DEF Orderly, Own, Holders, TurnItemHeld
<1>7. ASSUME DispDrop PROVE TurnItemHeld'
    <2>1. UNCHANGED <<man, active, applied>>
          /\ \A s \in Turn : pc'[s] = "body" => pc[s] = "body" /\ item'[s] = item[s]
        BY <1>7
        DEF DispDrop, AdmitDrop, gate, own, hist, Orderly, GateInv, TypeOK, Typed, NamesOK,
            RecordsOK
    <2> QED BY <2>1 DEF Orderly, Own, Holders, TurnItemHeld
<1>8. ASSUME DispOnStart PROVE TurnItemHeld'
    <2>1. disp.turn \in Turn /\ UNCHANGED <<man, item, applied>> /\ active' = active \cup {disp.item.id}
          /\ \A s \in Turn : pc'[s] = IF s = disp.turn THEN "body" ELSE pc[s]
        BY <1>8 DEF DispOnStart, Spawn, hist, Orderly, Typed, NamesOK, GateInv, TypeOK
    <2>2. /\ StatusIn(man, disp.item.id) = "running" /\ disp.item.id \notin applied
          /\ item[disp.turn] = disp.item
        BY <1>8 DEF DispOnStart, Orderly, Own, Claims, Carried, DispHolds
    <2> QED BY <2>1, <2>2 DEF Orderly, Own, Holders, TurnItemHeld
<1>9. ASSUME DispRollback PROVE TurnItemHeld'
    <2>1. UNCHANGED <<pc, item, active, applied>> /\ disp.pc = "rollback"
        BY <1>9 DEF DispRollback, gate, own, hist
    <2>2. \A s \in Turn : pc[s] = "body" => item[s].id # disp.item.id
        BY <2>1 DEF Orderly, Own, Claims, DispHolds
    <2> QED BY <1>9, <2>1, <2>2, RollbackMoves DEF Orderly, Own, Holders, TurnItemHeld, Changes
<1>10. ASSUME RetryFires \/ UserFollowup PROVE TurnItemHeld'
    BY <1>10
    DEF RetryFires, UserFollowup, UserOff, CommandKick, Kicked, gate, own, hist, Orderly, Own, Holders,
        TurnItemHeld
<1>11. ASSUME AgentConsume PROVE TurnItemHeld'
    <2>1. UNCHANGED <<man, item, pc, active>>
        BY <1>11 DEF AgentConsume, gate, own
    <2>2. \E id \in Waiting : applied' \subseteq applied \cup {id}
        BY <1>11, ConsumeDoes DEF Orderly, Own
    <2> QED BY <2>1, <2>2 DEF Orderly, Own, Guided, Holders, TurnItemHeld
<1>12. ASSUME AgentMarkConsumed PROVE TurnItemHeld'
    BY <1>12, ConsumedMoves
    DEF AgentMarkConsumed, gate, own, hist, Orderly, Own, Holders, TurnItemHeld, Changes, Still
<1>13. ASSUME AgentFinish \/ AgentAbort \/ UserCancelWith PROVE TurnItemHeld'
    BY <1>13
    DEF AgentFinish, AgentAbort, UserCancelWith, gate, own, hist, Orderly, Own, Holders,
        TurnItemHeld
<1>14. ASSUME AgentUnapplied PROVE TurnItemHeld'
    BY <1>14, UnappliedMoves
    DEF AgentUnapplied, gate, own, hist, Orderly, Own, Holders, TurnItemHeld, Changes, Still
<1>15. ASSUME AgentUnown PROVE TurnItemHeld'
    <2>1. UNCHANGED <<item, pc, applied>> /\ active' = active \ {Head(agent.flush)}
          /\ HandedBack = {Head(agent.flush)} /\ Still
        BY <1>15, UnownDoes, PausingStill DEF AgentUnown, gate, hist, Orderly, Own
    <2>2. \A s \in Turn : pc[s] = "body" /\ item[s] # NoItem => item[s].id \notin HandedBack
        BY DEF Orderly, Own, Returned
    <2> QED BY <2>1, <2>2 DEF Orderly, Own, Holders, TurnItemHeld, Still
<1>16. ASSUME SteerRead PROVE TurnItemHeld'
    BY <1>16, SteerReadMoves
        DEF SteerRead, gate, own, hist, Orderly, Own, Holders, TurnItemHeld, Changes, Rescued,
            Locks, InFlightStates
<1>17. ASSUME SteerMark PROVE TurnItemHeld'
    BY <1>17, SteerMarkMoves
    DEF SteerMark, gate, own, hist, Orderly, Own, Holders, TurnItemHeld, Changes, Still
<1>18. ASSUME SteerEnqueue PROVE TurnItemHeld'
    <2>1. UNCHANGED <<man, item, pc, applied>> /\ active \subseteq active'
        BY <1>18 DEF SteerEnqueue, gate, hist
    <2> QED BY <2>1 DEF Orderly, Own, Holders, TurnItemHeld
<1>19. ASSUME SteerRequeue PROVE TurnItemHeld'
    BY <1>19, SteerRequeueMoves
    DEF SteerRequeue, SteerTo, gate, own, hist, Orderly, Own, Holders, TurnItemHeld, Changes, Still
<1>20. ASSUME SteerConvert PROVE TurnItemHeld'
    BY <1>20, SteerConvertStill
    DEF SteerConvert, SteerTo, gate, own, hist, Orderly, Own, Holders, TurnItemHeld, Changes, Still
<1>21. ASSUME SteerReturn PROVE TurnItemHeld'
    BY <1>21 DEF SteerReturn, Kicked, SteerOff, gate, own, hist, Orderly, Own, Holders, TurnItemHeld
<1>22. ASSUME NEW intent \in Intents, UserEnqueue(intent) PROVE TurnItemHeld'
    <2>1. PICK id \in Stem \ used, b \in Bodies :
              /\ Changes(id, {"gone"}, {"queued"}) /\ Worded /\ TextIn(man', id) = b /\ user.pc = "off"
              /\ used' = used \cup {id}
              /\ user'.id = id /\ user'.pc = (IF b = "badref" THEN "badref" ELSE intent)
        BY <1>22, UserEnqueueMoves
    <2>2. UNCHANGED <<pc, item, active, applied>>
        BY <1>22 DEF UserEnqueue, gate, own, hist
    <2> QED BY <2>1, <2>2 DEF Orderly, Own, Holders, TurnItemHeld, Changes
<1>23. ASSUME UserBadRef PROVE TurnItemHeld'
    BY <1>23, UserBadRefMoves
    DEF UserBadRef, gate, own, hist, Orderly, Own, Holders, TurnItemHeld, Changes, Still
<1>24. ASSUME UserSteer PROVE TurnItemHeld'
    BY <1>24 DEF UserSteer, UserOff, SteerOff, gate, own, hist, Orderly, Own, Holders, TurnItemHeld
<1>25. ASSUME NEW p \in BOOLEAN, UserPause(p) PROVE TurnItemHeld'
    BY <1>25, PausingStill
    DEF UserPause, CommandKick, Kicked, gate, own, hist, Orderly, Own, Holders, TurnItemHeld, Changes, Still
<1>26. ASSUME UserRetry PROVE TurnItemHeld'
    <2>1. PICK id \in used : /\ Changes(id, {"uncertain", "blocked"}, {"queued"}) /\ Worded
                            /\ applied' = applied \ {id}
        BY <1>26, UserRetryMoves
    <2> QED BY <1>26, <2>1
            DEF UserRetry, CommandKick, Kicked, gate, own, hist, Orderly, Own, Holders, TurnItemHeld, Changes,
                Still
<1>27. ASSUME UserEdit PROVE TurnItemHeld'
    <2>1. UNCHANGED <<pc, item, active, applied>>
        BY <1>27 DEF UserEdit, gate, own, hist
    <2> QED BY <1>27, <2>1, UserEditMoves DEF Orderly, Own, Holders, TurnItemHeld, Changes, Still
<1>28. ASSUME UserCancelPause PROVE TurnItemHeld'
    BY <1>28, PausingStill
    DEF UserCancelPause, UserTo, gate, own, hist, Orderly, Own, Holders, TurnItemHeld, Changes,
        Still
<1>29. ASSUME UserCancelDiscard PROVE TurnItemHeld'
    <2>1. UNCHANGED <<pc, item, active, applied>>
        BY <1>29 DEF UserCancelDiscard, gate, own, hist
    <2> QED BY <1>29, <2>1, DiscardMoves
            DEF Orderly, Own, Holders, TurnItemHeld, Changes, Still, Pending
<1>30. ASSUME UserCancelTurn PROVE TurnItemHeld'
    BY <1>30 DEF UserCancelTurn, UserOff, Cancel, gate, own, hist, Orderly, Own, Holders, TurnItemHeld
<1>31. ASSUME InboxSnapshot PROVE TurnItemHeld'
    BY <1>31, SnapshotRescues
        DEF InboxSnapshot, gate, own, hist, Orderly, Own, Holders, TurnItemHeld, Changes, Rescued,
            Locks, InFlightStates
<1>32. ASSUME Teardown PROVE TurnItemHeld'
    <2>1. UNCHANGED <<man, active, applied>>
          /\ \A s \in Turn : pc'[s] = "body" => pc[s] = "body" /\ item'[s] = item[s]
        BY <1>32, ClosedDown
        DEF Teardown, own, hist, Orderly, GateInv, TypeOK, Typed, NamesOK, RecordsOK
    <2> QED BY <2>1 DEF Orderly, Own, Holders, TurnItemHeld
<1>33. ASSUME NEW t \in Turn, TurnAdmit(t) PROVE TurnItemHeld'
    <2>1. UNCHANGED <<man, active, applied>>
          /\ \A s \in Turn : pc'[s] = "body" => pc[s] = "body" /\ item'[s] = item[s]
        BY <1>33
        DEF TurnAdmit, AdmitStart, AdmitPark, AdmitDrop, own, hist, Orderly, GateInv, TypeOK, Typed,
            NamesOK, RecordsOK
    <2> QED BY <2>1 DEF Orderly, Own, Holders, TurnItemHeld
<1>34. ASSUME NEW t \in Turn, TurnSpawn(t) PROVE TurnItemHeld'
    <2>1. UNCHANGED <<man, item, active, applied>> /\ item[t] = NoItem
          /\ \A s \in Turn : pc'[s] = IF s = t THEN "body" ELSE pc[s]
        BY <1>34 DEF TurnSpawn, Spawn, own, hist, Orderly, GateInv, TypeOK
    <2> QED BY <2>1 DEF Orderly, Own, Holders, TurnItemHeld
<1>35. ASSUME NEW t \in Turn, TurnBodyEnds(t) PROVE TurnItemHeld'
    <2>1. \A s \in Turn : pc'[s] # "body"
        BY <1>35, BodyDone
    <2> QED BY <2>1 DEF TurnItemHeld
<1>36. ASSUME NEW t \in Turn, SettleCapture(t) PROVE TurnItemHeld'
    BY <1>36 DEF SettleCapture, Settle, SettleOff, gate, own, hist, Orderly, Own, Holders, TurnItemHeld
<1>37. ASSUME NEW t \in Turn, SettleOne(t) \/ SettleUntrack(t) PROVE TurnItemHeld'
    <2>1. pc' = pc /\ settle[t].pc # "off"
        BY <1>37 DEF SettleOne, SettleUntrack, gate
    <2>2. \A s \in Turn : pc[s] # "body"
        BY <2>1 DEF Orderly, Own, Settling, DeliveryAlone
    <2> QED BY <2>1, <2>2 DEF TurnItemHeld
<1>38. ASSUME NEW t \in Turn, TurnSettled(t) PROVE TurnItemHeld'
    <2>1. UNCHANGED <<man, item, active, applied>> /\ Delivered(t)
        BY <1>38 DEF TurnSettled, SyncSettled, own, hist, Orderly, Own, Settling
    <2>2. \A s \in Turn : pc'[s] = "body" => pc[s] = "parked"
        BY <2>1, WindowEnds DEF Orderly, Own
    <2>3. \A s \in Turn : pc[s] = "parked" => item[s] = NoItem
        BY DEF Orderly, Own, Carried
    <2> QED BY <2>1, <2>2, <2>3 DEF TurnItemHeld
<1>39. ASSUME NEW t \in Turn, ChatAsk(t) PROVE TurnItemHeld'
    <2>1. UNCHANGED <<man, active, applied>>
          /\ \A s \in Turn : pc'[s] = "body" => pc[s] = "body" /\ item'[s] = item[s]
        BY <1>39 DEF ChatAsk, Ask, gate, own, hist, Orderly, GateInv, TypeOK, Typed, NamesOK, RecordsOK
    <2> QED BY <2>1 DEF Orderly, Own, Holders, TurnItemHeld
<1>40. ASSUME NEW q \in Rotator, Rotation(q) PROVE TurnItemHeld'
    BY <1>40
    DEF Rotation, BeginRotation, EndRotation, Kicked, gate, own, hist, Orderly, Own, Holders,
        TurnItemHeld
<1> QED BY <1>1, <1>2, <1>3, <1>4, <1>5, <1>6, <1>7, <1>8, <1>9, <1>10, <1>11, <1>12, <1>13, <1>14,
           <1>15, <1>16, <1>17, <1>18, <1>19, <1>20, <1>21, <1>22, <1>23, <1>24, <1>25, <1>26,
           <1>27, <1>28, <1>29, <1>30, <1>31, <1>32, <1>33, <1>34, <1>35, <1>36, <1>37, <1>38,
           <1>39, <1>40, Excluded
        DEF INext, Dispatcher, Agent, Steering, User, Turns

(* Every step keeps a holder for every item in flight.                      *)
LEMMA InFlightHeldNext ==
    ASSUME Orderly, INext
    PROVE  InFlightHeld'
<1>0. unsaved \subseteq unsaved'
    BY UnsavedGrows
<1>1. ASSUME DispLoop PROVE InFlightHeld'
    <2>1. UNCHANGED <<man, steer, active, settle>> /\ disp.pc = "loop"
        BY <1>1 DEF DispLoop, own
    <2> QED BY <1>0, <2>1 DEF Orderly, Own, Holders, InFlightHeld, Unsettled, DispHolds
<1>2. ASSUME DispBusy PROVE InFlightHeld'
    <2>1. UNCHANGED <<man, steer, active, settle>> /\ disp.pc = "busy"
        BY <1>2 DEF DispBusy, own
    <2> QED BY <1>0, <2>1 DEF Orderly, Own, Holders, InFlightHeld, Unsettled, DispHolds
<1>3. ASSUME DispScan PROVE InFlightHeld'
    <2>1. UNCHANGED <<man, steer, active, settle>> /\ disp.pc = "scan"
        BY <1>3 DEF DispScan, own
    <2> QED BY <1>0, <2>1 DEF Orderly, Own, Holders, InFlightHeld, Unsettled, DispHolds
<1>4. ASSUME DispRead PROVE InFlightHeld'
    <2>1. UNCHANGED <<man, steer, active, settle>> /\ disp.pc = "submit"
        BY <1>4 DEF DispRead, own
    <2> QED BY <1>0, <2>1 DEF Orderly, Own, Holders, InFlightHeld, Unsettled, DispHolds
<1>5. ASSUME DispClaim PROVE InFlightHeld'
    <2>1. UNCHANGED <<steer, active, settle>> /\ disp'.pc = "ask" /\ disp'.item = disp.item
          /\ disp.pc = "claim"
        BY <1>5 DEF DispClaim, Orderly, Typed, RecordsOK, DispRec
    <2> QED BY <1>0, <1>5, <2>1, ClaimMoves
            DEF Orderly, Own, Holders, InFlightHeld, Unsettled, Changes, DispHolds
<1>6. ASSUME DispClaimError PROVE InFlightHeld'
    <2>1. UNCHANGED <<man, steer, active, settle>> /\ disp.pc = "claim"
        BY <1>6 DEF DispClaimError, own
    <2> QED BY <1>0, <2>1 DEF Orderly, Own, Holders, InFlightHeld, Unsettled, DispHolds
<1>7. ASSUME DispBlock PROVE InFlightHeld'
    <2>1. UNCHANGED <<steer, active, settle>> /\ disp.pc = "claim"
        BY <1>7 DEF DispBlock, own
    <2> QED BY <1>0, <1>7, <2>1, BlockMoves
            DEF Orderly, Own, Holders, InFlightHeld, Unsettled, Changes, DispHolds, InFlightStates
<1>8. ASSUME DispBlockPause PROVE InFlightHeld'
    <2>1. UNCHANGED <<steer, active, settle>> /\ disp.pc = "pause"
        BY <1>8 DEF DispBlockPause, own
    <2> QED BY <1>0, <1>8, <2>1, PausingStill
            DEF Orderly, Own, Holders, InFlightHeld, Unsettled, Still, DispHolds
<1>9. ASSUME DispAsk \/ DispStart \/ DispDrop PROVE InFlightHeld'
    <2>1. UNCHANGED <<man, steer, active, settle>> /\ disp'.pc \in DispHolds /\ disp'.item = disp.item
        BY <1>9 DEF DispAsk, DispStart, DispDrop, own, Orderly, Typed, RecordsOK, DispRec, DispHolds
    <2> QED BY <1>0, <2>1 DEF Orderly, Own, Holders, InFlightHeld, Unsettled
<1>10. ASSUME DispOnStart PROVE InFlightHeld'
    <2>1. UNCHANGED <<man, steer, settle>> /\ active' = active \cup {disp.item.id}
          /\ disp.turn \in Turn /\ pc[disp.turn] = "starting"
        BY <1>10 DEF DispOnStart, Spawn, Orderly, Typed, NamesOK
    <2>2. \A s \in Turn : settle[s].pc = "off"
        BY <2>1 DEF Orderly, Own, Settling, DeliveryAlone
    <2> QED BY <1>0, <2>1, <2>2 DEF Orderly, Own, Holders, InFlightHeld, Unsettled
<1>11. ASSUME DispRollback PROVE InFlightHeld'
    <2>1. UNCHANGED <<steer, active, settle>>
        BY <1>11 DEF DispRollback, own
    <2> QED BY <1>0, <1>11, <2>1, RollbackMoves
            DEF Orderly, Own, Holders, InFlightHeld, Unsettled, Changes, InFlightStates
<1>12. ASSUME DispReturn PROVE InFlightHeld'
    <2>1. UNCHANGED <<man, steer, active, settle>> /\ disp.pc \in {"return", "error"}
        BY <1>12 DEF DispReturn, own
    <2> QED BY <1>0, <2>1 DEF Orderly, Own, Holders, InFlightHeld, Unsettled, DispHolds
<1>13. ASSUME RetryFires \/ UserFollowup PROVE InFlightHeld'
    <2>1. UNCHANGED <<man, steer, active, settle>> /\ disp'.item = disp.item
          /\ (disp'.pc = disp.pc \/ disp.pc = "off")
        BY <1>13, KickDoes DEF RetryFires, UserFollowup, own, Orderly, Typed, RecordsOK
    <2> QED BY <1>0, <2>1 DEF Orderly, Own, Holders, InFlightHeld, Unsettled, DispHolds
<1>14. ASSUME AgentRun \/ AgentConsume \/ AgentFinish \/ AgentAbort \/ UserCancelWith
      PROVE  InFlightHeld'
    BY <1>14
    DEF AgentRun, AgentConsume, AgentFinish, AgentAbort, UserCancelWith, gate, own, hist, Orderly,
        Own, Holders, InFlightHeld, Unsettled
<1>15. ASSUME AgentMarkConsumed PROVE InFlightHeld'
    <2>1. UNCHANGED <<disp, steer, active, settle>>
        BY <1>15 DEF AgentMarkConsumed, own
    <2> QED BY <1>0, <1>15, <2>1, ConsumedMoves
            DEF Orderly, Own, Holders, InFlightHeld, Unsettled, Changes, InFlightStates
<1>16. ASSUME AgentUnapplied PROVE InFlightHeld'
    <2>1. UNCHANGED <<disp, steer, active, settle>>
        BY <1>16 DEF AgentUnapplied, own
    <2> QED BY <1>0, <1>16, <2>1, UnappliedMoves
            DEF Orderly, Own, Holders, InFlightHeld, Unsettled, Changes, InFlightStates
<1>17. ASSUME AgentUnown PROVE InFlightHeld'
    <2>1. UNCHANGED <<disp, steer, settle>> /\ active' = active \ HandedBack /\ Still
        BY <1>17, UnownDoes, PausingStill DEF AgentUnown, Orderly, Own
    <2> QED BY <1>0, <2>1 DEF Orderly, Own, Guided, Holders, InFlightHeld, Unsettled, Still
<1>18. ASSUME SteerRead PROVE InFlightHeld'
    <2>1. UNCHANGED <<disp, active, settle>> /\ steer.pc = "called"
        BY <1>18 DEF SteerRead, own
    <2> QED BY <1>0, <1>18, <2>1, SteerReadMoves
        DEF Orderly, Own, Holders, InFlightHeld, Unsettled, Changes, Rescued,
            InFlightStates, Locks
<1>19. ASSUME SteerMark PROVE InFlightHeld'
    <2>1. UNCHANGED <<disp, active, settle>> /\ steer.pc = "mark"
        BY <1>19 DEF SteerMark, own
    <2> QED BY <1>0, <1>19, <2>1, SteerMarkMoves
            DEF Orderly, Own, Holders, InFlightHeld, Unsettled, Changes, Still
<1>20. ASSUME SteerEnqueue PROVE InFlightHeld'
    <2>1. UNCHANGED <<man, disp, settle>> /\ steer.pc = "enqueue" /\ steer.id \notin Steered
        BY <1>20 DEF SteerEnqueue, Orderly, Own, Commands
    <2>2. \/ active' = active \cup {steer.id} /\ agent.up = TRUE
          \/ active' = active /\ SteerTo("requeue", FALSE)
        BY <1>20, <2>1, EnqueueDoes DEF Orderly, Own
    <2>3. SteerTo("requeue", FALSE) => steer'.pc = "requeue" /\ steer'.id = steer.id
        BY DEF SteerTo, Orderly, Typed, RecordsOK, SteerRec
    <2>4. agent.up = TRUE => \A s \in Turn : settle[s].pc = "off"
        BY DEF Bodyful, Orderly, Own, Lists, Guided, DeliveryAlone, Settling
    <2>5. \A x \in active' : agent.up = TRUE => Unsettled(x)'
        BY <2>1, <2>4 DEF Unsettled
    <2>6. CASE active' = active \cup {steer.id} /\ agent.up = TRUE
        BY <1>0, <2>1, <2>5, <2>6 DEF Orderly, Own, Holders, InFlightHeld, Unsettled
    <2>7. CASE active' = active /\ SteerTo("requeue", FALSE)
        BY <1>0, <2>1, <2>3, <2>7 DEF Orderly, Own, Holders, InFlightHeld, Unsettled
    <2> QED BY <2>2, <2>6, <2>7
<1>21. ASSUME SteerRequeue PROVE InFlightHeld'
    <2>1. UNCHANGED <<disp, active, settle>>
        BY <1>21 DEF SteerRequeue, own
    <2> QED BY <1>0, <1>21, <2>1, SteerRequeueMoves
            DEF Orderly, Own, Holders, InFlightHeld, Unsettled, Changes, InFlightStates
<1>22. ASSUME SteerConvert PROVE InFlightHeld'
    <2>1. UNCHANGED <<disp, active, settle>> /\ steer.pc = "convert"
        BY <1>22 DEF SteerConvert, own
    <2> QED BY <1>0, <1>22, <2>1, SteerConvertStill DEF Orderly, Own, Holders, InFlightHeld, Unsettled, Still
<1>23. ASSUME SteerReturn PROVE InFlightHeld'
    <2>1. UNCHANGED <<man, active, settle>> /\ steer.pc = "return" /\ disp'.item = disp.item
          /\ (disp'.pc = disp.pc \/ disp.pc = "off")
        BY <1>23, KickDoes DEF SteerReturn, Orderly, Typed, RecordsOK
    <2> QED BY <1>0, <2>1 DEF Orderly, Own, Holders, InFlightHeld, Unsettled, DispHolds
<1>24. ASSUME NEW intent \in Intents, UserEnqueue(intent) PROVE InFlightHeld'
    <2>1. PICK id \in Stem \ used, b \in Bodies :
              /\ Changes(id, {"gone"}, {"queued"}) /\ Worded /\ TextIn(man', id) = b /\ user.pc = "off"
              /\ used' = used \cup {id}
              /\ user'.id = id /\ user'.pc = (IF b = "badref" THEN "badref" ELSE intent)
        BY <1>24, UserEnqueueMoves
    <2>2. UNCHANGED <<disp, steer, active, settle>>
        BY <1>24 DEF UserEnqueue, own
    <2> QED BY <1>0, <2>1, <2>2 DEF Orderly, Own, Holders, InFlightHeld, Unsettled, Changes, InFlightStates
<1>25. ASSUME UserBadRef PROVE InFlightHeld'
    <2>1. UNCHANGED <<disp, steer, active, settle>>
        BY <1>25 DEF UserBadRef, own
    <2> QED BY <1>0, <1>25, <2>1, UserBadRefMoves
            DEF Orderly, Own, Holders, InFlightHeld, Unsettled, Changes, InFlightStates
<1>26. ASSUME UserBadPause \/ UserCancelResume PROVE InFlightHeld'
    BY <1>26, PausingStill
    DEF UserBadPause, UserCancelResume, UserOff, gate, own, hist, Orderly, Own, Holders,
        InFlightHeld, Unsettled, Changes, Still
<1>27. ASSUME UserSteer PROVE InFlightHeld'
    <2>1. UNCHANGED <<man, disp, active, settle>> /\ steer.pc = "off"
        BY <1>27 DEF UserSteer, own
    <2> QED BY <1>0, <2>1 DEF Orderly, Own, Holders, InFlightHeld, Unsettled
<1>28. ASSUME NEW p \in BOOLEAN, UserPause(p) PROVE InFlightHeld'
    <2>1. UNCHANGED <<steer, active, settle>> /\ disp'.item = disp.item
          /\ (disp'.pc = disp.pc \/ disp.pc = "off")
        BY <1>28, KickDoes DEF UserPause, own, Orderly, Typed, RecordsOK
    <2> QED BY <1>0, <1>28, <2>1, PausingStill
            DEF Orderly, Own, Holders, InFlightHeld, Unsettled, DispHolds, Still
<1>29. ASSUME UserRetry PROVE InFlightHeld'
    <2>1. PICK id \in used : /\ Changes(id, {"uncertain", "blocked"}, {"queued"}) /\ Worded
                            /\ applied' = applied \ {id}
        BY <1>29, UserRetryMoves
    <2>2. UNCHANGED <<steer, active, settle>> /\ disp'.item = disp.item
          /\ (disp'.pc = disp.pc \/ disp.pc = "off")
        BY <1>29, KickDoes DEF UserRetry, own, Orderly, Typed, RecordsOK
    <2> QED BY <1>0, <2>1, <2>2
            DEF Orderly, Own, Holders, InFlightHeld, Unsettled, Changes, InFlightStates, DispHolds
<1>30. ASSUME UserEdit PROVE InFlightHeld'
    <2>1. UNCHANGED <<disp, steer, active, settle>>
        BY <1>30 DEF UserEdit, own
    <2> QED BY <1>0, <1>30, <2>1, UserEditMoves
            DEF Orderly, Own, Holders, InFlightHeld, Unsettled, Changes, Still, InFlightStates
<1>31. ASSUME UserCancelPause PROVE InFlightHeld'
    BY <1>31, PausingStill
    DEF UserCancelPause, UserTo, gate, own, hist, Orderly, Own, Holders, InFlightHeld, Unsettled,
        Changes, Still
<1>32. ASSUME UserCancelDiscard PROVE InFlightHeld'
    <2>1. UNCHANGED <<disp, steer, active, settle>>
        BY <1>32 DEF UserCancelDiscard, own
    <2> QED BY <1>0, <1>32, <2>1, DiscardMoves
            DEF Orderly, Own, Holders, InFlightHeld, Unsettled, Changes, Still, InFlightStates
<1>33. ASSUME UserCancelTurn PROVE InFlightHeld'
    BY <1>33
    DEF UserCancelTurn, UserOff, Cancel, gate, own, hist, Orderly, Own, Holders, InFlightHeld,
        Unsettled
<1>34. ASSUME InboxSnapshot PROVE InFlightHeld'
    BY <1>34, SnapshotRescues
        DEF InboxSnapshot, gate, own, hist, Orderly, Own, Holders, InFlightHeld, Unsettled, Changes,
            Rescued, Locks, InFlightStates
<1>35. ASSUME Teardown PROVE InFlightHeld'
    BY <1>35
    DEF Teardown, Close, LoseAuthority, gate, own, hist, Orderly, Own, Holders, InFlightHeld,
        Unsettled
<1>36. ASSUME NEW t \in Turn, TurnAdmit(t) PROVE InFlightHeld'
    BY <1>36
    DEF TurnAdmit, AdmitStart, AdmitPark, AdmitDrop, Claim, gate, own, hist, Orderly, Own, Holders,
        InFlightHeld, Unsettled
<1>37. ASSUME NEW t \in Turn, TurnSpawn(t) PROVE InFlightHeld'
    BY <1>37 DEF TurnSpawn, Spawn, gate, own, hist, Orderly, Own, Holders, InFlightHeld, Unsettled
<1>38. ASSUME NEW t \in Turn, TurnBodyEnds(t) PROVE InFlightHeld'
    <2>1. UNCHANGED <<man, disp, steer, active>>
        BY <1>38 DEF TurnBodyEnds, own
    <2>2. \A s \in Turn : settle'[s].pc \in {"ack", "unsaved"} => settle'[s] = settle[s]
        BY <1>38 DEF TurnBodyEnds, Settle, SettleOff, Orderly, Typed, RecordsOK
    <2> QED BY <1>0, <2>1, <2>2 DEF Orderly, Own, Holders, InFlightHeld, Unsettled
<1>39. ASSUME NEW t \in Turn, SettleCapture(t) PROVE InFlightHeld'
    <2>1. UNCHANGED <<man, disp, steer, active>>
        BY <1>39 DEF SettleCapture, own
    <2>2. \A s \in Turn : settle'[s].pc \in {"ack", "unsaved"} => settle'[s] = settle[s] \/ settle'[s].left = active
        BY <1>39 DEF SettleCapture, Settle, SettleOff, Orderly, Typed, RecordsOK
    <2> QED BY <1>0, <2>1, <2>2 DEF Orderly, Own, Holders, InFlightHeld, Unsettled
<1>40. ASSUME NEW t \in Turn, SettleOne(t) PROVE InFlightHeld'
    <2>1. PICK id \in settle[t].left :
              /\ Changes(id, InFlightStates, InFlightStates \cup {"gone", "uncertain"}) /\ Worded
                 /\ Finished(id)
              /\ StatusIn(man', id) \in InFlightStates => id \in unsaved'
              /\ acked' = acked \/ (acked' = acked \cup {id} /\ StatusIn(man', id) = "gone")
              /\ \A s \in Turn : /\ settle'[s].pc = settle[s].pc /\ settle'[s].ids = settle[s].ids
                                 /\ settle'[s].left = IF s = t THEN settle[s].left \ {id} ELSE settle[s].left
        BY <1>40, SettleOneMoves
    <2>2. UNCHANGED <<disp, steer, active>>
        BY <1>40 DEF SettleOne, own
    <2>3. \A x : x # id /\ Unsettled(x) => Unsettled(x)'
        BY <2>1, <2>2 DEF Unsettled
    <2>4. \A x : StatusIn(man', x) \in InFlightStates => StatusIn(man, x) \in InFlightStates /\ (x = id => x \in unsaved')
        BY <2>1 DEF Changes
    <2> QED BY <1>0, <2>2, <2>3, <2>4 DEF Orderly, Own, Holders, InFlightHeld
<1>41. ASSUME NEW t \in Turn, SettleUntrack(t) PROVE InFlightHeld'
    <2>1. UNCHANGED <<disp, steer>> /\ settle[t].pc \in {"ack", "unsaved"} /\ settle[t].left = {}
        BY <1>41 DEF SettleUntrack
    <2>2. \A x : ~Unsettled(x)
        BY <2>1 DEF Unsettled
    <2> QED BY <1>0, <1>41, <2>1, <2>2, PausingStill DEF Orderly, Own, Holders, InFlightHeld, Still
<1>42. ASSUME NEW t \in Turn, TurnSettled(t) PROVE InFlightHeld'
    <2>1. UNCHANGED <<man, steer, active>> /\ disp'.item = disp.item
          /\ (disp'.pc = disp.pc \/ disp.pc = "off")
        BY <1>42, KickDoes DEF TurnSettled, own, Orderly, Typed, RecordsOK
    <2>2. \A s \in Turn : settle'[s].pc \in {"ack", "unsaved"} => settle'[s] = settle[s]
        BY <1>42 DEF TurnSettled, Settle, SettleOff, Orderly, Typed, RecordsOK
    <2> QED BY <1>0, <2>1, <2>2 DEF Orderly, Own, Holders, InFlightHeld, Unsettled, DispHolds
<1>43. ASSUME NEW t \in Turn, ChatAsk(t) PROVE InFlightHeld'
    BY <1>43 DEF ChatAsk, Ask, gate, own, hist, Orderly, Own, Holders, InFlightHeld, Unsettled
<1>44. ASSUME NEW q \in Rotator, Rotation(q) PROVE InFlightHeld'
    <2>1. UNCHANGED <<man, steer, active, settle>> /\ disp'.item = disp.item
          /\ (disp'.pc = disp.pc \/ disp.pc = "off")
        BY <1>44, KickDoes DEF Rotation, own, Orderly, Typed, RecordsOK
    <2> QED BY <1>0, <2>1 DEF Orderly, Own, Holders, InFlightHeld, Unsettled, DispHolds
<1> QED BY <1>1, <1>2, <1>3, <1>4, <1>5, <1>6, <1>7, <1>8, <1>9, <1>10, <1>11, <1>12, <1>13, <1>14,
           <1>15, <1>16, <1>17, <1>18, <1>19, <1>20, <1>21, <1>22, <1>23, <1>24, <1>25, <1>26,
           <1>27, <1>28, <1>29, <1>30, <1>31, <1>32, <1>33, <1>34, <1>35, <1>36, <1>37, <1>38,
           <1>39, <1>40, <1>41, <1>42, <1>43, <1>44, Excluded
        DEF INext, Dispatcher, Agent, Steering, User, Turns

(* Every step keeps the owned items accounted for.                          *)
LEMMA ActiveKnownNext ==
    ASSUME Orderly, INext
    PROVE  ActiveKnown'
<1>1. ASSUME DispLoop \/ DispBusy \/ DispScan \/ DispRead \/ DispClaimError \/ DispReturn
             \/ UserCancelWith
      PROVE  ActiveKnown'
    <2>1. UNCHANGED <<pc, item, agent, man, active, applied>>
        BY <1>1
        DEF DispLoop, DispBusy, DispScan, DispRead, DispClaimError, DispReturn, UserCancelWith,
            BackToLoop, ResetRetries, ScheduleRetry, gate, own, hist
    <2> QED BY <1>1, <2>1, AgentKept DEF Orderly, Own, Holders, ActiveKnown, Bodyful
<1>2. ASSUME DispClaim PROVE ActiveKnown'
    <2>1. UNCHANGED <<pc, item, agent, active, applied>>
        BY <1>2 DEF DispClaim, gate, own, hist
    <2> QED BY <1>2, <2>1, AgentKept, ClaimMoves
            DEF Orderly, Own, Holders, ActiveKnown, Bodyful, Changes, Still
<1>3. ASSUME DispBlock PROVE ActiveKnown'
    <2>1. UNCHANGED <<pc, item, agent, active, applied>>
        BY <1>3 DEF DispBlock, gate, own, hist
    <2> QED BY <1>3, <2>1, AgentKept, BlockMoves
            DEF Orderly, Own, Holders, ActiveKnown, Bodyful, Changes, Still
<1>4. ASSUME DispBlockPause \/ UserBadPause \/ UserCancelPause \/ UserCancelResume
      PROVE  ActiveKnown'
    <2>1. UNCHANGED <<pc, item, agent, active, applied>>
        BY <1>4 DEF DispBlockPause, UserBadPause, UserCancelPause, UserCancelResume, gate, own, hist
    <2> QED BY <1>4, <2>1, AgentKept, PausingStill
            DEF Orderly, Own, Holders, ActiveKnown, Bodyful, Changes, Still
<1>5. ASSUME DispAsk PROVE ActiveKnown'
    <2>1. UNCHANGED <<man, agent, active, applied>>
          /\ \A s \in Turn : (pc[s] = "body") = (pc'[s] = "body") /\ (pc[s] = "body" => item'[s] = item[s])
        BY <1>5 DEF DispAsk, Ask, gate, own, hist, Orderly, GateInv, TypeOK, Typed, NamesOK, RecordsOK
    <2> QED BY <2>1, AgentKept DEF Orderly, Own, Holders, ActiveKnown, Bodyful
<1>6. ASSUME DispStart PROVE ActiveKnown'
    <2>1. UNCHANGED <<man, agent, active, applied>>
          /\ \A s \in Turn : (pc[s] = "body") = (pc'[s] = "body") /\ (pc[s] = "body" => item'[s] = item[s])
        BY <1>6
        DEF DispStart, AdmitStart, own, hist, Orderly, GateInv, TypeOK, Typed, NamesOK, RecordsOK
    <2> QED BY <2>1, AgentKept DEF Orderly, Own, Holders, ActiveKnown, Bodyful
<1>7. ASSUME DispDrop PROVE ActiveKnown'
    <2>1. UNCHANGED <<man, agent, active, applied>>
          /\ \A s \in Turn : (pc[s] = "body") = (pc'[s] = "body") /\ (pc[s] = "body" => item'[s] = item[s])
        BY <1>7 DEF DispDrop, AdmitDrop, own, hist, Orderly, GateInv, TypeOK, Typed, NamesOK, RecordsOK
    <2> QED BY <2>1, AgentKept DEF Orderly, Own, Holders, ActiveKnown, Bodyful
<1>8. ASSUME DispOnStart PROVE ActiveKnown'
    <2>1. /\ disp.turn \in Turn /\ UNCHANGED item /\ active' = active \cup {disp.item.id}
          /\ pc[disp.turn] = "starting" /\ pc'[disp.turn] = "body"
        BY <1>8 DEF DispOnStart, Spawn, Orderly, Typed, NamesOK, GateInv, TypeOK
    <2>2. active = {}
        BY <2>1 DEF Orderly, Own, DeliveryAlone, GateInv, OneTurnInFlight, InFlight, Holders, ActiveLive
    <2>3. item[disp.turn] = disp.item
        BY <1>8 DEF DispOnStart, Orderly, Own, Carried
    <2> QED BY <2>1, <2>2, <2>3 DEF ActiveKnown
<1>9. ASSUME DispRollback PROVE ActiveKnown'
    <2>1. UNCHANGED <<pc, item, agent, active, applied>>
        BY <1>9 DEF DispRollback, gate, own, hist
    <2> QED BY <1>9, <2>1, AgentKept, RollbackMoves
            DEF Orderly, Own, Holders, ActiveKnown, Bodyful, Changes, Still
<1>10. ASSUME RetryFires \/ UserFollowup PROVE ActiveKnown'
    <2>1. UNCHANGED <<pc, item, agent, man, active, applied>>
        BY <1>10 DEF RetryFires, UserFollowup, UserOff, CommandKick, Kicked, gate, own, hist
    <2> QED BY <1>10, <2>1, AgentKept DEF Orderly, Own, Holders, ActiveKnown, Bodyful
<1>11. ASSUME AgentRun PROVE ActiveKnown'
    <2>1. UNCHANGED <<item, pc, applied, active, man>> /\ Steered' = Steered
        BY <1>11, RunDoes, AgentOff DEF AgentRun, gate, own, hist, Orderly, Own
    <2> QED BY <2>1 DEF Orderly, Own, Holders, ActiveKnown, Bodyful
<1>12. ASSUME AgentConsume PROVE ActiveKnown'
    <2>1. UNCHANGED <<man, pc, item, active>> /\ applied \subseteq applied' /\ Steered' = Steered
        BY <1>12, ConsumeDoes DEF AgentConsume, gate, own, Orderly, Own
    <2> QED BY <2>1 DEF Orderly, Own, Holders, ActiveKnown, Bodyful
<1>13. ASSUME AgentMarkConsumed PROVE ActiveKnown'
    <2>1. UNCHANGED <<applied, pc, item, active>> /\ agent.id \in applied
        BY <1>13 DEF AgentMarkConsumed, gate, own, hist, Orderly, Own, Guided
    <2> QED BY <1>13, <2>1, MarkDoes, ConsumedMoves
            DEF Orderly, Own, Holders, ActiveKnown, Bodyful, Changes
<1>14. ASSUME AgentFinish PROVE ActiveKnown'
    <2>1. UNCHANGED <<item, pc, applied, active, man>> /\ Steered' = Steered
        BY <1>14, FinishDoes DEF AgentFinish, gate, own, hist, Orderly, Own
    <2> QED BY <2>1 DEF Orderly, Own, Holders, ActiveKnown, Bodyful
<1>15. ASSUME AgentAbort PROVE ActiveKnown'
    <2>1. UNCHANGED <<item, pc, applied, active, man>> /\ Steered' = Steered
        BY <1>15, AbortDoes DEF AgentAbort, gate, own, hist, Orderly, Own
    <2> QED BY <2>1 DEF Orderly, Own, Holders, ActiveKnown, Bodyful
<1>16. ASSUME AgentUnapplied PROVE ActiveKnown'
    <2>1. UNCHANGED <<item, pc, applied, active>> /\ Steered' = Steered
          /\ Head(agent.flush) \notin applied
        BY <1>16, UnappliedDoes DEF Guided, AgentUnapplied, gate, own, hist, Orderly, Own
    <2> QED BY <1>16, <2>1, UnappliedMoves DEF Orderly, Own, Holders, ActiveKnown, Bodyful, Changes
<1>17. ASSUME AgentUnown PROVE ActiveKnown'
    <2>1. UNCHANGED <<item, pc, applied>> /\ active' = active \ HandedBack /\ Still
          /\ Steered' = Steered \ HandedBack
        BY <1>17, UnownDoes, PausingStill DEF AgentUnown, gate, hist, Orderly, Own
    <2> QED BY <2>1 DEF Orderly, Own, Holders, ActiveKnown, Bodyful, Still
<1>18. ASSUME SteerRead PROVE ActiveKnown'
    <2>1. UNCHANGED <<item, pc, active, agent>>
        BY <1>18 DEF SteerRead, gate, own
    <2> QED BY <1>18, <2>1, SteerReadMoves, AgentKept
        DEF Orderly, Own, Holders, ActiveKnown, Bodyful, Changes, Rescued, Locks,
            InFlightStates
<1>19. ASSUME SteerMark PROVE ActiveKnown'
    <2>1. UNCHANGED <<pc, item, agent, active, applied>>
        BY <1>19 DEF SteerMark, gate, own, hist
    <2> QED BY <1>19, <2>1, AgentKept, SteerMarkMoves
            DEF Orderly, Own, Holders, ActiveKnown, Bodyful, Changes, Still
<1>20. ASSUME SteerEnqueue PROVE ActiveKnown'
    <2>1. UNCHANGED <<man, pc, item, applied>> /\ steer.id \notin Steered
        BY <1>20 DEF SteerEnqueue, gate, hist, Orderly, Own, Commands
    <2>2. \/ active' = active \cup {steer.id} /\ Steered' = Steered \cup {steer.id}
          \/ active' = active /\ Steered' = Steered
        BY <1>20, <2>1, EnqueueDoes, AgentKept DEF Orderly, Own
    <2> QED BY <2>1, <2>2 DEF Orderly, Own, Holders, ActiveKnown, Bodyful
<1>21. ASSUME SteerRequeue PROVE ActiveKnown'
    <2>1. UNCHANGED <<pc, item, agent, active, applied>> /\ steer.id \notin applied
        BY <1>21 DEF SteerRequeue, gate, own, hist, Orderly, Own, Commands
    <2> QED BY <1>21, <2>1, AgentKept, SteerRequeueMoves
            DEF Orderly, Own, Holders, ActiveKnown, Bodyful, Changes, Still
<1>22. ASSUME SteerConvert PROVE ActiveKnown'
    <2>1. UNCHANGED <<pc, item, agent, active, applied>>
        BY <1>22 DEF SteerConvert, gate, own, hist
    <2> QED BY <1>22, <2>1, AgentKept, SteerConvertStill
            DEF Orderly, Own, Holders, ActiveKnown, Bodyful, Changes, Still
<1>23. ASSUME SteerReturn PROVE ActiveKnown'
    <2>1. UNCHANGED <<pc, item, agent, man, active, applied>>
        BY <1>23 DEF SteerReturn, Kicked, SteerOff, gate, own, hist
    <2> QED BY <1>23, <2>1, AgentKept DEF Orderly, Own, Holders, ActiveKnown, Bodyful
<1>24. ASSUME NEW intent \in Intents, UserEnqueue(intent) PROVE ActiveKnown'
    <2>1. PICK id \in Stem \ used, b \in Bodies :
              /\ Changes(id, {"gone"}, {"queued"}) /\ Worded /\ TextIn(man', id) = b /\ user.pc = "off"
              /\ used' = used \cup {id}
              /\ user'.id = id /\ user'.pc = (IF b = "badref" THEN "badref" ELSE intent)
        BY <1>24, UserEnqueueMoves
    <2>2. UNCHANGED <<pc, item, agent, active, applied>>
        BY <1>24 DEF UserEnqueue, gate, own, hist
    <2> QED BY <2>1, <2>2, AgentKept DEF Orderly, Own, Holders, ActiveKnown, Bodyful, Changes
<1>25. ASSUME UserBadRef PROVE ActiveKnown'
    <2>1. UNCHANGED <<pc, item, agent, active, applied>>
        BY <1>25 DEF UserBadRef, gate, own, hist
    <2> QED BY <1>25, <2>1, AgentKept, UserBadRefMoves
            DEF Orderly, Own, Holders, ActiveKnown, Bodyful, Changes, Still
<1>26. ASSUME UserSteer PROVE ActiveKnown'
    <2>1. UNCHANGED <<pc, item, agent, man, active, applied>>
        BY <1>26 DEF UserSteer, UserOff, SteerOff, gate, own, hist
    <2> QED BY <1>26, <2>1, AgentKept DEF Orderly, Own, Holders, ActiveKnown, Bodyful
<1>27. ASSUME NEW p \in BOOLEAN, UserPause(p) PROVE ActiveKnown'
    <2>1. UNCHANGED <<pc, item, agent, active, applied>>
        BY <1>27 DEF UserPause, gate, own, hist
    <2> QED BY <1>27, <2>1, AgentKept, PausingStill
            DEF Orderly, Own, Holders, ActiveKnown, Bodyful, Changes, Still
<1>28. ASSUME UserRetry PROVE ActiveKnown'
    <2>1. PICK id \in used : /\ Changes(id, {"uncertain", "blocked"}, {"queued"}) /\ Worded
                            /\ applied' = applied \ {id}
        BY <1>28, UserRetryMoves
    <2>2. UNCHANGED <<pc, item, agent, active>>
        BY <1>28 DEF UserRetry, gate, own
    <2> QED BY <2>1, <2>2, AgentKept DEF Orderly, Own, Holders, ActiveKnown, Bodyful, Changes
<1>29. ASSUME UserEdit PROVE ActiveKnown'
    <2>1. UNCHANGED <<pc, item, agent, active, applied>>
        BY <1>29 DEF UserEdit, gate, own, hist
    <2> QED BY <1>29, <2>1, AgentKept, UserEditMoves
            DEF Orderly, Own, Holders, ActiveKnown, Bodyful, Changes, Still
<1>30. ASSUME UserCancelDiscard PROVE ActiveKnown'
    <2>1. UNCHANGED <<pc, item, agent, active, applied>>
        BY <1>30 DEF UserCancelDiscard, gate, own, hist
    <2> QED BY <1>30, <2>1, DiscardMoves, AgentKept
            DEF Orderly, Own, Holders, ActiveKnown, Bodyful, Changes, Still, Pending
<1>31. ASSUME UserCancelTurn PROVE ActiveKnown'
    <2>1. UNCHANGED <<pc, item, agent, man, active, applied>>
        BY <1>31 DEF UserCancelTurn, UserOff, Cancel, gate, own, hist
    <2> QED BY <1>31, <2>1, AgentKept DEF Orderly, Own, Holders, ActiveKnown, Bodyful
<1>32. ASSUME InboxSnapshot PROVE ActiveKnown'
    <2>1. UNCHANGED <<pc, item, agent, active, applied>>
        BY <1>32 DEF InboxSnapshot, gate, own, hist
    <2> QED BY <1>32, <2>1, AgentKept, SnapshotRescues
        DEF Orderly, Own, Holders, ActiveKnown, Bodyful, Changes, Rescued, Locks,
            InFlightStates
<1>33. ASSUME Teardown PROVE ActiveKnown'
    <2>1. UNCHANGED <<man, agent, active, applied>>
          /\ \A s \in Turn : (pc[s] = "body") = (pc'[s] = "body") /\ (pc[s] = "body" => item'[s] = item[s])
        BY <1>33, ClosedDown
        DEF Teardown, own, hist, Orderly, GateInv, TypeOK, Typed, NamesOK, RecordsOK
    <2> QED BY <2>1, AgentKept DEF Orderly, Own, Holders, ActiveKnown, Bodyful
<1>34. ASSUME NEW t \in Turn, TurnAdmit(t) PROVE ActiveKnown'
    <2>1. UNCHANGED <<man, agent, active, applied>>
          /\ \A s \in Turn : (pc[s] = "body") = (pc'[s] = "body") /\ (pc[s] = "body" => item'[s] = item[s])
        BY <1>34
        DEF TurnAdmit, AdmitStart, AdmitPark, AdmitDrop, own, hist, Orderly, GateInv, TypeOK, Typed,
            NamesOK, RecordsOK
    <2> QED BY <2>1, AgentKept DEF Orderly, Own, Holders, ActiveKnown, Bodyful
<1>35. ASSUME NEW t \in Turn, TurnSpawn(t) PROVE ActiveKnown'
    <2>1. pc[t] = "starting" /\ active' = active
        BY <1>35 DEF TurnSpawn, Spawn, own
    <2>2. active = {}
        BY <2>1 DEF Orderly, Own, DeliveryAlone, GateInv, OneTurnInFlight, InFlight, Holders, ActiveLive
    <2> QED BY <2>1, <2>2 DEF ActiveKnown
<1>36. ASSUME NEW t \in Turn, TurnBodyEnds(t) PROVE ActiveKnown'
    <2>1. \A s \in Turn : pc'[s] # "body"
        BY <1>36, BodyDone
    <2> QED BY <2>1 DEF ActiveKnown, Bodyful
<1>37. ASSUME NEW t \in Turn, SettleCapture(t) PROVE ActiveKnown'
    <2>1. UNCHANGED <<pc, item, agent, man, active, applied>>
        BY <1>37 DEF SettleCapture, Settle, SettleOff, gate, own, hist
    <2> QED BY <1>37, <2>1, AgentKept DEF Orderly, Own, Holders, ActiveKnown, Bodyful
<1>38. ASSUME NEW t \in Turn, SettleOne(t) \/ SettleUntrack(t) PROVE ActiveKnown'
    <2>1. pc' = pc /\ settle[t].pc # "off"
        BY <1>38 DEF SettleOne, SettleUntrack, gate
    <2>2. \A s \in Turn : pc[s] # "body"
        BY <2>1 DEF Orderly, Own, Settling, DeliveryAlone
    <2> QED BY <2>1, <2>2 DEF ActiveKnown, Bodyful
<1>39. ASSUME NEW t \in Turn, TurnSettled(t) PROVE ActiveKnown'
    <2>1. active' = active /\ active = {}
        BY <1>39 DEF TurnSettled, own, Orderly, Own, Settling
    <2> QED BY <2>1 DEF ActiveKnown
<1>40. ASSUME NEW t \in Turn, ChatAsk(t) PROVE ActiveKnown'
    <2>1. UNCHANGED <<man, agent, active, applied>>
          /\ \A s \in Turn : (pc[s] = "body") = (pc'[s] = "body") /\ (pc[s] = "body" => item'[s] = item[s])
        BY <1>40 DEF ChatAsk, Ask, own, hist, Orderly, GateInv, TypeOK, Typed, NamesOK, RecordsOK
    <2> QED BY <2>1, AgentKept DEF Orderly, Own, Holders, ActiveKnown, Bodyful
<1>41. ASSUME NEW q \in Rotator, Rotation(q) PROVE ActiveKnown'
    <2>1. UNCHANGED <<pc, item, agent, man, active, applied>>
        BY <1>41 DEF Rotation, BeginRotation, EndRotation, Kicked, gate, own, hist
    <2> QED BY <1>41, <2>1, AgentKept DEF Orderly, Own, Holders, ActiveKnown, Bodyful
<1> QED BY <1>1, <1>2, <1>3, <1>4, <1>5, <1>6, <1>7, <1>8, <1>9, <1>10, <1>11, <1>12, <1>13, <1>14,
           <1>15, <1>16, <1>17, <1>18, <1>19, <1>20, <1>21, <1>22, <1>23, <1>24, <1>25, <1>26,
           <1>27, <1>28, <1>29, <1>30, <1>31, <1>32, <1>33, <1>34, <1>35, <1>36, <1>37, <1>38,
           <1>39, <1>40, <1>41, Excluded
        DEF INext, Dispatcher, Agent, Steering, User, Turns

-----------------------------------------------------------------------------

(* A new controller has its types.                                          *)
LEMMA TypedStart == IInit => Typed
<1> SUFFICES ASSUME IInit PROVE Typed
    OBVIOUS
<1>1. ManOK(man) /\ man.items = <<>> /\ Len(man.items) = 0
    BY EmptyIsWellMade DEF IInit, ManOK, WellStocked, EmptyManifest
<1>2. \A x : StatusIn(man, x) = "gone"
    BY <1>1, Seen DEF IInit
<1>3. ManifestOK
    BY <1>1, <1>2, MaxItemsAssumption DEF ManifestOK, IInit
<1>4. NoItem \in ItemRec /\ SettleOff \in SettleRec /\ SteerOff \in SteerRec /\ UserOff \in UserRec
    BY DEF NoItem, ItemRec, Names, SettleOff, SettleRec, SteerOff, SteerRec, UserOff, UserRec
<1>5. front \in Frontends /\ admMu = "free" /\ item \in [Turn -> ItemRec]
      /\ settle \in [Turn -> SettleRec]
      /\ steer \in SteerRec /\ user \in UserRec
    BY <1>4 DEF IInit
<1>6. disp \in DispRec
    BY <1>4 DEF IInit, DispRec, DispLocked, DispHolds
<1>7. retry \in RetryRec
    BY RetriesAssumption DEF IInit, RetryRec
<1>8. agent \in AgentRec
    BY DEF IInit, AgentRec, Names
<1>9. NamesOK
    BY NoneListed DEF IInit, NamesOK, SettleOff, DispLocked, DispHolds, SteerOff, UserOff
<1> QED BY <1>3, <1>5, <1>6, <1>7, <1>8, <1>9 DEF Typed, RecordsOK

(* The gate of a new controller satisfies the invariant of the gate.        *)
LEMMA GateStart == IInit => GateInv
<1> SUFFICES ASSUME IInit PROVE GateInv
    OBVIOUS
<1>1. TypeOK
    BY EmptySeq DEF IInit, NewGate, TypeOK, AllKinds, PC
<1>2. QueueMatchesCallers
    BY DEF IInit, NewGate, QueueMatchesCallers
<1>3. OneDelivery /\ OneTurnInFlight /\ DeliveryHoldsGate /\ CloseSeals /\ RotationExclusive
    BY DEF IInit, NewGate, OneDelivery, OneTurnInFlight, DeliveryHoldsGate, CloseSeals,
           RotationExclusive, InFlight
<1>4. CancelTargetsTurnInFlight
    BY NoTurnAssumption DEF IInit, NewGate, CancelTargetsTurnInFlight, InFlight
<1> QED BY <1>1, <1>2, <1>3, <1>4 DEF GateInv

(* A new controller owns nothing.                                           *)
LEMMA OwnStart == IInit /\ Plain => Own
<1> SUFFICES ASSUME IInit, Plain PROVE Own
    OBVIOUS
<1>1. Typed
    BY TypedStart
<1>2. \A x : StatusIn(man, x) = "gone"
    BY <1>1, Seen DEF Typed, ManifestOK, IInit, EmptyManifest
<1>3. /\ Lists /\ agent.pc = "off"
    BY NoneListed DEF IInit, Lists
<1>4. Waiting = {} /\ Steered = {} /\ HandedBack = {}
    BY <1>1, <1>3, AgentOff
<1>5. \A t \in Turn : pc[t] = "idle" /\ settle[t].pc = "off" /\ item[t] = NoItem /\ kind[t] = "guarded"
    BY DEF IInit, NewGate, SettleOff
<1>6. disp.pc = "off" /\ steer.pc = "off" /\ user.pc = "off" /\ admMu = "free" /\ active = {}
      /\ admitting = {}
      /\ applied = {} /\ acked = {} /\ runner.pc = "off"
    BY DEF IInit, SteerOff, UserOff, RunnerOff
<1>7. PlainUse /\ Locks /\ DeliveryAlone /\ Carried
    BY <1>5, <1>6 DEF PlainUse, Locks, DeliveryAlone, Carried, DispLocked, DispHolds, SteerLocked
<1>8. Guided /\ Returned /\ Commands /\ Claims
    BY <1>3, <1>4, <1>6 DEF Guided, Returned, Commands, Claims, DispHolds
<1>9. Holders /\ Settling /\ History
    BY <1>2, <1>5, <1>6
    DEF Holders, TurnItemHeld, InFlightHeld, ActiveLive, ActiveKnown, Bodyful, InFlightStates,
                            Settling, History
<1> QED BY <1>3, <1>7, <1>8, <1>9 DEF Own

(* Every step keeps the types and the gate.                                 *)
LEMMA TypedStep ==
    ASSUME Typed, GateInv, [INext]_ivars
    PROVE  Typed' /\ GateInv'
<1>1. CASE INext
    BY <1>1, ManifestNext, RecordsNext, NamesNext, GateINext DEF Typed, RecordsOK
<1>2. CASE UNCHANGED ivars
    <2>1. GateInv'
        BY <1>2, GateKept DEF ivars
    <2>2. ManifestOK' /\ RecordsOK' /\ NamesOK'
        BY <1>2 DEF ivars, own, hist, Typed, ManifestOK, RecordsOK, NamesOK
    <2> QED BY <2>1, <2>2 DEF Typed
<1> QED BY <1>1, <1>2

(* Every step keeps who owns what.                                          *)
LEMMA OwnStep ==
    ASSUME Orderly, [INext]_ivars
    PROVE  Own'
<1>1. CASE INext
    BY <1>1, PlainUseNext, LocksNext, DeliveryAloneNext, CarriedNext, ListsNext, GuidedNext, ReturnedNext,
       CommandsNext, ClaimsNext,
       ActiveLiveNext, TurnItemHeldNext, InFlightHeldNext, ActiveKnownNext, SettlingNext,
       HistoryNext
    DEF Own, Holders
<1>2. CASE UNCHANGED ivars
    <2>1. UNCHANGED <<pc, kind, man, active, admitting, admMu, item, settle, disp, agent, steer, user, applied, acked, unsaved, runner, front>>
        BY <1>2 DEF ivars, gate, own, hist
    <2>2. Waiting' = Waiting /\ Steered' = Steered /\ HandedBack' = HandedBack /\ Lists'
        BY <2>1, AgentKept DEF Orderly, Own
    <2>3. PlainUse' /\ Locks' /\ DeliveryAlone' /\ Carried'
        BY <2>1 DEF Orderly, Own, PlainUse, Plain, Ops, Bodies, Locks, DeliveryAlone, Carried
    <2>4. Guided' /\ Returned' /\ Commands' /\ Claims'
        BY <2>1, <2>2 DEF Orderly, Own, Guided, Returned, Bodyful, Commands, Bodies, Claims
    <2>5. Holders'
        BY <2>1, <2>2
        DEF Orderly, Own, Holders, TurnItemHeld, InFlightHeld, Unsettled, ActiveLive, ActiveKnown,
            Bodyful
    <2>6. Settling' /\ History'
        BY <2>1 DEF Orderly, Own, Settling, Finished, History
    <2> QED BY <2>2, <2>3, <2>4, <2>5, <2>6 DEF Own
<1> QED BY <1>1, <1>2

(* The types and the invariant of the gate hold throughout.                 *)
LEMMA AlwaysTyped == ISpec => [](Typed /\ GateInv)
<1>1. IInit => Typed /\ GateInv
    BY TypedStart, GateStart
<1>2. (Typed /\ GateInv) /\ [INext]_ivars => (Typed /\ GateInv)'
    BY TypedStep
<1> QED BY <1>1, <1>2, PTL DEF ISpec

(* The inductive invariant holds throughout, for a plain frontend.          *)
LEMMA AlwaysOrderly == ISpec /\ Plain => []Orderly
<1>1. IInit /\ Plain => Orderly
    BY TypedStart, GateStart, OwnStart DEF Orderly
<1>2. Orderly /\ [INext]_ivars => Orderly'
    BY TypedStep, OwnStep DEF Orderly
<1> QED BY <1>1, <1>2, PTL DEF ISpec

(***************************************************************************)
(* The inbox wiring keeps its types, whatever its frontend does.            *)
(***************************************************************************)
THEOREM ControllerTypeCorrect == ISpec => []ITypeOK
<1>1. Typed /\ GateInv => ITypeOK
    <2> SUFFICES ASSUME Typed, GateInv PROVE ITypeOK
        OBVIOUS
    <2>1. TypeOK /\ active \subseteq Stem /\ admitting \subseteq Stem /\ used \subseteq Stem
          /\ admMu \in {"free", "disp", "steer"} /\ retry.attempts \in 0..MaxDispatchRetries
          /\ applied \subseteq used /\ acked \subseteq used /\ unsaved \subseteq used
        BY DEF GateInv, Typed, ManifestOK, RecordsOK, NamesOK, RetryRec
    <2>2. ManOK(man)
        BY DEF Typed, ManifestOK
    <2>3. Ids(man) \subseteq used /\ Len(man.items) <= MaxItems
        BY <2>2, Seen DEF Typed, ManifestOK, States, Pending, InFlightStates
    <2>4. \A it \in ToSet(man.items) : it.state \in States /\ it.intent \in Intents
        BY <2>2, Seen DEF ToSet
    <2> QED BY <2>1, <2>3, <2>4 DEF ITypeOK
<1> QED BY <1>1, AlwaysTyped, PTL

(***************************************************************************)
(* The item of a running turn stays running until the turn ends: no orphan  *)
(* recovery, retry, edit or stop of the frontend takes it away.             *)
(***************************************************************************)
THEOREM TurnKeepsItsItem == ISpec /\ Plain => []LiveTurnItemRunning
<1>1. Orderly => LiveTurnItemRunning
    BY DispReadDoes DEF LiveTurnItemRunning, Orderly, Typed, Own, Holders, TurnItemHeld
<1> QED BY <1>1, AlwaysOrderly, PTL

(***************************************************************************)
(* Only an item that ran or was applied as a steer is acknowledged and      *)
(* removed by onInboxTurnDone.                                              *)
(***************************************************************************)
THEOREM AcksFollowRuns == ISpec /\ Plain => []AckAfterRun
<1>1. Orderly => AckAfterRun
    BY DEF AckAfterRun, Orderly, Own, History
<1> QED BY <1>1, AlwaysOrderly, PTL

(***************************************************************************)
(* No item is a turn's own text and one of the agent's steers at the same   *)
(* time, and the agent has no steer twice.                                  *)
(***************************************************************************)
THEOREM RunOrSteered == ISpec /\ Plain => []NotRunAndSteered
<1>1. ASSUME Orderly PROVE NotRunAndSteered
    <2>1. agent \in AgentRec /\ agent.queue \in Seq(Stem) /\ Once(agent.queue)
        BY <1>1 DEF Orderly, Typed, RecordsOK, AgentRec, Own, Lists
    <2>2. \A i, j \in DOMAIN agent.queue : agent.queue[i] = agent.queue[j] => i = j
        BY <2>1 DEF Once
    <2>3. \A x \in ToSet(agent.queue) : StatusIn(man, x) = "steer_accepted"
        BY <1>1 DEF Waiting, Orderly, Own, Guided
    <2> QED BY <1>1, <2>2, <2>3 DEF NotRunAndSteered, Orderly, Own, Holders, TurnItemHeld
<1> QED BY <1>1, AlwaysOrderly, PTL

(***************************************************************************)
(* When everybody has returned, no ownership is left behind, and every item *)
(* left is pending or is one a write about which failed, whatever was       *)
(* aborted, rolled back or turned away before.                              *)
(***************************************************************************)
THEOREM RestLeavesNothing == ISpec /\ Plain => []NoOrphansAtRest
<1>1. ASSUME Orderly, AtRest 
      PROVE  Owned = {} /\ \A it \in ToSet(man.items) : it.state \in Pending \/ it.id \in unsaved
    <2>1. active = {}
        BY <1>1 DEF AtRest, Orderly, Own, Holders, ActiveLive
    <2>2. admitting = {}
        BY <1>1 DEF AtRest, Orderly, Own, Locks, DispHolds
    <2>3. \A x : StatusIn(man, x) \in InFlightStates => x \in unsaved
        BY <1>1, <2>1 DEF AtRest, Orderly, Own, Holders, InFlightHeld, Unsettled, DispHolds
    <2>4. \A it \in ToSet(man.items) : it.state \in States /\ StatusIn(man, it.id) = it.state
        BY <1>1, Seen DEF Orderly, Typed, ManifestOK, ToSet
    <2> QED BY <2>1, <2>2, <2>3, <2>4 DEF Owned, States
<1>2. Orderly => NoOrphansAtRest
    BY <1>1 DEF NoOrphansAtRest
<1> QED BY <1>2, AlwaysOrderly, PTL

(***************************************************************************)
(* An item that ran does not run or steer again unless the frontend asked   *)
(* for a retry.                                                             *)
(***************************************************************************)
THEOREM NeverAppliedTwice == ISpec /\ Plain => AppliedNotRerun
<1> DEFINE Fresh == /\ \A t \in Turn : pc[t] # "body" /\ pc'[t] = "body" => item'[t].id \notin applied
                    /\ agent.pc = "run" /\ agent'.pc = "applied" => agent'.id \notin applied
<1>1. ASSUME Orderly, INext PROVE Fresh
    <2>1. NoItem.id \notin applied
        BY <1>1, NoStemAssumption DEF NoItem, Orderly, Typed, NamesOK, ManifestOK
    <2>2. applied \subseteq applied' \/ pc' = pc
        BY <1>1
        DEF INext, Dispatcher, Agent, Steering, User, Turns, DispLoop, DispBusy, DispScan, DispRead,
            DispClaim, DispClaimError, DispBlock, DispBlockPause, DispAsk, DispStart, DispDrop,
            DispOnStart, DispRollback, DispReturn, RetryFires, SteerRead, SteerMark, SteerRequeue,
            SteerConvert, SteerReturn, UserEnqueue, UserBadRef, UserBadPause, UserFollowup,
            UserSteer, UserPause, UserRetry, UserEdit, UserDelete, UserDeleteItem, UserUnaccept,
            UserCancelWith, UserCancelPause, UserCancelDiscard, UserCancelTurn, UserCancelResume,
            InboxSnapshot, Rotation, Teardown, ChatAsk, RunItemAsk, RunItemBlocks, RunItemRead, RunItemBlock, RunItemPause, TurnAdmit,
            TurnSpawn, RunItemClaim, TurnBodyEnds, SettleCapture, SettleOne, SettleUntrack,
            TurnSettled, AgentRun, AgentConsume, AgentMarkConsumed, AgentFinish, AgentAbort,
            AgentUnapplied, AgentUnown, SteerEnqueue, hist, gate
    <2>3. ASSUME NEW t \in Turn, pc[t] # "body", pc'[t] = "body" PROVE item'[t].id \notin applied
        BY <1>1, <2>1, <2>2, <2>3, TurnItemHeldNext DEF TurnItemHeld
    <2>4. agent' = agent \/ Agent \/ SteerEnqueue
        BY <1>1, AgentMoves
    <2>5. ASSUME agent.pc = "run", agent'.pc = "applied" PROVE agent'.id \notin applied
        <3>1. ~SteerEnqueue
            BY <1>1, <2>5, EnqueueDoes DEF SteerEnqueue, Orderly, Own, Commands
        <3>2. AgentConsume
            BY <1>1, <2>4, <2>5, <3>1, RunDoes, MarkDoes, FinishDoes, AbortDoes, UnappliedDoes,
               UnownDoes
            DEF Agent, Orderly, Own
        <3> QED BY <1>1, <2>5, <3>2, ConsumeDoes DEF Orderly, Own, Guided
    <2> QED BY <2>3, <2>5
<1>2. ASSUME UNCHANGED ivars PROVE Fresh
    BY <1>2 DEF ivars, gate
<1>3. Orderly /\ [INext]_ivars => [~Heedless => Fresh]_ivars
    BY <1>1, <1>2
<1> QED BY <1>3, AlwaysOrderly, PTL DEF AppliedNotRerun, ISpec

-----------------------------------------------------------------------------

(***************************************************************************)
(* A frontend that leaves the wakeups to the controller: it sends no        *)
(* blocking turns, runs no items itself, does not edit and does not stop    *)
(* with discard (those two put an item back and kick nobody).               *)
(***************************************************************************)
Told == Ops \cap {"cancelwith", "edit", "runitem"} = {} /\ "sync" \notin front.chat

(* What decides whether a turn could be admitted.                           *)
Doors == <<running, finishing, rotating, closed, writable, published>>

(* No turn could be admitted: whoever opens the gate again kicks the        *)
(* dispatcher.                                                              *)
Busy == ~GateOpen \/ ~Idle \/ ~writable

(* Somebody will still look for the item: the dispatcher, whoever keeps the *)
(* gate shut, a scheduled retry, or the command that is queueing it.        *)
Woken(x) ==
    \/ disp.kick = TRUE \/ disp.pc \in {"busy", "scan", "submit", "claim", "pause", "ask", "admit", "error"}
    \/ Busy
    \/ retry.scheduled = TRUE \/ retry.attempts >= MaxDispatchRetries
    \/ user.pc \in {"followup", "steer", "badref", "delete", "redelete"} /\ user.id = x
    \/ steer.pc \in {"called", "mark", "convert"} /\ steer.id = x
    \/ steer.pc = "return" /\ steer.kick = TRUE

(* What such a frontend never starts.                                       *)
ToldUse ==
    /\ Told /\ \A t \in Turn : kind[t] # "sync" /\ pc[t] # "settling"
    /\ user.pc \notin {"cwpause", "cwdiscard", "cwcancel", "cwcancelresume", "cwresume"}
    /\ runner.pc = "off"

(* A note for the dispatcher is left only while one is running to read it.  *)
KickLive == disp.kick = TRUE => disp.pc # "off"

(* The turn the dispatcher is about to release has been admitted.           *)
StartKept == disp.pc = "onstart" => pc[disp.turn] = "starting"

(* A dispatcher that was turned away was turned away by a gate still shut,  *)
(* or has been kicked since.                                                *)
Answered == disp.pc \in {"rollback", "return"} => disp.kick = TRUE \/ Busy

(* In an unpaused inbox somebody is awake for every queued item, unless a   *)
(* write about it failed or the dispatcher's last look stopped at a prompt. *)
QueuedWoken ==
    man.paused = FALSE /\ ~asleep
        => \A x : StatusIn(man, x) = "queued" => x \in unsaved \/ Woken(x)

(* The parts of the wakeup argument.                                        *)
Wakeful == ToldUse /\ KickLive /\ StartKept /\ Answered /\ QueuedWoken

(***************************************************************************)
(* The inductive invariant for the wakeups.                                 *)
(***************************************************************************)
Alert == Typed /\ GateInv /\ Wakeful

(* A step that queues nothing.                                              *)
NoneQueued == \A x : man'.paused = FALSE /\ StatusIn(man', x) = "queued" => man.paused = FALSE /\ StatusIn(man, x) = "queued"

(* The steps such a frontend never causes.                                  *)
LEMMA NotTold ==
    ASSUME Alert
    PROVE  /\ ~UserEdit /\ ~UserCancelWith /\ ~UserCancelPause /\ ~UserCancelDiscard /\ ~UserCancelTurn
           /\ ~UserCancelResume /\ ~RunItemBlocks
           /\ \A t \in Turn : ~RunItemAsk(t) /\ ~RunItemClaim(t)
    BY DEF Alert, Wakeful, ToldUse, Told, UserEdit, UserCancelWith, UserCancelPause,
           UserCancelDiscard, UserCancelTurn,
           UserCancelResume, RunItemBlocks, RunItemRead, RunItemBlock, RunItemPause, RunItemAsk, RunItemClaim

(* A step that leaves the gate alone leaves it as busy as it was.           *)
LEMMA DoorsKept ==
    ASSUME UNCHANGED Doors
    PROVE  Busy' = Busy
    BY DEF Doors, Busy, GateOpen, Idle

(* The end of a finishing window hands the gate on or kicks the dispatcher. *)
LEMMA WindowWakes ==
    ASSUME Alert, NEW t \in Turn, TurnSettled(t)
    PROVE  (Busy' \/ disp'.kick = TRUE)
           /\ disp'.item = disp.item /\ disp'.turn = disp.turn
           /\ (disp' = disp \/ (disp'.kick = TRUE /\ disp'.pc = IF disp.pc = "off" THEN "loop" ELSE disp.pc))
<1>1. disp \in DispRec
    BY DEF Alert, Typed, RecordsOK
<1>2. Delivered(t) /\ disp' = IF closed \/ parked # <<>> THEN disp ELSE Kicked(disp)
    BY DEF TurnSettled, SyncSettled, Alert, Wakeful, ToldUse
<1>3. closed \/ parked # <<>> => closed' = TRUE \/ running' = TRUE
    BY <1>2 DEF Delivered, EndWindow, Claim, Alert, GateInv, TypeOK
<1>4. closed \/ parked # <<>> => Busy' /\ disp' = disp
    BY <1>2, <1>3 DEF Busy, GateOpen, Idle
<1> QED BY <1>1, <1>2, <1>4, KickDoes

(* Whoever opens the gate kicks the dispatcher.                             *)
LEMMA BusyKept ==
    ASSUME Alert, INext, Busy
    PROVE  Busy' \/ disp'.kick = TRUE
<1>1. UNCHANGED Doors => Busy'
    BY DoorsKept
<1>2. running' = TRUE \/ rotating' = TRUE \/ closed' = TRUE \/ writable' = FALSE => Busy'
    BY DEF Busy, GateOpen, Idle
<1>3. CASE Agent \/ Steering \/ User
    <2>1. UNCHANGED Doors
        BY <1>3, NotTold
        DEF Doors, gate, Agent, Steering, User, AgentRun, AgentConsume, AgentMarkConsumed,
            AgentFinish,
            AgentAbort, AgentUnapplied, AgentUnown, SteerRead, SteerMark, SteerEnqueue, SteerRequeue,
            SteerConvert, SteerReturn,
            UserEnqueue, UserBadRef, UserBadPause, UserFollowup, UserSteer, UserPause, UserRetry,
            UserDelete, UserDeleteItem,
            UserUnaccept, InboxSnapshot
    <2> QED BY <1>1, <2>1
<1>4. CASE Dispatcher
    <2>1. UNCHANGED Doors \/ running' = TRUE
        BY <1>4
        DEF Doors, gate, flags, Dispatcher, DispLoop, DispBusy, DispScan, DispRead, DispClaim,
            DispClaimError, DispBlock,
            DispBlockPause, DispAsk, Ask, DispStart, AdmitStart, Claim, DispDrop, AdmitDrop,
            DispOnStart, Spawn, DispRollback,
            DispReturn, RetryFires
    <2> QED BY <1>1, <1>2, <2>1
<1>5. CASE Teardown
    <2>1. closed' = TRUE \/ writable' = FALSE
        BY <1>5 DEF Teardown, Close, LoseAuthority
    <2> QED BY <1>2, <2>1
<1>6. ASSUME NEW t \in Turn, TurnAdmit(t) \/ TurnSpawn(t) \/ ChatAsk(t) \/ SettleCapture(t) \/ SettleOne(t) \/ SettleUntrack(t)
      PROVE  Busy'
    <2>1. UNCHANGED Doors \/ running' = TRUE
        BY <1>6
        DEF Doors, gate, flags, TurnAdmit, AdmitStart, Claim, AdmitPark, AdmitDrop, TurnSpawn,
            Spawn, ChatAsk, Ask,
            SettleCapture, SettleOne, SettleUntrack
    <2> QED BY <1>1, <1>2, <2>1
<1>7. ASSUME NEW t \in Turn, TurnBodyEnds(t) PROVE Busy'
    <2>1. closed' = closed /\ finishing' = ~closed
        BY <1>7 DEF TurnBodyEnds, BodyEnds, SyncEnds, FinishGuarded, Alert, Wakeful, ToldUse
    <2> QED BY <2>1 DEF Busy, GateOpen, Idle
<1>8. ASSUME NEW q \in Rotator, Rotation(q) PROVE Busy' \/ disp'.kick = TRUE
    <2>1. rotating' = TRUE \/ disp' = Kicked(disp)
        BY <1>8 DEF Rotation, BeginRotation, EndRotation
    <2> QED BY <1>2, <2>1, KickDoes DEF Alert, Typed, RecordsOK
<1> QED BY <1>3, <1>4, <1>5, <1>6, <1>7, <1>8, WindowWakes, NotTold DEF INext, Turns

(* Every step keeps what such a frontend never starts.                      *)
LEMMA ToldUseNext ==
    ASSUME Alert, INext
    PROVE  ToldUse'
<1>1. ASSUME DispLoop \/ DispBusy \/ DispScan \/ DispRead \/ DispClaim \/ DispClaimError
             \/ DispBlock
      PROVE  ToldUse'
    <2>1. UNCHANGED <<front, kind, pc, user, runner>>
        BY <1>1 DEF DispLoop, DispBusy, DispScan, DispRead, DispClaim, DispClaimError, DispBlock, gate
    <2> QED BY <2>1 DEF Alert, Wakeful, ToldUse, Told, Ops
<1>2. ASSUME DispBlockPause \/ DispRollback \/ DispReturn \/ RetryFires \/ AgentRun
             \/ AgentConsume \/ AgentMarkConsumed
      PROVE  ToldUse'
    <2>1. UNCHANGED <<front, kind, pc, user, runner>>
        BY <1>2
        DEF DispBlockPause, DispRollback, DispReturn, RetryFires, AgentRun, AgentConsume,
            AgentMarkConsumed, gate
    <2> QED BY <2>1 DEF Alert, Wakeful, ToldUse, Told, Ops
<1>3. ASSUME DispAsk PROVE ToldUse'
    <2>1. UNCHANGED <<front, user, runner>>
        BY <1>3 DEF DispAsk
    <2>2. \A s \in Turn : kind'[s] # "sync" /\ pc'[s] # "settling"
        BY <1>3 DEF DispAsk, Ask, gate, Alert, GateInv, TypeOK, Wakeful, ToldUse, Told
    <2> QED BY <2>1, <2>2 DEF Alert, Wakeful, ToldUse, Told, Ops
<1>4. ASSUME DispStart PROVE ToldUse'
    <2>1. disp.pc \in {"admit", "onstart"} => disp.turn \in Turn
        BY DEF Alert, Typed, NamesOK
    <2>2. UNCHANGED <<front, user, runner>>
        BY <1>4 DEF DispStart
    <2>3. \A s \in Turn : kind'[s] # "sync" /\ pc'[s] # "settling"
        BY <1>4, <2>1 DEF DispStart, AdmitStart, gate, Alert, GateInv, TypeOK, Wakeful, ToldUse, Told
    <2> QED BY <2>2, <2>3 DEF Alert, Wakeful, ToldUse, Told, Ops
<1>5. ASSUME DispDrop PROVE ToldUse'
    <2>1. disp.pc \in {"admit", "onstart"} => disp.turn \in Turn
        BY DEF Alert, Typed, NamesOK
    <2>2. UNCHANGED <<front, user, runner>>
        BY <1>5 DEF DispDrop
    <2>3. \A s \in Turn : kind'[s] # "sync" /\ pc'[s] # "settling"
        BY <1>5, <2>1 DEF DispDrop, AdmitDrop, gate, Alert, GateInv, TypeOK, Wakeful, ToldUse, Told
    <2> QED BY <2>2, <2>3 DEF Alert, Wakeful, ToldUse, Told, Ops
<1>6. ASSUME DispOnStart PROVE ToldUse'
    <2>1. disp.pc \in {"admit", "onstart"} => disp.turn \in Turn
        BY DEF Alert, Typed, NamesOK
    <2>2. UNCHANGED <<front, user, runner>>
        BY <1>6 DEF DispOnStart
    <2>3. \A s \in Turn : kind'[s] # "sync" /\ pc'[s] # "settling"
        BY <1>6, <2>1 DEF DispOnStart, Spawn, gate, Alert, GateInv, TypeOK, Wakeful, ToldUse, Told
    <2> QED BY <2>2, <2>3 DEF Alert, Wakeful, ToldUse, Told, Ops
<1>7. ASSUME AgentFinish \/ AgentAbort \/ AgentUnapplied \/ AgentUnown \/ SteerRead \/ SteerMark
              \/ SteerEnqueue
      PROVE  ToldUse'
    <2>1. UNCHANGED <<front, kind, pc, user, runner>>
        BY <1>7
        DEF AgentFinish, AgentAbort, AgentUnapplied, AgentUnown, SteerRead, SteerMark, SteerEnqueue,
            gate
    <2> QED BY <2>1 DEF Alert, Wakeful, ToldUse, Told, Ops
<1>8. ASSUME SteerRequeue \/ SteerConvert \/ SteerReturn \/ UserRetry \/ InboxSnapshot
      PROVE  ToldUse'
    <2>1. UNCHANGED <<front, kind, pc, user, runner>>
        BY <1>8 DEF SteerRequeue, SteerConvert, SteerReturn, UserRetry, InboxSnapshot, gate
    <2> QED BY <2>1 DEF Alert, Wakeful, ToldUse, Told, Ops
<1>9. ASSUME NEW intent \in Intents, UserEnqueue(intent) PROVE ToldUse'
    <2>1. UNCHANGED <<front, kind, pc, runner>> /\ user'.pc \in Intents \cup {"badref"}
        BY <1>9, UserEnqueueDoes DEF UserEnqueue, gate, Alert, Typed, RecordsOK, UserRec
    <2> QED BY <2>1 DEF Alert, Wakeful, ToldUse, Told, Ops, Intents
<1>10. ASSUME UserBadRef PROVE ToldUse'
    <2>1. UNCHANGED <<front, kind, pc, runner>>
          /\ (user'.pc = user.pc \/ user'.pc \in {"off", "badpause", "delete", "redelete", "unaccept"})
        BY <1>10 DEF UserBadRef, UserTo, UserOff, gate, Alert, Typed, RecordsOK, UserRec
    <2> QED BY <2>1 DEF Alert, Wakeful, ToldUse, Told, Ops
<1>11. ASSUME UserBadPause PROVE ToldUse'
    <2>1. UNCHANGED <<front, kind, pc, runner>>
          /\ (user'.pc = user.pc \/ user'.pc \in {"off", "badpause", "delete", "redelete", "unaccept"})
        BY <1>11 DEF UserBadPause, UserOff, gate, Alert, Typed, RecordsOK, UserRec
    <2> QED BY <2>1 DEF Alert, Wakeful, ToldUse, Told, Ops
<1>12. ASSUME UserFollowup PROVE ToldUse'
    <2>1. UNCHANGED <<front, kind, pc, runner>>
          /\ (user'.pc = user.pc \/ user'.pc \in {"off", "badpause", "delete", "redelete", "unaccept"})
        BY <1>12 DEF UserFollowup, UserOff, gate, Alert, Typed, RecordsOK, UserRec
    <2> QED BY <2>1 DEF Alert, Wakeful, ToldUse, Told, Ops
<1>13. ASSUME UserSteer PROVE ToldUse'
    <2>1. UNCHANGED <<front, kind, pc, runner>>
          /\ (user'.pc = user.pc \/ user'.pc \in {"off", "badpause", "delete", "redelete", "unaccept"})
        BY <1>13 DEF UserSteer, UserOff, gate, Alert, Typed, RecordsOK, UserRec
    <2> QED BY <2>1 DEF Alert, Wakeful, ToldUse, Told, Ops
<1>14. ASSUME NEW p \in BOOLEAN, UserPause(p) PROVE ToldUse'
    <2>1. UNCHANGED <<front, kind, pc, user, runner>>
        BY <1>14 DEF UserPause, gate
    <2> QED BY <2>1 DEF Alert, Wakeful, ToldUse, Told, Ops
<1>15. ASSUME UserDelete PROVE ToldUse'
    <2>1. UNCHANGED <<front, kind, pc, runner>>
          /\ (user'.pc = user.pc \/ user'.pc \in {"off", "badpause", "delete", "redelete", "unaccept"})
        BY <1>15 DEF UserDelete, UserOff, gate, Alert, Typed, RecordsOK, UserRec
    <2> QED BY <2>1 DEF Alert, Wakeful, ToldUse, Told, Ops
<1>16. ASSUME UserDeleteItem PROVE ToldUse'
    <2>1. UNCHANGED <<front, kind, pc, runner>>
          /\ (user'.pc = user.pc \/ user'.pc \in {"off", "badpause", "delete", "redelete", "unaccept"})
        BY <1>16 DEF UserDeleteItem, UserOff, gate, Alert, Typed, RecordsOK, UserRec
    <2> QED BY <2>1 DEF Alert, Wakeful, ToldUse, Told, Ops
<1>17. ASSUME UserUnaccept PROVE ToldUse'
    <2>1. UNCHANGED <<front, kind, pc, runner>>
          /\ (user'.pc = user.pc \/ user'.pc \in {"off", "badpause", "delete", "redelete", "unaccept"})
        BY <1>17 DEF UserUnaccept, UserTo, UserOff, gate, Alert, Typed, RecordsOK, UserRec
    <2> QED BY <2>1 DEF Alert, Wakeful, ToldUse, Told, Ops
<1>18. ASSUME Teardown PROVE ToldUse'
    <2>1. UNCHANGED <<front, user, runner>>
        BY <1>18 DEF Teardown
    <2>2. \A s \in Turn : kind'[s] # "sync" /\ pc'[s] # "settling"
        BY <1>18
        DEF Teardown, Close, LoseAuthority, gate, Alert, GateInv, TypeOK, Wakeful, ToldUse, Told
    <2> QED BY <2>1, <2>2 DEF Alert, Wakeful, ToldUse, Told, Ops
<1>19. ASSUME NEW t \in Turn, TurnAdmit(t) PROVE ToldUse'
    <2>1. UNCHANGED <<front, user, runner>>
        BY <1>19 DEF TurnAdmit
    <2>2. \A s \in Turn : kind'[s] # "sync" /\ pc'[s] # "settling"
        BY <1>19
        DEF TurnAdmit, AdmitStart, AdmitPark, AdmitDrop, gate, Alert, GateInv, TypeOK, Wakeful,
            ToldUse, Told
    <2> QED BY <2>1, <2>2 DEF Alert, Wakeful, ToldUse, Told, Ops
<1>20. ASSUME NEW t \in Turn, TurnSpawn(t) PROVE ToldUse'
    <2>1. UNCHANGED <<front, user, runner>>
        BY <1>20 DEF TurnSpawn
    <2>2. \A s \in Turn : kind'[s] # "sync" /\ pc'[s] # "settling"
        BY <1>20 DEF TurnSpawn, Spawn, gate, Alert, GateInv, TypeOK, Wakeful, ToldUse, Told
    <2> QED BY <2>1, <2>2 DEF Alert, Wakeful, ToldUse, Told, Ops
<1>21. ASSUME NEW t \in Turn, TurnBodyEnds(t) PROVE ToldUse'
    <2>1. UNCHANGED <<front, user, runner>>
        BY <1>21 DEF TurnBodyEnds
    <2>2. \A s \in Turn : kind'[s] # "sync" /\ pc'[s] # "settling"
        BY <1>21
        DEF TurnBodyEnds, BodyEnds, SyncEnds, FinishGuarded, gate, Alert, GateInv, TypeOK, Wakeful,
            ToldUse, Told
    <2> QED BY <2>1, <2>2 DEF Alert, Wakeful, ToldUse, Told, Ops
<1>22. ASSUME NEW t \in Turn, SettleCapture(t) \/ SettleOne(t) \/ SettleUntrack(t)
      PROVE  ToldUse'
    <2>1. UNCHANGED <<front, kind, pc, user, runner>>
        BY <1>22 DEF SettleCapture, SettleOne, SettleUntrack, gate
    <2> QED BY <2>1 DEF Alert, Wakeful, ToldUse, Told, Ops
<1>23. ASSUME NEW t \in Turn, TurnSettled(t) PROVE ToldUse'
    <2>1. UNCHANGED <<front, user, runner>>
        BY <1>23 DEF TurnSettled
    <2>2. \A s \in Turn : kind'[s] # "sync" /\ pc'[s] # "settling"
        BY <1>23
        DEF TurnSettled, Delivered, SyncSettled, EndWindow, gate, Alert, GateInv, TypeOK, Wakeful,
            ToldUse, Told
    <2> QED BY <2>1, <2>2 DEF Alert, Wakeful, ToldUse, Told, Ops
<1>24. ASSUME NEW t \in Turn, ChatAsk(t) PROVE ToldUse'
    <2>1. UNCHANGED <<front, user, runner>>
        BY <1>24 DEF ChatAsk
    <2>2. \A s \in Turn : kind'[s] # "sync" /\ pc'[s] # "settling"
        BY <1>24 DEF ChatAsk, Ask, gate, Alert, GateInv, TypeOK, Wakeful, ToldUse, Told
    <2> QED BY <2>1, <2>2 DEF Alert, Wakeful, ToldUse, Told, Ops
<1>25. ASSUME NEW q \in Rotator, Rotation(q) PROVE ToldUse'
    <2>1. UNCHANGED <<front, user, runner>>
        BY <1>25 DEF Rotation
    <2>2. \A s \in Turn : kind'[s] # "sync" /\ pc'[s] # "settling"
        BY <1>25
        DEF Rotation, BeginRotation, EndRotation, gate, Alert, GateInv, TypeOK, Wakeful, ToldUse,
            Told
    <2> QED BY <2>1, <2>2 DEF Alert, Wakeful, ToldUse, Told, Ops
<1> QED BY <1>1, <1>2, <1>3, <1>4, <1>5, <1>6, <1>7, <1>8, <1>9, <1>10, <1>11, <1>12, <1>13, <1>14,
           <1>15, <1>16, <1>17, <1>18, <1>19, <1>20, <1>21, <1>22, <1>23, <1>24, <1>25, NotTold
        DEF INext, Dispatcher, Agent, Steering, User, Turns

(* Every step keeps a note to the dispatcher with a dispatcher to read it.  *)
LEMMA KickLiveNext ==
    ASSUME Alert, INext
    PROVE  KickLive'
<1>1. ASSUME DispLoop PROVE KickLive'
    BY <1>1 DEF DispLoop, KickLive, Alert, Typed, RecordsOK, DispRec
<1>2. ASSUME DispBusy \/ DispClaimError \/ DispBlockPause \/ DispReturn PROVE KickLive'
    <2>1. disp'.pc # "off"
        BY <1>2, BackTyped
        DEF DispBusy, DispClaimError, DispBlockPause, DispReturn, Alert, Typed, RecordsOK, DispRec
    <2> QED BY <2>1 DEF KickLive
<1>3. ASSUME DispScan PROVE KickLive'
    <2>1. disp'.pc \in {"loop", "submit"}
        BY <1>3, BackTyped, ScanTakes DEF DispScan, Alert, Typed, RecordsOK
    <2> QED BY <2>1 DEF KickLive
<1>4. ASSUME DispRead PROVE KickLive'
    <2>1. disp'.pc \in {"loop", "claim"}
        BY <1>4, ReadTakes, BackTyped DEF Alert, Typed, RecordsOK
    <2> QED BY <2>1 DEF KickLive
<1>5. ASSUME DispClaim \/ DispBlock \/ DispAsk \/ DispStart \/ DispDrop \/ DispOnStart
             \/ DispRollback
      PROVE  KickLive'
    <2>1. disp'.pc # "off"
        BY <1>5
        DEF DispClaim, DispBlock, DispAsk, DispStart, DispDrop, DispOnStart, DispRollback, Alert,
            Typed, RecordsOK, DispRec
    <2> QED BY <2>1 DEF KickLive
<1>6. ASSUME RetryFires \/ SteerReturn \/ UserFollowup \/ UserRetry PROVE KickLive'
    <2>1. disp' = disp \/ disp' = Kicked(disp)
        BY <1>6 DEF RetryFires, SteerReturn, UserFollowup, UserRetry, CommandKick
    <2> QED BY <2>1, KickDoes DEF Alert, Wakeful, Typed, RecordsOK, KickLive
<1>7. ASSUME AgentRun \/ AgentConsume \/ AgentMarkConsumed \/ AgentFinish \/ AgentAbort
              \/ AgentUnapplied \/ AgentUnown
      PROVE  KickLive'
    <2>1. disp' = disp
        BY <1>7
        DEF AgentRun, AgentConsume, AgentMarkConsumed, AgentFinish, AgentAbort, AgentUnapplied,
            AgentUnown
    <2> QED BY <2>1 DEF Alert, Wakeful, KickLive
<1>8. ASSUME SteerRead \/ SteerMark \/ SteerEnqueue \/ SteerRequeue \/ SteerConvert \/ UserBadRef
              \/ UserBadPause
      PROVE  KickLive'
    <2>1. disp' = disp
        BY <1>8
        DEF SteerRead, SteerMark, SteerEnqueue, SteerRequeue, SteerConvert, UserBadRef, UserBadPause
    <2> QED BY <2>1 DEF Alert, Wakeful, KickLive
<1>9. ASSUME NEW intent \in Intents, UserEnqueue(intent) PROVE KickLive'
    <2>1. disp' = disp
        BY <1>9 DEF UserEnqueue
    <2> QED BY <2>1 DEF Alert, Wakeful, KickLive
<1>10. ASSUME UserSteer \/ UserDelete \/ UserDeleteItem \/ UserUnaccept \/ InboxSnapshot \/ Teardown
      PROVE  KickLive'
    <2>1. disp' = disp
        BY <1>10 DEF UserSteer, UserDelete, UserDeleteItem, UserUnaccept, InboxSnapshot, Teardown
    <2> QED BY <2>1 DEF Alert, Wakeful, KickLive
<1>11. ASSUME NEW p \in BOOLEAN, UserPause(p) PROVE KickLive'
    <2>1. disp' = disp \/ disp' = Kicked(disp)
        BY <1>11 DEF UserPause, CommandKick
    <2> QED BY <2>1, KickDoes DEF Alert, Wakeful, Typed, RecordsOK, KickLive
<1>12. ASSUME NEW t \in Turn, TurnAdmit(t) \/ TurnSpawn(t) \/ TurnBodyEnds(t) \/ SettleCapture(t)
              \/ SettleOne(t) \/ SettleUntrack(t) \/ ChatAsk(t)
      PROVE  KickLive'
    <2>1. disp' = disp
        BY <1>12
        DEF TurnAdmit, TurnSpawn, TurnBodyEnds, SettleCapture, SettleOne, SettleUntrack, ChatAsk
    <2> QED BY <2>1 DEF Alert, Wakeful, KickLive
<1>13. ASSUME NEW t \in Turn, TurnSettled(t) PROVE KickLive'
    BY <1>13, WindowWakes DEF Alert, Wakeful, KickLive
<1>14. ASSUME NEW q \in Rotator, Rotation(q) PROVE KickLive'
    <2>1. disp' = disp \/ disp' = Kicked(disp)
        BY <1>14 DEF Rotation
    <2> QED BY <2>1, KickDoes DEF Alert, Wakeful, Typed, RecordsOK, KickLive
<1> QED BY <1>1, <1>2, <1>3, <1>4, <1>5, <1>6, <1>7, <1>8, <1>9, <1>10, <1>11, <1>12, <1>13, <1>14,
           NotTold
        DEF INext, Dispatcher, Agent, Steering, User, Turns

(* Every step keeps the turn the dispatcher waits for.                      *)
LEMMA StartKeptNext ==
    ASSUME Alert, INext
    PROVE  StartKept'
<1>1. ASSUME DispLoop PROVE StartKept'
    <2>1. disp'.pc # "onstart"
        BY <1>1, BackTyped DEF DispLoop, Alert, Typed, RecordsOK, DispRec
    <2> QED BY <2>1 DEF StartKept
<1>2. ASSUME DispBusy PROVE StartKept'
    <2>1. disp'.pc # "onstart"
        BY <1>2, BackTyped DEF DispBusy, Alert, Typed, RecordsOK, DispRec
    <2> QED BY <2>1 DEF StartKept
<1>3. ASSUME DispScan PROVE StartKept'
    <2>1. disp'.pc \in {"loop", "submit"}
        BY <1>3, BackTyped, ScanTakes DEF DispScan, Alert, Typed, RecordsOK
    <2> QED BY <2>1 DEF StartKept
<1>4. ASSUME DispRead PROVE StartKept'
    <2>1. disp'.pc \in {"loop", "claim"}
        BY <1>4, ReadTakes, BackTyped DEF Alert, Typed, RecordsOK
    <2> QED BY <2>1 DEF StartKept
<1>5. ASSUME DispClaim PROVE StartKept'
    <2>1. disp'.pc # "onstart"
        BY <1>5, BackTyped DEF DispClaim, Alert, Typed, RecordsOK, DispRec
    <2> QED BY <2>1 DEF StartKept
<1>6. ASSUME DispClaimError PROVE StartKept'
    <2>1. disp'.pc # "onstart"
        BY <1>6, BackTyped DEF DispClaimError, Alert, Typed, RecordsOK, DispRec
    <2> QED BY <2>1 DEF StartKept
<1>7. ASSUME DispBlock PROVE StartKept'
    <2>1. disp'.pc # "onstart"
        BY <1>7, BackTyped DEF DispBlock, Alert, Typed, RecordsOK, DispRec
    <2> QED BY <2>1 DEF StartKept
<1>8. ASSUME DispBlockPause PROVE StartKept'
    <2>1. disp'.pc # "onstart"
        BY <1>8, BackTyped DEF DispBlockPause, Alert, Typed, RecordsOK, DispRec
    <2> QED BY <2>1 DEF StartKept
<1>9. ASSUME DispAsk PROVE StartKept'
    <2>1. disp'.pc # "onstart"
        BY <1>9, BackTyped DEF DispAsk, Alert, Typed, RecordsOK, DispRec
    <2> QED BY <2>1 DEF StartKept
<1>10. ASSUME DispStart PROVE StartKept'
    <2>1. disp.turn \in Turn /\ disp'.turn = disp.turn /\ pc'[disp.turn] = "starting"
        BY <1>10 DEF DispStart, AdmitStart, Alert, Typed, NamesOK, RecordsOK, DispRec, GateInv, TypeOK
    <2> QED BY <2>1 DEF StartKept
<1>11. ASSUME DispDrop \/ DispOnStart \/ DispRollback \/ DispReturn PROVE StartKept'
    <2>1. disp'.pc # "onstart"
        BY <1>11, BackTyped
        DEF DispDrop, DispOnStart, DispRollback, DispReturn, Alert, Typed, RecordsOK, DispRec
    <2> QED BY <2>1 DEF StartKept
<1>12. ASSUME RetryFires \/ SteerReturn \/ UserFollowup \/ UserRetry PROVE StartKept'
    <2>1. pc' = pc /\ (disp' = disp \/ disp' = Kicked(disp))
        BY <1>12 DEF RetryFires, SteerReturn, UserFollowup, UserRetry, CommandKick, BeginRotation, EndRotation, gate
    <2> QED BY <2>1, KickDoes DEF Alert, Wakeful, Typed, RecordsOK, StartKept
<1>13. ASSUME AgentRun \/ AgentConsume \/ AgentMarkConsumed \/ AgentFinish \/ AgentAbort
              \/ AgentUnapplied \/ AgentUnown
      PROVE  StartKept'
    <2>1. UNCHANGED <<pc, disp>>
        BY <1>13
        DEF AgentRun, AgentConsume, AgentMarkConsumed, AgentFinish, AgentAbort, AgentUnapplied,
            AgentUnown, gate
    <2> QED BY <2>1 DEF Alert, Wakeful, StartKept
<1>14. ASSUME SteerRead \/ SteerMark \/ SteerEnqueue \/ SteerRequeue \/ SteerConvert \/ UserBadRef
              \/ UserBadPause
      PROVE  StartKept'
    <2>1. UNCHANGED <<pc, disp>>
        BY <1>14
        DEF SteerRead, SteerMark, SteerEnqueue, SteerRequeue, SteerConvert, UserBadRef,
            UserBadPause, gate
    <2> QED BY <2>1 DEF Alert, Wakeful, StartKept
<1>15. ASSUME NEW intent \in Intents, UserEnqueue(intent) PROVE StartKept'
    <2>1. UNCHANGED <<pc, disp>>
        BY <1>15 DEF UserEnqueue, gate
    <2> QED BY <2>1 DEF Alert, Wakeful, StartKept
<1>16. ASSUME UserSteer \/ UserDelete \/ UserDeleteItem \/ UserUnaccept \/ InboxSnapshot
      PROVE  StartKept'
    <2>1. UNCHANGED <<pc, disp>>
        BY <1>16 DEF UserSteer, UserDelete, UserDeleteItem, UserUnaccept, InboxSnapshot, gate
    <2> QED BY <2>1 DEF Alert, Wakeful, StartKept
<1>17. ASSUME NEW p \in BOOLEAN, UserPause(p) PROVE StartKept'
    <2>1. pc' = pc /\ (disp' = disp \/ disp' = Kicked(disp))
        BY <1>17 DEF UserPause, CommandKick, BeginRotation, EndRotation, gate
    <2> QED BY <2>1, KickDoes DEF Alert, Wakeful, Typed, RecordsOK, StartKept
<1>18. ASSUME Teardown PROVE StartKept'
    <2>1. disp' = disp /\ (disp.pc = "onstart" => disp.turn \in Turn)
        BY <1>18 DEF Teardown, Alert, Typed, NamesOK
    <2>2. \A s \in Turn : pc[s] = "starting" /\ s = disp.turn => pc'[s] = "starting"
        BY <1>18 DEF Teardown, Close, LoseAuthority, Alert, GateInv, TypeOK
    <2> QED BY <2>1, <2>2 DEF Alert, Wakeful, StartKept
<1>19. ASSUME NEW t \in Turn, TurnAdmit(t) PROVE StartKept'
    <2>1. disp' = disp /\ (disp.pc = "onstart" => disp.turn \in Turn)
        BY <1>19 DEF TurnAdmit, Alert, Typed, NamesOK
    <2>2. \A s \in Turn : pc[s] = "starting" /\ s = disp.turn => pc'[s] = "starting"
        BY <1>19 DEF TurnAdmit, AdmitStart, AdmitPark, AdmitDrop, Alert, GateInv, TypeOK
    <2> QED BY <2>1, <2>2 DEF Alert, Wakeful, StartKept
<1>20. ASSUME NEW t \in Turn, TurnSpawn(t) PROVE StartKept'
    <2>1. disp' = disp /\ (disp.pc = "onstart" => disp.turn \in Turn)
        BY <1>20 DEF TurnSpawn, Alert, Typed, NamesOK
    <2>2. \A s \in Turn : pc[s] = "starting" /\ s = disp.turn => pc'[s] = "starting"
        BY <1>20 DEF TurnSpawn, Spawn, Alert, GateInv, TypeOK
    <2> QED BY <2>1, <2>2 DEF Alert, Wakeful, StartKept
<1>21. ASSUME NEW t \in Turn, TurnBodyEnds(t) PROVE StartKept'
    <2>1. disp' = disp /\ (disp.pc = "onstart" => disp.turn \in Turn)
        BY <1>21 DEF TurnBodyEnds, Alert, Typed, NamesOK
    <2>2. \A s \in Turn : pc[s] = "starting" /\ s = disp.turn => pc'[s] = "starting"
        BY <1>21 DEF TurnBodyEnds, BodyEnds, SyncEnds, FinishGuarded, Alert, GateInv, TypeOK
    <2> QED BY <2>1, <2>2 DEF Alert, Wakeful, StartKept
<1>22. ASSUME NEW t \in Turn, SettleCapture(t) \/ SettleOne(t) \/ SettleUntrack(t)
      PROVE  StartKept'
    <2>1. UNCHANGED <<pc, disp>>
        BY <1>22 DEF SettleCapture, SettleOne, SettleUntrack, gate
    <2> QED BY <2>1 DEF Alert, Wakeful, StartKept
<1>23. ASSUME NEW t \in Turn, TurnSettled(t) PROVE StartKept'
    <2>1. disp.pc = "onstart" => pc'[disp.turn] = pc[disp.turn]
        <3> SUFFICES ASSUME disp.pc = "onstart" PROVE pc'[disp.turn] = pc[disp.turn]
            OBVIOUS
        <3>1. disp.turn \in Turn /\ pc[disp.turn] = "starting"
            BY DEF Alert, Typed, NamesOK, Wakeful, StartKept
        <3>2. Delivered(t) /\ t # disp.turn
            BY <1>23, <3>1 DEF TurnSettled, Delivered, SyncSettled, Alert, Wakeful, ToldUse
        <3>3. parked # <<>> => Head(parked) \in Turn /\ pc[Head(parked)] = "parked"
            BY QueueHandoff DEF Alert, GateInv, TypeOK, QueueMatchesCallers
        <3> QED BY <3>1, <3>2, <3>3 DEF Delivered, EndWindow, Alert, GateInv, TypeOK
    <2> QED BY <1>23, <2>1, WindowWakes DEF Alert, Wakeful, StartKept
<1>24. ASSUME NEW t \in Turn, ChatAsk(t) PROVE StartKept'
    <2>1. disp' = disp /\ (disp.pc = "onstart" => disp.turn \in Turn)
        BY <1>24 DEF ChatAsk, Alert, Typed, NamesOK
    <2>2. \A s \in Turn : pc[s] = "starting" /\ s = disp.turn => pc'[s] = "starting"
        BY <1>24 DEF ChatAsk, Ask, Alert, GateInv, TypeOK
    <2> QED BY <2>1, <2>2 DEF Alert, Wakeful, StartKept
<1>25. ASSUME NEW q \in Rotator, Rotation(q) PROVE StartKept'
    <2>1. pc' = pc /\ (disp' = disp \/ disp' = Kicked(disp))
        BY <1>25 DEF Rotation, BeginRotation, EndRotation, gate
    <2> QED BY <2>1, KickDoes DEF Alert, Wakeful, Typed, RecordsOK, StartKept
<1> QED BY <1>1, <1>2, <1>3, <1>4, <1>5, <1>6, <1>7, <1>8, <1>9, <1>10, <1>11, <1>12, <1>13, <1>14,
           <1>15, <1>16, <1>17, <1>18, <1>19, <1>20, <1>21, <1>22, <1>23, <1>24, <1>25, NotTold
        DEF INext, Dispatcher, Agent, Steering, User, Turns

(* Every step keeps the dispatcher's answer to a busy gate.                 *)
LEMMA AnsweredNext ==
    ASSUME Alert, INext
    PROVE  Answered'
<1>1. ASSUME DispLoop PROVE Answered'
    <2>1. disp'.pc \notin {"rollback", "return"}
        BY <1>1, BackTyped DEF DispLoop, Alert, Typed, RecordsOK, DispRec
    <2> QED BY <2>1 DEF Answered
<1>2. ASSUME DispBusy PROVE Answered'
    <2>1. disp'.pc \notin {"rollback", "return"}
        BY <1>2, BackTyped DEF DispBusy, Alert, Typed, RecordsOK, DispRec
    <2> QED BY <2>1 DEF Answered
<1>3. ASSUME DispScan PROVE Answered'
    <2>1. disp'.pc \in {"loop", "submit"}
        BY <1>3, BackTyped, ScanTakes DEF DispScan, Alert, Typed, RecordsOK
    <2> QED BY <2>1 DEF Answered
<1>4. ASSUME DispRead PROVE Answered'
    <2>1. disp'.pc \in {"loop", "claim"}
        BY <1>4, ReadTakes, BackTyped DEF Alert, Typed, RecordsOK
    <2> QED BY <2>1 DEF Answered
<1>5. ASSUME DispClaim PROVE Answered'
    <2>1. disp'.pc \notin {"rollback", "return"}
        BY <1>5, BackTyped DEF DispClaim, Alert, Typed, RecordsOK, DispRec
    <2> QED BY <2>1 DEF Answered
<1>6. ASSUME DispClaimError PROVE Answered'
    <2>1. disp'.pc \notin {"rollback", "return"}
        BY <1>6, BackTyped DEF DispClaimError, Alert, Typed, RecordsOK, DispRec
    <2> QED BY <2>1 DEF Answered
<1>7. ASSUME DispBlock PROVE Answered'
    <2>1. disp'.pc \notin {"rollback", "return"}
        BY <1>7, BackTyped DEF DispBlock, Alert, Typed, RecordsOK, DispRec
    <2> QED BY <2>1 DEF Answered
<1>8. ASSUME DispBlockPause PROVE Answered'
    <2>1. disp'.pc \notin {"rollback", "return"}
        BY <1>8, BackTyped DEF DispBlockPause, Alert, Typed, RecordsOK, DispRec
    <2> QED BY <2>1 DEF Answered
<1>9. ASSUME DispAsk PROVE Answered'
    <2>1. disp'.pc = "admit" \/ (~writable /\ writable' = writable)
        BY <1>9 DEF DispAsk, gate, Alert, Typed, RecordsOK, DispRec
    <2> QED BY <2>1 DEF Answered, Busy
<1>10. ASSUME DispStart PROVE Answered'
    <2>1. disp'.pc \notin {"rollback", "return"}
        BY <1>10, BackTyped DEF DispStart, Alert, Typed, RecordsOK, DispRec
    <2> QED BY <2>1 DEF Answered
<1>11. ASSUME DispDrop PROVE Answered'
    <2>1. UNCHANGED Doors /\ ~(GateOpen /\ Idle)
        BY <1>11 DEF DispDrop, AdmitDrop, flags, Doors
    <2> QED BY <2>1, DoorsKept DEF Answered, Busy
<1>12. ASSUME DispOnStart PROVE Answered'
    <2>1. running' = running /\ disp.turn \in Turn /\ pc[disp.turn] = "starting"
        BY <1>12 DEF DispOnStart, Spawn, flags, Alert, Typed, NamesOK
    <2>2. running
        BY <2>1 DEF Alert, GateInv, OneTurnInFlight, InFlight
    <2> QED BY <2>1, <2>2 DEF Answered, Busy, Idle
<1>13. ASSUME DispRollback PROVE Answered'
    <2>1. UNCHANGED Doors /\ disp'.kick = disp.kick /\ disp.pc = "rollback"
        BY <1>13 DEF DispRollback, gate, Doors, Alert, Typed, RecordsOK, DispRec
    <2> QED BY <2>1, DoorsKept DEF Alert, Wakeful, Answered
<1>14. ASSUME DispReturn PROVE Answered'
    <2>1. disp'.pc \notin {"rollback", "return"}
        BY <1>14, BackTyped DEF DispReturn, Alert, Typed, RecordsOK, DispRec
    <2> QED BY <2>1 DEF Answered
<1>15. ASSUME RetryFires \/ SteerReturn \/ UserFollowup \/ UserRetry PROVE Answered'
    <2>1. disp' = disp \/ disp' = Kicked(disp)
        BY <1>15 DEF RetryFires, SteerReturn, UserFollowup, UserRetry, CommandKick
    <2> QED BY <1>15, <2>1, KickDoes, BusyKept DEF Alert, Wakeful, Typed, RecordsOK, Answered
<1>16. ASSUME AgentRun \/ AgentConsume \/ AgentMarkConsumed \/ AgentFinish \/ AgentAbort
              \/ AgentUnapplied \/ AgentUnown
      PROVE  Answered'
    <2>1. disp' = disp
        BY <1>16
        DEF AgentRun, AgentConsume, AgentMarkConsumed, AgentFinish, AgentAbort, AgentUnapplied,
            AgentUnown
    <2> QED BY <2>1, BusyKept DEF Alert, Wakeful, Answered
<1>17. ASSUME SteerRead \/ SteerMark \/ SteerEnqueue \/ SteerRequeue \/ SteerConvert \/ UserBadRef
              \/ UserBadPause
      PROVE  Answered'
    <2>1. disp' = disp
        BY <1>17
        DEF SteerRead, SteerMark, SteerEnqueue, SteerRequeue, SteerConvert, UserBadRef, UserBadPause
    <2> QED BY <2>1, BusyKept DEF Alert, Wakeful, Answered
<1>18. ASSUME NEW intent \in Intents, UserEnqueue(intent) PROVE Answered'
    <2>1. disp' = disp
        BY <1>18 DEF UserEnqueue
    <2> QED BY <2>1, BusyKept DEF Alert, Wakeful, Answered
<1>19. ASSUME UserSteer \/ UserDelete \/ UserDeleteItem \/ UserUnaccept \/ InboxSnapshot \/ Teardown
      PROVE  Answered'
    <2>1. disp' = disp
        BY <1>19 DEF UserSteer, UserDelete, UserDeleteItem, UserUnaccept, InboxSnapshot, Teardown
    <2> QED BY <2>1, BusyKept DEF Alert, Wakeful, Answered
<1>20. ASSUME NEW p \in BOOLEAN, UserPause(p) PROVE Answered'
    <2>1. disp' = disp \/ disp' = Kicked(disp)
        BY <1>20 DEF UserPause, CommandKick
    <2> QED BY <1>20, <2>1, KickDoes, BusyKept DEF Alert, Wakeful, Typed, RecordsOK, Answered
<1>21. ASSUME NEW t \in Turn, TurnAdmit(t) \/ TurnSpawn(t) \/ TurnBodyEnds(t) \/ SettleCapture(t)
              \/ SettleOne(t) \/ SettleUntrack(t) \/ ChatAsk(t)
      PROVE  Answered'
    <2>1. disp' = disp
        BY <1>21
        DEF TurnAdmit, TurnSpawn, TurnBodyEnds, SettleCapture, SettleOne, SettleUntrack, ChatAsk
    <2> QED BY <2>1, BusyKept DEF Alert, Wakeful, Answered
<1>22. ASSUME NEW t \in Turn, TurnSettled(t) PROVE Answered'
    BY <1>22, WindowWakes DEF Answered
<1>23. ASSUME NEW q \in Rotator, Rotation(q) PROVE Answered'
    <2>1. disp' = disp \/ disp' = Kicked(disp)
        BY <1>23 DEF Rotation
    <2> QED BY <1>23, <2>1, KickDoes, BusyKept DEF Alert, Wakeful, Typed, RecordsOK, Answered
<1> QED BY <1>1, <1>2, <1>3, <1>4, <1>5, <1>6, <1>7, <1>8, <1>9, <1>10, <1>11, <1>12, <1>13, <1>14,
           <1>15, <1>16, <1>17, <1>18, <1>19, <1>20, <1>21, <1>22, <1>23, NotTold
        DEF INext, Dispatcher, Agent, Steering, User, Turns

(***************************************************************************)
(* A step that queues nothing and leaves everybody who could look for an    *)
(* item alone keeps the promise: if it opens the gate it kicks the          *)
(* dispatcher.                                                              *)
(***************************************************************************)
LEMMA WokenKept ==
    ASSUME Alert, INext, UNCHANGED <<disp, retry, user, steer, asleep>>, NoneQueued
    PROVE  QueuedWoken'
<1>1. \A x : Woken(x) => Woken(x)'
    BY BusyKept DEF Woken
<1> QED BY <1>1, UnsavedGrows DEF NoneQueued, QueuedWoken, Alert, Wakeful

(* The changes of the manifest that put no item into the queue.             *)
LEMMA Unqueued ==
    ASSUME Typed
    PROVE  /\ man' = man => NoneQueued
           /\ \A id, s : ViewSet(man', man, id, s) /\ s # "queued" => NoneQueued
           /\ \A id : ViewRemoved(man', man, id) => NoneQueued
           /\ ViewOrphans(man', man, Owned) => NoneQueued
           /\ ViewPaused(man', man, TRUE) => NoneQueued
           /\ ViewPaused(man', man, man.paused) => NoneQueued
<1>1. man' = man => NoneQueued
    BY DEF NoneQueued
<1>2. \A id, s : ViewSet(man', man, id, s) /\ s # "queued" => NoneQueued
    BY DEF NoneQueued, ViewSet
<1>3. ASSUME NEW id, ViewRemoved(man', man, id) PROVE NoneQueued
    BY <1>3, Seen DEF NoneQueued, ViewRemoved, Typed, ManifestOK
<1>4. ViewOrphans(man', man, Owned) => NoneQueued
    BY DEF NoneQueued, ViewOrphans
<1>5. ViewPaused(man', man, TRUE) => NoneQueued
    BY DEF NoneQueued, ViewPaused
<1>6. ViewPaused(man', man, man.paused) => NoneQueued
    BY DEF NoneQueued, ViewPaused
<1> QED BY <1>1, <1>2, <1>3, <1>4, <1>5, <1>6

(* scheduleInboxDispatchRetry leaves a retry scheduled unless the retries   *)
(* are used up.                                                             *)
LEMMA RetryTells ==
    ASSUME Alert, ScheduleRetry
    PROVE  retry'.scheduled = TRUE \/ retry'.attempts >= MaxDispatchRetries
    BY RetriesAssumption DEF ScheduleRetry, Alert, Typed, RecordsOK, RetryRec

(* Every step keeps somebody awake for every queued item.                   *)
LEMMA QueuedWokenNext ==
    ASSUME Alert, INext
    PROVE  QueuedWoken'
<1>1. ASSUME DispBusy PROVE QueuedWoken'
    <2>1. asleep' \/ (UNCHANGED Doors /\ (disp'.pc = "scan" \/ ~Idle \/ rotating \/ closed))
        BY <1>1 DEF DispBusy, gate, Doors, Alert, Typed, RecordsOK, DispRec
    <2>2. asleep' \/ disp'.pc = "scan" \/ Busy'
        BY <2>1, DoorsKept DEF Busy, GateOpen
    <2> QED BY <2>2 DEF QueuedWoken, Woken
<1> SUFFICES ASSUME UNCHANGED asleep, unsaved \subseteq unsaved'
             PROVE  QueuedWoken'
    BY <1>1, UnsavedGrows
<1>2. ASSUME DispLoop PROVE QueuedWoken'
    <2>1. UNCHANGED <<man, retry, user, steer>> /\ UNCHANGED Doors /\ disp.pc = "loop"
          /\ disp \in DispRec
        BY <1>2 DEF DispLoop, gate, Doors, Alert, Typed, RecordsOK
    <2>2. CASE disp.kick = TRUE
        <3>1. disp'.pc = "busy"
            BY <1>2, <2>1, <2>2 DEF DispLoop, DispRec
        <3> QED BY <3>1 DEF QueuedWoken, Woken
    <2>3. CASE disp.kick # TRUE
        <3>1. \A x : Woken(x) => Woken(x)'
            BY <2>1, <2>3, DoorsKept DEF Woken
        <3> QED BY <2>1, <3>1 DEF Alert, Wakeful, QueuedWoken
    <2> QED BY <2>2, <2>3
<1>3. ASSUME DispScan PROVE QueuedWoken'
    <2>1. man' = man /\ (disp'.pc = "submit" \/ NextQueued(man) = {})
        BY <1>3, ScanTakes DEF DispScan, Alert, Typed, RecordsOK
    <2> QED BY <2>1, DispScanDoes DEF QueuedWoken, Woken, Alert, Typed
<1>4. ASSUME DispRead PROVE QueuedWoken'
    <2>1. disp'.pc = "claim" \/ ScheduleRetry
        BY <1>4, ReadTakes DEF Alert, Typed, RecordsOK
    <2> QED BY <2>1, RetryTells DEF QueuedWoken, Woken
<1>5. ASSUME DispClaim PROVE QueuedWoken'
    <2>1. disp'.pc = "ask"
        BY <1>5 DEF DispClaim, Alert, Typed, RecordsOK, DispRec
    <2> QED BY <2>1 DEF QueuedWoken, Woken
<1>6. ASSUME DispClaimError PROVE QueuedWoken'
    <2>1. ScheduleRetry
        BY <1>6 DEF DispClaimError
    <2> QED BY <2>1, RetryTells DEF QueuedWoken, Woken
<1>7. ASSUME DispBlock PROVE QueuedWoken'
    <2>1. disp'.pc = "pause"
        BY <1>7 DEF DispBlock, Alert, Typed, RecordsOK, DispRec
    <2> QED BY <2>1 DEF QueuedWoken, Woken
<1>8. ASSUME DispBlockPause PROVE QueuedWoken'
    <2>1. ScheduleRetry
        BY <1>8 DEF DispBlockPause
    <2> QED BY <2>1, RetryTells DEF QueuedWoken, Woken
<1>9. ASSUME DispAsk PROVE QueuedWoken'
    <2>1. disp'.pc = "admit" \/ (~writable /\ writable' = writable)
        BY <1>9 DEF DispAsk, gate, Alert, Typed, RecordsOK, DispRec
    <2> QED BY <2>1 DEF QueuedWoken, Woken, Busy
<1>10. ASSUME DispStart PROVE QueuedWoken'
    <2>1. running' = TRUE
        BY <1>10 DEF DispStart, AdmitStart, Claim
    <2> QED BY <2>1 DEF QueuedWoken, Woken, Busy, Idle
<1>11. ASSUME DispDrop \/ DispOnStart \/ DispRollback PROVE QueuedWoken'
    <2>1. disp'.pc \in {"rollback", "return", "error"}
        BY <1>11 DEF DispDrop, DispOnStart, DispRollback, Alert, Typed, RecordsOK, DispRec
    <2> QED BY <1>11, <2>1, AnsweredNext DEF INext, Dispatcher, Answered, QueuedWoken, Woken
<1>12. ASSUME DispReturn PROVE QueuedWoken'
    <2>1. UNCHANGED Doors /\ disp'.kick = disp.kick
          /\ (disp.pc = "return" \/ (disp.pc = "error" /\ ScheduleRetry))
        BY <1>12, BackTyped DEF DispReturn, gate, Doors, Alert, Typed, RecordsOK, DispRec
    <2> QED BY <2>1, DoorsKept, RetryTells DEF Alert, Wakeful, Answered, QueuedWoken, Woken
<1>13. ASSUME RetryFires \/ UserRetry PROVE QueuedWoken'
    <2>1. disp'.kick = TRUE
        BY <1>13, KickDoes
        DEF RetryFires, UserRetry, Alert, Typed, RecordsOK, Wakeful, ToldUse, Told
    <2> QED BY <2>1 DEF QueuedWoken, Woken
<1>14. ASSUME AgentRun \/ AgentConsume \/ AgentFinish \/ AgentAbort PROVE QueuedWoken'
    <2>1. UNCHANGED <<disp, retry, user, steer>>
        BY <1>14 DEF AgentRun, AgentConsume, AgentFinish, AgentAbort
    <2>2. NoneQueued
        BY <1>14 DEF NoneQueued, AgentRun, AgentConsume, AgentFinish, AgentAbort
    <2> QED BY <1>14, <2>1, <2>2, WokenKept DEF INext, Agent
<1>15. ASSUME AgentMarkConsumed PROVE QueuedWoken'
    <2>1. UNCHANGED <<disp, retry, user, steer>>
        BY <1>15 DEF AgentMarkConsumed
    <2>2. NoneQueued
        BY <1>15, AgentMarkConsumedDoes, Unqueued DEF Alert, Typed
    <2> QED BY <1>15, <2>1, <2>2, WokenKept DEF INext, Agent
<1>16. ASSUME AgentUnapplied PROVE QueuedWoken'
    <2>1. UNCHANGED <<disp, retry, user, steer>>
        BY <1>16 DEF AgentUnapplied
    <2>2. NoneQueued
        BY <1>16, AgentUnappliedDoes, Unqueued DEF Alert, Typed
    <2> QED BY <1>16, <2>1, <2>2, WokenKept DEF INext, Agent
<1>17. ASSUME AgentUnown PROVE QueuedWoken'
    <2>1. UNCHANGED <<disp, retry, user, steer>>
        BY <1>17 DEF AgentUnown
    <2>2. NoneQueued
        BY <1>17, AgentUnownDoes, Unqueued DEF Alert, Typed
    <2> QED BY <1>17, <2>1, <2>2, WokenKept DEF INext, Agent
<1>18. ASSUME SteerRead PROVE QueuedWoken'
    <2>1. UNCHANGED <<retry, user>> /\ disp' = disp /\ UNCHANGED Doors
        BY <1>18 DEF SteerRead, gate, Doors
    <2>2. \/ ViewSet(man', man, steer.id, "queued") /\ man.paused = FALSE /\ steer'.pc = "mark" /\ steer'.id = steer.id
          \/ NoneQueued /\ (man'.paused = FALSE => StatusIn(man, steer.id) # "queued")
        <3>1. SteerReadView /\ steer \in SteerRec
            BY <1>18, SteerReadDoes DEF Alert, Typed, RecordsOK
        <3>2. OwnedRecovered => NoneQueued
            BY Unqueued DEF OwnedRecovered, Alert
        <3>3. man' = man => NoneQueued
            BY Unqueued DEF Alert
        <3>4. man.paused \in BOOLEAN
            BY DispReadDoes DEF Alert, Typed
        <3>5. CASE StatusIn(man, steer.id) \in {"queued", "uncertain"} /\ man.paused = FALSE
                   /\ ViewSet(man', man, steer.id, "queued") /\ \E b \in BOOLEAN : steer' = [steer EXCEPT !.pc = "mark", !.image = b]
            BY <3>1, <3>5 DEF SteerRec
        <3>6. CASE StatusIn(man, steer.id) \in InFlightStates /\ OwnedRecovered
            BY <3>2, <3>6 DEF InFlightStates
        <3>7. CASE man' = man /\ (\/ StatusIn(man, steer.id) \in {"gone", "blocked", "uncertain"}
                                  \/ StatusIn(man, steer.id) = "queued" /\ man.paused = TRUE)
            BY <3>3, <3>4, <3>7
        <3> QED BY <3>1, <3>5, <3>6, <3>7, ZenonT(60) DEF SteerReadView
    <2>3. steer.pc = "called"
        BY <1>18 DEF SteerRead
    <2>4. ASSUME NEW x, man'.paused = FALSE, ~asleep', StatusIn(man', x) = "queued"
          PROVE  x \in unsaved' \/ Woken(x)'
        BY <2>1, <2>2, <2>3, <2>4, DoorsKept DEF Alert, Wakeful, QueuedWoken, Woken, ViewSet, NoneQueued
    <2> QED BY <2>4 DEF QueuedWoken
<1>19. ASSUME SteerMark PROVE QueuedWoken'
    <2>1. UNCHANGED <<retry, user>> /\ disp' = disp /\ UNCHANGED Doors
        BY <1>19 DEF SteerMark, gate, Doors
    <2>2. SteerMarkView /\ steer \in SteerRec
        BY <1>19, SteerMarkDoes DEF Alert, Typed, RecordsOK
    <2>3. \A s, k : SteerTo(s, k) => steer'.pc = s /\ steer'.id = steer.id
        BY <2>2 DEF SteerTo, SteerRec
    <2>4. NoneQueued /\ (\/ Busy \/ steer'.pc = "convert" \/ StatusIn(man', steer.id) # "queued"
                         \/ steer.id \in unsaved')
          /\ steer'.id = steer.id /\ steer.pc = "mark"
        <3>1. man' = man => NoneQueued
            BY Unqueued DEF Alert
        <3>2. ViewSet(man', man, steer.id, "steer_accepted") => NoneQueued /\ StatusIn(man', steer.id) # "queued"
            BY Unqueued DEF Alert, ViewSet
        <3> QED BY <1>19, <2>2, <2>3, <3>1, <3>2 DEF SteerMarkView, SteerMark, Busy, GateOpen
    <2>5. ASSUME NEW x, man'.paused = FALSE, ~asleep', StatusIn(man', x) = "queued"
          PROVE  x \in unsaved' \/ Woken(x)'
        BY <2>1, <2>4, <2>5, DoorsKept DEF Alert, Wakeful, QueuedWoken, Woken, NoneQueued
    <2> QED BY <2>5 DEF QueuedWoken
<1>20. ASSUME SteerEnqueue PROVE QueuedWoken'
    <2>1. UNCHANGED <<retry, user>> /\ disp' = disp /\ UNCHANGED Doors
        BY <1>20 DEF SteerEnqueue, gate, Doors
    <2>2. man' = man /\ steer.pc = "enqueue"
        BY <1>20 DEF SteerEnqueue
    <2> QED BY <2>1, <2>2, DoorsKept DEF Alert, Wakeful, QueuedWoken, Woken
<1>21. ASSUME SteerRequeue PROVE QueuedWoken'
    <2>1. UNCHANGED <<retry, user>> /\ disp' = disp /\ UNCHANGED Doors
        BY <1>21 DEF SteerRequeue, gate, Doors
    <2>2. RequeueView(steer.id) /\ steer.pc = "requeue" /\ steer \in SteerRec
        BY <1>21, RequeuedDoes DEF SteerRequeue, Alert, Typed, RecordsOK
    <2>3. \A pc2, k : SteerTo(pc2, k) => steer'.pc = pc2 /\ steer'.id = steer.id
        BY <2>2 DEF SteerTo, SteerRec
    <2>4. \/ ViewSet(man', man, steer.id, "queued") /\ steer'.pc = "convert" /\ steer'.id = steer.id
          \/ NoneQueued /\ steer.id \in unsaved'
        <3>1. CASE Requeued(steer.id) /\ SteerTo("convert", FALSE)
            BY <2>3, <3>1, SetView DEF Requeued, Alert, Typed, ManifestOK, States, Pending
        <3>2. CASE RequeueFailed(steer.id)
            BY <3>2, ForcedView, TriedDoes, Unqueued
            DEF RequeueFailed, Unsaved, Alert, Typed, ManifestOK
        <3> QED BY <1>21, <3>1, <3>2 DEF SteerRequeue
    <2>5. ASSUME NEW x, man'.paused = FALSE, ~asleep', StatusIn(man', x) = "queued"
          PROVE  x \in unsaved' \/ Woken(x)'
        BY <2>1, <2>2, <2>4, <2>5, DoorsKept DEF Alert, Wakeful, QueuedWoken, Woken, ViewSet, NoneQueued
    <2> QED BY <2>5 DEF QueuedWoken
<1>22. ASSUME SteerConvert PROVE QueuedWoken'
    <2>1. UNCHANGED <<retry, user>> /\ disp' = disp /\ UNCHANGED Doors
        BY <1>22 DEF SteerConvert, gate, Doors
    <2>2. NoneQueued /\ steer.pc = "convert"
          /\ \/ steer'.pc = "return" /\ steer'.kick = TRUE
             \/ StatusIn(man', steer.id) # "queued" \/ steer.id \in unsaved'
        <3>1. SteerConvertView
            BY <1>22, SteerConvertDoes DEF Alert, Typed
        <3>2. \A k : SteerTo("return", k) => steer'.pc = "return" /\ steer'.kick = k
            BY DEF SteerTo, Alert, Typed, RecordsOK, SteerRec
        <3>3. (man' = man \/ ViewIntent(man', man)) => NoneQueued
            BY Unqueued DEF Alert, ViewIntent, NoneQueued
        <3> QED BY <1>22, <3>1, <3>2, <3>3 DEF SteerConvertView, Pending, SteerConvert
    <2>3. ASSUME NEW x, man'.paused = FALSE, ~asleep', StatusIn(man', x) = "queued"
          PROVE  x \in unsaved' \/ Woken(x)'
        BY <2>1, <2>2, <2>3, DoorsKept DEF Alert, Wakeful, QueuedWoken, Woken, NoneQueued
    <2> QED BY <2>3 DEF QueuedWoken
<1>23. ASSUME SteerReturn PROVE QueuedWoken'
    <2>1. UNCHANGED <<man, retry, user>> /\ UNCHANGED Doors /\ steer.pc = "return"
          /\ steer.kick \in BOOLEAN
          /\ disp' = IF steer.kick THEN Kicked(disp) ELSE disp
        BY <1>23 DEF SteerReturn, gate, Doors, Alert, Typed, RecordsOK, SteerRec
    <2>2. CASE steer.kick
        BY <2>1, <2>2, KickDoes DEF QueuedWoken, Woken, Alert, Typed, RecordsOK
    <2>3. CASE ~steer.kick
        BY <2>1, <2>3, DoorsKept DEF QueuedWoken, Woken, Alert, Wakeful
    <2> QED BY <2>2, <2>3
<1>24. ASSUME NEW intent \in Intents, UserEnqueue(intent) PROVE QueuedWoken'
    <2>1. UNCHANGED <<retry, steer, disp>> /\ UNCHANGED Doors
        BY <1>24 DEF UserEnqueue, gate, Doors
    <2>2. PICK id \in Stem \ used, b \in Bodies :
              /\ ViewAdded(man', man, id, b) /\ Len(man.items) < MaxItems
              /\ used' = used \cup {id} /\ StatusIn(man, id) = "gone"
              /\ user' = [user EXCEPT !.id = id, !.pc = IF b = "badref" THEN "badref" ELSE intent]
        BY <1>24, UserEnqueueDoes DEF Alert, Typed
    <2>3. user'.id = id /\ user'.pc \in {"badref", "followup", "steer"} /\ user.pc = "off"
        BY <1>24, <2>2 DEF UserEnqueue, Intents, Alert, Typed, RecordsOK, UserRec
    <2>4. ASSUME NEW x, man'.paused = FALSE, ~asleep', StatusIn(man', x) = "queued"
          PROVE  x \in unsaved' \/ Woken(x)'
        BY <2>1, <2>2, <2>3, <2>4, DoorsKept DEF Alert, Wakeful, QueuedWoken, Woken, ViewAdded
    <2> QED BY <2>4 DEF QueuedWoken
<1>25. ASSUME UserBadRef PROVE QueuedWoken'
    <2>1. UNCHANGED <<retry, steer, disp>> /\ UNCHANGED Doors
        BY <1>25 DEF UserBadRef, gate, Doors
    <2>2. UserBadRefView /\ user.pc = "badref"
        BY <1>25, UserBadRefDoes DEF UserBadRef, Alert, Typed
    <2>3. ASSUME NEW x, man'.paused = FALSE, ~asleep', StatusIn(man', x) = "queued"
          PROVE  x \in unsaved' \/ Woken(x)'
        BY <2>1, <2>2, <2>3, DoorsKept DEF Alert, Wakeful, QueuedWoken, Woken, ViewSet, UserBadRefView
    <2> QED BY <2>3 DEF QueuedWoken
<1>26. ASSUME UserBadPause PROVE QueuedWoken'
    <2>1. UNCHANGED <<retry, steer, disp>> /\ UNCHANGED Doors /\ user.pc = "badpause"
        BY <1>26 DEF UserBadPause, gate, Doors
    <2>2. NoneQueued
        BY <1>26, PausingDoes, Unqueued DEF Alert, Typed
    <2> QED BY <2>1, <2>2, DoorsKept DEF Alert, Wakeful, QueuedWoken, Woken, NoneQueued
<1>27. ASSUME UserFollowup PROVE QueuedWoken'
    <2>1. disp'.kick = TRUE \/ (~Idle /\ UNCHANGED Doors)
        BY <1>27, KickDoes
        DEF UserFollowup, gate, Doors, Alert, Typed, RecordsOK, Wakeful, ToldUse, Told
    <2> QED BY <2>1, DoorsKept DEF QueuedWoken, Woken, Busy
<1>28. ASSUME UserSteer PROVE QueuedWoken'
    <2>1. UNCHANGED <<man, retry, disp>> /\ UNCHANGED Doors /\ steer.pc = "off"
        BY <1>28 DEF UserSteer, gate, Doors
    <2>2. user' = user \/ (user.pc = "steer" /\ steer'.pc = "called" /\ steer'.id = user.id)
        BY <1>28 DEF UserSteer, SteerOff
    <2> QED BY <2>1, <2>2, DoorsKept DEF Alert, Wakeful, QueuedWoken, Woken
<1>29. ASSUME NEW p \in BOOLEAN, UserPause(p) PROVE QueuedWoken'
    <2>1. disp'.kick = TRUE \/ man'.paused = TRUE
        BY <1>29, KickDoes, PausingDoes
        DEF UserPause, ViewPaused, Alert, Typed, RecordsOK, Wakeful, ToldUse, Told
    <2> QED BY <2>1 DEF QueuedWoken, Woken
<1>30. ASSUME UserDelete PROVE QueuedWoken'
    <2>1. UNCHANGED <<retry, steer, disp>> /\ UNCHANGED Doors
        BY <1>30 DEF UserDelete, gate, Doors
    <2>2. NoneQueued /\ user.pc = "off"
        BY <1>30, UserDeleteDoes, Unqueued DEF UserDelete, OwnedRecovered, Alert, Typed
    <2>3. ASSUME NEW x, man'.paused = FALSE, ~asleep', StatusIn(man', x) = "queued"
          PROVE  x \in unsaved' \/ Woken(x)'
        BY <2>1, <2>2, <2>3, DoorsKept DEF Alert, Wakeful, QueuedWoken, Woken, NoneQueued
    <2> QED BY <2>3 DEF QueuedWoken
<1>31. ASSUME UserDeleteItem PROVE QueuedWoken'
    <2>1. UNCHANGED <<retry, steer, disp>> /\ UNCHANGED Doors
        BY <1>31 DEF UserDeleteItem, gate, Doors
    <2>2. NoneQueued /\ (StatusIn(man', user.id) # "queued" \/ user.id \in unsaved')
        BY <1>31, UserDeleteItemDoes, Unqueued
        DEF Alert, Typed, UserDeleteItemView, ViewRemoved, Pending
    <2>3. ASSUME NEW x, man'.paused = FALSE, ~asleep', StatusIn(man', x) = "queued"
          PROVE  x \in unsaved' \/ Woken(x)'
        BY <2>1, <2>2, <2>3, DoorsKept DEF Alert, Wakeful, QueuedWoken, Woken, NoneQueued
    <2> QED BY <2>3 DEF QueuedWoken
<1>32. ASSUME UserUnaccept PROVE QueuedWoken'
    <2>1. UNCHANGED <<retry, steer, disp>> /\ UNCHANGED Doors
        BY <1>32 DEF UserUnaccept, gate, Doors
    <2>2. \/ ViewSet(man', man, user.id, "queued") /\ user' = [user EXCEPT !.pc = "redelete"]
          \/ man' = man
        BY <1>32, UserUnacceptDoes DEF Alert, Typed
    <2>3. user.pc = "unaccept"
          /\ (user' = [user EXCEPT !.pc = "redelete"] => user'.pc = "redelete" /\ user'.id = user.id)
        BY <1>32 DEF UserUnaccept, Alert, Typed, RecordsOK, UserRec
    <2>4. ASSUME NEW x, man'.paused = FALSE, ~asleep', StatusIn(man', x) = "queued"
          PROVE  x \in unsaved' \/ Woken(x)'
        BY <2>1, <2>2, <2>3, <2>4, DoorsKept DEF Alert, Wakeful, QueuedWoken, Woken, ViewSet
    <2> QED BY <2>4 DEF QueuedWoken
<1>33. ASSUME InboxSnapshot PROVE QueuedWoken'
    <2>1. UNCHANGED <<disp, retry, user, steer>>
        BY <1>33 DEF InboxSnapshot
    <2>2. NoneQueued
        BY <1>33, SnapshotDoes, Unqueued DEF Alert, Typed
    <2> QED BY <1>33, <2>1, <2>2, WokenKept DEF INext, User
<1>34. ASSUME Teardown PROVE QueuedWoken'
    <2>1. closed' = TRUE \/ writable' = FALSE
        BY <1>34 DEF Teardown, Close, LoseAuthority
    <2> QED BY <2>1 DEF QueuedWoken, Woken, Busy, GateOpen
<1>35. ASSUME NEW t \in Turn, TurnAdmit(t) \/ TurnSpawn(t) \/ TurnBodyEnds(t) \/ SettleCapture(t)
              \/ ChatAsk(t)
      PROVE  QueuedWoken'
    <2>1. UNCHANGED <<disp, retry, user, steer>>
        BY <1>35 DEF TurnAdmit, TurnSpawn, TurnBodyEnds, SettleCapture, ChatAsk
    <2>2. NoneQueued
        BY <1>35 DEF NoneQueued, TurnAdmit, TurnSpawn, TurnBodyEnds, SettleCapture, ChatAsk
    <2> QED BY <1>35, <2>1, <2>2, WokenKept DEF INext, Turns
<1>36. ASSUME NEW t \in Turn, SettleOne(t) PROVE QueuedWoken'
    <2>1. UNCHANGED <<disp, retry, user, steer>>
        BY <1>36 DEF SettleOne
    <2>2. NoneQueued
        BY <1>36, SettleOneDoes, Unqueued DEF Alert, Typed, SettleView
    <2> QED BY <1>36, <2>1, <2>2, WokenKept DEF INext, Turns
<1>37. ASSUME NEW t \in Turn, SettleUntrack(t) PROVE QueuedWoken'
    <2>1. UNCHANGED <<disp, retry, user, steer>>
        BY <1>37 DEF SettleUntrack
    <2>2. NoneQueued
        BY <1>37, SettleUntrackDoes, Unqueued DEF Alert, Typed
    <2> QED BY <1>37, <2>1, <2>2, WokenKept DEF INext, Turns
<1>38. ASSUME NEW t \in Turn, TurnSettled(t) PROVE QueuedWoken'
    <2> QED BY <1>38, WindowWakes DEF QueuedWoken, Woken
<1>39. ASSUME NEW q \in Rotator, Rotation(q) PROVE QueuedWoken'
    <2>1. disp'.kick = TRUE \/ rotating' = TRUE
        BY <1>39, KickDoes DEF Rotation, BeginRotation, EndRotation, Alert, Typed, RecordsOK, DispRec
    <2> QED BY <2>1 DEF QueuedWoken, Woken, Busy, GateOpen
<1> QED BY <1>1, <1>2, <1>3, <1>4, <1>5, <1>6, <1>7, <1>8, <1>9, <1>10, <1>11, <1>12, <1>13, <1>14,
           <1>15, <1>16, <1>17, <1>18, <1>19, <1>20, <1>21, <1>22, <1>23, <1>24, <1>25, <1>26,
           <1>27, <1>28, <1>29, <1>30, <1>31, <1>32, <1>33, <1>34, <1>35, <1>36, <1>37, <1>38,
           <1>39, NotTold
        DEF INext, Dispatcher, Agent, Steering, User, Turns

(* A new controller has nothing queued.                                     *)
LEMMA WakefulStart == IInit /\ Told => Wakeful
<1> SUFFICES ASSUME IInit, Told PROVE Wakeful
    OBVIOUS
<1>1. \A x : StatusIn(man, x) = "gone"
    BY TypedStart, Seen DEF Typed, ManifestOK, IInit, EmptyManifest
<1>2. disp.pc = "off" /\ disp.kick = FALSE /\ user.pc = "off" /\ runner.pc = "off"
      /\ \A t \in Turn : kind[t] = "guarded" /\ pc[t] = "idle"
    BY DEF IInit, NewGate, UserOff, RunnerOff
<1> QED BY <1>1, <1>2 DEF Wakeful, ToldUse, KickLive, StartKept, Answered, QueuedWoken

(* Every step keeps the wakeup invariant.                                   *)
LEMMA AlertStep ==
    ASSUME Alert, [INext]_ivars
    PROVE  Alert'
<1>1. Typed' /\ GateInv'
    BY TypedStep DEF Alert
<1>2. CASE INext
    BY <1>1, <1>2, ToldUseNext, KickLiveNext, StartKeptNext, AnsweredNext, QueuedWokenNext
    DEF Alert, Wakeful
<1>3. CASE UNCHANGED ivars
    <2>1. UNCHANGED <<pc, kind, man, disp, retry, steer, user, front, runner, unsaved, asleep>>
          /\ UNCHANGED Doors
        BY <1>3 DEF ivars, gate, hist, Doors
    <2>2. Wakeful'
        BY <2>1, DoorsKept
        DEF Alert, Wakeful, ToldUse, Told, Ops, KickLive, StartKept, Answered, QueuedWoken, Woken
    <2> QED BY <1>1, <2>2 DEF Alert
<1> QED BY <1>2, <1>3

(* The wakeup invariant holds throughout.                                   *)
LEMMA AlwaysAlert == ISpec /\ Told => []Alert
<1>1. IInit /\ Told => Alert
    BY TypedStart, GateStart, WakefulStart DEF Alert
<1>2. Alert /\ [INext]_ivars => Alert'
    BY AlertStep
<1> QED BY <1>1, <1>2, PTL DEF ISpec

(* A controller keeps its frontend.                                         *)
LEMMA FrontKept ==
    ASSUME [INext]_ivars
    PROVE  front' = front
<1>1. CASE INext
    BY <1>1
    DEF INext, Dispatcher, Agent, Steering, User, Turns, DispLoop, DispBusy, DispScan, DispRead,
        DispClaim, DispClaimError, DispBlock, DispBlockPause, DispAsk, DispStart, DispDrop,
        DispOnStart, DispRollback, DispReturn, RetryFires, SteerRead, SteerMark, SteerRequeue,
        SteerConvert, SteerReturn, UserEnqueue, UserBadRef, UserBadPause, UserFollowup, UserSteer,
        UserPause, UserRetry, UserEdit, UserDelete, UserDeleteItem, UserUnaccept, UserCancelWith,
        UserCancelPause, UserCancelDiscard, UserCancelTurn, UserCancelResume, InboxSnapshot,
        Rotation, Teardown, ChatAsk, RunItemAsk, RunItemBlocks, RunItemRead, RunItemBlock,
        RunItemPause, TurnAdmit, TurnSpawn, RunItemClaim,
        TurnBodyEnds, SettleCapture, SettleOne, SettleUntrack, TurnSettled, AgentRun, AgentConsume,
        AgentMarkConsumed, AgentFinish, AgentAbort, AgentUnapplied, AgentUnown, SteerEnqueue
<1>2. CASE UNCHANGED ivars
    BY <1>2 DEF ivars
<1> QED BY <1>1, <1>2

(***************************************************************************)
(* No wakeup is lost: when everybody has returned and the queue is not      *)
(* paused, nothing is left queued unless the bounded retries of the         *)
(* dispatcher are used up, its last look stopped at a pending prompt or a   *)
(* write about the item failed.  A blocking turn is excluded, which leaves  *)
(* the next item to its own frontend.                                       *)
(***************************************************************************)
THEOREM NoWakeupLost == ISpec /\ "sync" \notin front.chat => []NoLostWakeup
<1> DEFINE Unpromised == Ops \cap {"cancelwith", "edit", "runitem"} # {}
<1>1. ASSUME Alert, AtRest, ~asleep, ~man.paused, retry.attempts < MaxDispatchRetries
      PROVE  \A it \in ToSet(man.items) : it.state = "queued" => it.id \in unsaved
    <2>1. man.paused = FALSE /\ ManOK(man)
        BY <1>1, DispReadDoes DEF Alert, Typed, ManifestOK
    <2>2. \A x : ~Woken(x)
        BY <1>1, RetriesAssumption
        DEF AtRest, Woken, Busy, Alert, Wakeful, KickLive, Typed, RecordsOK, RetryRec
    <2>3. \A x : StatusIn(man, x) = "queued" => x \in unsaved
        BY <1>1, <2>1, <2>2 DEF Alert, Wakeful, QueuedWoken
    <2> QED BY <2>1, <2>3, Seen DEF ToSet
<1>2. Alert => NoLostWakeup
    BY <1>1 DEF NoLostWakeup
<1>3. Unpromised /\ [INext]_ivars => Unpromised'
    BY FrontKept DEF Ops
<1>4. Unpromised => NoLostWakeup
    BY DEF NoLostWakeup
<1>5. "sync" \notin front.chat => Told \/ Unpromised
    BY DEF Told
<1>6. ISpec /\ Unpromised => []Unpromised
    BY <1>3, PTL DEF ISpec
<1> HIDE DEF Unpromised
<1> QED BY <1>2, <1>4, <1>5, <1>6, AlwaysAlert, PTL

(***************************************************************************)
(* What the turn gate promises holds with the inbox on top of it, whatever  *)
(* the frontend does: one turn in flight, cancel reaches that turn, session *)
(* swaps and deliveries exclude turns, and close leaves nothing behind.     *)
(***************************************************************************)
THEOREM GateKeepsItsPromises ==
    ISpec => [](/\ OneTurnInFlight /\ CancelTargetsTurnInFlight /\ RotationExclusive
               /\ DeliveryHoldsGate /\ CloseSeals)
<1>1. GateInv => /\ OneTurnInFlight /\ CancelTargetsTurnInFlight /\ RotationExclusive
                 /\ DeliveryHoldsGate /\ CloseSeals
    BY DEF GateInv
<1> QED BY <1>1, AlwaysTyped, PTL
=============================================================================
