--------------------------- MODULE InboxManifest ---------------------------
(***************************************************************************)
(* The manifest of a session inbox as a value, and the transformations the *)
(* Store's operations apply to it.  A body's checksum is the body itself;  *)
(* previews, reference summaries and timestamps are left out, but for the  *)
(* completion time of a receipt, which increases from one transaction to   *)
(* the next and is the same for all keys that one transaction completes.   *)
(***************************************************************************)
EXTENDS Naturals, Sequences, FiniteSets, SequencesExt, Entries

CONSTANTS
    NoKey,          \* a request without an idempotency key
    MaxItems,       \* Limits.MaxItems
    MaxReceipts     \* maxIdempotencyReceipts

ASSUME MaxItemsAssumption    == MaxItems \in Nat \ {0}
ASSUME MaxReceiptsAssumption == MaxReceipts \in Nat \ {0}

Intents == {"followup", "steer"}
Pending == {"queued", "blocked", "uncertain"}
InFlightStates == {"running", "steer_accepted", "steer_consumed"}
States == Pending \cup InFlightStates

EmptyManifest(runID) ==
    [run |-> runID, paused |-> FALSE, recovered |-> FALSE, items |-> <<>>,
     keys |-> <<>>, receipts |-> <<>>]

Ids(m) == {it.id : it \in ToSet(m.items)}
BlobsOf(m) == {it.blob : it \in ToSet(m.items)}
ItemOf(m, id) == CHOOSE it \in ToSet(m.items) : it.id = id
StateOf(m, id) == ItemOf(m, id).state

MapItem(m, id, f(_)) ==
    [m EXCEPT !.items = [i \in DOMAIN @ |-> IF @[i].id = id THEN f(@[i]) ELSE @[i]]]

SetItemState(m, id, s) == MapItem(m, id, LAMBDA it : [it EXCEPT !.state = s])

(* The in-flight items among `ids` become uncertain.                       *)
MarkUncertain(m, ids) ==
    [m EXCEPT !.items = [i \in DOMAIN @ |->
        IF @[i].id \in ids /\ @[i].state \in InFlightStates
        THEN [@[i] EXCEPT !.state = "uncertain"] ELSE @[i]]]

-----------------------------------------------------------------------------
(***************************************************************************)
(* Idempotency: m.keys binds the key of a live item to its id and request  *)
(* hash; a receipt remembers the binding after the item has left.          *)
(***************************************************************************)
KeysFor(m, ids) == {k \in DOMAIN m.keys : m.keys[k].id \in ids}

Bind(m, k, id, hash) ==
    IF k = NoKey THEN m
    ELSE [m EXCEPT !.keys = [j \in DOMAIN @ \cup {k} |->
             IF j = k THEN [id |-> id, hash |-> hash] ELSE @[j]]]

(* What the store already knows of a key: the live binding, else a receipt. *)
Known(m, k) ==
    IF k = NoKey THEN {}
    ELSE IF k \in DOMAIN m.keys THEN {m.keys[k]}
    ELSE {[id |-> m.receipts[j].id, hash |-> m.receipts[j].hash] : j \in {k} \cap DOMAIN m.receipts}

Capped(n) == IF n <= MaxReceipts THEN n ELSE MaxReceipts
Restricted(rs, S) == [k \in S |-> rs[k]]

(* Slip: the cap keeps the oldest receipts.                                 *)
pruneReceiptsKeepsOldest(rs) ==
    {Restricted(rs, S) : S \in {S \in SUBSET DOMAIN rs :
        /\ Cardinality(S) = Capped(Cardinality(DOMAIN rs))
        /\ \A k \in S, j \in DOMAIN rs \ S : rs[k].at <= rs[j].at}}

(* What the cap may leave: the oldest go first, and among receipts of one   *)
(* time any of them, because the entries are walked in map order.           *)
pruneReceipts(rs) ==
    {Restricted(rs, S) : S \in {S \in SUBSET DOMAIN rs :
        /\ Cardinality(S) = Capped(Cardinality(DOMAIN rs))
        /\ \A k \in S, j \in DOMAIN rs \ S : rs[j].at <= rs[k].at}}

(* The receipts that may be kept once the keys ks are completed, all at the *)
(* same time.  What the age limit drops is dropped by ReceiptsExpire.       *)
rememberReceipt(m, ks) ==
    LET now == Max({0} \cup {m.receipts[k].at : k \in DOMAIN m.receipts}) + 1
    IN  pruneReceipts([k \in DOMAIN m.receipts \cup ks |->
            IF k \in ks THEN [id |-> m.keys[k].id, hash |-> m.keys[k].hash, at |-> now]
            ELSE m.receipts[k]])

(* removeItem after rememberReceipt, which leaves the receipts rs; the      *)
(* pause goes with the last item.                                           *)
RemoveItems(m, ids, rs) ==
    LET ks == KeysFor(m, ids)
        n  == [m EXCEPT !.items = EntriesAt(@, {i \in DOMAIN @ : @[i].id \notin ids}),
                        !.keys  = [k \in DOMAIN @ \ ks |-> @[k]],
                        !.receipts = rs]
    IN  IF n.items = <<>> THEN [n EXCEPT !.paused = FALSE, !.recovered = FALSE] ELSE n

-----------------------------------------------------------------------------
(***************************************************************************)
(* loadOrInitLocked: what a process makes of the manifest it finds.        *)
(***************************************************************************)
Foreign(m, runID) == m.run # runID /\ m.items # <<>>

(* Slips: recovery believes the in-flight items, or forgets the pause.      *)
RecoveredBelievesInFlight(m, runID) ==
    [m EXCEPT !.run = runID, !.paused = TRUE, !.recovered = TRUE]
RecoveredUnpaused(m, runID) ==
    [MarkUncertain(m, Ids(m)) EXCEPT !.run = runID, !.recovered = TRUE]

Recovered(m, runID) ==
    [MarkUncertain(m, Ids(m)) EXCEPT !.run = runID, !.paused = TRUE, !.recovered = TRUE]

(* Slip: a damaged manifest is replaced by an empty one.                    *)
SalvagedEmpty(blobs, order, runID) == EmptyManifest(runID)

(* A corrupt manifest is rebuilt from the blob files in the order of their  *)
(* names, one uncertain item a file; keys and receipts are gone.            *)
Salvaged(blobs, order, runID) ==
    [EmptyManifest(runID) EXCEPT
        !.paused = TRUE, !.recovered = TRUE,
        !.items = [i \in DOMAIN order |->
            [id |-> order[i], intent |-> "followup", state |-> "uncertain",
             blob |-> order[i], sum |-> blobs[order[i]], run |-> runID]]]

-----------------------------------------------------------------------------
(***************************************************************************)
(* The operations.  Each has a guard (Can...) and the manifest it commits. *)
(***************************************************************************)
CanEnqueue(m, k) == Known(m, k) = {} /\ Len(m.items) < MaxItems

Enqueue(m, id, intent, k, body) ==
    Bind([m EXCEPT !.items = Append(@, [id |-> id, intent |-> intent, state |-> "queued",
                                        blob |-> id, sum |-> body, run |-> m.run])],
         k, id, body)

IsPending(m, id) == id \in Ids(m) /\ StateOf(m, id) \in Pending

CanUpdate(m, id, alias) == IsPending(m, id) /\ Known(m, alias) = {}

UpdateItem(m, id, blob, body, alias, aliasBody) ==
    Bind(MapItem(m, id, LAMBDA it :
            [it EXCEPT !.blob = blob, !.sum = body,
                       !.state = IF @ = "blocked" THEN "queued" ELSE @]),
         alias, id, aliasBody)

CanDiscard(m, ids) == ids \cap Ids(m) # {} /\ \A id \in ids \cap Ids(m) : IsPending(m, id)

(* Slip: a move inserts without taking out.                                 *)
MoveItemKeepsOld(m, id, to) == [m EXCEPT !.items = InsertAt(@, to, ItemOf(m, id))]

MoveItem(m, id, to) ==
    LET from == CHOOSE i \in DOMAIN m.items : m.items[i].id = id
    IN  [m EXCEPT !.items = InsertAt(RemoveAt(@, from), to, @[from])]

SetPaused(m, p) == [m EXCEPT !.paused = p, !.recovered = @ /\ p]
ForcePause(m) == [m EXCEPT !.paused = TRUE, !.recovered = TRUE]

CanClaim(m, id) == ~m.paused /\ id \in Ids(m) /\ StateOf(m, id) = "queued"
CanAck(m, id) == id \in Ids(m) /\ StateOf(m, id) \in InFlightStates
CanRetry(m, id) == id \in Ids(m) /\ StateOf(m, id) \in {"uncertain", "blocked"}

ConvertIntent(m, id, intent) == MapItem(m, id, LAMBDA it : [it EXCEPT !.intent = intent])

Orphans(m, owned) == {id \in Ids(m) \ owned : StateOf(m, id) \in InFlightStates}
RecoverOrphans(m, owned) ==
    [MarkUncertain(m, Ids(m) \ owned) EXCEPT !.paused = TRUE, !.recovered = TRUE]

(* Where the queued items stand, and the one that goes next: the oldest     *)
(* follow-up, else the oldest of all; nothing while paused.                 *)
Queued(m, intents) == {i \in DOMAIN m.items : m.items[i].state = "queued" /\ m.items[i].intent \in intents}
NextQueued(m) ==
    LET at == IF Queued(m, {"followup"}) # {} THEN Queued(m, {"followup"}) ELSE Queued(m, Intents)
    IN  {m.items[i].id : i \in {i \in at : ~m.paused /\ \A j \in at : i <= j}}
=============================================================================
