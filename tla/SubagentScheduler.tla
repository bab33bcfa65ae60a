-------------------------- MODULE SubagentScheduler --------------------------
(***************************************************************************)
(* The slots and write claims that task, fleet and nested sub-agents share *)
(* with the parent's own write tools.  A claim is the set of regions of    *)
(* the workspace it covers, so that two claims overlap when they meet, a   *)
(* whole-workspace claim is every region and a read-only request has the   *)
(* empty one.  The walk over the queue runs under the scheduler's mutex,   *)
(* one waiter a step; every step that takes the mutex waits for it.        *)
(***************************************************************************)
EXTENDS Naturals, Sequences, FiniteSets, SequencesExt

CONSTANTS
    Req,        \* sub-agent runs; each acquires at most one slot
    Parent,     \* write-tool calls of the parent agent
    Region,     \* disjoint parts of the workspace
    ClaimOf,    \* what a request or a parent's call writes
    WriterReq,  \* requests that count as writers
    NestedReq,  \* requests made by a sub-agent
    MaxTotal, MaxWriters

Claim == (SUBSET Region) \ {{}}

ASSUME RequestAssumption ==
    /\ Req \cap Parent = {} /\ WriterReq \subseteq Req /\ NestedReq \subseteq Req
    /\ ClaimOf \in [Req \cup Parent -> SUBSET Region]
    /\ \A r \in Req : ClaimOf[r] # {} => r \in WriterReq
    /\ \A w \in Parent : ClaimOf[w] # {}
ASSUME CapAssumption == MaxTotal \in Nat \ {0} /\ MaxWriters \in 1..MaxTotal

VARIABLES
    waiters,        \* the queue
    cursor,         \* the waiter the mutex holder looks at next; 0 when the mutex is free
    ready,          \* waiters whose channel is closed
    activeTotal, activeWriters,
    activeClaims,   \* how many times each claim is in the list
    parentClaims,
    slot            \* where each caller is

svars == <<waiters, cursor, ready, activeTotal, activeWriters, activeClaims, parentClaims, slot>>

SlotSteps == {"idle", "waiting", "holding", "leaving", "refused", "done"}

SInit ==
    /\ waiters = <<>> /\ cursor = 0 /\ ready = {}
    /\ activeTotal = 0 /\ activeWriters = 0
    /\ activeClaims = [c \in Claim |-> 0] /\ parentClaims = [c \in Claim |-> 0]
    /\ slot = [r \in Req \cup Parent |-> "idle"]

-----------------------------------------------------------------------------
Overlaps(c, d) == c \cap d # {}
Blocked(claim) == \E c \in Claim : activeClaims[c] + parentClaims[c] > 0 /\ Overlaps(c, claim)

(* Slip: parent writes are not looked at.                                  *)
canStartIgnoresParent(r) ==
    /\ activeTotal < MaxTotal
    /\ r \in WriterReq =>
        /\ activeWriters < MaxWriters
        /\ ~\E c \in Claim : activeClaims[c] > 0 /\ Overlaps(c, ClaimOf[r])

canStart(r) ==
    /\ activeTotal < MaxTotal
    /\ r \in WriterReq => activeWriters < MaxWriters /\ ~Blocked(ClaimOf[r])

activate(r) ==
    /\ activeTotal' = activeTotal + 1
    /\ activeWriters' = IF r \in WriterReq THEN activeWriters + 1 ELSE activeWriters
    /\ activeClaims' = IF ClaimOf[r] = {} THEN activeClaims
                       ELSE [activeClaims EXCEPT ![ClaimOf[r]] = @ + 1]

Less(n) == IF n > 0 THEN n - 1 ELSE 0

deactivate(r) ==
    /\ activeTotal' = Less(activeTotal)
    /\ activeWriters' = IF r \in WriterReq THEN Less(activeWriters) ELSE activeWriters
    /\ activeClaims' = IF ClaimOf[r] = {} THEN activeClaims
                       ELSE [activeClaims EXCEPT ![ClaimOf[r]] = Less(@)]

counters == <<activeTotal, activeWriters, activeClaims>>
StartPump == cursor' = IF waiters = <<>> THEN 0 ELSE 1

-----------------------------------------------------------------------------
(***************************************************************************)
(* Acquire.                                                                *)
(***************************************************************************)
AcquireNow(r) ==
    /\ slot[r] = "idle" /\ cursor = 0 /\ canStart(r)
    /\ activate(r)
    /\ slot' = [slot EXCEPT ![r] = "holding"]
    /\ UNCHANGED <<waiters, cursor, ready, parentClaims>>

AcquireRefused(r) ==
    /\ slot[r] = "idle" /\ cursor = 0 /\ ~canStart(r) /\ r \in NestedReq
    /\ slot' = [slot EXCEPT ![r] = "refused"]
    /\ UNCHANGED <<waiters, cursor, ready, counters, parentClaims>>

AcquireQueues(r) ==
    /\ slot[r] = "idle" /\ cursor = 0 /\ ~canStart(r) /\ r \notin NestedReq
    /\ waiters' = Append(waiters, r)
    /\ slot' = [slot EXCEPT ![r] = "waiting"]
    /\ UNCHANGED <<cursor, ready, counters, parentClaims>>

Wake(r) ==
    /\ slot[r] = "waiting" /\ r \in ready
    /\ slot' = [slot EXCEPT ![r] = "holding"]
    /\ UNCHANGED <<waiters, cursor, ready, counters, parentClaims>>

(* removeWaiterLocked keeps the others in order; nobody is queued twice.    *)
removeWaiter(r) ==
    IF \E i \in 1..Len(waiters) : waiters[i] = r
    THEN RemoveAt(waiters, CHOOSE i \in 1..Len(waiters) : waiters[i] = r) ELSE waiters

(* Slip: the granted slot is forgotten.                                     *)
CancelWaitLeaks(r) ==
    /\ slot[r] = "waiting" /\ cursor = 0
    /\ waiters' = removeWaiter(r)
    /\ slot' = [slot EXCEPT ![r] = "refused"]
    /\ UNCHANGED <<cursor, ready, counters, parentClaims>>

(* The context ended first.  A slot granted meanwhile is given back.        *)
CancelWait(r) ==
    /\ slot[r] = "waiting" /\ cursor = 0
    /\ waiters' = removeWaiter(r)
    /\ slot' = [slot EXCEPT ![r] = IF r \in ready THEN "leaving" ELSE "refused"]
    /\ UNCHANGED <<cursor, ready, counters, parentClaims>>

-----------------------------------------------------------------------------
(***************************************************************************)
(* Release, and the walk over the queue it starts.                         *)
(***************************************************************************)
Release(r) ==
    /\ slot[r] \in {"holding", "leaving"} /\ cursor = 0
    /\ deactivate(r)
    /\ StartPump
    /\ slot' = [slot EXCEPT ![r] = IF slot[r] = "leaving" THEN "refused" ELSE "done"]
    /\ UNCHANGED <<waiters, ready, parentClaims>>

PumpStep ==
    /\ cursor > 0
    /\ LET w == waiters[cursor]
       IN  IF canStart(w)
           THEN /\ activate(w)
                /\ ready' = ready \cup {w}
                /\ waiters' = RemoveAt(waiters, cursor)
                /\ cursor' = IF cursor < Len(waiters) THEN cursor ELSE 0
           ELSE /\ cursor' = IF cursor < Len(waiters) THEN cursor + 1 ELSE 0
                /\ UNCHANGED <<waiters, ready, counters>>
    /\ UNCHANGED <<parentClaims, slot>>

ReserveParentWrite(w) ==
    /\ slot[w] = "idle" /\ cursor = 0 /\ ~Blocked(ClaimOf[w])
    /\ parentClaims' = [parentClaims EXCEPT ![ClaimOf[w]] = @ + 1]
    /\ slot' = [slot EXCEPT ![w] = "holding"]
    /\ UNCHANGED <<waiters, cursor, ready, counters>>

ParentWriteRefused(w) ==
    /\ slot[w] = "idle" /\ cursor = 0 /\ Blocked(ClaimOf[w])
    /\ slot' = [slot EXCEPT ![w] = "refused"]
    /\ UNCHANGED <<waiters, cursor, ready, counters, parentClaims>>

(* Slip: the queue is not walked.                                           *)
ParentWriteDoneNoPump(w) ==
    /\ slot[w] = "holding" /\ cursor = 0
    /\ parentClaims' = [parentClaims EXCEPT ![ClaimOf[w]] = Less(@)]
    /\ slot' = [slot EXCEPT ![w] = "done"]
    /\ UNCHANGED <<waiters, cursor, ready, counters>>

ParentWriteDone(w) ==
    /\ slot[w] = "holding" /\ cursor = 0
    /\ parentClaims' = [parentClaims EXCEPT ![ClaimOf[w]] = Less(@)]
    /\ StartPump
    /\ slot' = [slot EXCEPT ![w] = "done"]
    /\ UNCHANGED <<waiters, ready, counters>>

Acquire(r) == AcquireNow(r) \/ AcquireRefused(r) \/ AcquireQueues(r)
ParentWrites ==
    \E w \in Parent : ReserveParentWrite(w) \/ ParentWriteRefused(w) \/ ParentWriteDone(w)

-----------------------------------------------------------------------------
(* Callers the scheduler counts: awake, or granted and not yet awake.       *)
Holders == {r \in Req : slot[r] \in {"holding", "leaving"} \/ (slot[r] = "waiting" /\ r \in ready)}
ParentHolders == {w \in Parent : slot[w] = "holding"}

(* The type invariant of the scheduler; the caps bound its counters and    *)
(* the queue holds each waiting caller once.                               *)
STypeOK ==
    /\ waiters \in Seq(Req) /\ cursor \in 0..Len(waiters) /\ ready \subseteq Req
    /\ activeTotal \in 0..MaxTotal /\ activeWriters \in 0..MaxWriters
    /\ activeClaims \in [Claim -> Nat] /\ parentClaims \in [Claim -> Nat]
    /\ slot \in [Req \cup Parent -> SlotSteps]
    /\ \A i, j \in 1..Len(waiters) : i # j => waiters[i] # waiters[j]
    /\ \A r \in Req : (\E i \in 1..Len(waiters) : waiters[i] = r) <=> slot[r] = "waiting" /\ r \notin ready

(* No two of the runs in progress and the parent's writes in progress claim *)
(* the same part of the workspace, however acquiring, waking, cancelling    *)
(* and releasing interleave.                                                *)
ClaimsDisjoint ==
    \A r, q \in Holders \cup ParentHolders : r # q => ~Overlaps(ClaimOf[r], ClaimOf[q])

(* The counters are exactly the callers that hold a slot, within the caps:  *)
(* a cancelled waiter, an early release or a lost wake-up leaks none.       *)
SlotsAccounted ==
    /\ activeTotal <= MaxTotal /\ activeWriters <= MaxWriters
    /\ activeTotal = Cardinality(Holders)
    /\ activeWriters = Cardinality(Holders \cap WriterReq)
    /\ \A c \in Claim : activeClaims[c] = Cardinality({r \in Holders : ClaimOf[r] = c})

(* When the mutex is free no queued request could start: nothing waits for  *)
(* capacity that is there.                                                  *)
NoIdleCapacity == cursor = 0 => \A i \in 1..Len(waiters) : ~canStart(waiters[i])
=============================================================================
