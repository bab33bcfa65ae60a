---------------------------- MODULE DurableQueue ----------------------------
(***************************************************************************)
(* What a session inbox promises its callers: a bounded queue of texts in  *)
(* which every operation happens at once or not at all, whatever the disk  *)
(* and the processes do.  An entry waits, runs, is steered into a turn in  *)
(* flight or is uncertain; only recovery may disturb several entries at    *)
(* once, and it pauses the queue.  The promise ends when the file system   *)
(* damages the directory.  SessionInbox implements it.                     *)
(***************************************************************************)
EXTENDS Naturals, Sequences, SequencesExt, Entries

CONSTANTS
    EntryId,    \* item ids
    Text,       \* bodies
    Capacity    \* how many entries fit

VARIABLES
    queue,      \* the entries, oldest first
    paused,     \* nothing is started while set
    damaged     \* the promise has ended

qvars == <<queue, paused, damaged>>

Working == {"running", "steered"}
Statuses == Working \cup {"waiting", "uncertain"}

QInit == queue = <<>> /\ paused = FALSE /\ damaged = FALSE

Removable(e) == e.status \notin Working

Accept(id, text) ==
    /\ Len(queue) < Capacity
    /\ \A i \in DOMAIN queue : queue[i].id # id
    /\ queue' = Append(queue, [id |-> id, text |-> text, status |-> "waiting"])
    /\ UNCHANGED paused

Edit(i, text) ==
    /\ Removable(queue[i])
    /\ queue' = [queue EXCEPT ![i].text = text]
    /\ UNCHANGED paused

(* Entries leave one by one once they ran, or together when a user discards *)
(* what is not under way; the pause goes with the last.                     *)
Leave(ids) ==
    LET gone == {i \in DOMAIN queue : queue[i].id \in ids}
    IN  /\ gone # {}
        /\ (\A i \in gone : Removable(queue[i])) \/ (\A i, j \in gone : i = j)
        /\ queue' = EntriesAt(queue, DOMAIN queue \ gone)
        /\ paused' = (paused /\ queue' # <<>>)

Move(i, to) ==
    /\ Removable(queue[i])
    /\ queue' = InsertAt(RemoveAt(queue, i), to, queue[i])
    /\ UNCHANGED paused

Start(i) ==
    /\ ~paused /\ queue[i].status = "waiting"
    /\ queue' = [queue EXCEPT ![i].status = "running"]
    /\ UNCHANGED paused

(* Everything short of starting: requeue, block, steer, give up.            *)
Mark(i, s) ==
    /\ s # "running"
    /\ queue' = [queue EXCEPT ![i].status = s]
    /\ UNCHANGED paused

Pause(p) == paused' = p /\ UNCHANGED queue

(* What nobody owns any more is uncertain, and the queue waits for a user.  *)
Recover(ids) ==
    /\ queue' = [i \in DOMAIN queue |->
                   IF queue[i].id \in ids /\ queue[i].status \in Working
                   THEN [queue[i] EXCEPT !.status = "uncertain"] ELSE queue[i]]
    /\ paused' = TRUE

Damage == ~damaged /\ damaged' = TRUE /\ queue' = <<>> /\ paused' = FALSE

QStep ==
    \/ \E id \in EntryId, text \in Text : Accept(id, text)
    \/ \E ids \in SUBSET EntryId : Leave(ids) \/ Recover(ids)
    \/ \E p \in BOOLEAN : Pause(p)
    \/ \E i \in DOMAIN queue :
          \/ Start(i)
          \/ \E text \in Text : Edit(i, text)
          \/ \E to \in DOMAIN queue : Move(i, to)
          \/ \E s \in Statuses : Mark(i, s)

QNext == Damage \/ (~damaged /\ UNCHANGED damaged /\ QStep)

QSpec == QInit /\ [][QNext]_qvars
=============================================================================
