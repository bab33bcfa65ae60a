-------------------------- MODULE RewindTransaction --------------------------
(***************************************************************************)
(* The file half of a rewind: checkpoint/transaction.go.  A rewind puts    *)
(* every file of a plan back to its checkpoint image, or none; an undo is  *)
(* a second transaction that runs a committed one backwards.  A manifest   *)
(* per transaction is the write-ahead record: its intents are durable      *)
(* before the renames they announce, and opening the store compensates     *)
(* whatever a dead process left `committing`.                              *)
(*                                                                         *)
(* One action per durable step (a manifest write, a rename, a remove), so  *)
(* that a crash falls between any two of them; any of them may fail.       *)
(* Content is an image; modes are part of it.  The conversation half is    *)
(* not here: the controller forks the conversation before the transaction  *)
(* and marks the plan (transaction_plan.go), which makes it files only.    *)
(***************************************************************************)
EXTENDS Integers, FiniteSets, FiniteSetsExt

CONSTANTS NumFiles,    \* files of the plan; 1..NumFiles is their path order
          Shapes,      \* what the turns did: a set of functions to ShapeKinds
          MaxTx,       \* bound: transactions
          MaxEdits,    \* bound: edits made by the user outside the program
          MaxFails,    \* bound: file operations that fail
          MaxCrashes   \* bound: process deaths

Files == 1 .. NumFiles
Txs == 1 .. MaxTx
ShapeKinds == {"modified", "created", "deleted"}

ASSUME RewindAssumption ==
    /\ NumFiles \in Nat \ {0}
    /\ Shapes \subseteq [Files -> ShapeKinds]
    /\ {MaxTx, MaxEdits, MaxFails, MaxCrashes} \subseteq Nat

\* A path holds no file, the image of the checkpoint, the image the agent
\* left, or one the user wrote.
Images == {"absent", "old", "new", "ext"}

VARIABLES
    shape,     \* what the turns being rewound did to each file
    target,    \* the workspace
    bak, tmp,  \* the sibling files of each transaction
    recov,     \* recovery copies, by file and restore image
    man,       \* the manifests on disk
    mem,       \* the transaction the process is working on
    op,        \* where it is: program counter, file, compensation error
    lastUndo,  \* the transaction offered for undo, 0 for none
    edits, fails, crashes,
    user,      \* history: the image the user last gave each file, if any
    odd        \* history: what the properties make an exception of

disk == <<target, bak, tmp, recov>>
hist == <<edits, fails, crashes, user, odd>>
rvars == <<shape, disk, man, mem, op, lastUndo, hist>>

Before == [f \in Files |-> IF shape[f] = "created" THEN "absent" ELSE "old"]
After == [f \in Files |-> IF shape[f] = "deleted" THEN "absent" ELSE "new"]

TxStates == {"none", "prepared", "committing", "committed", "aborted", "undone"}
Manifests == [state : TxStates, kind : {"rewind", "undo"}, parent : 0 .. MaxTx,
              fwd : [Files -> Images], rst : [Files -> Images], pub : SUBSET Files]
NoManifest == [state |-> "none", kind |-> "rewind", parent |-> 0,
               fwd |-> [f \in Files |-> "absent"], rst |-> [f \in Files |-> "absent"], pub |-> {}]

Steps == {"idle", "stage", "commit", "intent", "backup", "swap", "progress",
          "mark", "comp", "compswap", "down", "recover"}

Blank == [t \in Txs |-> [f \in Files |-> "absent"]]

RInit == /\ shape \in Shapes
         /\ target = After
         /\ bak = Blank /\ tmp = Blank
         /\ recov = [f \in Files |-> [r \in Images |-> "absent"]]
         /\ man = [t \in Txs |-> NoManifest]
         /\ mem = NoManifest
         /\ op = [pc |-> "idle", t |-> 0, i |-> 0, err |-> FALSE, startup |-> FALSE]
         /\ lastUndo = 0
         /\ edits = 0 /\ fails = 0 /\ crashes = 0
         /\ user = [x \in Files |-> "none"] /\ odd = {}

-----------------------------------------------------------------------------
(***************************************************************************)
(* The steps of the process.                                               *)
(***************************************************************************)
At(pc) == op.pc = pc
Goto(pc, i) == op' = [op EXCEPT !.pc = pc, !.i = i]
Rest == op' = [op EXCEPT !.pc = "idle", !.i = 0, !.err = FALSE]

\* A file operation fails: nothing changes on disk.
Fail == fails < MaxFails /\ fails' = fails + 1 /\ UNCHANGED <<edits, crashes, user, odd>>

\* persistTransaction: an atomic replacement of the manifest.
Persist(m) == man' = [man EXCEPT ![op.t] = m]

\* failTransaction: every target of the transaction is compensated, last first.
Compensate == Goto("comp", NumFiles)

Free == {t \in Txs : man[t].state = "none"}
Pending == {t \in Txs : man[t].state = "committing"}

\* Committing a rewind plan.  Every file must hold its checkpoint image or the
\* one the session last wrote; anything else is a conflict and nothing starts.
CommitRewind ==
    /\ At("idle") /\ Free # {}
    /\ \A f \in Files : target[f] \in {Before[f], After[f]}
    /\ mem' = [NoManifest EXCEPT !.state = "prepared", !.rst = Before]
    /\ op' = [op EXCEPT !.pc = "stage", !.t = Min(Free), !.i = 1]
    /\ odd' = odd \cup IF Pending # {} THEN {"overpending"} ELSE {}
    /\ UNCHANGED <<shape, disk, man, lastUndo, edits, fails, crashes, user>>

\* The undo of the last committed rewind: refused unless every file still holds
\* what the rewind published.  Its manifest is written before its temps.
UndoRewind ==
    /\ At("idle") /\ Free # {} /\ lastUndo # 0
    /\ LET last == man[lastUndo]
           undo == [state |-> "prepared", kind |-> "undo", parent |-> lastUndo,
                    fwd |-> last.rst, rst |-> last.fwd, pub |-> {}]
       IN  /\ \A f \in Files : target[f] = last.rst[f]
           /\ mem' = undo
           /\ man' = [man EXCEPT ![Min(Free)] = undo]
           /\ op' = [op EXCEPT !.pc = "stage", !.t = Min(Free), !.i = 1]
    /\ odd' = odd \cup IF Pending # {} THEN {"overpending"} ELSE {}
    /\ UNCHANGED <<shape, disk, lastUndo, edits, fails, crashes, user>>

\* One file of prepareTransaction or of UndoRewind's staging: a rewind captures
\* the forward image, and what is to be published goes to the temp.
Stage ==
    /\ At("stage") /\ op.i \in Files
    /\ mem' = IF mem.kind = "rewind" THEN [mem EXCEPT !.fwd[op.i] = target[op.i]] ELSE mem
    /\ tmp' = [tmp EXCEPT ![op.t][op.i] = mem.rst[op.i]]
    /\ Goto("stage", op.i + 1)
    /\ UNCHANGED <<shape, target, bak, recov, man, lastUndo, hist>>

\* Staging fails: the temps go, and an undo's manifest is aborted if it can be.
StageFails ==
    /\ At("stage")
    /\ tmp' = [tmp EXCEPT ![op.t] = [f \in Files |-> "absent"]]
    /\ \/ mem.kind = "undo" /\ Persist([mem EXCEPT !.state = "aborted"])
       \/ UNCHANGED man
    /\ Rest /\ Fail
    /\ UNCHANGED <<shape, target, bak, recov, mem, lastUndo>>

\* The prepared manifest.
Prepare ==
    /\ At("stage") /\ op.i = NumFiles + 1
    /\ Persist(mem)
    /\ Goto("commit", 0)
    /\ UNCHANGED <<shape, disk, mem, lastUndo, hist>>

\* CommitRewindWithForward writes the same manifest once more before the commit
\* starts; when that fails the rewind is dropped as it is.
PrepareFails ==
    /\ At("commit") /\ mem.kind = "rewind"
    /\ Rest /\ Fail
    /\ UNCHANGED <<shape, disk, man, mem, lastUndo>>

Commit ==
    /\ At("commit")
    /\ mem' = [mem EXCEPT !.state = "committing"]
    /\ Persist(mem')
    /\ Goto("intent", 1)
    /\ UNCHANGED <<shape, disk, lastUndo, hist>>

CommitFails ==
    /\ At("commit")
    /\ mem' = [mem EXCEPT !.state = "committing"]
    /\ Compensate /\ Fail
    /\ UNCHANGED <<shape, disk, man, lastUndo>>

\* Slip: only the process remembers it.
IntentUnpersisted ==
    /\ At("intent") /\ op.i \in Files
    /\ mem' = [mem EXCEPT !.pub = @ \cup {op.i}]
    /\ Goto("backup", op.i)
    /\ UNCHANGED <<shape, disk, man, lastUndo, hist>>
\* The intent to publish one file is durable before its first rename.
Intent ==
    /\ At("intent") /\ op.i \in Files
    /\ mem' = [mem EXCEPT !.pub = @ \cup {op.i}]
    /\ Persist(mem')
    /\ Goto("backup", op.i)
    /\ UNCHANGED <<shape, disk, lastUndo, hist>>

\* publishTarget, first half: what is at the path moves to the backup.
Backup ==
    /\ At("backup")
    /\ bak' = [bak EXCEPT ![op.t][op.i] = target[op.i]]
    /\ target' = [target EXCEPT ![op.i] = "absent"]
    /\ Goto(IF mem.rst[op.i] = "absent" THEN "progress" ELSE "swap", op.i)
    /\ UNCHANGED <<shape, tmp, recov, man, mem, lastUndo, hist>>

\* publishTarget, second half: the temp moves to the path.
Swap ==
    /\ At("swap")
    /\ target' = [target EXCEPT ![op.i] = tmp[op.t][op.i]]
    /\ tmp' = [tmp EXCEPT ![op.t][op.i] = "absent"]
    /\ Goto("progress", op.i)
    /\ UNCHANGED <<shape, bak, recov, man, mem, lastUndo, hist>>

\* When it fails, publishTarget tries to put the backup back itself.
SwapFails ==
    /\ At("swap")
    /\ \/ /\ target' = [target EXCEPT ![op.i] = bak[op.t][op.i]]
          /\ bak' = [bak EXCEPT ![op.t][op.i] = "absent"]
       \/ UNCHANGED <<target, bak>>
    /\ Compensate /\ Fail
    /\ UNCHANGED <<shape, tmp, recov, man, mem, lastUndo>>

\* The progress write changes nothing the intent did not already say.
Progress ==
    /\ At("progress")
    /\ Goto("intent", op.i + 1)
    /\ UNCHANGED <<shape, disk, man, mem, lastUndo, hist>>

\* A manifest write, the first rename or the chmod fails during the commit.
PublishFails ==
    /\ op.pc \in {"intent", "backup", "progress"}
    /\ Compensate /\ Fail
    /\ UNCHANGED <<shape, disk, man, mem, lastUndo>>

\* The commit point: the manifest says committed.
Finalize ==
    /\ At("intent") /\ op.i = NumFiles + 1
    /\ mem' = [mem EXCEPT !.state = "committed"]
    /\ Persist(mem')
    /\ IF mem.kind = "rewind"
       THEN lastUndo' = op.t /\ Rest
       ELSE Goto("mark", 0) /\ UNCHANGED lastUndo
    /\ UNCHANGED <<shape, disk, hist>>

\* A committed undo marks its parent undone; that write may fail.
MarkUndone ==
    /\ At("mark")
    /\ \/ man' = [man EXCEPT ![mem.parent].state = "undone"] /\ UNCHANGED hist
       \/ Fail /\ UNCHANGED man
    /\ lastUndo' = 0
    /\ Rest
    /\ UNCHANGED <<shape, disk, mem>>

-----------------------------------------------------------------------------
(***************************************************************************)
(* Compensation: compensatePublished, one target at a time, last first.    *)
(***************************************************************************)
CompNext(err) == op' = [op EXCEPT !.pc = "comp", !.i = @ - 1, !.err = @ \/ err]

file == op.i
cur == target[file]
backup == bak[op.t][file]
NoTemp == tmp' = [tmp EXCEPT ![op.t][file] = "absent"]

\* The forward image is where it was, or this target was never announced.
NothingToCompensate == file \notin mem.pub \/ cur = mem.fwd[file]

\* The window publishTarget leaves between its two renames.
OwnedWindow == /\ mem.fwd[file] # "absent" /\ cur = "absent" /\ backup = mem.fwd[file]
               /\ mem.rst[file] = "absent" \/ tmp[op.t][file] # "absent"

CompSkip ==
    /\ At("comp") /\ file # 0 /\ NothingToCompensate
    /\ NoTemp /\ CompNext(FALSE)
    /\ UNCHANGED <<shape, target, bak, recov, man, mem, lastUndo, hist>>

CompWindow ==
    /\ At("comp") /\ file # 0 /\ ~NothingToCompensate /\ OwnedWindow
    /\ target' = [target EXCEPT ![file] = backup]
    /\ bak' = [bak EXCEPT ![op.t][file] = "absent"]
    /\ NoTemp /\ CompNext(FALSE)
    /\ UNCHANGED <<shape, recov, man, mem, lastUndo, hist>>

\* Slip: a file of the user's ends the compensation.
CompForeignStops ==
    /\ At("comp") /\ file # 0 /\ ~NothingToCompensate /\ ~OwnedWindow /\ cur # mem.rst[file]
    /\ op' = [op EXCEPT !.i = 0, !.err = TRUE]
    /\ UNCHANGED <<shape, disk, man, mem, lastUndo, hist>>
\* Neither image is there: the file is the user's.  It stays, and the forward
\* image goes to a recovery copy unless that name is taken.
CompForeign ==
    /\ At("comp") /\ file # 0 /\ ~NothingToCompensate /\ ~OwnedWindow /\ cur # mem.rst[file]
    /\ recov' = IF recov[file][mem.rst[file]] = "absent"
                THEN [recov EXCEPT ![file][mem.rst[file]] = mem.fwd[file]] ELSE recov
    /\ CompNext(TRUE)
    /\ UNCHANGED <<shape, target, bak, tmp, man, mem, lastUndo, hist>>

\* Slip: whatever is there is removed.
CompRemoveBlind ==
    /\ At("comp") /\ file # 0 /\ ~NothingToCompensate /\ ~OwnedWindow
    /\ target' = [target EXCEPT ![file] = "absent"]
    /\ IF mem.fwd[file] = "absent" THEN CompNext(FALSE) ELSE Goto("compswap", file)
    /\ UNCHANGED <<shape, bak, tmp, recov, man, mem, lastUndo, hist>>
\* The published image is there: it is removed...
CompRemove ==
    /\ At("comp") /\ file # 0 /\ ~NothingToCompensate /\ ~OwnedWindow /\ cur = mem.rst[file]
    /\ target' = [target EXCEPT ![file] = "absent"]
    /\ IF mem.fwd[file] = "absent" THEN CompNext(FALSE) ELSE Goto("compswap", file)
    /\ UNCHANGED <<shape, bak, tmp, recov, man, mem, lastUndo, hist>>

\* ...and the backup, or the stored forward image, takes its place.
CompSwap ==
    /\ At("compswap")
    /\ target' = [target EXCEPT ![file] = IF backup = "absent" THEN mem.fwd[file] ELSE backup]
    /\ bak' = [bak EXCEPT ![op.t][file] = "absent"]
    /\ CompNext(FALSE)
    /\ UNCHANGED <<shape, tmp, recov, man, mem, lastUndo, hist>>

\* The look at an announced file, a rename or a remove of the compensation
\* fails: the next target is tried.
CompFails ==
    /\ op.pc \in {"comp", "compswap"} /\ file # 0
    /\ At("comp") => file \in mem.pub
    /\ fails < MaxFails /\ fails' = fails + 1
    /\ odd' = odd \cup IF At("compswap") THEN {"split"} ELSE {}
    /\ CompNext(TRUE)
    /\ UNCHANGED <<shape, disk, man, mem, lastUndo, edits, crashes, user>>

\* Only a complete compensation is final; any other is left for the next start.
\* The write may itself fail.  A start goes on to the next manifest.
Settle ==
    /\ At("comp") /\ file = 0
    /\ mem' = [mem EXCEPT !.state = IF op.err THEN "committing" ELSE "aborted"]
    /\ \/ Persist(mem') /\ UNCHANGED hist
       \/ Fail /\ UNCHANGED man
    /\ op' = [op EXCEPT !.pc = IF op.startup THEN "recover" ELSE "idle",
                        !.t = IF op.startup THEN @ + 1 ELSE @, !.i = 0, !.err = FALSE]
    /\ UNCHANGED <<shape, disk, lastUndo>>

-----------------------------------------------------------------------------
(***************************************************************************)
(* Process death, opening the store, and the user.                         *)
(***************************************************************************)
\* The process dies between two steps.  What it held in memory is gone.
Crash ==
    /\ ~At("down") /\ crashes < MaxCrashes
    /\ crashes' = crashes + 1
    /\ op' = [op EXCEPT !.pc = "down", !.t = 0, !.i = 0, !.err = FALSE, !.startup = FALSE]
    /\ mem' = NoManifest /\ lastUndo' = 0
    /\ odd' = odd \cup IF At("compswap") THEN {"split"} ELSE {}
    /\ UNCHANGED <<shape, disk, man, edits, fails, user>>

\* New: opening the store runs recoverTransactions over every manifest.
Open ==
    /\ At("down")
    /\ op' = [op EXCEPT !.pc = "recover", !.t = 1, !.startup = TRUE]
    /\ UNCHANGED <<shape, disk, man, mem, lastUndo, hist>>

Skip == op' = [op EXCEPT !.t = @ + 1]

\* Prepared: never published, so only the temps go.  When the write that says
\* so fails, the next start finds it prepared again.
RecoverPrepared ==
    /\ At("recover") /\ op.t \in Txs /\ man[op.t].state = "prepared"
    /\ tmp' = [tmp EXCEPT ![op.t] = [x \in Files |-> "absent"]]
    /\ \/ Persist([man[op.t] EXCEPT !.state = "aborted"]) /\ UNCHANGED hist
       \/ Fail /\ UNCHANGED man
    /\ Skip
    /\ UNCHANGED <<shape, target, bak, recov, mem, lastUndo>>

\* Committing: compensated back to the forward images.
RecoverCommitting ==
    /\ At("recover") /\ op.t \in Txs /\ man[op.t].state = "committing"
    /\ mem' = man[op.t]
    /\ Goto("comp", NumFiles)
    /\ UNCHANGED <<shape, disk, man, lastUndo, hist>>

\* A committed undo names it as its parent.
Undone(t) == \E u \in Txs : man[u].state = "committed" /\ man[u].kind = "undo" /\ man[u].parent = t
\* Slip: the parent's own state decides.
RecoverSettledNaive ==
    /\ At("recover") /\ op.t \in Txs /\ man[op.t].state \notin {"prepared", "committing"}
    /\ lastUndo' = IF man[op.t].state = "committed" /\ man[op.t].kind = "rewind"
                   THEN op.t ELSE lastUndo
    /\ Skip
    /\ UNCHANGED <<shape, disk, man, mem, hist>>
\* Committed: offered for undo, unless it is an undo or was undone.
RecoverSettled ==
    /\ At("recover") /\ op.t \in Txs /\ man[op.t].state \notin {"prepared", "committing"}
    /\ lastUndo' = IF man[op.t].state = "committed" /\ man[op.t].kind = "rewind" /\ ~Undone(op.t)
                   THEN op.t ELSE lastUndo
    /\ Skip
    /\ UNCHANGED <<shape, disk, man, mem, hist>>

Recovered ==
    /\ At("recover") /\ op.t = MaxTx + 1
    /\ op' = [op EXCEPT !.pc = "idle", !.t = 0, !.startup = FALSE]
    /\ UNCHANGED <<shape, disk, man, mem, lastUndo, hist>>

\* The user changes a file with another program, at any time but between a look
\* at the path and the rename or remove that look allowed.
Edit(x, image) ==
    /\ edits < MaxEdits /\ op.pc \notin {"swap", "compswap"}
    /\ target[x] # image
    /\ target' = [target EXCEPT ![x] = image]
    /\ edits' = edits + 1
    /\ user' = [user EXCEPT ![x] = image]
    /\ odd' = odd \cup {"edit"}
    /\ UNCHANGED <<shape, bak, tmp, recov, man, mem, op, lastUndo, fails, crashes>>

RNext ==
    \/ CommitRewind \/ UndoRewind \/ Stage \/ StageFails \/ Prepare \/ PrepareFails
    \/ Commit \/ CommitFails \/ Intent \/ Backup \/ Swap \/ SwapFails \/ Progress
    \/ PublishFails \/ Finalize \/ MarkUndone
    \/ CompSkip \/ CompWindow \/ CompForeign \/ CompRemove \/ CompSwap \/ CompFails \/ Settle
    \/ Crash \/ Open \/ RecoverPrepared \/ RecoverCommitting \/ RecoverSettled \/ Recovered
    \/ \E x \in Files, image \in {"ext", "absent", "old"} : Edit(x, image)

RSpec == RInit /\ [][RNext]_rvars

-----------------------------------------------------------------------------
(***************************************************************************)
(* What a rewind promises.                                                 *)
(***************************************************************************)
\* The type invariant of the store and its transactions.
RTypeOK ==
    /\ shape \in Shapes
    /\ target \in [Files -> Images]
    /\ bak \in [Txs -> [Files -> Images]] /\ tmp \in [Txs -> [Files -> Images]]
    /\ recov \in [Files -> [Images -> Images]]
    /\ man \in [Txs -> Manifests] /\ mem \in Manifests
    /\ op \in [pc : Steps, t : 0 .. MaxTx + 1, i : 0 .. NumFiles + 1, err : BOOLEAN, startup : BOOLEAN]
    /\ lastUndo \in 0 .. MaxTx
    /\ edits \in 0 .. MaxEdits /\ fails \in 0 .. MaxFails /\ crashes \in 0 .. MaxCrashes
    /\ user \in [Files -> Images \cup {"none"}]
    /\ odd \subseteq {"edit", "split", "overpending"}

\* The workspace the settled manifests promise: the images the last committed
\* transaction restored, or those the agent left.
Promised ==
    LET done == {t \in Txs : man[t].state \in {"committed", "undone"}}
    IN  IF done = {} THEN After ELSE man[Max(done)].rst

\* All of a rewind or none of it, whatever step the process died or failed in:
\* at rest with no transaction pending the workspace is what the manifests
\* promise, and one can only be pending when a file operation failed.  The
\* user's edits are excepted, a rewind started over a pending one, and a
\* compensation cut off between its remove and its rename.
AllOrNothing ==
    At("idle") /\ odd = {} =>
        /\ Pending = {} => target = Promised
        /\ fails = 0 => Pending = {}

\* What the user wrote into a file is never destroyed: it is at the path, in a
\* backup beside it, or the image some manifest can put back.
EditsSurvive ==
    \A x \in Files : user[x] = "ext" =>
        \/ "ext" \in {target[x], mem.fwd[x]}
        \/ \E t \in Txs : "ext" \in {bak[t][x], man[t].fwd[x]}

\* A rewind whose undo committed is never offered for undo again, also when the
\* process died before the parent was marked.
UndoneNotOffered == lastUndo # 0 /\ At("idle") => ~Undone(lastUndo)

\* The manifests are sound: well typed, a committed undo always has a rewind for
\* its parent, and what is offered for undo is a committed rewind not undone.
ManifestsSound ==
    /\ RTypeOK
    /\ UndoneNotOffered
    /\ \A t \in Txs : man[t].kind = "undo" /\ man[t].state = "committed" =>
          man[t].parent \in Txs /\ man[man[t].parent].state \in {"committed", "undone"}
    /\ lastUndo # 0 => man[lastUndo].state = "committed" /\ man[lastUndo].kind = "rewind"

\* A file the user edited keeps its rewind pending, but never the other files
\* from being rolled back: at rest, every announced file of a pending
\* transaction that the user did not touch holds its forward image.
OthersRolledBack ==
    At("idle") /\ fails = 0 /\ odd \subseteq {"edit"} =>
        \A t \in Pending : \A x \in man[t].pub : user[x] = "none" => target[x] = man[t].fwd[x]
=============================================================================
