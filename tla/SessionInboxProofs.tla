------------------------- MODULE SessionInboxProofs -------------------------
(***************************************************************************)
(* Theorems about the inbox store, for any number of processes, items,     *)
(* crashes, failed writes and damaged manifests.  The inductive invariant  *)
(* follows a transaction from its load to its cleanup: which bodies the    *)
(* staged manifest relies on, which run it is written under, and what is   *)
(* still owed at each of its disk steps.                                   *)
(***************************************************************************)
EXTENDS SessionInbox, InboxManifestProofs

Good(m) == WellMade(m, Stem, Body, Runs)

(* Every name the manifest uses has been drawn.                             *)
Drawn(m, S) == \A i \in 1..Len(m.items) : m.items[i].id \in S /\ m.items[i].blob \in S

(* Every item has its body among the files bs.                              *)
BodiesIn(m, bs) ==
    \A i \in 1..Len(m.items) : m.items[i].blob \in DOMAIN bs /\ bs[m.items[i].blob] = m.items[i].sum

DiskOK ==
    /\ file \in {"ok", "missing", "corrupt"}
    /\ used \subseteq Stem /\ owed \subseteq used
    /\ blobs \in [DOMAIN blobs -> Body] /\ DOMAIN blobs \subseteq used /\ IsFiniteSet(DOMAIN blobs)
    /\ Good(man) /\ Drawn(man, used)
    /\ file = "ok" => BodiesIn(man, blobs)
    /\ runOf \in [Proc -> Runs]
    /\ crashes \in 0..MaxCrashes /\ writeErrors \in Nat /\ corruptions \in Nat
    /\ file = "corrupt" \/ tx.stage = "salvage" => corruptions > 0

TxTypeOK ==
    /\ tx = [proc |-> tx.proc, stage |-> tx.stage, op |-> tx.op, m |-> tx.m,
             new |-> tx.new, body |-> tx.body, old |-> tx.old]
    /\ tx.proc \in Proc \cup {NoProc} /\ tx.stage \in Stages
    /\ tx.stage = "none" => tx = NoTx
    /\ tx.stage # "none" => tx.proc # NoProc
    /\ Good(tx.m) /\ Drawn(tx.m, used)

(* What a transaction has made sure of at each of its stages: the new body  *)
(* is there before the manifest that names it, and what it will remove is   *)
(* named by no manifest.                                                    *)
StageOK ==
    /\ tx.stage \in {"salvage", "recover", "loaded"} =>
          BodiesIn(tx.m, blobs) /\ tx.new = NoStem /\ tx.old = {}
    /\ tx.stage = "write" =>
          /\ tx.new \in used \ DOMAIN blobs /\ tx.body \in Body
          /\ \A i \in 1..Len(tx.m.items) :
                \/ tx.m.items[i].blob = tx.new /\ tx.m.items[i].sum = tx.body
                \/ tx.m.items[i].blob \in DOMAIN blobs /\ blobs[tx.m.items[i].blob] = tx.m.items[i].sum
    /\ tx.stage = "commit" =>
          /\ BodiesIn(tx.m, blobs)
          /\ tx.new = NoStem \/ tx.new \in used
          /\ file = "ok" => \A i \in 1..Len(man.items) : man.items[i].blob # tx.new
    /\ tx.stage \in {"write", "commit"} =>
          /\ \A i \in 1..Len(tx.m.items) : tx.m.items[i].blob \notin tx.old
          /\ tx.new \notin owed
    /\ tx.stage = "cleanup" =>
          file = "ok" /\ \A i \in 1..Len(man.items) : man.items[i].blob \notin tx.old
    /\ tx.stage # "none" => file # "corrupt"

(* A transaction works on what is on disk, under the run that wrote it.     *)
LoadedOK ==
    /\ tx.stage = "loaded" =>
          IF file = "ok" THEN tx.m.items = man.items /\ tx.m.paused = man.paused ELSE tx.m.items = <<>>
    /\ tx.stage \in {"loaded", "write", "commit"} /\ file = "ok" /\ man.items # <<>> => man.run = tx.m.run

(* In flight is only what the run that wrote the manifest put in flight.    *)
FlightOK ==
    /\ file = "ok" => \A i \in 1..Len(man.items) :
          man.items[i].state \in InFlightStates => flightRun[man.items[i].id] = man.run
    /\ tx.stage \in {"salvage", "recover"} =>
          \A i \in 1..Len(tx.m.items) : tx.m.items[i].state \notin InFlightStates

(* Salvage and recovery pause.                                              *)
PausedOK == tx.stage \in {"salvage", "recover"} => tx.m.paused

(* An inbox with foreign items is paused, or was resumed by its run.        *)
OwnItems(m) == \A i \in 1..Len(m.items) : m.items[i].run = m.run
ResumeOK ==
    /\ file = "ok" => man.paused \/ OwnItems(man) \/ resumed = man.run
    /\ tx.stage \in {"write", "commit"} =>
          /\ \A i \in 1..Len(tx.m.items) :
                \/ tx.m.items[i].state # "running" \/ tx.m.items[i].run = tx.m.run
                \/ \E j \in 1..Len(man.items) : man.items[j] = tx.m.items[i]
                \/ resumed = tx.m.run
          /\ \/ tx.m.paused \/ OwnItems(tx.m) \/ tx.op = "resume"
             \/ resumed = tx.m.run /\ file = "ok" /\ man.run = tx.m.run

(* What is owed has its body, and is listed or about to be.  Nothing can be *)
(* said once damage meets a crash or a failed write: a salvage cut short    *)
(* leaves no manifest, and the next load collects the bodies.               *)
Covered == corruptions = 0 \/ (crashes = 0 /\ writeErrors = 0)
Lists(m, S) == \A b \in S : \E i \in 1..Len(m.items) : m.items[i].blob = b
OwedOK ==
    Covered =>
        /\ owed \subseteq DOMAIN blobs
        /\ file = "ok" => Lists(man, owed)
        /\ file = "missing" /\ tx.stage # "salvage" => owed = {}
        /\ tx.stage \in {"salvage", "recover"} => Lists(tx.m, owed)
        /\ tx.stage \in {"write", "commit"} =>
              Lists(tx.m, (owed \cup ({tx.new} \ {NoStem})) \ tx.old)

StoreInv == DiskOK /\ TxTypeOK /\ StageOK /\ LoadedOK /\ FlightOK /\ PausedOK
            /\ ResumeOK /\ OwedOK

-----------------------------------------------------------------------------
USE NoneAssumption, ProcAssumption, BoundsAssumption

(* The constants as numbers.                                                *)
LEMMA Bounds ==
    /\ Cardinality(Proc) \in Nat /\ MaxCrashes \in Nat /\ NoRun \in Runs
    /\ \A c \in 0..MaxCrashes : Cardinality(Proc) + c \in Runs
<1>1. Cardinality(Proc) \in Nat
    BY FS_CardinalityType
<1> QED BY <1>1 DEF Runs, NoRun

(* The items in flight, by position.                                        *)
LEMMA InFlightByPosition ==
    ASSUME NEW m, Good(m)
    PROVE  \A x : x \in InFlightIds(m) <=>
              \E i \in 1..Len(m.items) : m.items[i].id = x /\ m.items[i].state \in InFlightStates
<1>1. m.items \in Seq(Items(Stem, Body, Runs)) /\ Distinct(m.items)
    BY DEF Good, WellMade
<1>2. \A x : x \in Ids(m) <=> \E i \in 1..Len(m.items) : m.items[i].id = x
    BY <1>1, ByPosition
<1>3. \A i \in 1..Len(m.items) : StateOf(m, m.items[i].id) = m.items[i].state
    BY <1>1, ItemAtPosition
<1> QED BY <1>2, <1>3 DEF InFlightIds

(* Nothing is under way: the parts of the invariant about a transaction.    *)
LEMMA NoTxFacts ==
    /\ NoTx.proc = NoProc /\ NoTx.stage = "none" /\ NoTx.op = "none" /\ NoTx.m = EmptyManifest(NoRun)
    /\ NoTx.new = NoStem /\ NoTx.body = NoStem /\ NoTx.old = {}
    /\ Good(NoTx.m) /\ Len(NoTx.m.items) = 0 /\ NoTx.m.items = <<>>
<1>1. /\ NoTx.proc = NoProc /\ NoTx.stage = "none" /\ NoTx.op = "none" /\ NoTx.m = EmptyManifest(NoRun)
      /\ NoTx.new = NoStem /\ NoTx.body = NoStem /\ NoTx.old = {}
    BY DEF NoTx
<1>2. WellMade(EmptyManifest(NoRun), Stem, Body, Runs) /\ EmptyManifest(NoRun).items = <<>>
      /\ Len(EmptyManifest(NoRun).items) = 0
    BY Bounds, EmptyIsWellMade
<1> QED BY <1>1, <1>2 DEF Good

(* The parts of the invariant that a transaction's end leaves to prove.     *)
LEMMA Ended ==
    ASSUME tx' = NoTx, DiskOK',
           file' = "ok" => \A i \in 1..Len(man'.items) :
               man'.items[i].state \in InFlightStates => flightRun'[man'.items[i].id] = man'.run,
           file' = "ok" => man'.paused \/ OwnItems(man') \/ resumed' = man'.run,
           Covered' => /\ owed' \subseteq DOMAIN blobs' /\ (file' = "ok" => Lists(man', owed'))
                       /\ (file' = "missing" => owed' = {})
    PROVE  StoreInv'
<1>1. TxTypeOK'
    BY NoTxFacts DEF TxTypeOK, Drawn, Stages, NoTx, Good
<1>2. StageOK' /\ LoadedOK'
    BY NoTxFacts DEF StageOK, LoadedOK
<1>3. FlightOK' /\ PausedOK' /\ ResumeOK'
    BY NoTxFacts DEF FlightOK, PausedOK, ResumeOK
<1>4. OwedOK'
    BY NoTxFacts DEF OwedOK
<1> QED BY <1>1, <1>2, <1>3, <1>4 DEF StoreInv

(* A new inbox.                                                             *)
LEMMA StoreInit == Init => StoreInv
<1> SUFFICES ASSUME Init PROVE StoreInv
    OBVIOUS
<1>1. Good(man) /\ man.items = <<>> /\ Len(man.items) = 0 /\ man.run = NoRun
    BY Bounds, EmptyIsWellMade DEF Init, Good
<1>2. runOf \in [Proc -> Runs]
    BY Bounds DEF Init, Runs
<1>3. DiskOK
    BY <1>1, <1>2, FS_EmptySet, Bounds DEF Init, DiskOK, Drawn, NoTx
<1>4. TxTypeOK
    BY NoTxFacts DEF Init, TxTypeOK, Drawn, Stages, NoTx, Good
<1>5. StageOK /\ LoadedOK /\ FlightOK /\ PausedOK /\ ResumeOK
    BY NoTxFacts DEF Init, StageOK, LoadedOK, FlightOK, PausedOK, ResumeOK
<1>6. OwedOK
    BY NoTxFacts DEF Init, OwedOK
<1> QED BY <1>3, <1>4, <1>5, <1>6 DEF StoreInv

(* A read-only or refused operation.                                        *)
LEMMA UnlockKeeps == ASSUME StoreInv, Unlock PROVE StoreInv'
<1>1. UNCHANGED <<disk, runOf, used, history, faults>> /\ tx' = NoTx /\ tx.stage = "loaded"
    BY DEF Unlock
<1>2. DiskOK'
    BY <1>1 DEF StoreInv, DiskOK, Good, Drawn, BodiesIn, disk, history, faults, NoTx
<1>3. Covered' <=> Covered
    BY <1>1 DEF Covered, faults
<1> QED BY <1>1, <1>2, <1>3, Ended DEF StoreInv, FlightOK, ResumeOK, OwedOK, disk, history, OwnItems, Lists

(* Removing files that no item names.                                       *)
LEMMA FilesDropped ==
    ASSUME DiskOK, NEW S, blobs' = Drop(blobs, S)
    PROVE  /\ DOMAIN blobs' = DOMAIN blobs \ S /\ \A b \in DOMAIN blobs' : blobs'[b] = blobs[b]
           /\ blobs' \in [DOMAIN blobs' -> Body] /\ IsFiniteSet(DOMAIN blobs')
           /\ \A m : BodiesIn(m, blobs) /\ (\A i \in 1..Len(m.items) : m.items[i].blob \notin S)
                    => BodiesIn(m, blobs')
<1>1. DOMAIN blobs' = DOMAIN blobs \ S /\ \A b \in DOMAIN blobs' : blobs'[b] = blobs[b]
    BY DEF Drop
<1>2. blobs' \in [DOMAIN blobs' -> Body]
    BY DEF Drop, DiskOK
<1>3. IsFiniteSet(DOMAIN blobs')
    BY <1>1, FS_Subset DEF DiskOK
<1>4. \A m : BodiesIn(m, blobs) /\ (\A i \in 1..Len(m.items) : m.items[i].blob \notin S)
             => BodiesIn(m, blobs')
    BY <1>1 DEF BodiesIn
<1> QED BY <1>1, <1>2, <1>3, <1>4

(* The files a committed operation made superfluous go.                     *)
LEMMA CleanupKeeps == ASSUME StoreInv, Cleanup PROVE StoreInv'
<1>1. /\ UNCHANGED <<file, man, runOf, used, history, faults>> /\ tx' = NoTx /\ tx.stage = "cleanup"
      /\ blobs' = Drop(blobs, tx.old)
    BY DEF Cleanup
<1>2. file = "ok" /\ \A i \in 1..Len(man.items) : man.items[i].blob \notin tx.old
    BY <1>1 DEF StoreInv, StageOK
<1>3. /\ DOMAIN blobs' = DOMAIN blobs \ tx.old /\ blobs' \in [DOMAIN blobs' -> Body]
      /\ IsFiniteSet(DOMAIN blobs')
      /\ BodiesIn(man, blobs')
    BY <1>1, <1>2, FilesDropped DEF StoreInv, DiskOK
<1>4. DiskOK'
    BY <1>1, <1>3 DEF StoreInv, DiskOK, Good, Drawn, BodiesIn, history, faults, NoTx
<1>5. Covered' <=> Covered
    BY <1>1 DEF Covered, faults
<1>6. Covered => owed \subseteq DOMAIN blobs /\ Lists(man, owed)
    BY <1>2 DEF StoreInv, OwedOK
<1>7. Covered => owed \subseteq DOMAIN blobs'
    BY <1>2, <1>3, <1>6 DEF Lists
<1> QED BY <1>1, <1>2, <1>4, <1>5, <1>6, <1>7, Ended
        DEF StoreInv, FlightOK, ResumeOK, history, OwnItems, Lists

(* A failed write takes its fresh body with it.                             *)
LEMMA WriteFailsKeeps == ASSUME StoreInv, WriteFails PROVE StoreInv'
<1>1. /\ UNCHANGED <<file, man, runOf, used, history, crashes, corruptions, scenario>> /\ tx' = NoTx
      /\ tx.stage \in {"salvage", "recover", "write", "commit"}
      /\ blobs' = Drop(blobs, {tx.new}) /\ writeErrors' = writeErrors + 1
    BY DEF WriteFails
<1>2. file = "ok" => \A i \in 1..Len(man.items) : man.items[i].blob \notin {tx.new}
    <2>1. CASE tx.stage \in {"salvage", "recover"}
        BY <2>1 DEF StoreInv, StageOK, DiskOK, Drawn
    <2>2. CASE tx.stage = "write"
        BY <2>2 DEF StoreInv, StageOK, DiskOK, BodiesIn
    <2>3. CASE tx.stage = "commit"
        BY <2>3 DEF StoreInv, StageOK
    <2> QED BY <1>1, <2>1, <2>2, <2>3
<1>3. /\ DOMAIN blobs' = DOMAIN blobs \ {tx.new} /\ blobs' \in [DOMAIN blobs' -> Body]
      /\ IsFiniteSet(DOMAIN blobs')
      /\ file = "ok" => BodiesIn(man, blobs')
    BY <1>1, <1>2, FilesDropped DEF StoreInv, DiskOK
<1>4. DiskOK'
    <2>1. writeErrors' \in Nat
        BY <1>1 DEF StoreInv, DiskOK
    <2>2. DOMAIN blobs' \subseteq used /\ (file = "corrupt" => corruptions > 0)
        BY <1>3 DEF StoreInv, DiskOK
    <2>3. Good(man)' /\ Drawn(man, used)' /\ (file' = "ok" => BodiesIn(man, blobs)')
        BY <1>1, <1>3 DEF StoreInv, DiskOK, Good, Drawn, BodiesIn
    <2> QED BY <1>1, <1>3, <2>1, <2>2, <2>3, NoTxFacts DEF StoreInv, DiskOK, history
<1>5. Covered' => Covered /\ corruptions = 0
    BY <1>1 DEF Covered, StoreInv, DiskOK
<1>6. tx.new \notin owed
    BY <1>1 DEF StoreInv, StageOK, DiskOK
<1>7. Covered' => owed \subseteq DOMAIN blobs' /\ (file = "ok" => Lists(man, owed))
    BY <1>3, <1>5, <1>6 DEF StoreInv, OwedOK
<1>8. Covered' /\ file = "missing" => owed = {}
    BY <1>5 DEF StoreInv, DiskOK, OwedOK
<1> QED BY <1>1, <1>4, <1>5, <1>7, <1>8, Ended DEF StoreInv, FlightOK, ResumeOK, history, OwnItems, Lists

(* A process dies: its transaction, if it had one, is over.                 *)
LEMMA CrashKeeps == ASSUME StoreInv, NEW p \in Proc, Crash(p) PROVE StoreInv'
<1>1. /\ UNCHANGED <<disk, used, history, writeErrors, corruptions>> /\ crashes < MaxCrashes
      /\ crashes' = crashes + 1 /\ runOf' = [runOf EXCEPT ![p] = Cardinality(Proc) + crashes + 1]
    BY DEF Crash
<1>2. crashes' \in 0..MaxCrashes /\ Cardinality(Proc) + crashes + 1 \in Runs
    BY <1>1, Bounds DEF StoreInv, DiskOK, Runs
<1>3. runOf' \in [Proc -> Runs]
    BY <1>1, <1>2 DEF StoreInv, DiskOK
<1>4. tx'.stage = "salvage" => tx.stage = "salvage"
    BY NoTxFacts DEF Crash
<1>5. DiskOK'
    BY <1>1, <1>2, <1>3, <1>4 DEF StoreInv, DiskOK, Good, Drawn, BodiesIn, disk, history
<1>6. Covered' => Covered /\ corruptions = 0
    BY <1>1 DEF Covered, StoreInv, DiskOK
<1>7. CASE tx.proc = p
    <2>1. tx' = NoTx
        BY <1>7 DEF Crash
    <2>2. Covered' /\ file = "missing" => owed = {}
        BY <1>6 DEF StoreInv, DiskOK, OwedOK
    <2> QED BY <1>1, <1>5, <1>6, <2>1, <2>2, Ended
            DEF StoreInv, FlightOK, ResumeOK, OwedOK, disk, history, OwnItems, Lists
<1>8. CASE tx.proc # p
    <2>1. tx' = tx
        BY <1>8 DEF Crash
    <2>2. TxTypeOK' /\ StageOK' /\ LoadedOK'
        BY <1>1, <2>1 DEF StoreInv, TxTypeOK, StageOK, LoadedOK, Good, Drawn, BodiesIn, disk, history
    <2>3. FlightOK' /\ PausedOK' /\ ResumeOK'
        BY <1>1, <2>1 DEF StoreInv, FlightOK, PausedOK, ResumeOK, OwnItems, disk, history
    <2>4. OwedOK'
        BY <1>1, <1>6, <2>1 DEF StoreInv, OwedOK, Lists, disk, history
    <2> QED BY <1>5, <2>2, <2>3, <2>4 DEF StoreInv
<1> QED BY <1>7, <1>8

(* The manifest is damaged while nobody holds the lock.                     *)
LEMMA CorruptKeeps == ASSUME StoreInv, CorruptManifest PROVE StoreInv'
<1>1. /\ UNCHANGED <<blobs, tx, runOf, used, history, crashes, writeErrors>> /\ tx = NoTx /\ file = "ok"
      /\ corruptions' = corruptions + 1 /\ file' = "corrupt" /\ man' = EmptyManifest(NoRun)
    BY DEF CorruptManifest
<1>2. Good(man') /\ Drawn(man', used')
    BY <1>1, NoTxFacts DEF Drawn
<1>3. corruptions' \in Nat /\ corruptions' > 0
    BY <1>1 DEF StoreInv, DiskOK
<1>4. DiskOK'
    BY <1>1, <1>2, <1>3 DEF StoreInv, DiskOK, Good, Drawn, history
<1>5. Covered' => Covered
    BY <1>1 DEF Covered, StoreInv, DiskOK
<1> QED BY <1>1, <1>4, <1>5, Ended DEF StoreInv, OwedOK, history

(* Receipts expire: nothing else of the manifest changes.                   *)
LEMMA ExpiryFacts ==
    ASSUME StoreInv, ReceiptsExpire
    PROVE  /\ UNCHANGED <<file, blobs, tx, runOf, used, owed, flightRun, resumed, faults>>
           /\ tx = NoTx /\ file = "ok" /\ Good(man') /\ man'.items = man.items
           /\ man'.run = man.run /\ man'.paused = man.paused
<1>1. PICK S : man' = [man EXCEPT !.receipts = Restricted(@, DOMAIN @ \ S)]
    BY DEF ReceiptsExpire
<1>2. Good(man) /\ Fields(man)
    BY DEF StoreInv, DiskOK, Good, WellMade
<1>3. /\ Fields(man') /\ man'.items = man.items /\ man'.run = man.run /\ man'.paused = man.paused
      /\ man'.keys = man.keys /\ man'.recovered = man.recovered
    BY <1>1, <1>2 DEF Fields
<1>4. Good(man')
    BY <1>2, <1>3 DEF Good, WellMade
<1> QED BY <1>3, <1>4 DEF ReceiptsExpire

LEMMA ExpireKeeps == ASSUME StoreInv, ReceiptsExpire PROVE StoreInv'
<1>1. /\ UNCHANGED <<file, blobs, tx, runOf, used, owed, flightRun, resumed, faults>>
      /\ tx = NoTx /\ file = "ok" /\ Good(man') /\ man'.items = man.items
      /\ man'.run = man.run /\ man'.paused = man.paused
    BY ExpiryFacts
<1>2. DiskOK'
    BY <1>1 DEF StoreInv, DiskOK, Good, Drawn, BodiesIn, faults
<1>3. Covered' => Covered
    BY <1>1 DEF Covered, faults
<1> QED BY <1>1, <1>2, <1>3, Ended DEF StoreInv, FlightOK, ResumeOK, OwnItems, OwedOK, Lists

(* A salvaged or recovered manifest is committed.                           *)
LEMMA CommitLoadKeeps == ASSUME StoreInv, CommitLoad PROVE StoreInv'
<1>1. /\ tx.stage \in {"salvage", "recover"} /\ file' = "ok" /\ man' = tx.m
      /\ tx' = [tx EXCEPT !.stage = "loaded"]
      /\ UNCHANGED <<blobs, runOf, used, owed, finished, expired, faults>>
    BY DEF CommitLoad, WriteManifest
<1>2. /\ tx'.proc = tx.proc /\ tx'.stage = "loaded" /\ tx'.m = tx.m /\ tx'.new = tx.new /\ tx'.old = tx.old
      /\ tx' = [proc |-> tx'.proc, stage |-> tx'.stage, op |-> tx'.op, m |-> tx'.m,
                new |-> tx'.new, body |-> tx'.body, old |-> tx'.old]
    BY <1>1 DEF StoreInv, TxTypeOK
<1>3. Good(tx.m) /\ Drawn(tx.m, used) /\ BodiesIn(tx.m, blobs) /\ tx.new = NoStem /\ tx.old = {}
    BY <1>1 DEF StoreInv, TxTypeOK, StageOK
<1>4. \A i \in 1..Len(tx.m.items) : tx.m.items[i].state \notin InFlightStates
    BY <1>1 DEF StoreInv, FlightOK
<1>5. tx.m.paused
    BY <1>1 DEF StoreInv, PausedOK
<1>6. DiskOK'
    BY <1>1, <1>2, <1>3 DEF StoreInv, DiskOK, Good, Drawn, BodiesIn, faults
<1>7. TxTypeOK' /\ StageOK' /\ LoadedOK'
    BY <1>1, <1>2, <1>3 DEF StoreInv, TxTypeOK, StageOK, LoadedOK, Stages, Good, Drawn, BodiesIn
<1>8. FlightOK' /\ PausedOK' /\ ResumeOK'
    BY <1>1, <1>2, <1>4, <1>5 DEF FlightOK, PausedOK, ResumeOK
<1>9. OwedOK'
    BY <1>1, <1>2 DEF StoreInv, OwedOK, Covered, Lists, faults
<1> QED BY <1>6, <1>7, <1>8, <1>9 DEF StoreInv

(* The new body is on disk before the manifest that names it.               *)
LEMMA WriteBlobKeeps == ASSUME StoreInv, WriteBlob PROVE StoreInv'
<1>1. /\ tx.stage = "write" /\ blobs' = Put(blobs, tx.new, tx.body) /\ tx' = [tx EXCEPT !.stage = "commit"]
      /\ UNCHANGED <<file, man, runOf, used, history, faults>>
    BY DEF WriteBlob
<1>2. /\ tx'.proc = tx.proc /\ tx'.stage = "commit" /\ tx'.m = tx.m /\ tx'.new = tx.new /\ tx'.old = tx.old
      /\ tx'.op = tx.op
      /\ tx' = [proc |-> tx'.proc, stage |-> tx'.stage, op |-> tx'.op, m |-> tx'.m,
                new |-> tx'.new, body |-> tx'.body, old |-> tx'.old]
    BY <1>1 DEF StoreInv, TxTypeOK
<1>3. tx.new \in used /\ tx.new \notin DOMAIN blobs /\ tx.body \in Body
    BY <1>1 DEF StoreInv, StageOK
<1>4. /\ DOMAIN blobs' = DOMAIN blobs \cup {tx.new} /\ blobs'[tx.new] = tx.body
      /\ \A b \in DOMAIN blobs : b # tx.new => blobs'[b] = blobs[b]
    BY <1>1 DEF Put
<1>5. blobs' \in [DOMAIN blobs' -> Body] /\ IsFiniteSet(DOMAIN blobs') /\ DOMAIN blobs' \subseteq used
    <2>1. blobs' \in [DOMAIN blobs' -> Body]
        BY <1>1, <1>3 DEF Put, StoreInv, DiskOK
    <2>2. IsFiniteSet(DOMAIN blobs')
        BY <1>4, FS_AddElement DEF StoreInv, DiskOK
    <2> QED BY <1>3, <1>4, <2>1, <2>2 DEF StoreInv, DiskOK
<1>6. file = "ok" => BodiesIn(man, blobs') /\ \A i \in 1..Len(man.items) : man.items[i].blob # tx.new
    BY <1>3, <1>4 DEF StoreInv, DiskOK, BodiesIn
<1>7. BodiesIn(tx.m, blobs')
    BY <1>1, <1>3, <1>4 DEF StoreInv, StageOK, BodiesIn
<1>8. DiskOK'
    BY <1>1, <1>2, <1>5, <1>6 DEF StoreInv, DiskOK, Good, Drawn, BodiesIn, history, faults
<1>9. TxTypeOK'
    BY <1>1, <1>2 DEF StoreInv, TxTypeOK, Stages, Good, Drawn
<1>10. StageOK'
    BY <1>1, <1>2, <1>3, <1>6, <1>7 DEF StoreInv, StageOK, BodiesIn, history
<1>11. LoadedOK' /\ FlightOK' /\ PausedOK' /\ ResumeOK'
    BY <1>1, <1>2 DEF StoreInv, LoadedOK, FlightOK, PausedOK, ResumeOK, OwnItems, history
<1>12. OwedOK'
    BY <1>1, <1>2, <1>4 DEF StoreInv, OwedOK, Covered, Lists, history, faults
<1> QED BY <1>8, <1>9, <1>10, <1>11, <1>12 DEF StoreInv

(* The rename that commits an operation.                                    *)
LEMMA CommitKeeps == ASSUME StoreInv, CommitManifest PROVE StoreInv'
<1>1. /\ tx.stage = "commit" /\ file' = "ok" /\ man' = tx.m
      /\ tx' = [NoTx EXCEPT !.proc = tx.proc, !.stage = "cleanup", !.old = tx.old]
      /\ owed' = (owed \cup ({tx.new} \ {NoStem})) \ tx.old
      /\ flightRun' = [id \in InFlightIds(tx.m) |-> IF WasInFlight(id) THEN flightRun[id] ELSE tx.m.run]
      /\ resumed' = IF tx.op = "resume" THEN tx.m.run
                    ELSE IF file = "ok" /\ man.run = tx.m.run THEN resumed ELSE NoRun
      /\ UNCHANGED <<blobs, runOf, used, faults>>
    BY DEF CommitManifest, WriteManifest
<1>2. /\ tx'.proc = tx.proc /\ tx'.stage = "cleanup" /\ tx'.m = EmptyManifest(NoRun) /\ tx'.new = NoStem
      /\ tx'.old = tx.old
      /\ tx' = [proc |-> tx'.proc, stage |-> tx'.stage, op |-> tx'.op, m |-> tx'.m,
                new |-> tx'.new, body |-> tx'.body, old |-> tx'.old]
    BY <1>1 DEF NoTx
<1>3. /\ Good(tx.m) /\ Drawn(tx.m, used) /\ BodiesIn(tx.m, blobs)
      /\ tx.new = NoStem \/ tx.new \in used
      /\ tx.proc \in Proc /\ \A i \in 1..Len(tx.m.items) : tx.m.items[i].blob \notin tx.old
    BY <1>1 DEF StoreInv, TxTypeOK, StageOK
<1>4. DiskOK'
    BY <1>1, <1>2, <1>3 DEF StoreInv, DiskOK, Good, Drawn, BodiesIn, faults
<1>5. TxTypeOK' /\ StageOK' /\ LoadedOK'
    BY <1>1, <1>2, <1>3, NoTxFacts DEF StoreInv, TxTypeOK, StageOK, LoadedOK, Stages, Good, Drawn
<1>6. ASSUME NEW i \in 1..Len(tx.m.items), tx.m.items[i].state \in InFlightStates
      PROVE  flightRun'[tx.m.items[i].id] = tx.m.run
    <2>1. tx.m.items[i].id \in InFlightIds(tx.m)
        BY <1>3, <1>6, InFlightByPosition
    <2>2. ASSUME WasInFlight(tx.m.items[i].id) PROVE flightRun[tx.m.items[i].id] = tx.m.run
        <3>1. Good(man) /\ file = "ok" /\ tx.m.items[i].id \in InFlightIds(man)
            BY <2>2 DEF WasInFlight, StoreInv, DiskOK
        <3>2. PICK j \in 1..Len(man.items) :
                  man.items[j].id = tx.m.items[i].id /\ man.items[j].state \in InFlightStates
            BY <3>1, InFlightByPosition
        <3>3. man.items # <<>>
            BY <3>2
        <3> QED BY <1>1, <3>1, <3>2, <3>3 DEF StoreInv, FlightOK, LoadedOK
    <2> QED BY <1>1, <2>1, <2>2
<1>7. FlightOK'
    BY <1>1, <1>2, <1>6 DEF FlightOK
<1>8. PausedOK' /\ ResumeOK'
    BY <1>1, <1>2 DEF StoreInv, PausedOK, ResumeOK, OwnItems
<1>9. OwedOK'
    <2>1. Covered' <=> Covered
        BY <1>1 DEF Covered, faults
    <2>2. Covered => Lists(tx.m, owed')
        BY <1>1 DEF StoreInv, OwedOK
    <2>3. Covered => owed' \subseteq DOMAIN blobs
        BY <1>3, <2>2 DEF Lists, BodiesIn
    <2> QED BY <1>1, <1>2, <2>1, <2>2, <2>3 DEF OwedOK, Lists
<1> QED BY <1>4, <1>5, <1>7, <1>8, <1>9 DEF StoreInv

(* A manifest rebuilt from the bodies: one item for each.                   *)
Rebuilt(n, bs, r) ==
    /\ Good(n) /\ n.run = r /\ n.paused = TRUE
    /\ \A i \in 1..Len(n.items) :
          /\ n.items[i].blob \in DOMAIN bs /\ n.items[i].id = n.items[i].blob
          /\ n.items[i].sum = bs[n.items[i].blob]
          /\ n.items[i].state = "uncertain" /\ n.items[i].run = r
    /\ \A b \in DOMAIN bs : \E i \in 1..Len(n.items) : n.items[i].blob = b

(* Salvage rebuilds the manifest.                                           *)
LEMMA SalvageLists ==
    ASSUME NEW bs, IsFiniteSet(DOMAIN bs), DOMAIN bs \subseteq Stem,
           \A b \in DOMAIN bs : bs[b] \in Body, NEW r \in Runs,
           NEW s \in SetToSeqs(DOMAIN bs), NEW n, n = Salvaged(bs, s, r)
    PROVE  Rebuilt(n, bs, r)
<1> DEFINE B == DOMAIN bs
           item(b) == [id |-> b, intent |-> "followup", state |-> "uncertain",
                       blob |-> b, sum |-> bs[b], run |-> r]
           q == [i \in 1..Cardinality(B) |-> item(s[i])]
<1>1. /\ Cardinality(B) \in Nat /\ s \in [1..Cardinality(B) -> B]
      /\ \A i, j \in 1..Cardinality(B) : s[i] = s[j] => i = j
      /\ \A x \in B : \E i \in 1..Cardinality(B) : s[i] = x
    BY SetToSeqsList
<1>2. n = [run |-> r, paused |-> TRUE, recovered |-> TRUE, items |-> q, keys |-> <<>>, receipts |-> <<>>]
    BY <1>1 DEF Salvaged, EmptyManifest
<1>3. \A i \in 1..Cardinality(B) : q[i] \in Items(Stem, Body, Runs)
    BY <1>1 DEF Items, States, Pending, Intents
<1>4. q \in [1..Cardinality(B) -> Items(Stem, Body, Runs)]
    BY <1>3
<1>5. \A i \in 1..Cardinality(B) : /\ q[i].id = s[i] /\ q[i].blob = s[i] /\ q[i].sum = bs[s[i]]
                                   /\ q[i].state = "uncertain" /\ q[i].run = r
    OBVIOUS
<1> HIDE DEF q
<1>6. q \in Seq(Items(Stem, Body, Runs)) /\ Len(q) = Cardinality(B)
    BY <1>1, <1>4, FunctionIsSeq
<1>7. Distinct(q)
    BY <1>1, <1>5, <1>6 DEF Distinct
<1>8. /\ Fields(n) /\ n.items = q /\ n.run = r /\ n.paused = TRUE /\ n.recovered = TRUE /\ DOMAIN n.keys = {}
    BY <1>2 DEF Fields
<1>9. Good(n)
    BY <1>6, <1>7, <1>8 DEF Good, WellMade
<1>10. ASSUME NEW i \in 1..Len(q)
       PROVE  /\ q[i].blob \in B /\ q[i].id = q[i].blob /\ q[i].sum = bs[q[i].blob]
              /\ q[i].state = "uncertain" /\ q[i].run = r
    BY <1>1, <1>5, <1>6
<1>11. ASSUME NEW b \in B PROVE \E i \in 1..Len(q) : q[i].blob = b
    BY <1>1, <1>5, <1>6
<1> QED BY <1>8, <1>9, <1>10, <1>11 DEF Rebuilt

(* The fields of a transaction that has just begun.                         *)
LEMMA BegunFields ==
    ASSUME NEW p, NEW s, NEW n, tx' = [NoTx EXCEPT !.proc = p, !.stage = s, !.m = n]
    PROVE  /\ tx'.proc = p /\ tx'.stage = s /\ tx'.m = n /\ tx'.new = NoStem /\ tx'.old = {}
           /\ tx' = [proc |-> tx'.proc, stage |-> tx'.stage, op |-> tx'.op, m |-> tx'.m,
                     new |-> tx'.new, body |-> tx'.body, old |-> tx'.old]
    BY DEF NoTx

(* Taking the lock and loading what is there.                               *)
LEMMA BeginKeeps == ASSUME StoreInv, NEW p \in Proc, Begin(p) PROVE StoreInv'
<1>1. tx = NoTx /\ tx.stage = "none" /\ UNCHANGED <<man, runOf, used, history, faults>>
    BY NoTxFacts DEF Begin
<1>2. runOf[p] \in Runs /\ Good(man) /\ Drawn(man, used) /\ p # NoProc
    BY DEF StoreInv, DiskOK
<1>3. Covered' <=> Covered
    BY <1>1 DEF Covered, faults
<1>4. CASE file = "corrupt"
    <2>0. PICK order \in SetToSeqs(DOMAIN blobs) :
              tx' = [NoTx EXCEPT !.proc = p, !.stage = "salvage", !.m = Salvaged(blobs, order, runOf[p])]
        BY <1>4 DEF Begin
    <2> DEFINE n == Salvaged(blobs, order, runOf[p])
    <2>1. file' = "missing" /\ blobs' = blobs /\ tx' = [NoTx EXCEPT !.proc = p, !.stage = "salvage", !.m = n]
        BY <1>4, <2>0 DEF Begin
    <2>2. /\ IsFiniteSet(DOMAIN blobs) /\ DOMAIN blobs \subseteq Stem /\ DOMAIN blobs \subseteq used
          /\ \A b \in DOMAIN blobs : blobs[b] \in Body
        BY DEF StoreInv, DiskOK
    <2>3. /\ Good(n) /\ n.paused = TRUE
          /\ \A i \in 1..Len(n.items) :
                /\ n.items[i].blob \in DOMAIN blobs /\ n.items[i].id = n.items[i].blob
                /\ n.items[i].sum = blobs[n.items[i].blob] /\ n.items[i].state = "uncertain"
          /\ \A b \in DOMAIN blobs : \E i \in 1..Len(n.items) : n.items[i].blob = b
        <3> DEFINE r == runOf[p]
        <3>1. r \in Runs /\ n = Salvaged(blobs, order, r)
            BY <1>2
        <3> HIDE DEF n, r
        <3>2. Rebuilt(n, blobs, r)
            BY <2>2, <3>1, SalvageLists
        <3> QED BY <3>2 DEF Rebuilt
    <2> HIDE DEF n
    <2>4. /\ tx'.proc = p /\ tx'.stage = "salvage" /\ tx'.m = n /\ tx'.new = NoStem /\ tx'.old = {}
          /\ tx' = [proc |-> tx'.proc, stage |-> tx'.stage, op |-> tx'.op, m |-> tx'.m,
                    new |-> tx'.new, body |-> tx'.body, old |-> tx'.old]
        BY <2>1, BegunFields
    <2>5. DiskOK'
        BY <1>1, <1>4, <2>1 DEF StoreInv, DiskOK, Good, Drawn, history, faults
    <2>6. Good(n) /\ Drawn(n, used) /\ BodiesIn(n, blobs)
        BY <2>2, <2>3 DEF Good, Drawn, BodiesIn
    <2>7. TxTypeOK' /\ StageOK' /\ LoadedOK' /\ PausedOK'
        BY <1>1, <1>2, <2>1, <2>3, <2>4, <2>6
        DEF TxTypeOK, StageOK, LoadedOK, PausedOK, Stages, Good, Drawn, BodiesIn
    <2>8. FlightOK' /\ ResumeOK'
        BY <2>1, <2>3, <2>4 DEF FlightOK, ResumeOK, InFlightStates
    <2>9. OwedOK'
        BY <1>1, <1>3, <1>4, <2>1, <2>3, <2>4 DEF StoreInv, OwedOK, Lists, history
    <2> QED BY <2>5, <2>7, <2>8, <2>9 DEF StoreInv
<1>5. CASE file = "missing"
    <2> DEFINE n == EmptyManifest(runOf[p])
    <2>1. file' = file /\ blobs' = blobs /\ tx' = [NoTx EXCEPT !.proc = p, !.stage = "loaded", !.m = n]
        BY <1>5 DEF Begin
    <2>2. Good(n) /\ n.items = <<>> /\ Len(n.items) = 0
        BY <1>2, EmptyIsWellMade DEF Good
    <2> HIDE DEF n
    <2>3. /\ tx'.proc = p /\ tx'.stage = "loaded" /\ tx'.m = n /\ tx'.new = NoStem /\ tx'.old = {}
          /\ tx' = [proc |-> tx'.proc, stage |-> tx'.stage, op |-> tx'.op, m |-> tx'.m,
                    new |-> tx'.new, body |-> tx'.body, old |-> tx'.old]
        BY <2>1, BegunFields
    <2>4. DiskOK'
        BY <1>1, <1>5, <2>1, <2>3 DEF StoreInv, DiskOK, Good, Drawn, BodiesIn, history, faults
    <2>5. TxTypeOK' /\ StageOK' /\ LoadedOK' /\ PausedOK'
        BY <1>2, <1>5, <2>1, <2>2, <2>3
        DEF TxTypeOK, StageOK, LoadedOK, PausedOK, Stages, Good, Drawn, BodiesIn
    <2>6. FlightOK' /\ ResumeOK'
        BY <1>5, <2>1, <2>3 DEF FlightOK, ResumeOK
    <2>7. OwedOK'
        BY <1>1, <1>3, <1>5, <2>1, <2>3 DEF StoreInv, OwedOK, history
    <2> QED BY <2>4, <2>5, <2>6, <2>7 DEF StoreInv
<1>6. CASE file = "ok" /\ Foreign(man, runOf[p])
    <2> DEFINE n == Recovered(man, runOf[p])
    <2>1. file' = file /\ blobs' = blobs /\ tx' = [NoTx EXCEPT !.proc = p, !.stage = "recover", !.m = n]
        BY <1>6 DEF Begin
    <2>2. n = Recovered(man, runOf[p])
        OBVIOUS
    <2> HIDE DEF n
    <2>3. /\ WellMade(n, Stem, Body, Runs) /\ n.paused = TRUE /\ Len(n.items) = Len(man.items)
          /\ \A i \in 1..Len(man.items) :
                n.items[i] = IF man.items[i].id \in Ids(man) /\ man.items[i].state \in InFlightStates
                             THEN [man.items[i] EXCEPT !.state = "uncertain"] ELSE man.items[i]
        <3> DEFINE r == runOf[p]
        <3>1. r \in Runs /\ WellMade(man, Stem, Body, Runs) /\ n = Recovered(man, r)
            BY <1>2, <2>2 DEF Good
        <3> HIDE DEF r
        <3>2. /\ WellMade(n, Stem, Body, Runs) /\ n.paused = TRUE
              /\ Settled(n, man, Ids(man))
            BY <3>1, RecoveredFacts
        <3> QED BY <3>2 DEF Settled
    <2>4. /\ \A i \in 1..Len(man.items) : man.items[i] \in Items(Stem, Body, Runs)
          /\ \A i \in 1..Len(man.items) : man.items[i].id \in Ids(man)
        BY <1>2, ByPosition DEF Good, WellMade
    <2>5. \A i \in 1..Len(man.items) :
             /\ n.items[i].id = man.items[i].id /\ n.items[i].blob = man.items[i].blob
             /\ n.items[i].sum = man.items[i].sum /\ n.items[i].state \notin InFlightStates
        BY <2>3, <2>4 DEF Items, InFlightStates
    <2>6. /\ tx'.proc = p /\ tx'.stage = "recover" /\ tx'.m = n /\ tx'.new = NoStem /\ tx'.old = {}
          /\ tx' = [proc |-> tx'.proc, stage |-> tx'.stage, op |-> tx'.op, m |-> tx'.m,
                    new |-> tx'.new, body |-> tx'.body, old |-> tx'.old]
        BY <2>1, BegunFields
    <2>7. DiskOK'
        BY <1>1, <1>6, <2>1, <2>6 DEF StoreInv, DiskOK, Good, Drawn, BodiesIn, history, faults
    <2>8. Good(n) /\ Drawn(n, used) /\ BodiesIn(n, blobs)
        BY <1>6, <2>3, <2>5 DEF StoreInv, DiskOK, Good, Drawn, BodiesIn
    <2>9. TxTypeOK' /\ StageOK' /\ LoadedOK' /\ PausedOK'
        BY <1>1, <1>2, <1>6, <2>1, <2>3, <2>6, <2>8
        DEF TxTypeOK, StageOK, LoadedOK, PausedOK, Stages, Good, Drawn, BodiesIn
    <2>10. FlightOK' /\ ResumeOK'
        BY <1>1, <2>1, <2>3, <2>5, <2>6 DEF StoreInv, FlightOK, ResumeOK, OwnItems, history
    <2>11. OwedOK'
        BY <1>1, <1>3, <1>6, <2>1, <2>3, <2>5, <2>6 DEF StoreInv, OwedOK, Lists, history
    <2> QED BY <2>7, <2>9, <2>10, <2>11 DEF StoreInv
<1>7. CASE file = "ok" /\ ~Foreign(man, runOf[p])
    <2> DEFINE n == [man EXCEPT !.run = runOf[p]]
    <2>1. /\ file' = file /\ blobs' = Drop(blobs, DOMAIN blobs \ BlobsOf(man))
          /\ tx' = [NoTx EXCEPT !.proc = p, !.stage = "loaded", !.m = n]
        BY <1>7 DEF Begin
    <2>2. Good(n) /\ n.items = man.items /\ n.paused = man.paused /\ n.run = runOf[p]
        BY <1>2 DEF Good, WellMade, Fields
    <2>3. man.items # <<>> => man.run = runOf[p]
        BY <1>7 DEF Foreign
    <2> HIDE DEF n
    <2>4. /\ tx'.proc = p /\ tx'.stage = "loaded" /\ tx'.m = n /\ tx'.new = NoStem /\ tx'.old = {}
          /\ tx' = [proc |-> tx'.proc, stage |-> tx'.stage, op |-> tx'.op, m |-> tx'.m,
                    new |-> tx'.new, body |-> tx'.body, old |-> tx'.old]
        BY <2>1, BegunFields
    <2>5. \A x : x \in BlobsOf(man) <=> \E i \in 1..Len(man.items) : man.items[i].blob = x
        BY <1>2, ByPosition DEF Good, WellMade
    <2>6. /\ DOMAIN blobs' = DOMAIN blobs \cap BlobsOf(man) /\ blobs' \in [DOMAIN blobs' -> Body]
          /\ IsFiniteSet(DOMAIN blobs') /\ BodiesIn(man, blobs')
        <3> DEFINE S == DOMAIN blobs \ BlobsOf(man)
        <3>1. DiskOK /\ blobs' = Drop(blobs, S) /\ BodiesIn(man, blobs)
            BY <1>7, <2>1 DEF StoreInv, DiskOK
        <3>2. \A i \in 1..Len(man.items) : man.items[i].blob \notin S
            BY <2>5
        <3> HIDE DEF S
        <3>3. /\ DOMAIN blobs' = DOMAIN blobs \ S /\ blobs' \in [DOMAIN blobs' -> Body]
              /\ IsFiniteSet(DOMAIN blobs') /\ BodiesIn(man, blobs')
            BY <3>1, <3>2, FilesDropped
        <3> QED BY <3>3 DEF S
    <2>7. DiskOK'
        BY <1>1, <1>7, <2>1, <2>4, <2>6 DEF StoreInv, DiskOK, Good, Drawn, BodiesIn, history, faults
    <2>8. Drawn(n, used) /\ BodiesIn(n, blobs')
        BY <1>2, <2>2, <2>6 DEF Drawn, BodiesIn
    <2>9. TxTypeOK' /\ StageOK' /\ LoadedOK' /\ PausedOK'
        <3>1. TxTypeOK'
            BY <1>1, <1>2, <2>2, <2>4, <2>8 DEF TxTypeOK, Stages, Good, Drawn
        <3>2. StageOK'
            BY <1>7, <2>1, <2>4, <2>8 DEF StageOK, BodiesIn
        <3>3. LoadedOK' /\ PausedOK'
            BY <1>1, <1>7, <2>1, <2>2, <2>3, <2>4 DEF LoadedOK, PausedOK
        <3> QED BY <3>1, <3>2, <3>3
    <2>10. FlightOK' /\ ResumeOK'
        BY <1>1, <2>1, <2>4 DEF StoreInv, FlightOK, ResumeOK, OwnItems, history
    <2>11. OwedOK'
        BY <1>1, <1>3, <1>7, <2>1, <2>4, <2>5, <2>6 DEF StoreInv, OwedOK, Lists, history
    <2> QED BY <2>7, <2>9, <2>10, <2>11 DEF StoreInv
<1> QED BY <1>4, <1>5, <1>6, <1>7 DEF StoreInv, DiskOK

-----------------------------------------------------------------------------
(***************************************************************************)
(* The operations.  What each stages comes from what was loaded.           *)
(***************************************************************************)

(* An item of the loaded manifest, started only if the inbox runs.          *)
FromLoaded(x) ==
    \E j \in 1..Len(tx.m.items) :
        /\ x.id = tx.m.items[j].id /\ x.blob = tx.m.items[j].blob
        /\ x.sum = tx.m.items[j].sum /\ x.run = tx.m.items[j].run
        /\ x = tx.m.items[j] \/ x.state # "running" \/ tx.m.paused = FALSE

(* A new item with body b under the name s, or an old one that gets them.   *)
WithBody(x, s, b) ==
    /\ x.blob = s /\ x.sum = b /\ x.state # "running"
    /\ \/ x.id = s /\ x.run = tx.m.run
       \/ \E j \in 1..Len(tx.m.items) : x.id = tx.m.items[j].id /\ x.run = tx.m.items[j].run

(* A staged manifest: under the same run, without the bodies that will go,  *)
(* with all the others, and paused if the loaded one was.                   *)
Staged(op, n, old) ==
    /\ Good(n) /\ n.run = tx.m.run
    /\ \A i \in 1..Len(n.items) : n.items[i].blob \notin old
    /\ \A j \in 1..Len(tx.m.items) :
          tx.m.items[j].blob \in old \/ \E i \in 1..Len(n.items) : n.items[i].blob = tx.m.items[j].blob
    /\ n.paused = TRUE \/ n.items = <<>> \/ op = "resume" \/ tx.m.paused = FALSE

(* What a loaded transaction knows of the disk.                             *)
LEMMA LoadedFacts ==
    ASSUME StoreInv, tx.stage = "loaded"
    PROVE  /\ Good(tx.m) /\ Drawn(tx.m, used) /\ BodiesIn(tx.m, blobs) /\ tx.new = NoStem /\ tx.old = {}
           /\ file \in {"ok", "missing"}
           /\ \A j \in 1..Len(tx.m.items) : /\ file = "ok" /\ man.items = tx.m.items /\ man.run = tx.m.run
                                            /\ tx.m.items[j].id \in used
                                               /\ tx.m.items[j].blob \in DOMAIN blobs
                                            /\ blobs[tx.m.items[j].blob] = tx.m.items[j].sum
           /\ file = "ok" => tx.m.items = man.items /\ tx.m.paused = man.paused
           /\ file = "ok" /\ man.items # <<>> => man.run = tx.m.run
           /\ Covered => \A b \in owed : \E j \in 1..Len(tx.m.items) : tx.m.items[j].blob = b
<1>1. Good(tx.m) /\ Drawn(tx.m, used) /\ BodiesIn(tx.m, blobs) /\ tx.new = NoStem /\ tx.old = {}
    BY DEF StoreInv, TxTypeOK, StageOK
<1>2. file \in {"ok", "missing"}
    BY DEF StoreInv, StageOK, DiskOK
<1>3. /\ file = "ok" => tx.m.items = man.items /\ tx.m.paused = man.paused
      /\ file = "ok" /\ man.items # <<>> => man.run = tx.m.run
      /\ file # "ok" => tx.m.items = <<>>
    BY DEF StoreInv, LoadedOK
<1>4. ASSUME NEW j \in 1..Len(tx.m.items)
      PROVE  /\ file = "ok" /\ man.items = tx.m.items /\ man.run = tx.m.run
             /\ tx.m.items[j].id \in used /\ tx.m.items[j].blob \in DOMAIN blobs
             /\ blobs[tx.m.items[j].blob] = tx.m.items[j].sum
    <2>1. tx.m.items # <<>>
        BY <1>4, EmptySeq
    <2> QED BY <1>1, <1>3, <2>1 DEF Drawn, BodiesIn
<1>5. Covered => \A b \in owed : \E j \in 1..Len(tx.m.items) : tx.m.items[j].blob = b
    BY <1>2, <1>3 DEF StoreInv, OwedOK, Lists
<1> QED BY <1>1, <1>2, <1>3, <1>4, <1>5

(* In an inbox that is not paused foreign items were resumed.               *)
LEMMA RunningInbox ==
    ASSUME StoreInv, tx.stage = "loaded", tx.m.paused = FALSE, NEW j \in 1..Len(tx.m.items)
    PROVE  \/ \A i \in 1..Len(tx.m.items) : tx.m.items[i].run = tx.m.run
           \/ resumed = tx.m.run /\ file = "ok" /\ man.run = tx.m.run
<1>1. file = "ok" /\ man.items = tx.m.items /\ man.run = tx.m.run /\ man.paused = FALSE
    BY LoadedFacts
<1> QED BY <1>1 DEF StoreInv, ResumeOK, OwnItems

(* An operation that writes no body keeps the invariant.                    *)
LEMMA StageKeeps ==
    ASSUME StoreInv, tx.stage = "loaded", NEW op, NEW n, NEW old, Stage(op, n, old),
           Staged(op, n, old), \A i \in 1..Len(n.items) : FromLoaded(n.items[i])
    PROVE  StoreInv'
<1>1. /\ UNCHANGED <<disk, runOf, used, history, faults>>
      /\ tx' = [tx EXCEPT !.stage = "commit", !.op = op, !.m = n, !.old = old]
    BY DEF Stage
<1>2. /\ tx'.proc = tx.proc /\ tx'.stage = "commit" /\ tx'.m = n /\ tx'.new = NoStem /\ tx'.old = old
      /\ tx'.op = op
      /\ tx' = [proc |-> tx'.proc, stage |-> tx'.stage, op |-> tx'.op, m |-> tx'.m,
                new |-> tx'.new, body |-> tx'.body, old |-> tx'.old]
    BY <1>1, LoadedFacts DEF StoreInv, TxTypeOK
<1>3. \A j \in 1..Len(tx.m.items) : /\ file = "ok" /\ man.items = tx.m.items /\ man.run = tx.m.run
                                      /\ tx.m.items[j].id \in used /\ tx.m.items[j].blob \in used
                                      /\ tx.m.items[j].blob \in DOMAIN blobs
                                      /\ blobs[tx.m.items[j].blob] = tx.m.items[j].sum
    BY LoadedFacts DEF StoreInv, DiskOK
<1>4. Drawn(n, used) /\ BodiesIn(n, blobs)
    <2>1. ASSUME NEW i \in 1..Len(n.items)
          PROVE  /\ n.items[i].id \in used /\ n.items[i].blob \in used
                 /\ n.items[i].blob \in DOMAIN blobs /\ blobs[n.items[i].blob] = n.items[i].sum
        BY <1>3 DEF FromLoaded
    <2> QED BY <2>1 DEF Drawn, BodiesIn
<1>5. DiskOK'
    BY <1>1, <1>2 DEF StoreInv, DiskOK, Good, Drawn, BodiesIn, disk, history, faults
<1>6. TxTypeOK'
    BY <1>1, <1>2, <1>4 DEF StoreInv, TxTypeOK, Stages, Good, Drawn, Staged
<1>7. StageOK'
    <2>1. NoStem \notin owed
        BY DEF StoreInv, DiskOK
    <2>2. file = "ok" => \A i \in 1..Len(man.items) : man.items[i].blob # NoStem
        BY DEF StoreInv, DiskOK, Drawn
    <2> QED BY <1>1, <1>2, <1>4, <2>1, <2>2, LoadedFacts DEF StageOK, BodiesIn, Staged, disk, history
<1>8. LoadedOK' /\ FlightOK' /\ PausedOK'
    BY <1>1, <1>2, LoadedFacts DEF StoreInv, LoadedOK, FlightOK, PausedOK, Staged, disk, history
<1>9. ResumeOK'
    <2>1. ASSUME NEW i \in 1..Len(n.items)
          PROVE  \/ n.items[i].state # "running" \/ n.items[i].run = n.run
                 \/ \E j \in 1..Len(man.items) : man.items[j] = n.items[i]
                 \/ resumed = n.run
        <3>1. PICK j \in 1..Len(tx.m.items) :
                  /\ n.items[i].run = tx.m.items[j].run
                  /\ n.items[i] = tx.m.items[j] \/ n.items[i].state # "running" \/ tx.m.paused = FALSE
            BY DEF FromLoaded
        <3>2. CASE tx.m.paused = FALSE
            BY <3>1, <3>2, RunningInbox DEF Staged
        <3> QED BY <1>3, <3>1, <3>2
    <2>2. \/ n.paused \/ OwnItems(n) \/ op = "resume"
          \/ resumed = n.run /\ file = "ok" /\ man.run = n.run
        <3>1. CASE n.paused = TRUE \/ op = "resume"
            BY <3>1
        <3>2. CASE n.items = <<>>
            BY <3>2 DEF OwnItems
        <3>3. CASE tx.m.paused = FALSE
            BY <3>3, RunningInbox DEF FromLoaded, Staged, OwnItems
        <3> QED BY <3>1, <3>2, <3>3 DEF Staged
    <2> QED BY <1>1, <1>2, <2>1, <2>2 DEF StoreInv, ResumeOK, OwnItems, disk, history
<1>10. OwedOK'
    <2>1. Covered' <=> Covered
        BY <1>1 DEF Covered, faults
    <2>2. Covered => Lists(n, owed \ old)
        <3>1. Covered => \A b \in owed : \E j \in 1..Len(tx.m.items) : tx.m.items[j].blob = b
            BY LoadedFacts
        <3>2. ASSUME Covered, NEW b \in owed \ old PROVE \E i \in 1..Len(n.items) : n.items[i].blob = b
            <4>1. PICK j \in 1..Len(tx.m.items) : tx.m.items[j].blob = b
                BY <3>1, <3>2
            <4> QED BY <3>2, <4>1 DEF Staged
        <3> QED BY <3>2 DEF Lists
    <2> QED BY <1>1, <1>2, <2>1, <2>2 DEF StoreInv, OwedOK, Lists, disk, history
<1> QED BY <1>5, <1>6, <1>7, <1>8, <1>9, <1>10 DEF StoreInv

(* So does one that writes a body under a fresh name.                       *)
LEMMA StageWithBlobKeeps ==
    ASSUME StoreInv, tx.stage = "loaded", NEW op, NEW n, NEW s \in Stem \ used, NEW b \in Body, NEW old,
           StageWithBlob(op, n, s, b, old), Staged(op, n, old), op # "resume",
           \A i \in 1..Len(n.items) : FromLoaded(n.items[i]) \/ WithBody(n.items[i], s, b),
           \E i \in 1..Len(n.items) : n.items[i].blob = s
    PROVE  StoreInv'
<1>1. /\ UNCHANGED <<disk, runOf, history, faults>> /\ used' = used \cup {s}
      /\ tx' = [tx EXCEPT !.stage = "write", !.op = op, !.m = n, !.new = s, !.body = b, !.old = old]
    BY DEF StageWithBlob
<1>2. /\ tx'.proc = tx.proc /\ tx'.stage = "write" /\ tx'.m = n /\ tx'.new = s /\ tx'.old = old
      /\ tx'.op = op /\ tx'.body = b
      /\ tx' = [proc |-> tx'.proc, stage |-> tx'.stage, op |-> tx'.op, m |-> tx'.m,
                new |-> tx'.new, body |-> tx'.body, old |-> tx'.old]
    BY <1>1 DEF StoreInv, TxTypeOK
<1>3. \A j \in 1..Len(tx.m.items) : /\ file = "ok" /\ man.items = tx.m.items /\ man.run = tx.m.run
                                      /\ tx.m.items[j].id \in used /\ tx.m.items[j].blob \in used
                                      /\ tx.m.items[j].blob \in DOMAIN blobs
                                      /\ blobs[tx.m.items[j].blob] = tx.m.items[j].sum
    BY LoadedFacts DEF StoreInv, DiskOK
<1>4. Drawn(n, used') /\ Drawn(man, used')
    <2>1. ASSUME NEW i \in 1..Len(n.items) PROVE n.items[i].id \in used' /\ n.items[i].blob \in used'
        <3>1. CASE WithBody(n.items[i], s, b)
            BY <1>1, <1>3, <3>1 DEF WithBody
        <3>2. CASE FromLoaded(n.items[i])
            BY <1>1, <1>3, <3>2 DEF FromLoaded
        <3> QED BY <3>1, <3>2
    <2> QED BY <1>1, <2>1 DEF Drawn, StoreInv, DiskOK
<1>5. DiskOK'
    BY <1>1, <1>2, <1>4 DEF StoreInv, DiskOK, Good, Drawn, BodiesIn, disk, history, faults
<1>6. TxTypeOK'
    BY <1>1, <1>2, <1>4 DEF StoreInv, TxTypeOK, Stages, Good, Staged
<1>7. s \notin DOMAIN blobs /\ s \notin owed
    BY DEF StoreInv, DiskOK
<1>8. StageOK'
    <2>1. ASSUME NEW i \in 1..Len(n.items)
          PROVE  \/ n.items[i].blob = s /\ n.items[i].sum = b
                 \/ n.items[i].blob \in DOMAIN blobs /\ blobs[n.items[i].blob] = n.items[i].sum
        <3>1. CASE WithBody(n.items[i], s, b)
            BY <3>1 DEF WithBody
        <3>2. CASE FromLoaded(n.items[i])
            BY <1>3, <3>2 DEF FromLoaded
        <3> QED BY <3>1, <3>2
    <2> QED BY <1>1, <1>2, <1>7, <2>1, LoadedFacts DEF StageOK, Staged, disk, history
<1>9. LoadedOK' /\ FlightOK' /\ PausedOK'
    BY <1>1, <1>2, LoadedFacts DEF StoreInv, LoadedOK, FlightOK, PausedOK, Staged, disk, history
<1>10. ResumeOK'
    <2>1. ASSUME NEW i \in 1..Len(n.items)
          PROVE  \/ n.items[i].state # "running" \/ n.items[i].run = n.run
                 \/ \E j \in 1..Len(man.items) : man.items[j] = n.items[i]
                 \/ resumed = n.run
        <3>1. CASE WithBody(n.items[i], s, b)
            BY <3>1 DEF WithBody
        <3>2. CASE FromLoaded(n.items[i])
            <4>1. PICK j \in 1..Len(tx.m.items) :
                      /\ n.items[i].run = tx.m.items[j].run
                      /\ n.items[i] = tx.m.items[j] \/ n.items[i].state # "running" \/ tx.m.paused = FALSE
                BY <3>2 DEF FromLoaded
            <4>2. CASE tx.m.paused = FALSE
                BY <4>1, <4>2, RunningInbox DEF Staged
            <4> QED BY <1>3, <4>1, <4>2
        <3> QED BY <3>1, <3>2
    <2>2. \/ n.paused \/ OwnItems(n)
          \/ resumed = n.run /\ file = "ok" /\ man.run = n.run
        <3>1. CASE n.paused = TRUE
            BY <3>1
        <3>2. CASE n.items = <<>>
            BY <3>2 DEF OwnItems
        <3>3. CASE tx.m.paused = FALSE
            BY <3>3, RunningInbox DEF FromLoaded, WithBody, Staged, OwnItems
        <3> QED BY <3>1, <3>2, <3>3 DEF Staged
    <2> QED BY <1>1, <1>2, <2>1, <2>2 DEF StoreInv, ResumeOK, OwnItems, disk, history
<1>11. OwedOK'
    <2>1. Covered' <=> Covered
        BY <1>1 DEF Covered, faults
    <2>2. Covered => Lists(n, (owed \cup {s}) \ old)
        <3>1. Covered => \A x \in owed : \E j \in 1..Len(tx.m.items) : tx.m.items[j].blob = x
            BY LoadedFacts
        <3>2. ASSUME Covered, NEW x \in owed \ old PROVE \E i \in 1..Len(n.items) : n.items[i].blob = x
            <4>1. PICK j \in 1..Len(tx.m.items) : tx.m.items[j].blob = x
                BY <3>1, <3>2
            <4> QED BY <3>2, <4>1 DEF Staged
        <3> QED BY <3>2 DEF Lists
    <2>3. {s} \ {NoStem} = {s}
        OBVIOUS
    <2> QED BY <1>1, <1>2, <2>1, <2>2, <2>3 DEF StoreInv, OwedOK, Lists, disk, history
<1> QED BY <1>5, <1>6, <1>8, <1>9, <1>10, <1>11 DEF StoreInv

(* Where an id is in the loaded manifest.                                   *)
LEMMA LoadedItem ==
    ASSUME StoreInv, tx.stage = "loaded", NEW id \in Ids(tx.m)
    PROVE  \E j \in 1..Len(tx.m.items) :
              tx.m.items[j].id = id /\ ItemOf(tx.m, id) = tx.m.items[j]
              /\ StateOf(tx.m, id) = tx.m.items[j].state
<1>1. tx.m.items \in Seq(Items(Stem, Body, Runs)) /\ Distinct(tx.m.items)
    BY LoadedFacts DEF Good, WellMade
<1>2. PICK j \in 1..Len(tx.m.items) : tx.m.items[j].id = id
    BY <1>1, IdIsListed
<1>3. ItemOf(tx.m, tx.m.items[j].id) = tx.m.items[j] /\ StateOf(tx.m, tx.m.items[j].id) = tx.m.items[j].state
    BY <1>1, ItemAtPosition
<1> QED BY <1>2, <1>3

(* An item is of the shape of an item.                                      *)
LEMMA LoadedShape ==
    ASSUME StoreInv, tx.stage = "loaded"
    PROVE  /\ Len(tx.m.items) \in Nat /\ WellMade(tx.m, Stem, Body, Runs)
           /\ \A j \in 1..Len(tx.m.items) : tx.m.items[j] \in Items(Stem, Body, Runs)
           /\ \A i, j \in 1..Len(tx.m.items) :
                 tx.m.items[i].id = tx.m.items[j].id \/ tx.m.items[i].blob = tx.m.items[j].blob => i = j
           /\ \A x : x \in Ids(tx.m) \/ x \in BlobsOf(tx.m) => x \in used
<1>1. tx.m.items \in Seq(Items(Stem, Body, Runs)) /\ Distinct(tx.m.items) /\ WellMade(tx.m, Stem, Body, Runs)
    BY LoadedFacts DEF Good, WellMade
<1>2. /\ Len(tx.m.items) \in Nat /\ \A j \in 1..Len(tx.m.items) : tx.m.items[j] \in Items(Stem, Body, Runs)
      /\ \A x : x \in Ids(tx.m) <=> \E i \in 1..Len(tx.m.items) : tx.m.items[i].id = x
      /\ \A x : x \in BlobsOf(tx.m) <=> \E i \in 1..Len(tx.m.items) : tx.m.items[i].blob = x
    <2> DEFINE A == Items(Stem, Body, Runs)
               m == tx.m
    <2>1. m.items \in Seq(A)
        BY <1>1
    <2> HIDE DEF A, m
    <2>2. Len(m.items) \in Nat /\ \A j \in 1..Len(m.items) : m.items[j] \in A
        BY <2>1, ByPosition
    <2>3. \A x : x \in Ids(m) <=> \E i \in 1..Len(m.items) : m.items[i].id = x
        BY <2>1, ByPosition
    <2>4. \A x : x \in BlobsOf(m) <=> \E i \in 1..Len(m.items) : m.items[i].blob = x
        BY <2>1, ByPosition
    <2> QED BY <2>2, <2>3, <2>4 DEF A, m
<1>3. \A j \in 1..Len(tx.m.items) : tx.m.items[j].id \in used /\ tx.m.items[j].blob \in used
    BY LoadedFacts DEF Drawn
<1> QED BY <1>1, <1>2, <1>3 DEF Distinct

(* Enqueue.                                                                 *)
LEMMA EnqueueKeeps == ASSUME StoreInv, tx.stage = "loaded", OpEnqueue PROVE StoreInv'
<1>1. PICK s \in Stem \ used, intent \in Intents, k \in Key \cup {NoKey}, b \in Body :
          StageWithBlob("enqueue", Enqueue(tx.m, s, intent, k, b), s, b, {})
    BY DEF OpEnqueue
<1> DEFINE m == tx.m
           n == Enqueue(m, s, intent, k, b)
<1>2. StageWithBlob("enqueue", n, s, b, {}) /\ n = Enqueue(m, s, intent, k, b)
    BY <1>1
<1>3. /\ WellMade(m, Stem, Body, Runs) /\ s \in Stem /\ s \notin Ids(m) /\ s \notin BlobsOf(m)
    BY LoadedShape
<1>4. \A j \in 1..Len(m.items) : m.items[j].id \in used /\ m.items[j].blob \in used
    BY LoadedFacts DEF Drawn
<1> HIDE DEF n
<1>5. /\ WellMade(n, Stem, Body, Runs) /\ Len(n.items) = Len(m.items) + 1
      /\ \A i \in 1..Len(m.items) : n.items[i] = m.items[i]
      /\ n.items[Len(m.items) + 1] = [id |-> s, intent |-> intent, state |-> "queued",
                                      blob |-> s, sum |-> b, run |-> m.run]
      /\ n.run = m.run /\ n.paused = m.paused
    BY <1>2, <1>3, Enqueued
<1>6. ASSUME NEW i \in 1..Len(n.items) PROVE FromLoaded(n.items[i]) \/ WithBody(n.items[i], s, b)
    <2>1. CASE i \in 1..Len(m.items)
        BY <1>5, <2>1 DEF FromLoaded
    <2>2. CASE i = Len(m.items) + 1
        BY <1>5, <2>2 DEF WithBody
    <2> QED BY <1>5, <2>1, <2>2, LoadedShape
<1>7. \E i \in 1..Len(n.items) : n.items[i].blob = s
    <2>1. Len(m.items) + 1 \in 1..Len(n.items)
        BY <1>5, LoadedShape
    <2> QED BY <1>5, <2>1
<1>8. Staged("enqueue", n, {})
    <2>1. \A j \in 1..Len(m.items) : j \in 1..Len(n.items)
        BY <1>5, LoadedShape
    <2>2. \A j \in 1..Len(m.items) : \E i \in 1..Len(n.items) : n.items[i].blob = m.items[j].blob
        BY <1>5, <2>1
    <2>3. m.paused \in BOOLEAN
        BY <1>3 DEF WellMade
    <2> QED BY <1>5, <2>2, <2>3 DEF Staged, Good
<1> QED BY <1>2, <1>6, <1>7, <1>8, StageWithBlobKeeps

(* UpdateText: the new body replaces the old one.                           *)
LEMMA UpdateKeeps == ASSUME StoreInv, tx.stage = "loaded", OpUpdate PROVE StoreInv'
<1>1. PICK id \in Ids(tx.m), s \in Stem \ used, b \in Body, k \in Key \cup {NoKey} :
          /\ CanUpdate(tx.m, id, k)
          /\ StageWithBlob("update", UpdateItem(tx.m, id, s, b, k, b), s, b, {ItemOf(tx.m, id).blob})
    BY DEF OpUpdate
<1>2. PICK j \in 1..Len(tx.m.items) :
          tx.m.items[j].id = id /\ ItemOf(tx.m, id) = tx.m.items[j] /\ StateOf(tx.m, id) = tx.m.items[j].state
    BY LoadedItem
<1> DEFINE m == tx.m
           n == UpdateItem(m, m.items[j].id, s, b, k, b)
           old == {m.items[j].blob}
<1>3. /\ StageWithBlob("update", n, s, b, old) /\ n = UpdateItem(m, m.items[j].id, s, b, k, b)
      /\ m.items[j].state \in Pending
    BY <1>1, <1>2 DEF CanUpdate, IsPending
<1>4. /\ WellMade(m, Stem, Body, Runs) /\ s \in Stem /\ s \notin BlobsOf(m) /\ s \notin Ids(m)
    BY LoadedShape
<1>5. \A i \in 1..Len(m.items) : m.items[i] \in Items(Stem, Body, Runs) /\ m.items[i].blob \in used
    BY LoadedShape, LoadedFacts DEF Drawn
<1> HIDE DEF n
<1>6. /\ WellMade(n, Stem, Body, Runs) /\ Len(n.items) = Len(m.items)
      /\ n.run = m.run /\ n.paused = m.paused
      /\ \A i \in 1..Len(m.items) : i # j => n.items[i] = m.items[i]
      /\ n.items[j] = [m.items[j] EXCEPT !.blob = s, !.sum = b,
                          !.state = IF @ = "blocked" THEN "queued" ELSE @]
    <2>1. WellMade(n, Stem, Body, Runs) /\ Rewritten(n, m, j, s, b)
        BY <1>3, <1>4, Updated
    <2> QED BY <2>1 DEF Rewritten
<1>7. /\ n.items[j].blob = s /\ n.items[j].sum = b /\ n.items[j].state # "running"
      /\ n.items[j].id = m.items[j].id /\ n.items[j].run = m.items[j].run
    BY <1>3, <1>5, <1>6 DEF Items, Pending
<1>8. ASSUME NEW i \in 1..Len(n.items) PROVE FromLoaded(n.items[i]) \/ WithBody(n.items[i], s, b)
    <2>1. CASE i = j
        BY <1>7, <2>1 DEF WithBody
    <2>2. CASE i # j
        BY <1>6, <2>2 DEF FromLoaded
    <2> QED BY <2>1, <2>2
<1>9. \E i \in 1..Len(n.items) : n.items[i].blob = s
    BY <1>6, <1>7
<1>10. Staged("update", n, old)
    <2>1. ASSUME NEW i \in 1..Len(n.items) PROVE n.items[i].blob \notin old
        <3>1. CASE i = j
            BY <1>5, <1>7, <3>1
        <3>2. CASE i # j
            BY <1>6, <3>2, LoadedShape
        <3> QED BY <3>1, <3>2
    <2>2. ASSUME NEW i \in 1..Len(m.items)
          PROVE  m.items[i].blob \in old \/ \E h \in 1..Len(n.items) : n.items[h].blob = m.items[i].blob
        BY <1>6
    <2>3. m.paused \in BOOLEAN
        BY <1>4 DEF WellMade
    <2> QED BY <1>6, <2>1, <2>2, <2>3 DEF Staged, Good
<1> HIDE DEF old
<1> QED BY <1>3, <1>8, <1>9, <1>10, StageWithBlobKeeps

(* An operation that leaves every item its id, its body and its run.        *)
LEMMA SameItemsKeep ==
    ASSUME StoreInv, tx.stage = "loaded", NEW op, NEW n, Stage(op, n, {}),
           Good(n), n.run = tx.m.run, Len(n.items) = Len(tx.m.items),
           n.paused = TRUE \/ op = "resume" \/ n.paused = tx.m.paused,
           \A i \in 1..Len(n.items) :
              /\ n.items[i].id = tx.m.items[i].id /\ n.items[i].blob = tx.m.items[i].blob
              /\ n.items[i].sum = tx.m.items[i].sum /\ n.items[i].run = tx.m.items[i].run
              /\ n.items[i] = tx.m.items[i] \/ n.items[i].state # "running" \/ tx.m.paused = FALSE
    PROVE  StoreInv'
<1>1. \A i \in 1..Len(n.items) : FromLoaded(n.items[i])
    BY DEF FromLoaded
<1>2. \A j \in 1..Len(tx.m.items) : \E i \in 1..Len(n.items) : n.items[i].blob = tx.m.items[j].blob
    OBVIOUS
<1>3. tx.m.paused \in BOOLEAN
    BY LoadedShape DEF WellMade
<1>4. Staged(op, n, {})
    BY <1>2, <1>3 DEF Staged
<1> QED BY <1>1, <1>4, StageKeeps

(* A change of state: claim, setstate, retry.                               *)
LEMMA StateKeeps ==
    ASSUME StoreInv, tx.stage = "loaded", NEW op, NEW id, NEW s \in States,
           Stage(op, SetItemState(tx.m, id, s), {}), s # "running" \/ tx.m.paused = FALSE
    PROVE  StoreInv'
<1> DEFINE m == tx.m
           n == SetItemState(m, id, s)
<1>1. n = SetItemState(m, id, s) /\ WellMade(m, Stem, Body, Runs) /\ Stage(op, n, {})
    BY LoadedShape
<1> HIDE DEF m, n
<1>2. /\ WellMade(n, Stem, Body, Runs) /\ Len(n.items) = Len(m.items) /\ n.run = m.run /\ n.paused = m.paused
      /\ \A i \in 1..Len(m.items) :
            n.items[i] = IF m.items[i].id = id THEN [m.items[i] EXCEPT !.state = s] ELSE m.items[i]
    BY <1>1, StateSet
<1>3. ASSUME NEW i \in 1..Len(n.items)
      PROVE  /\ n.items[i].id = m.items[i].id /\ n.items[i].blob = m.items[i].blob
             /\ n.items[i].sum = m.items[i].sum /\ n.items[i].run = m.items[i].run
             /\ n.items[i] = m.items[i] \/ n.items[i].state = s
    <2>1. m.items[i] \in Items(Stem, Body, Runs)
        BY <1>2, LoadedShape DEF m
    <2> QED BY <1>2, <2>1 DEF Items
<1> QED BY <1>1, <1>2, <1>3, SameItemsKeep DEF Good, m

(* Claim and SetState and Retry.                                            *)
LEMMA StatesKeep == ASSUME StoreInv, tx.stage = "loaded", OpClaim \/ OpSetState \/ OpRetry PROVE StoreInv'
<1>1. CASE OpClaim
    <2>1. PICK id : CanClaim(tx.m, id) /\ Stage("claim", SetItemState(tx.m, id, "running"), {})
        BY <1>1 DEF OpClaim
    <2>2. tx.m.paused = FALSE
        BY <2>1, LoadedShape DEF CanClaim, WellMade
    <2>3. "running" \in States
        BY DEF States, InFlightStates
    <2> QED BY <2>1, <2>2, <2>3, StateKeeps
<1>2. CASE OpSetState
    BY <1>2, StateKeeps DEF OpSetState
<1>3. CASE OpRetry
    <2>1. "queued" \in States
        BY DEF States, Pending
    <2> QED BY <1>3, <2>1, StateKeeps DEF OpRetry
<1> QED BY <1>1, <1>2, <1>3

(* ConvertIntent.                                                           *)
LEMMA ConvertKeeps == ASSUME StoreInv, tx.stage = "loaded", OpConvert PROVE StoreInv'
<1>1. PICK id \in Ids(tx.m), intent \in Intents :
          IsPending(tx.m, id) /\ Stage("convert", ConvertIntent(tx.m, id, intent), {})
    BY DEF OpConvert
<1> DEFINE m == tx.m
           n == ConvertIntent(m, id, intent)
<1>2. n = ConvertIntent(m, id, intent) /\ WellMade(m, Stem, Body, Runs) /\ Stage("convert", n, {})
    BY <1>1, LoadedShape
<1> HIDE DEF m, n
<1>3. /\ WellMade(n, Stem, Body, Runs) /\ Len(n.items) = Len(m.items) /\ n.run = m.run /\ n.paused = m.paused
      /\ \A i \in 1..Len(m.items) :
            n.items[i] = IF m.items[i].id = id THEN [m.items[i] EXCEPT !.intent = intent] ELSE m.items[i]
    BY <1>2, IntentSet
<1>4. \A i \in 1..Len(m.items) : m.items[i] \in Items(Stem, Body, Runs)
    BY LoadedShape DEF m
<1>5. ASSUME NEW i \in 1..Len(n.items)
      PROVE  /\ n.items[i].id = m.items[i].id /\ n.items[i].blob = m.items[i].blob
             /\ n.items[i].sum = m.items[i].sum /\ n.items[i].run = m.items[i].run
             /\ n.items[i].state = m.items[i].state
    BY <1>3, <1>4 DEF Items
<1>6. ASSUME NEW i \in 1..Len(n.items) PROVE n.items[i] = m.items[i] \/ n.items[i].state # "running"
    <2>1. PICK j \in 1..Len(m.items) : m.items[j].id = id /\ m.items[j].state \in Pending
        BY <1>1, LoadedItem DEF IsPending, m
    <2>2. CASE m.items[i].id = id
        <3>1. i = j
            BY <1>3, <2>1, <2>2, LoadedShape DEF m
        <3> QED BY <1>5, <2>1, <3>1 DEF Pending
    <2>3. CASE m.items[i].id # id
        BY <1>3, <2>3
    <2> QED BY <2>2, <2>3
<1> QED BY <1>2, <1>3, <1>5, <1>6, SameItemsKeep DEF Good, m

(* Pause, forced or not, and resume.                                        *)
LEMMA PausesKeep == ASSUME StoreInv, tx.stage = "loaded", OpPause \/ OpResume PROVE StoreInv'
<1>1. CASE OpPause
    <2> DEFINE m == tx.m
    <2>1. PICK n : Stage("pause", n, {}) /\ Pausing(n, m)
        BY <1>1 DEF OpPause, Pausing
    <2>2. WellMade(m, Stem, Body, Runs)
        BY LoadedShape
    <2> HIDE DEF m
    <2>3. WellMade(n, Stem, Body, Runs) /\ n.items = m.items /\ n.run = m.run /\ n.paused = TRUE
        <3>1. WellMade(n, Stem, Body, Runs) /\ NowPaused(n, m)
            BY <2>1, <2>2, PauseFacts
        <3> QED BY <3>1 DEF NowPaused, SameItems
    <2> QED BY <2>1, <2>3, SameItemsKeep DEF Good, m
<1>2. CASE OpResume
    <2> DEFINE m == tx.m
    <2>1. PICK n : Stage("resume", n, {}) /\ Resuming(n, m)
        BY <1>2 DEF OpResume, Resuming
    <2>2. WellMade(m, Stem, Body, Runs)
        BY LoadedShape
    <2> HIDE DEF m
    <2>3. WellMade(n, Stem, Body, Runs) /\ n.items = m.items /\ n.run = m.run
        <3>1. WellMade(n, Stem, Body, Runs) /\ SameItems(n, m)
            BY <2>1, <2>2, ResumeFacts
        <3> QED BY <3>1 DEF SameItems
    <2> QED BY <2>1, <2>3, SameItemsKeep DEF Good, m
<1> QED BY <1>1, <1>2

(* RecoverOrphanedInFlight.                                                 *)
LEMMA OrphansKeep == ASSUME StoreInv, tx.stage = "loaded", OpRecoverOrphans PROVE StoreInv'
<1>1. PICK owned : Stage("orphans", RecoverOrphans(tx.m, owned), {})
    BY DEF OpRecoverOrphans
<1> DEFINE m == tx.m
           n == RecoverOrphans(m, owned)
<1>2. n = RecoverOrphans(m, owned) /\ WellMade(m, Stem, Body, Runs) /\ Stage("orphans", n, {})
    BY <1>1, LoadedShape
<1> HIDE DEF m, n
<1>3. WellMade(n, Stem, Body, Runs) /\ n.run = m.run /\ n.paused = TRUE /\ Settled(n, m, Ids(m) \ owned)
    <2>1. WellMade(n, Stem, Body, Runs) /\ OrphansSettled(n, m, owned)
        BY <1>2, OrphansFacts
    <2> QED BY <2>1 DEF OrphansSettled
<1>4. \A i \in 1..Len(m.items) : m.items[i] \in Items(Stem, Body, Runs)
    BY LoadedShape DEF m
<1>5. ASSUME NEW i \in 1..Len(n.items)
      PROVE  /\ n.items[i].id = m.items[i].id /\ n.items[i].blob = m.items[i].blob
             /\ n.items[i].sum = m.items[i].sum /\ n.items[i].run = m.items[i].run
             /\ n.items[i] = m.items[i] \/ n.items[i].state # "running"
    <2>1. i \in 1..Len(m.items) /\ m.items[i] \in Items(Stem, Body, Runs)
        BY <1>3, <1>4 DEF Settled
    <2>2. n.items[i] = m.items[i] \/ n.items[i] = [m.items[i] EXCEPT !.state = "uncertain"]
        BY <1>3, <2>1 DEF Settled
    <2> QED BY <2>1, <2>2 DEF Items
<1>6. Len(n.items) = Len(m.items)
    BY <1>3 DEF Settled
<1> QED BY <1>2, <1>3, <1>5, <1>6, SameItemsKeep DEF Good, m

(* Items leave with their bodies: acknowledged or discarded.                *)
LEMMA LeaveKeeps ==
    ASSUME StoreInv, tx.stage = "loaded", NEW ids \in SUBSET Ids(tx.m), NEW rs,
           Stage("remove", RemoveItems(tx.m, ids, rs), {ItemOf(tx.m, id).blob : id \in ids})
    PROVE  StoreInv'
<1> DEFINE m == tx.m
           n == RemoveItems(m, ids, rs)
           old == {ItemOf(m, id).blob : id \in ids}
<1>1. n = RemoveItems(m, ids, rs) /\ WellMade(m, Stem, Body, Runs) /\ Stage("remove", n, old)
    BY LoadedShape
<1>2. \A x : x \in old <=> \E j \in 1..Len(m.items) : m.items[j].id \in ids /\ m.items[j].blob = x
    <2>1. ASSUME NEW x \in old PROVE \E j \in 1..Len(m.items) : m.items[j].id \in ids /\ m.items[j].blob = x
        <3>1. PICK id \in ids : ItemOf(m, id).blob = x
            OBVIOUS
        <3>2. PICK j \in 1..Len(m.items) : m.items[j].id = id /\ ItemOf(m, id) = m.items[j]
            BY LoadedItem
        <3> QED BY <3>1, <3>2
    <2>2. ASSUME NEW j \in 1..Len(m.items), m.items[j].id \in ids PROVE m.items[j].blob \in old
        <3>1. PICK h \in 1..Len(m.items) :
                  m.items[h].id = m.items[j].id /\ ItemOf(m, m.items[j].id) = m.items[h]
            BY <2>2, LoadedItem
        <3>2. h = j
            BY <3>1, LoadedShape
        <3> QED BY <2>2, <3>1, <3>2
    <2> QED BY <2>1, <2>2
<1> HIDE DEF n, old
<1>3. WellMade(n, Stem, Body, Runs) /\ LeftWithout(n, m, ids)
    <2> HIDE DEF m
    <2> QED BY <1>1, Removed
<1>4. \A i \in 1..Len(n.items) : n.items[i].id \notin ids
    BY <1>3 DEF LeftWithout
<1>5. \A i \in 1..Len(n.items) : \E j \in 1..Len(m.items) : n.items[i] = m.items[j]
    <2>1. PICK g : Picks(n.items, m.items, g)
        BY <1>3 DEF LeftWithout
    <2> QED BY <2>1 DEF Picks
<1>6. \A i \in 1..Len(n.items) : FromLoaded(n.items[i])
    BY <1>5 DEF FromLoaded
<1>7. ASSUME NEW i \in 1..Len(n.items) PROVE n.items[i].blob \notin old
    <2>1. PICK j \in 1..Len(m.items) : n.items[i] = m.items[j]
        BY <1>5
    <2>2. \A h \in 1..Len(m.items) : m.items[h].blob = m.items[j].blob => h = j
        BY LoadedShape
    <2>3. ASSUME n.items[i].blob \in old PROVE FALSE
        <3>1. PICK h \in 1..Len(m.items) : m.items[h].id \in ids /\ m.items[h].blob = n.items[i].blob
            BY <1>2, <2>3
        <3>2. h = j
            BY <2>1, <2>2, <3>1
        <3> QED BY <1>4, <2>1, <3>1, <3>2
    <2> QED BY <2>3
<1>8. ASSUME NEW j \in 1..Len(m.items)
      PROVE  m.items[j].blob \in old \/ \E i \in 1..Len(n.items) : n.items[i].blob = m.items[j].blob
    <2>1. CASE m.items[j].id \in ids
        BY <1>2, <2>1
    <2>2. CASE m.items[j].id \notin ids
        BY <1>3, <2>2 DEF LeftWithout
    <2> QED BY <2>1, <2>2
<1>9. n.paused = TRUE \/ n.items = <<>> \/ m.paused = FALSE
    BY <1>1, <1>3 DEF LeftWithout, WellMade
<1>10. Staged("remove", n, old)
    BY <1>3, <1>7, <1>8, <1>9 DEF Staged, Good, LeftWithout
<1> QED BY <1>1, <1>6, <1>10, StageKeeps

(* Discard and Ack.                                                         *)
LEMMA RemovesKeep == ASSUME StoreInv, tx.stage = "loaded", OpRemove \/ OpAck PROVE StoreInv'
<1>1. CASE OpRemove
    BY <1>1, LeaveKeeps DEF OpRemove
<1>2. CASE OpAck
    <2>0. PICK id \in Ids(tx.m) : \E r \in rememberReceipt(tx.m, KeysFor(tx.m, {id})) :
              Stage("remove", RemoveItems(tx.m, {id}, r), {ItemOf(tx.m, id).blob})
        BY <1>2 DEF OpAck
    <2>1. PICK rs \in rememberReceipt(tx.m, KeysFor(tx.m, {id})) :
              Stage("remove", RemoveItems(tx.m, {id}, rs), {ItemOf(tx.m, id).blob})
        BY <2>0
    <2>2. {ItemOf(tx.m, x).blob : x \in {id}} = {ItemOf(tx.m, id).blob}
        OBVIOUS
    <2>3. {id} \in SUBSET Ids(tx.m)
        OBVIOUS
    <2>4. PICK ids \in SUBSET Ids(tx.m) : ids = {id}
        BY <2>3
    <2>5. Stage("remove", RemoveItems(tx.m, ids, rs), {ItemOf(tx.m, x).blob : x \in ids})
        BY <2>1, <2>2, <2>4
    <2> QED BY <2>5, LeaveKeeps
<1> QED BY <1>1, <1>2

(* Move.                                                                    *)
LEMMA MoveKeeps == ASSUME StoreInv, tx.stage = "loaded", OpMove PROVE StoreInv'
<1>1. PICK id \in Ids(tx.m), to \in 1..Len(tx.m.items) : Stage("move", MoveItem(tx.m, id, to), {})
    BY DEF OpMove
<1>2. PICK j \in 1..Len(tx.m.items) : tx.m.items[j].id = id
    BY LoadedItem
<1> DEFINE m == tx.m
           n == MoveItem(m, m.items[j].id, to)
<1>3. n = MoveItem(m, m.items[j].id, to) /\ WellMade(m, Stem, Body, Runs) /\ Stage("move", n, {})
    BY <1>1, <1>2, LoadedShape
<1> HIDE DEF n
<1>4. WellMade(n, Stem, Body, Runs) /\ Reordered(n, m, j, to)
    BY <1>3, Moved
<1>5. PICK g : /\ Picks(n.items, m.items, g)
               /\ \A x \in 1..Len(m.items) : \E i \in 1..Len(m.items) : g[i] = x
    BY <1>4 DEF Reordered
<1>6. Len(n.items) = Len(m.items) /\ n.run = m.run /\ n.paused = m.paused
    BY <1>4 DEF Reordered
<1>7. \A i \in 1..Len(n.items) : g[i] \in 1..Len(m.items) /\ n.items[i] = m.items[g[i]]
    BY <1>5 DEF Picks
<1>8. \A i \in 1..Len(n.items) : FromLoaded(n.items[i])
    BY <1>7 DEF FromLoaded
<1>9. ASSUME NEW x \in 1..Len(m.items) PROVE \E i \in 1..Len(n.items) : n.items[i].blob = m.items[x].blob
    <2>1. PICK i \in 1..Len(n.items) : g[i] = x
        BY <1>5, <1>6
    <2> QED BY <1>7, <2>1
<1>10. m.paused \in BOOLEAN
    BY <1>3 DEF WellMade
<1>11. Staged("move", n, {})
    BY <1>4, <1>6, <1>9, <1>10 DEF Staged, Good
<1> QED BY <1>3, <1>8, <1>11, StageKeeps

-----------------------------------------------------------------------------
(* Every step keeps the invariant.                                          *)
LEMMA StoreNext == StoreInv /\ [Next]_vars => StoreInv'
<1> SUFFICES ASSUME StoreInv, [Next]_vars PROVE StoreInv'
    OBVIOUS
<1>1. CASE Operate
    BY <1>1, EnqueueKeeps, UpdateKeeps, RemovesKeep, MoveKeeps, PausesKeep, StatesKeep, ConvertKeeps,
       OrphansKeep
    DEF Operate
<1>2. CASE UNCHANGED vars
    <2>1. /\ file' = file /\ man' = man /\ blobs' = blobs /\ tx' = tx /\ runOf' = runOf /\ used' = used
          /\ owed' = owed /\ flightRun' = flightRun /\ resumed' = resumed
          /\ crashes' = crashes /\ writeErrors' = writeErrors /\ corruptions' = corruptions
        BY <1>2 DEF vars, disk, history, faults
    <2>2. DiskOK' /\ TxTypeOK'
        BY <2>1 DEF StoreInv, DiskOK, TxTypeOK, Good, Drawn, BodiesIn
    <2>3. StageOK' /\ LoadedOK' /\ FlightOK' /\ PausedOK'
        BY <2>1 DEF StoreInv, StageOK, LoadedOK, FlightOK, PausedOK, BodiesIn
    <2>4. ResumeOK' /\ OwedOK'
        BY <2>1 DEF StoreInv, ResumeOK, OwedOK, OwnItems, Lists, Covered
    <2> QED BY <2>2, <2>3, <2>4 DEF StoreInv
<1> QED BY <1>1, <1>2, BeginKeeps, CrashKeeps, CommitLoadKeeps, UnlockKeeps, WriteBlobKeeps, CommitKeeps,
           CleanupKeeps, WriteFailsKeeps, CorruptKeeps, ExpireKeeps DEF Next

(* StoreInv holds in every state of the store.                              *)
THEOREM StoreIsInductive == Spec => []StoreInv
    BY StoreInit, StoreNext, PTL DEF Spec

(* The items of a manifest, by position.                                    *)
LEMMA Listed ==
    ASSUME NEW m, Good(m)
    PROVE  \A x : x \in ToSet(m.items) <=> \E i \in 1..Len(m.items) : m.items[i] = x
<1>1. DOMAIN m.items = 1..Len(m.items)
    BY DEF Good, WellMade
<1> QED BY <1>1 DEF ToSet

(* A manifest that is well made has as many ids as items, known intents and *)
(* states, and keys on listed items only.                                   *)
LEMMA ManifestOK ==
    ASSUME NEW m, Good(m), Drawn(m, used)
    PROVE  /\ Ids(m) \cup BlobsOf(m) \subseteq used
           /\ Cardinality(Ids(m)) = Len(m.items)
           /\ \A it \in ToSet(m.items) : it.intent \in Intents /\ it.state \in States
           /\ \A k \in DOMAIN m.keys : m.keys[k].id \in Ids(m)
<1> DEFINE A == Items(Stem, Body, Runs)
<1>1. m.items \in Seq(A) /\ Distinct(m.items)
    BY DEF Good, WellMade
<1>2. /\ \A i \in 1..Len(m.items) : m.items[i].intent \in Intents /\ m.items[i].state \in States
      /\ \A x : x \in Ids(m) <=> \E i \in 1..Len(m.items) : m.items[i].id = x
      /\ \A x : x \in BlobsOf(m) <=> \E i \in 1..Len(m.items) : m.items[i].blob = x
      /\ \A x : x \in ToSet(m.items) <=> \E i \in 1..Len(m.items) : m.items[i] = x
    <2> HIDE DEF A
    <2>1. \A i \in 1..Len(m.items) : m.items[i] \in A
        BY <1>1, ByPosition
    <2>2. \A x : x \in Ids(m) <=> \E i \in 1..Len(m.items) : m.items[i].id = x
        BY <1>1, ByPosition
    <2>3. \A x : x \in BlobsOf(m) <=> \E i \in 1..Len(m.items) : m.items[i].blob = x
        BY <1>1, ByPosition
    <2>4. \A x : x \in ToSet(m.items) <=> \E i \in 1..Len(m.items) : m.items[i] = x
        BY Listed
    <2>5. \A i \in 1..Len(m.items) : m.items[i].intent \in Intents /\ m.items[i].state \in States
        BY <2>1 DEF A, Items
    <2> QED BY <2>2, <2>3, <2>4, <2>5
<1>3. Cardinality(Ids(m)) = Len(m.items)
    <2> HIDE DEF A
    <2> QED BY <1>1, IdsCounted
<1>4. Ids(m) \cup BlobsOf(m) \subseteq used
    BY <1>2 DEF Drawn
<1>5. \A k \in DOMAIN m.keys : m.keys[k].id \in Ids(m)
    BY <1>2 DEF Good, WellMade
<1> QED BY <1>2, <1>3, <1>4, <1>5

(* The files of the store fit together at every step of every transaction,  *)
(* with any processes, crashes, failing writes and damaged manifests: no    *)
(* item twice, keys on listed items, and every listed item with the body it *)
(* was committed with.                                                      *)
THEOREM StoreIsConsistent == Spec => []StoreConsistent
<1>1. StoreInv => StoreConsistent
    <2> SUFFICES ASSUME StoreInv PROVE StoreConsistent
        OBVIOUS
    <2>1. Good(man) /\ Drawn(man, used) /\ Good(tx.m) /\ Drawn(tx.m, used)
        BY DEF StoreInv, DiskOK, TxTypeOK
    <2>2. ASSUME NEW m \in {man, tx.m}
          PROVE  /\ Ids(m) \cup BlobsOf(m) \subseteq used
                 /\ Cardinality(Ids(m)) = Len(m.items)
                 /\ \A it \in ToSet(m.items) : it.intent \in Intents /\ it.state \in States
                 /\ \A k \in DOMAIN m.keys : m.keys[k].id \in Ids(m)
        <3>1. Good(m) /\ Drawn(m, used)
            BY <2>1
        <3> QED BY <3>1, ManifestOK
    <2>3. TypeOK
        <3>1. /\ file \in {"ok", "missing", "corrupt"} /\ DOMAIN blobs \subseteq used /\ used \subseteq Stem
              /\ runOf \in [Proc -> Runs] /\ owed \subseteq used
            BY DEF StoreInv, DiskOK
        <3>2. tx.proc \in Proc \cup {NoProc} /\ tx.stage \in Stages /\ (tx = NoTx \/ tx.proc # NoProc)
            BY DEF StoreInv, TxTypeOK
        <3> QED BY <2>2, <3>1, <3>2 DEF TypeOK
    <2>4. BodiesMatchManifest
        <3>1. \A x : x \in ToSet(man.items) <=> \E i \in 1..Len(man.items) : man.items[i] = x
            BY <2>1, Listed
        <3> QED BY <3>1 DEF BodiesMatchManifest, StoreInv, DiskOK, BodiesIn
    <2> QED BY <2>3, <2>4 DEF StoreConsistent
<1> QED BY <1>1, StoreIsInductive, PTL

(* What a dead run left running is never taken for live work.               *)
THEOREM InFlightIsTheWriters == Spec => []InFlightBelongsToWriter
<1>1. StoreInv => InFlightBelongsToWriter
    <2> SUFFICES ASSUME StoreInv PROVE InFlightBelongsToWriter
        OBVIOUS
    <2>1. \A x : x \in ToSet(man.items) <=> \E i \in 1..Len(man.items) : man.items[i] = x
        BY Listed DEF StoreInv, DiskOK
    <2> QED BY <2>1 DEF InFlightBelongsToWriter, StoreInv, FlightOK
<1> QED BY <1>1, StoreIsInductive, PTL

(* Accepted work keeps its body and its place in the manifest, through any  *)
(* number of crashes and failing writes; and through any damage to the      *)
(* manifest when no crash and no failing write cuts the salvage short.      *)
THEOREM AcceptedWorkIsKept == Spec => [](Covered => AcceptedWorkSurvives)
<1>1. StoreInv => (Covered => AcceptedWorkSurvives)
    <2> SUFFICES ASSUME StoreInv, Covered PROVE AcceptedWorkSurvives
        OBVIOUS
    <2>1. \A x : x \in BlobsOf(man) <=> \E i \in 1..Len(man.items) : man.items[i].blob = x
        BY ByPosition DEF StoreInv, DiskOK, Good, WellMade
    <2>2. owed \subseteq DOMAIN blobs /\ (file = "ok" => Lists(man, owed))
        BY DEF StoreInv, OwedOK
    <2> QED BY <2>1, <2>2 DEF AcceptedWorkSurvives, Lists
<1> QED BY <1>1, StoreIsInductive, PTL

(* Work of an earlier run is started only after a resume under this one.    *)
THEOREM ForeignWorkIsResumed == Spec => ForeignWorkNeedsResume
<1>1. StoreInv /\ StoreInv' /\ [Next]_vars => [file' = "ok" => \A it \in ToSet(man'.items) :
          (it.state = "running" /\ it.run # man'.run /\ it \notin ToSet(man.items))
          => resumed = man'.run]_vars
    <2> SUFFICES ASSUME StoreInv, StoreInv', [Next]_vars, file' = "ok", NEW it \in ToSet(man'.items),
                        it.state = "running", it.run # man'.run, it \notin ToSet(man.items)
                 PROVE  resumed = man'.run \/ UNCHANGED vars
        BY Zenon
    <2>1. \A x : x \in ToSet(man.items) <=> \E i \in 1..Len(man.items) : man.items[i] = x
        BY Listed DEF StoreInv, DiskOK
    <2>2. Good(man')
        BY DEF StoreInv, DiskOK, Good
    <2>3. PICK i \in 1..Len(man'.items) : man'.items[i] = it
        BY <2>2, Listed
    <2>4. CASE CommitManifest
        <3>1. man' = tx.m /\ tx.stage = "commit"
            BY <2>4 DEF CommitManifest, WriteManifest
        <3> QED BY <2>1, <2>3, <3>1 DEF StoreInv, ResumeOK
    <2>5. CASE CommitLoad
        <3>1. man' = tx.m /\ tx.stage \in {"salvage", "recover"}
            BY <2>5 DEF CommitLoad, WriteManifest
        <3> QED BY <2>3, <3>1 DEF StoreInv, FlightOK, InFlightStates
    <2>6. CASE man' = man
        BY <2>1, <2>3, <2>6
    <2>7. CASE CorruptManifest
        BY <2>7 DEF CorruptManifest
    <2>8. CASE UNCHANGED vars
        BY <2>8
    <2>10. CASE ReceiptsExpire
        BY <2>1, <2>3, <2>10, ExpiryFacts
    <2>9. Next /\ ~CommitManifest /\ ~CommitLoad /\ ~CorruptManifest /\ ~ReceiptsExpire => man' = man
        BY DEF Next, Begin, Crash, Operate, OpEnqueue, OpUpdate, OpRemove, OpAck, OpMove, OpPause, OpResume,
               OpClaim, OpSetState, OpConvert, OpRetry, OpRecoverOrphans, Stage, StageWithBlob,
               Unlock, WriteBlob, Cleanup, WriteFails, disk
    <2> QED BY <2>4, <2>5, <2>6, <2>7, <2>8, <2>9, <2>10
<1> QED BY <1>1, StoreIsInductive, PTL DEF Spec, ForeignWorkNeedsResume

-----------------------------------------------------------------------------
(***************************************************************************)
(* The store implements the durable queue.  A reader sees the committed    *)
(* manifest; the operations are followed from the load, when the manifest  *)
(* in hand is the one the disk shows, to the rename that makes their       *)
(* result the one it shows.                                                *)
(***************************************************************************)

(* The items of a manifest as a caller sees them.                           *)
Seen(it) == [id |-> it.id, status |-> Status(it.state), text |-> it.sum]
View(m) == [i \in 1..Len(m.items) |-> Seen(m.items[i])]

(* What the disk shows.                                                     *)
Shown == IF file = "ok" THEN View(man) ELSE <<>>
ShownPaused == file = "ok" /\ man.paused

Entry == [id : Stem, status : Queue!Statuses, text : Body]
Free(e) == e.status \notin Queue!Working

(* From queue q with pause p one step of the durable queue leads to r, s.   *)
Accepts(q, r) ==
    /\ Len(q) < MaxItems
    /\ \E id \in Stem, text \in Body :
          /\ \A i \in 1..Len(q) : q[i].id # id
          /\ r = Append(q, [id |-> id, text |-> text, status |-> "waiting"])
Leaves(q, p, r, s) ==
    \E ids \in SUBSET Stem : \E gone :
        /\ gone = {i \in 1..Len(q) : q[i].id \in ids} /\ gone # {}
        /\ (\A i \in gone : Free(q[i])) \/ (\A i, j \in gone : i = j)
        /\ r = EntriesAt(q, (1..Len(q)) \ gone)
        /\ s = (p /\ r # <<>>)
Settles(q, r) ==
    \E ids \in SUBSET Stem :
        r = [i \in 1..Len(q) |-> IF q[i].id \in ids /\ q[i].status \in Queue!Working
                                 THEN [q[i] EXCEPT !.status = "uncertain"] ELSE q[i]]
Touches(q, p, r, i) ==
    \/ p = FALSE /\ q[i].status = "waiting" /\ r = [q EXCEPT ![i].status = "running"]
    \/ Free(q[i]) /\ \E text \in Body : r = [q EXCEPT ![i].text = text]
    \/ Free(q[i]) /\ \E to \in 1..Len(q) : r = InsertAt(RemoveAt(q, i), to, q[i])
    \/ \E st \in Queue!Statuses : st # "running" /\ r = [q EXCEPT ![i].status = st]
Changes(q, p, r, s) ==
    \/ r = q /\ s \in BOOLEAN
    \/ Accepts(q, r) /\ s = p
    \/ Leaves(q, p, r, s)
    \/ Settles(q, r) /\ s = TRUE
    \/ s = p /\ \E i \in 1..Len(q) : Touches(q, p, r, i)

(* A manifest about to be committed is one step from what the disk shows.   *)
QueueOK ==
    /\ tx.stage = "loaded" /\ file # "ok" => tx.m.paused = FALSE
    /\ tx.stage = "recover" => file = "ok" /\ tx.m.paused = TRUE /\ Settled(tx.m, man, Ids(man))
    /\ tx.stage \in {"write", "commit"} => Changes(Shown, ShownPaused, View(tx.m), tx.m.paused)

(* What is seen of a well-made manifest.                                    *)
LEMMA ViewFacts ==
    ASSUME NEW m, Good(m)
    PROVE  /\ View(m) \in Seq(Entry) /\ Len(View(m)) = Len(m.items) /\ Len(m.items) \in Nat
           /\ DOMAIN View(m) = 1..Len(m.items) /\ DOMAIN m.items = 1..Len(m.items)
           /\ \A i \in 1..Len(m.items) :
                 /\ View(m)[i] = Seen(m.items[i]) /\ m.items[i] \in Items(Stem, Body, Runs)
                 /\ View(m)[i].id = m.items[i].id /\ View(m)[i].text = m.items[i].sum
                 /\ View(m)[i].status = Status(m.items[i].state) /\ View(m)[i] \in Entry
<1>1. m.items \in Seq(Items(Stem, Body, Runs))
    BY DEF Good, WellMade
<1>2. Len(m.items) \in Nat /\ DOMAIN m.items = 1..Len(m.items)
    BY <1>1
<1>3. ASSUME NEW i \in 1..Len(m.items)
      PROVE  m.items[i] \in Items(Stem, Body, Runs) /\ Seen(m.items[i]) \in Entry
    <2>1. m.items[i] \in Items(Stem, Body, Runs)
        BY <1>1
    <2>2. m.items[i].id \in Stem /\ m.items[i].sum \in Body /\ m.items[i].state \in States
        BY <2>1 DEF Items
    <2>3. Status(m.items[i].state) \in Queue!Statuses
        BY <2>2 DEF Status, States, Pending, InFlightStates, Queue!Statuses, Queue!Working
    <2> QED BY <2>1, <2>2, <2>3 DEF Seen, Entry
<1>4. View(m) \in [1..Len(m.items) -> Entry]
    BY <1>3 DEF View
<1>5. View(m) \in Seq(Entry) /\ Len(View(m)) = Len(m.items)
    BY <1>2, <1>4, FunctionIsSeq
<1> QED BY <1>2, <1>3, <1>4, <1>5 DEF View, Seen

(* A load has in hand what the disk shows.                                  *)
LEMMA LoadedIsShown ==
    ASSUME StoreInv, QueueOK, tx.stage = "loaded"
    PROVE  Good(tx.m) /\ View(tx.m) = Shown /\ tx.m.paused = ShownPaused
<1>1. Good(tx.m) /\ tx.m.paused \in BOOLEAN /\ Good(man) /\ man.paused \in BOOLEAN
    BY DEF StoreInv, TxTypeOK, DiskOK, Good, WellMade
<1>2. CASE file = "ok"
    BY <1>1, <1>2 DEF StoreInv, LoadedOK, Shown, ShownPaused, View
<1>3. CASE file # "ok"
    <2>1. tx.m.items = <<>> /\ tx.m.paused = FALSE
        BY <1>3 DEF StoreInv, LoadedOK, QueueOK
    <2>2. View(tx.m) = <<>>
        BY <2>1 DEF View
    <2> QED BY <1>1, <1>3, <2>1, <2>2 DEF Shown, ShownPaused
<1> QED BY <1>2, <1>3

(* Statuses and states.                                                     *)
LEMMA StatusOf ==
    ASSUME NEW s \in States
    PROVE  /\ Status(s) \in Queue!Statuses
           /\ Status(s) \in Queue!Working <=> s \in InFlightStates
           /\ s \in Pending => Status(s) \notin Queue!Working
           /\ s = "queued" => Status(s) = "waiting"
           /\ s # "running" => Status(s) # "running"
    BY DEF Status, States, Pending, InFlightStates, Queue!Statuses, Queue!Working

(* An item appended.                                                        *)
LEMMA EnqueueShows ==
    ASSUME StoreInv, tx.stage = "loaded", OpEnqueue
    PROVE  Changes(View(tx.m), tx.m.paused, View(tx'.m), tx'.m.paused)
<1>1. PICK s \in Stem \ used, intent \in Intents, k \in Key \cup {NoKey}, b \in Body :
          /\ CanEnqueue(tx.m, k)
          /\ StageWithBlob("enqueue", Enqueue(tx.m, s, intent, k, b), s, b, {})
    BY DEF OpEnqueue
<1> DEFINE m == tx.m
           n == Enqueue(m, s, intent, k, b)
<1>2. tx'.m = n /\ n = Enqueue(m, s, intent, k, b)
    BY <1>1 DEF StageWithBlob, StoreInv, TxTypeOK
<1>3. /\ WellMade(m, Stem, Body, Runs) /\ s \in Stem /\ s \notin Ids(m) /\ s \notin BlobsOf(m)
    BY LoadedShape
<1>4. \A j \in 1..Len(m.items) : m.items[j].id \in used
    BY LoadedFacts DEF Drawn
<1>5. Len(m.items) < MaxItems
    BY <1>1 DEF CanEnqueue
<1> HIDE DEF m, n
<1>6. /\ WellMade(n, Stem, Body, Runs) /\ Len(n.items) = Len(m.items) + 1
      /\ \A i \in 1..Len(m.items) : n.items[i] = m.items[i]
      /\ n.items[Len(m.items) + 1] = [id |-> s, intent |-> intent, state |-> "queued",
                                      blob |-> s, sum |-> b, run |-> m.run]
      /\ n.paused = m.paused
    BY <1>2, <1>3, Enqueued
<1>7. Good(m) /\ Good(n)
    BY <1>3, <1>6 DEF Good
<1> DEFINE e == [id |-> s, text |-> b, status |-> "waiting"]
<1>8. Seen(n.items[Len(m.items) + 1]) = e
    BY <1>6 DEF Seen, Status
<1>9. View(n) = Append(View(m), e)
    BY <1>6, <1>7, <1>8, ViewFacts DEF View
<1>10. Accepts(View(m), View(n))
    BY <1>4, <1>5, <1>7, <1>9, ViewFacts DEF Accepts
<1> QED BY <1>2, <1>6, <1>10 DEF Changes, m

(* One item's text.                                                         *)
LEMMA UpdateShows ==
    ASSUME StoreInv, tx.stage = "loaded", OpUpdate
    PROVE  Changes(View(tx.m), tx.m.paused, View(tx'.m), tx'.m.paused)
<1>1. PICK id \in Ids(tx.m), s \in Stem \ used, b \in Body, k \in Key \cup {NoKey} :
          /\ CanUpdate(tx.m, id, k)
          /\ StageWithBlob("update", UpdateItem(tx.m, id, s, b, k, b), s, b, {ItemOf(tx.m, id).blob})
    BY DEF OpUpdate
<1>2. PICK j \in 1..Len(tx.m.items) :
          tx.m.items[j].id = id /\ StateOf(tx.m, id) = tx.m.items[j].state
    BY LoadedItem
<1> DEFINE m == tx.m
           n == UpdateItem(m, m.items[j].id, s, b, k, b)
<1>3. tx'.m = n /\ n = UpdateItem(m, m.items[j].id, s, b, k, b)
    BY <1>1, <1>2 DEF StageWithBlob, StoreInv, TxTypeOK
<1>4. m.items[j].state \in Pending
    BY <1>1, <1>2 DEF CanUpdate, IsPending
<1>5. /\ WellMade(m, Stem, Body, Runs) /\ s \in Stem /\ s \notin BlobsOf(m)
    BY LoadedShape
<1> HIDE DEF m, n
<1>6. WellMade(n, Stem, Body, Runs) /\ Rewritten(n, m, j, s, b)
    BY <1>2, <1>3, <1>5, Updated DEF m
<1>7. Good(m) /\ Good(n) /\ j \in 1..Len(m.items)
    BY <1>2, <1>5, <1>6 DEF Good, m
<1>8. n.items[j].id = m.items[j].id /\ n.items[j].sum = b
      /\ Status(n.items[j].state) = Status(m.items[j].state)
    BY <1>4, <1>6, <1>7, ViewFacts DEF Rewritten, Items, Status, Pending
<1>9. View(n) = [View(m) EXCEPT ![j].text = b]
    <2>1. DOMAIN View(n) = 1..Len(m.items) /\ DOMAIN View(m) = 1..Len(m.items)
        BY <1>6, <1>7, ViewFacts DEF Rewritten
    <2>2. ASSUME NEW i \in 1..Len(m.items) PROVE View(n)[i] = [View(m) EXCEPT ![j].text = b][i]
        <3>1. View(n)[i] = Seen(n.items[i]) /\ View(m)[i] = Seen(m.items[i])
            BY <1>6, <1>7, ViewFacts DEF Rewritten
        <3>2. CASE i = j
            BY <1>7, <1>8, <2>1, <3>1, <3>2 DEF Seen
        <3>3. CASE i # j
            BY <1>6, <1>7, <2>1, <3>1, <3>3 DEF Rewritten
        <3> QED BY <3>2, <3>3
    <2> QED BY <2>1, <2>2 DEF View
<1>10. Free(View(m)[j])
    BY <1>4, <1>7, ViewFacts, StatusOf DEF Free, States
<1>11. Touches(View(m), m.paused, View(n), j) /\ j \in 1..Len(View(m))
    BY <1>7, <1>9, <1>10, ViewFacts DEF Touches
<1> QED BY <1>3, <1>6, <1>11 DEF Changes, m, Rewritten

(* One item's state, which a claim may set to running and the rest may not. *)
LEMMA StateShows ==
    ASSUME StoreInv, tx.stage = "loaded", NEW op, NEW id \in Ids(tx.m), NEW s \in States,
           Stage(op, SetItemState(tx.m, id, s), {}), s # "running" \/ CanClaim(tx.m, id)
    PROVE  Changes(View(tx.m), tx.m.paused, View(tx'.m), tx'.m.paused)
<1>1. PICK j \in 1..Len(tx.m.items) : tx.m.items[j].id = id /\ StateOf(tx.m, id) = tx.m.items[j].state
    BY LoadedItem
<1>2. \A i \in 1..Len(tx.m.items) : tx.m.items[i].id = id => i = j
    BY <1>1, LoadedShape
<1> DEFINE m == tx.m
           n == SetItemState(m, id, s)
<1>3. tx'.m = n /\ n = SetItemState(m, id, s) /\ WellMade(m, Stem, Body, Runs)
    BY LoadedShape DEF Stage, StoreInv, TxTypeOK
<1> HIDE DEF m, n
<1>4. /\ WellMade(n, Stem, Body, Runs) /\ Len(n.items) = Len(m.items) /\ n.paused = m.paused
      /\ \A i \in 1..Len(m.items) :
            n.items[i] = IF m.items[i].id = id THEN [m.items[i] EXCEPT !.state = s] ELSE m.items[i]
    BY <1>3, StateSet
<1>5. Good(m) /\ Good(n) /\ j \in 1..Len(m.items)
    BY <1>1, <1>3, <1>4 DEF Good, m
<1>6. View(n) = [View(m) EXCEPT ![j].status = Status(s)]
    <2>1. DOMAIN View(n) = 1..Len(m.items) /\ DOMAIN View(m) = 1..Len(m.items)
        BY <1>4, <1>5, ViewFacts
    <2>2. ASSUME NEW i \in 1..Len(m.items) PROVE View(n)[i] = [View(m) EXCEPT ![j].status = Status(s)][i]
        <3>1. /\ View(n)[i] = Seen(n.items[i]) /\ View(m)[i] = Seen(m.items[i])
              /\ m.items[i] \in Items(Stem, Body, Runs)
            BY <1>4, <1>5, ViewFacts
        <3>2. CASE i = j
            <4>1. n.items[i] = [m.items[i] EXCEPT !.state = s]
                BY <1>1, <1>4, <3>2 DEF m
            <4>2. n.items[i].id = m.items[i].id /\ n.items[i].sum = m.items[i].sum /\ n.items[i].state = s
                BY <3>1, <4>1 DEF Items
            <4> QED BY <2>1, <3>1, <3>2, <4>2 DEF Seen
        <3>3. CASE i # j
            BY <1>2, <1>4, <2>1, <3>1, <3>3 DEF m
        <3> QED BY <3>2, <3>3
    <2> QED BY <2>1, <2>2 DEF View
<1>7. CASE s # "running"
    <2>1. Status(s) \in Queue!Statuses /\ Status(s) # "running"
        BY <1>7, StatusOf
    <2>2. Touches(View(m), m.paused, View(n), j) /\ j \in 1..Len(View(m))
        BY <1>5, <1>6, <2>1, ViewFacts DEF Touches
    <2> QED BY <1>3, <1>4, <2>2 DEF Changes, m
<1>8. CASE s = "running"
    <2>1. m.paused = FALSE /\ m.items[j].state = "queued"
        BY <1>1, <1>3, <1>8 DEF CanClaim, WellMade, m
    <2>2. View(m)[j].status = "waiting" /\ Status(s) = "running"
        BY <1>5, <1>8, <2>1, ViewFacts DEF Status
    <2>3. Touches(View(m), m.paused, View(n), j) /\ j \in 1..Len(View(m))
        BY <1>5, <1>6, <2>1, <2>2, ViewFacts DEF Touches
    <2> QED BY <1>3, <1>4, <2>3 DEF Changes, m
<1> QED BY <1>7, <1>8

(* Claim, SetState and Retry.                                               *)
LEMMA StatesShow ==
    ASSUME StoreInv, tx.stage = "loaded", OpClaim \/ OpSetState \/ OpRetry
    PROVE  Changes(View(tx.m), tx.m.paused, View(tx'.m), tx'.m.paused)
<1>1. "running" \in States /\ "queued" \in States
    BY DEF States, InFlightStates, Pending
<1>2. CASE OpClaim
    BY <1>1, <1>2, StateShows DEF OpClaim
<1>3. CASE OpSetState
    BY <1>3, StateShows DEF OpSetState
<1>4. CASE OpRetry
    BY <1>1, <1>4, StateShows DEF OpRetry
<1> QED BY <1>2, <1>3, <1>4

(* An intent is not seen.                                                   *)
LEMMA ConvertShows ==
    ASSUME StoreInv, tx.stage = "loaded", OpConvert
    PROVE  Changes(View(tx.m), tx.m.paused, View(tx'.m), tx'.m.paused)
<1>1. PICK id \in Ids(tx.m), intent \in Intents : Stage("convert", ConvertIntent(tx.m, id, intent), {})
    BY DEF OpConvert
<1> DEFINE m == tx.m
           n == ConvertIntent(m, id, intent)
<1>2. tx'.m = n /\ n = ConvertIntent(m, id, intent) /\ WellMade(m, Stem, Body, Runs)
    BY <1>1, LoadedShape DEF Stage, StoreInv, TxTypeOK
<1> HIDE DEF m, n
<1>3. /\ WellMade(n, Stem, Body, Runs) /\ Len(n.items) = Len(m.items) /\ n.paused = m.paused
      /\ \A i \in 1..Len(m.items) :
            n.items[i] = IF m.items[i].id = id THEN [m.items[i] EXCEPT !.intent = intent] ELSE m.items[i]
    BY <1>2, IntentSet
<1>4. Good(m)
    BY <1>2 DEF Good
<1>5. ASSUME NEW i \in 1..Len(m.items) PROVE Seen(n.items[i]) = Seen(m.items[i])
    <2>1. m.items[i] \in Items(Stem, Body, Runs)
        BY <1>4, ViewFacts
    <2> QED BY <1>3, <2>1 DEF Items, Seen
<1>6. View(n) = View(m) /\ n.paused \in BOOLEAN
    BY <1>3, <1>5 DEF View, WellMade
<1> QED BY <1>2, <1>6 DEF Changes, m

(* Pause and resume change the pause alone.                                 *)
LEMMA PausesShow ==
    ASSUME StoreInv, tx.stage = "loaded", OpPause \/ OpResume
    PROVE  Changes(View(tx.m), tx.m.paused, View(tx'.m), tx'.m.paused)
<1>1. PICK op, n : Stage(op, n, {}) /\ (Pausing(n, tx.m) \/ Resuming(n, tx.m))
    BY DEF OpPause, OpResume, Pausing, Resuming
<1>2. tx'.m = n
    BY <1>1 DEF Stage, StoreInv, TxTypeOK
<1>3. WellMade(tx.m, Stem, Body, Runs)
    BY LoadedShape
<1>4. WellMade(n, Stem, Body, Runs) /\ SameItems(n, tx.m)
    BY <1>1, <1>3, PauseFacts, ResumeFacts DEF NowPaused
<1>5. View(n) = View(tx.m) /\ n.paused \in BOOLEAN
    BY <1>4 DEF View, SameItems, WellMade
<1> QED BY <1>2, <1>5 DEF Changes

(* Settling is the queue's recovery.                                        *)
LEMMA SettledShows ==
    ASSUME NEW m, Good(m), NEW n, Good(n), NEW ids \in SUBSET Stem, Settled(n, m, ids)
    PROVE  Settles(View(m), View(n))
<1> DEFINE q == View(m)
           r == [i \in 1..Len(q) |-> IF q[i].id \in ids /\ q[i].status \in Queue!Working
                                     THEN [q[i] EXCEPT !.status = "uncertain"] ELSE q[i]]
<1>1. DOMAIN View(n) = 1..Len(m.items) /\ Len(q) = Len(m.items)
    BY ViewFacts DEF Settled
<1>2. ASSUME NEW i \in 1..Len(m.items) PROVE View(n)[i] = r[i]
    <2>1. /\ View(n)[i] = Seen(n.items[i]) /\ q[i] = Seen(m.items[i])
          /\ m.items[i] \in Items(Stem, Body, Runs)
        BY <1>1, ViewFacts DEF Settled
    <2>2. /\ m.items[i].state \in States /\ q[i].id = m.items[i].id /\ q[i].status = Status(m.items[i].state)
        BY <2>1 DEF Items, Seen
    <2>3. q[i].status \in Queue!Working <=> m.items[i].state \in InFlightStates
        BY <2>2, StatusOf
    <2>4. CASE m.items[i].id \in ids /\ m.items[i].state \in InFlightStates
        <3>1. n.items[i] = [m.items[i] EXCEPT !.state = "uncertain"]
            BY <2>4 DEF Settled
        <3>2. n.items[i].id = m.items[i].id /\ n.items[i].sum = m.items[i].sum
              /\ n.items[i].state = "uncertain"
            BY <2>1, <3>1 DEF Items
        <3>3. View(n)[i] = [q[i] EXCEPT !.status = "uncertain"]
            BY <2>1, <3>2 DEF Seen, Status
        <3> QED BY <1>1, <2>2, <2>3, <2>4, <3>3
    <2>5. CASE ~(m.items[i].id \in ids /\ m.items[i].state \in InFlightStates)
        <3>1. n.items[i] = m.items[i]
            BY <2>5 DEF Settled
        <3> QED BY <1>1, <2>1, <2>2, <2>3, <2>5, <3>1
    <2> QED BY <2>4, <2>5
<1>3. View(n) = r
    BY <1>1, <1>2 DEF View
<1> QED BY <1>3 DEF Settles

(* RecoverOrphanedInFlight.                                                 *)
LEMMA OrphansShow ==
    ASSUME StoreInv, tx.stage = "loaded", OpRecoverOrphans
    PROVE  Changes(View(tx.m), tx.m.paused, View(tx'.m), tx'.m.paused)
<1>1. PICK owned : Stage("orphans", RecoverOrphans(tx.m, owned), {})
    BY DEF OpRecoverOrphans
<1> DEFINE m == tx.m
           n == RecoverOrphans(m, owned)
<1>2. tx'.m = n /\ n = RecoverOrphans(m, owned) /\ WellMade(m, Stem, Body, Runs)
    BY <1>1, LoadedShape DEF Stage, StoreInv, TxTypeOK
<1>3. Ids(m) \ owned \in SUBSET Stem
    BY LoadedShape DEF StoreInv, DiskOK
<1> HIDE DEF m, n
<1>4. WellMade(n, Stem, Body, Runs) /\ OrphansSettled(n, m, owned)
    BY <1>2, OrphansFacts
<1>5. Settled(n, m, Ids(m) \ owned) /\ Good(m) /\ Good(n) /\ n.paused = TRUE
    BY <1>2, <1>4 DEF OrphansSettled, Good
<1>6. Settles(View(m), View(n))
    BY <1>3, <1>5, SettledShows
<1> QED BY <1>2, <1>5, <1>6 DEF Changes, m

(* Filtering what is seen is seeing what is filtered.                       *)
LEMMA FilteredShows ==
    ASSUME NEW m, Good(m), NEW n, Good(n), NEW S \in SUBSET (1..Len(m.items)), n.items = EntriesAt(m.items, S)
    PROVE  View(n) = EntriesAt(View(m), S)
<1>1. m.items \in Seq(Items(Stem, Body, Runs)) /\ S \in SUBSET Nat /\ IsFiniteSet(S)
    <2>1. Len(m.items) \in Nat
        BY ViewFacts
    <2>2. IsFiniteSet(1..Len(m.items))
        <3> DEFINE L == Len(m.items)
        <3>1. 1 \in Int /\ L \in Int
            BY <2>1
        <3> HIDE DEF L
        <3>2. IsFiniteSet(1..L)
            BY <3>1, FS_Interval
        <3> QED BY <3>2 DEF L
    <2>3. S \in SUBSET Nat
        BY <2>1
    <2>4. IsFiniteSet(S)
        BY <2>2, FS_Subset
    <2> QED BY <2>3, <2>4 DEF Good, WellMade
<1> DEFINE f == CHOOSE f \in [1..Cardinality(S) -> S] : InOrder(f, S)
<1>2. f \in [1..Cardinality(S) -> S]
    BY <1>1, PositionsInOrder
<1>3. n.items = [i \in 1..Cardinality(S) |-> m.items[f[i]]]
    BY DEF EntriesAt
<1>4. EntriesAt(View(m), S) = [i \in 1..Cardinality(S) |-> View(m)[f[i]]]
    BY DEF EntriesAt
<1> HIDE DEF f
<1>5. Len(n.items) = Cardinality(S)
    <2>1. Cardinality(S) \in Nat
        BY <1>1, FS_CardinalityType
    <2>2. DOMAIN n.items = 1..Cardinality(S) /\ DOMAIN n.items = 1..Len(n.items) /\ Len(n.items) \in Nat
        BY <1>3, ViewFacts
    <2> QED BY <2>1, <2>2
<1>6. ASSUME NEW i \in 1..Cardinality(S) PROVE Seen(n.items[i]) = View(m)[f[i]]
    <2>1. f[i] \in 1..Len(m.items) /\ n.items[i] = m.items[f[i]]
        BY <1>2, <1>3
    <2> QED BY <2>1, ViewFacts
<1> QED BY <1>4, <1>5, <1>6 DEF View

(* Items leave together if nobody works on them, or alone.                  *)
LEMMA LeaveShows ==
    ASSUME StoreInv, tx.stage = "loaded", NEW ids \in SUBSET Ids(tx.m), NEW old, NEW rs,
           Stage("remove", RemoveItems(tx.m, ids, rs), old), ids # {},
           (\A id \in ids : IsPending(tx.m, id)) \/ (\A x, y \in ids : x = y)
    PROVE  Changes(View(tx.m), tx.m.paused, View(tx'.m), tx'.m.paused)
<1> DEFINE m == tx.m
           n == RemoveItems(m, ids, rs)
           gone == {i \in 1..Len(m.items) : m.items[i].id \in ids}
<1>1. tx'.m = n /\ n = RemoveItems(m, ids, rs) /\ WellMade(m, Stem, Body, Runs)
    BY LoadedShape DEF Stage, StoreInv, TxTypeOK
<1>2. ids \in SUBSET Stem
    BY LoadedShape DEF StoreInv, DiskOK
<1>3. gone # {}
    <2>1. PICK id : id \in ids
        OBVIOUS
    <2> QED BY <2>1, LoadedItem
<1>4. (\A i \in gone : m.items[i].state \in Pending) \/ (\A i, j \in gone : i = j)
    <2>1. CASE \A id \in ids : IsPending(m, id)
        <3>1. ASSUME NEW i \in gone PROVE m.items[i].state \in Pending
            <4>1. PICK h \in 1..Len(m.items) :
                      m.items[h].id = m.items[i].id /\ StateOf(m, m.items[i].id) = m.items[h].state
                BY LoadedItem
            <4>2. h = i
                BY <4>1, LoadedShape
            <4> QED BY <2>1, <4>1, <4>2 DEF IsPending
        <3> QED BY <3>1
    <2>2. CASE \A x, y \in ids : x = y
        BY <2>2, LoadedShape
    <2> QED BY <2>1, <2>2
<1> HIDE DEF m, n
<1>5. WellMade(n, Stem, Body, Runs) /\ LeftWithout(n, m, ids)
    BY <1>1, Removed
<1>6. Good(m) /\ Good(n)
    BY <1>1, <1>5 DEF Good
<1>7. /\ n.items = EntriesAt(m.items, (1..Len(m.items)) \ gone)
      /\ n.paused = (m.paused /\ n.items # <<>>)
    <2>1. {i \in 1..Len(m.items) : m.items[i].id \notin ids} = (1..Len(m.items)) \ gone
        OBVIOUS
    <2> QED BY <1>5, <2>1 DEF LeftWithout
<1>8. View(n) = EntriesAt(View(m), (1..Len(m.items)) \ gone)
    BY <1>6, <1>7, FilteredShows
<1>9. View(n) # <<>> <=> n.items # <<>>
    <2>1. /\ View(n) \in Seq(Entry) /\ n.items \in Seq(Items(Stem, Body, Runs)) /\ Len(View(n)) = Len(n.items)
        BY <1>6, ViewFacts DEF Good, WellMade
    <2> QED BY <2>1
<1>10. gone = {i \in 1..Len(View(m)) : View(m)[i].id \in ids} /\ Len(View(m)) = Len(m.items)
    BY <1>6, ViewFacts
<1>11. (\A i \in gone : Free(View(m)[i])) \/ (\A i, j \in gone : i = j)
    <2>1. ASSUME NEW i \in gone, m.items[i].state \in Pending PROVE Free(View(m)[i])
        <3>1. View(m)[i].status = Status(m.items[i].state) /\ m.items[i].state \in States
            BY <1>6, <2>1, ViewFacts DEF States
        <3> QED BY <2>1, <3>1, StatusOf DEF Free
    <2> QED BY <1>4, <2>1
<1> HIDE DEF gone
<1>12. Leaves(View(m), m.paused, View(n), n.paused)
    BY <1>2, <1>3, <1>7, <1>8, <1>9, <1>10, <1>11 DEF Leaves
<1> QED BY <1>1, <1>12 DEF Changes, m

(* Discard and Ack.                                                         *)
LEMMA RemovesShow ==
    ASSUME StoreInv, tx.stage = "loaded", OpRemove \/ OpAck
    PROVE  Changes(View(tx.m), tx.m.paused, View(tx'.m), tx'.m.paused)
<1>1. CASE OpRemove
    <2>1. PICK ids \in SUBSET Ids(tx.m) :
              CanDiscard(tx.m, ids) /\ \E old, rs : Stage("remove", RemoveItems(tx.m, ids, rs), old)
        BY <1>1 DEF OpRemove
    <2>2. PICK old, rs : Stage("remove", RemoveItems(tx.m, ids, rs), old)
        BY <2>1
    <2>3. ids # {} /\ \A id \in ids : IsPending(tx.m, id)
        BY <2>1 DEF CanDiscard
    <2> QED BY <2>2, <2>3, LeaveShows
<1>2. CASE OpAck
    <2>1. PICK id \in Ids(tx.m) : \E old, rs : Stage("remove", RemoveItems(tx.m, {id}, rs), old)
        BY <1>2 DEF OpAck
    <2>2. PICK old, rs : Stage("remove", RemoveItems(tx.m, {id}, rs), old)
        BY <2>1
    <2>3. PICK ids \in SUBSET Ids(tx.m) : ids = {id}
        OBVIOUS
    <2>4. Stage("remove", RemoveItems(tx.m, ids, rs), old) /\ ids # {} /\ \A x, y \in ids : x = y
        BY <2>2, <2>3
    <2> QED BY <2>4, LeaveShows
<1> QED BY <1>1, <1>2

(* An item that waits goes to another place.                                *)
LEMMA MoveShows ==
    ASSUME StoreInv, tx.stage = "loaded", OpMove
    PROVE  Changes(View(tx.m), tx.m.paused, View(tx'.m), tx'.m.paused)
<1>1. PICK id \in Ids(tx.m), to \in 1..Len(tx.m.items) :
          IsPending(tx.m, id) /\ Stage("move", MoveItem(tx.m, id, to), {})
    BY DEF OpMove
<1>2. PICK j \in 1..Len(tx.m.items) : tx.m.items[j].id = id /\ StateOf(tx.m, id) = tx.m.items[j].state
    BY LoadedItem
<1> DEFINE m == tx.m
           n == MoveItem(m, m.items[j].id, to)
<1>3. /\ tx'.m = n /\ n = MoveItem(m, m.items[j].id, to) /\ WellMade(m, Stem, Body, Runs)
      /\ m.items[j].state \in Pending /\ j \in 1..Len(m.items) /\ to \in 1..Len(m.items)
    BY <1>1, <1>2, LoadedShape DEF Stage, StoreInv, TxTypeOK, IsPending
<1> HIDE DEF m, n
<1>4. WellMade(n, Stem, Body, Runs) /\ Reordered(n, m, j, to)
    BY <1>3, Moved
<1>5. Good(m) /\ Good(n) /\ Len(n.items) = Len(m.items) /\ n.paused = m.paused
      /\ n.items = InsertAt(RemoveAt(m.items, j), to, m.items[j])
    BY <1>3, <1>4 DEF Good, Reordered
<1> DEFINE q == View(m)
           L == Len(m.items)
           r == RemoveAt(m.items, j)
           t == RemoveAt(q, j)
<1>6. /\ r \in Seq(Items(Stem, Body, Runs)) /\ Len(r) = L - 1
      /\ \A k \in 1..(L - 1) : r[k] = IF k < j THEN m.items[k] ELSE m.items[k + 1]
    <2>1. m.items \in Seq(Items(Stem, Body, Runs)) /\ j \in 1..Len(m.items)
        BY <1>3 DEF WellMade
    <2> QED BY <2>1, EntryRemoved
<1>7. /\ q \in Seq(Entry) /\ Len(q) = L /\ L \in Nat /\ q[j] \in Entry
      /\ \A i \in 1..L : q[i] = Seen(m.items[i]) /\ View(n)[i] = Seen(n.items[i])
      /\ DOMAIN View(n) = 1..L /\ m.items[j] \in Items(Stem, Body, Runs)
    BY <1>3, <1>5, ViewFacts
<1>8. /\ t \in Seq(Entry) /\ Len(t) = L - 1
      /\ \A k \in 1..(L - 1) : t[k] = IF k < j THEN q[k] ELSE q[k + 1]
    <2>1. q \in Seq(Entry) /\ j \in 1..Len(q)
        BY <1>3, <1>7
    <2> HIDE DEF q
    <2> QED BY <1>7, <2>1, EntryRemoved
<1> HIDE DEF q, r, t
<1>9. HasInserted(n.items, r, to, m.items[j])
    <2>1. r \in Seq(Items(Stem, Body, Runs)) /\ to \in 1..(Len(r) + 1)
          /\ m.items[j] \in Items(Stem, Body, Runs)
        BY <1>3, <1>6, <1>7
    <2>2. HasInserted(InsertAt(r, to, m.items[j]), r, to, m.items[j])
        BY <2>1, EntryInserted
    <2> QED BY <1>5, <2>2 DEF r
<1>10. /\ InsertAt(t, to, q[j]) \in Seq(Entry) /\ HasInserted(InsertAt(t, to, q[j]), t, to, q[j])
    <2>1. t \in Seq(Entry) /\ to \in 1..(Len(t) + 1) /\ q[j] \in Entry
        BY <1>3, <1>7, <1>8
    <2> QED BY <2>1, EntryInserted
<1>11. ASSUME NEW i \in 1..L PROVE View(n)[i] = InsertAt(t, to, q[j])[i]
    <2>1. n.items[i] = IF i < to THEN r[i] ELSE IF i = to THEN m.items[j] ELSE r[i - 1]
        BY <1>6, <1>7, <1>9 DEF HasInserted
    <2>2. InsertAt(t, to, q[j])[i] = IF i < to THEN t[i] ELSE IF i = to THEN q[j] ELSE t[i - 1]
        BY <1>7, <1>8, <1>10 DEF HasInserted
    <2>3. ASSUME NEW k \in 1..(L - 1) PROVE t[k] = Seen(r[k])
        <3>1. k \in 1..L /\ k + 1 \in 1..L
            BY <1>7
        <3>2. q[k] = Seen(m.items[k]) /\ q[k + 1] = Seen(m.items[k + 1])
            BY <1>7, <3>1
        <3> QED BY <1>6, <1>8, <3>2
    <2>4. i < to => i \in 1..(L - 1)
        BY <1>3, <1>7
    <2>5. i > to => i - 1 \in 1..(L - 1)
        BY <1>3, <1>7
    <2>6. View(n)[i] = Seen(n.items[i]) /\ q[j] = Seen(m.items[j])
        BY <1>3, <1>7
    <2>7. CASE i < to
        BY <2>1, <2>2, <2>3, <2>4, <2>6, <2>7
    <2>8. CASE i = to
        BY <2>1, <2>2, <2>6, <2>8
    <2>9. CASE i > to
        BY <1>3, <2>1, <2>2, <2>3, <2>5, <2>6, <2>9
    <2> QED BY <1>3, <1>7, <2>7, <2>8, <2>9
<1>12. View(n) = InsertAt(t, to, q[j])
    <2>1. Len(InsertAt(t, to, q[j])) = L
        BY <1>7, <1>8, <1>10 DEF HasInserted
    <2>2. DOMAIN InsertAt(t, to, q[j]) = 1..L
        BY <1>10, <2>1
    <2>3. InsertAt(t, to, q[j]) = [i \in 1..L |-> InsertAt(t, to, q[j])[i]]
        BY <1>10, <2>1
    <2>4. View(n) = [i \in 1..L |-> View(n)[i]]
        BY <1>7 DEF View
    <2> QED BY <1>11, <2>3, <2>4
<1>13. Free(q[j])
    <2>1. q[j].status = Status(m.items[j].state) /\ m.items[j].state \in States
        BY <1>3, <1>5, ViewFacts DEF q, States
    <2> QED BY <1>3, <2>1, StatusOf DEF Free
<1>14. Touches(View(m), m.paused, View(n), j) /\ j \in 1..Len(View(m))
    BY <1>3, <1>7, <1>12, <1>13 DEF Touches, q, t
<1> QED BY <1>3, <1>5, <1>14 DEF Changes, m

-----------------------------------------------------------------------------
(* At first nothing is staged.                                              *)
LEMMA QueueInit == Init => QueueOK
    BY NoTxFacts DEF Init, QueueOK

(* An operation stages a manifest one step from what the disk shows.        *)
LEMMA OperateShows ==
    ASSUME StoreInv, QueueOK, Operate
    PROVE  QueueOK'
<1>1. tx.stage = "loaded"
    BY DEF Operate
<1>2. Changes(View(tx.m), tx.m.paused, View(tx'.m), tx'.m.paused)
    BY <1>1, EnqueueShows, UpdateShows, RemovesShow, MoveShows, PausesShow, StatesShow, ConvertShows,
       OrphansShow
    DEF Operate
<1>3. View(tx.m) = Shown /\ tx.m.paused = ShownPaused
    BY <1>1, LoadedIsShown
<1>4. file' = file /\ man' = man /\ tx'.stage \in {"write", "commit"}
    BY <1>1 DEF Operate, OpEnqueue, OpUpdate, OpRemove, OpAck, OpMove, OpPause, OpResume,
                OpClaim, OpSetState, OpConvert, OpRetry, OpRecoverOrphans, Stage, StageWithBlob, disk,
                StoreInv, TxTypeOK
<1>5. Shown' = Shown /\ ShownPaused' = ShownPaused /\ View(tx.m)' = View(tx'.m)
    BY <1>4 DEF Shown, ShownPaused, View, Seen
<1>6. Changes(Shown, ShownPaused, View(tx'.m), tx'.m.paused)
    BY <1>2, <1>3
<1>7. Changes(Shown, ShownPaused, View(tx.m), tx.m.paused)'
    BY <1>5, <1>6
<1> QED BY <1>4, <1>7 DEF QueueOK

(* A load finds an empty queue, or the one the disk shows.                  *)
LEMMA BeginShows == ASSUME StoreInv, NEW p \in Proc, Begin(p) PROVE QueueOK'
<1>1. CASE /\ file = "corrupt"
           /\ \E n : tx' = [NoTx EXCEPT !.proc = p, !.stage = "salvage", !.m = n]
    <2>1. tx'.stage = "salvage"
        BY <1>1, BegunFields
    <2> QED BY <2>1 DEF QueueOK
<1>2. CASE file = "missing" /\ file' = file /\
           tx' = [NoTx EXCEPT !.proc = p, !.stage = "loaded", !.m = EmptyManifest(runOf[p])]
    <2>1. tx'.stage = "loaded" /\ tx'.m = EmptyManifest(runOf[p])
        BY <1>2, BegunFields
    <2>2. tx'.m.paused = FALSE
        BY <2>1 DEF EmptyManifest
    <2> QED BY <2>1, <2>2 DEF QueueOK
<1>3. CASE file = "ok" /\ file' = file /\ man' = man /\
           tx' = [NoTx EXCEPT !.proc = p, !.stage = "recover", !.m = Recovered(man, runOf[p])]
    <2>1. tx'.stage = "recover" /\ tx'.m = Recovered(man, runOf[p])
        BY <1>3, BegunFields
    <2>2. runOf[p] \in Runs /\ WellMade(man, Stem, Body, Runs)
        BY DEF StoreInv, DiskOK, Good
    <2> DEFINE n == tx'.m
               r == runOf[p]
    <2>3. n = Recovered(man, r) /\ r \in Runs
        BY <2>1, <2>2
    <2> HIDE DEF n, r
    <2>4. n.paused = TRUE /\ Settled(n, man, Ids(man))
        BY <2>2, <2>3, RecoveredFacts
    <2>5. Settled(tx.m, man, Ids(man))'
        BY <1>3, <2>4 DEF n
    <2> QED BY <1>3, <2>1, <2>4, <2>5 DEF QueueOK, n
<1>4. CASE file = "ok" /\ file' = file /\
           tx' = [NoTx EXCEPT !.proc = p, !.stage = "loaded", !.m = [man EXCEPT !.run = runOf[p]]]
    <2>1. tx'.stage = "loaded"
        BY <1>4, BegunFields
    <2> QED BY <1>4, <2>1 DEF QueueOK
<1> QED BY <1>1, <1>2, <1>3, <1>4 DEF Begin

(* The invariant of the staged manifest is kept by every step.              *)
LEMMA QueueNext == StoreInv /\ QueueOK /\ [Next]_vars => QueueOK'
<1> SUFFICES ASSUME StoreInv, QueueOK, [Next]_vars PROVE QueueOK'
    OBVIOUS
<1>1. CASE tx' = NoTx
    BY <1>1, NoTxFacts DEF QueueOK
<1>2. CASE tx' = tx /\ file' = file /\ man' = man
    <2>1. Shown' = Shown /\ ShownPaused' = ShownPaused /\ View(tx.m)' = View(tx.m)
        BY <1>2 DEF Shown, ShownPaused, View, Seen
    <2>2. tx.stage \in {"write", "commit"} => Changes(Shown, ShownPaused, View(tx.m), tx.m.paused)'
        BY <1>2, <2>1 DEF QueueOK
    <2>3. tx.stage = "recover" => Settled(tx.m, man, Ids(man))'
        BY <1>2 DEF QueueOK
    <2> QED BY <1>2, <2>2, <2>3 DEF QueueOK
<1>3. CASE CommitLoad
    <2>1. tx'.stage = "loaded" /\ file' = "ok"
        BY <1>3 DEF CommitLoad, WriteManifest, StoreInv, TxTypeOK
    <2> QED BY <2>1 DEF QueueOK
<1>4. CASE CommitManifest
    <2>1. tx'.stage = "cleanup"
        BY <1>4 DEF CommitManifest, NoTx
    <2> QED BY <2>1 DEF QueueOK
<1>5. CASE WriteBlob
    <2>1. tx'.stage = "commit" /\ tx'.m = tx.m /\ file' = file /\ man' = man /\ tx.stage = "write"
        BY <1>5 DEF WriteBlob, StoreInv, TxTypeOK
    <2>2. Shown' = Shown /\ ShownPaused' = ShownPaused /\ View(tx.m)' = View(tx.m)
        BY <2>1 DEF Shown, ShownPaused, View, Seen
    <2>3. Changes(Shown, ShownPaused, View(tx.m), tx.m.paused)'
        BY <2>1, <2>2 DEF QueueOK
    <2> QED BY <2>1, <2>3 DEF QueueOK
<1>6. ASSUME NEW p \in Proc, Crash(p) PROVE QueueOK'
    BY <1>1, <1>2, <1>6 DEF Crash, disk
<1>7. CASE Unlock \/ Cleanup \/ WriteFails
    BY <1>1, <1>7 DEF Unlock, Cleanup, WriteFails
<1>8. CASE CorruptManifest
    BY <1>1, <1>8 DEF CorruptManifest
<1>9. CASE UNCHANGED vars
    BY <1>2, <1>9 DEF vars, disk
<1>10. CASE ReceiptsExpire
    BY <1>1, <1>10 DEF ReceiptsExpire
<1> QED BY <1>3, <1>4, <1>5, <1>6, <1>7, <1>8, <1>9, <1>10, BeginShows, OperateShows DEF Next

(* The two specifications filter and move entries alike.                    *)
LEMMA SameHelpers ==
    /\ \A q, S : Queue!EntriesAt(q, S) = EntriesAt(q, S)
    /\ \A q, i : Queue!RemoveAt(q, i) = RemoveAt(q, i)
    /\ \A q, i, e : Queue!InsertAt(q, i, e) = InsertAt(q, i, e)
<1>1. ASSUME NEW q, NEW S PROVE Queue!EntriesAt(q, S) = EntriesAt(q, S)
    BY DEF Queue!EntriesAt, EntriesAt, Queue!InOrder, InOrder, Queue!Cardinality, Cardinality
<1>2. ASSUME NEW q, NEW i, NEW e
      PROVE  Queue!RemoveAt(q, i) = RemoveAt(q, i) /\ Queue!InsertAt(q, i, e) = InsertAt(q, i, e)
    BY DEF Queue!RemoveAt, RemoveAt, Queue!InsertAt, InsertAt
<1> QED BY <1>1, <1>2

(* What the abstract queue's variables are mapped to.                       *)
MappedQueue == IF Intact THEN [i \in DOMAIN man.items |-> Visible(man.items[i])] ELSE <<>>

(* It is what the disk shows.                                               *)
LEMMA MappedIsShown == StoreInv /\ corruptions = 0 => MappedQueue = Shown
<1> SUFFICES ASSUME StoreInv, corruptions = 0 PROVE MappedQueue = Shown
    OBVIOUS
<1>1. CASE file = "ok"
    <2>1. DOMAIN man.items = 1..Len(man.items)
        BY ViewFacts DEF StoreInv, DiskOK
    <2>2. \A i \in 1..Len(man.items) : Visible(man.items[i]) = Seen(man.items[i])
        BY <1>1 DEF StoreInv, DiskOK, BodiesIn, Visible, Seen
    <2> QED BY <1>1, <2>1, <2>2 DEF Shown, View, MappedQueue, Intact
<1> QED BY <1>1 DEF Shown, MappedQueue, Intact

(* A change of what is shown is a step of the abstract queue.               *)
LEMMA ChangeIsStep ==
    /\ StoreInv /\ StoreInv' /\ corruptions = 0 /\ (corruptions = 0)'
    /\ Changes(Shown, ShownPaused, Shown', ShownPaused')
    => Queue!QStep
<1>1. (StoreInv /\ corruptions = 0)' => (MappedQueue = Shown)'
    BY MappedIsShown, PTL
<1> SUFFICES ASSUME StoreInv, StoreInv', corruptions = 0, corruptions' = 0,
                    Changes(Shown, ShownPaused, Shown', ShownPaused')
             PROVE  Queue!QStep
    OBVIOUS
<1> DEFINE q == MappedQueue
           p == Intact /\ man.paused
<1>2. q = Shown /\ q' = Shown' /\ p = ShownPaused /\ p' = ShownPaused'
    BY <1>1, MappedIsShown DEF ShownPaused, Intact
<1>3. Shown \in Seq(Entry) /\ ShownPaused \in BOOLEAN /\ ShownPaused' \in BOOLEAN
    BY ViewFacts DEF StoreInv, DiskOK, Shown, ShownPaused, Good, WellMade
<1>4. q \in Seq(Entry) /\ p \in BOOLEAN /\ p' \in BOOLEAN /\ Changes(q, p, q', p')
    BY <1>2, <1>3
<1>5. DOMAIN q = 1..Len(q) /\ Len(q) \in Nat
    BY <1>4
<1>6. CASE q' = q
    <2>1. \E b \in BOOLEAN : Queue!Pause(b)
        BY <1>4, <1>6 DEF Queue!Pause, MappedQueue
    <2> QED BY <2>1 DEF Queue!QStep
<1>7. CASE Accepts(q, q') /\ p' = p
    <2>1. PICK id \in Stem, text \in Body :
              /\ Len(q) < MaxItems /\ \A i \in 1..Len(q) : q[i].id # id
              /\ q' = Append(q, [id |-> id, text |-> text, status |-> "waiting"])
        BY <1>7 DEF Accepts
    <2>2. Queue!Accept(id, text)
        BY <1>5, <1>7, <2>1 DEF Queue!Accept, MappedQueue
    <2> QED BY <2>2 DEF Queue!QStep
<1>8. CASE Leaves(q, p, q', p')
    <2>1. PICK ids \in SUBSET Stem : \E gone :
              /\ gone = {i \in 1..Len(q) : q[i].id \in ids} /\ gone # {}
              /\ (\A i \in gone : Free(q[i])) \/ (\A i, j \in gone : i = j)
              /\ q' = EntriesAt(q, (1..Len(q)) \ gone)
              /\ p' = (p /\ q' # <<>>)
        BY <1>8 DEF Leaves
    <2>2. PICK gone :
              /\ gone = {i \in 1..Len(q) : q[i].id \in ids} /\ gone # {}
              /\ (\A i \in gone : Free(q[i])) \/ (\A i, j \in gone : i = j)
              /\ q' = EntriesAt(q, (1..Len(q)) \ gone)
              /\ p' = (p /\ q' # <<>>)
        BY <2>1
    <2>3. Queue!Leave(ids)
        <3>1. {i \in DOMAIN q : q[i].id \in ids} = gone
            BY <1>5, <2>2
        <3>2. q' = EntriesAt(q, DOMAIN q \ gone)
            BY <1>5, <2>2
        <3>3. (\A i \in gone : Queue!Removable(q[i])) \/ (\A i, j \in gone : i = j)
            BY <2>2 DEF Queue!Removable, Free
        <3>4. gone # {} /\ p' = (p /\ q' # <<>>)
            BY <2>2
        <3> QED BY <3>1, <3>2, <3>3, <3>4, SameHelpers DEF Queue!Leave, MappedQueue
    <2> QED BY <2>3 DEF Queue!QStep
<1>9. CASE Settles(q, q') /\ p' = TRUE
    <2>1. PICK ids \in SUBSET Stem :
              q' = [i \in 1..Len(q) |-> IF q[i].id \in ids /\ q[i].status \in Queue!Working
                                        THEN [q[i] EXCEPT !.status = "uncertain"] ELSE q[i]]
        BY <1>9 DEF Settles
    <2>2. Queue!Recover(ids)
        BY <1>5, <1>9, <2>1 DEF Queue!Recover, MappedQueue
    <2> QED BY <2>2 DEF Queue!QStep
<1>10. CASE p' = p /\ \E i \in 1..Len(q) : Touches(q, p, q', i)
    <2>1. PICK i \in 1..Len(q) : Touches(q, p, q', i)
        BY <1>10
    <2>2. i \in DOMAIN q /\ p' = p
        BY <1>5, <1>10
    <2>3. CASE p = FALSE /\ q[i].status = "waiting" /\ q' = [q EXCEPT ![i].status = "running"]
        <3>1. Queue!Start(i)
            BY <2>2, <2>3 DEF Queue!Start, MappedQueue
        <3> QED BY <2>2, <3>1 DEF Queue!QStep, MappedQueue
    <2>4. ASSUME NEW text \in Body, Free(q[i]), q' = [q EXCEPT ![i].text = text] PROVE Queue!QStep
        <3>1. Queue!Edit(i, text)
            BY <2>2, <2>4 DEF Queue!Edit, Queue!Removable, Free, MappedQueue
        <3> QED BY <2>2, <3>1 DEF Queue!QStep, MappedQueue
    <2>5. ASSUME NEW to \in 1..Len(q), Free(q[i]), q' = InsertAt(RemoveAt(q, i), to, q[i]) PROVE Queue!QStep
        <3>1. Queue!Move(i, to)
            BY <2>2, <2>5, SameHelpers DEF Queue!Move, Queue!Removable, Free, MappedQueue
        <3>2. to \in DOMAIN q
            BY <1>5
        <3> QED BY <2>2, <3>1, <3>2 DEF Queue!QStep, MappedQueue
    <2>6. ASSUME NEW s \in Queue!Statuses, s # "running", q' = [q EXCEPT ![i].status = s] PROVE Queue!QStep
        <3>1. Queue!Mark(i, s)
            BY <2>2, <2>6 DEF Queue!Mark, MappedQueue
        <3> QED BY <2>2, <3>1 DEF Queue!QStep, MappedQueue
    <2> QED BY <2>1, <2>3, <2>4, <2>5, <2>6 DEF Touches
<1> QED BY <1>4, <1>6, <1>7, <1>8, <1>9, <1>10 DEF Changes

(* Every step of the store changes what its readers see in one step of the  *)
(* queue, or not at all, as long as nothing damages the manifest.           *)
LEMMA StepsShow ==
    StoreInv /\ StoreInv' /\ QueueOK /\ corruptions = 0 /\ (corruptions = 0)' /\ [Next]_vars
    => Changes(Shown, ShownPaused, Shown', ShownPaused')
<1> SUFFICES ASSUME StoreInv, StoreInv', QueueOK, corruptions = 0, corruptions' = 0, [Next]_vars
             PROVE  Changes(Shown, ShownPaused, Shown', ShownPaused')
    OBVIOUS
<1>1. file # "corrupt" /\ tx.stage # "salvage"
    BY DEF StoreInv, DiskOK
<1>2. CASE CommitManifest
    <2>1. tx.stage = "commit" /\ Changes(Shown, ShownPaused, View(tx.m), tx.m.paused)
        BY <1>2 DEF CommitManifest, QueueOK
    <2>2. file' = "ok" /\ man' = tx.m
        BY <1>2 DEF CommitManifest, WriteManifest
    <2>3. Shown' = View(tx.m) /\ ShownPaused' = tx.m.paused
        BY <2>2 DEF Shown, ShownPaused, View, Seen, StoreInv, TxTypeOK, Good, WellMade
    <2> QED BY <2>1, <2>3
<1>3. CASE CommitLoad
    <2>1. tx.stage = "recover" /\ file' = "ok" /\ man' = tx.m
        BY <1>1, <1>3 DEF CommitLoad, WriteManifest
    <2>2. file = "ok" /\ tx.m.paused = TRUE /\ Settled(tx.m, man, Ids(man)) /\ Good(man) /\ Good(tx.m)
        BY <2>1 DEF QueueOK, StoreInv, DiskOK, TxTypeOK
    <2>3. Ids(man) \in SUBSET Stem
        BY <2>2, ManifestOK DEF StoreInv, DiskOK
    <2>4. Settles(View(man), View(tx.m))
        BY <2>2, <2>3, SettledShows
    <2>5. Shown = View(man) /\ Shown' = View(tx.m) /\ ShownPaused' = TRUE
        BY <2>1, <2>2 DEF Shown, ShownPaused, View, Seen
    <2> QED BY <2>4, <2>5 DEF Changes
<1>4. CASE file' = file /\ man' = man
    <2>1. Shown' = Shown /\ ShownPaused' = ShownPaused /\ ShownPaused \in BOOLEAN
        BY <1>4 DEF Shown, ShownPaused, View, Seen
    <2> QED BY <2>1 DEF Changes
<1>5. ~CorruptManifest
    BY DEF CorruptManifest
<1>9. CASE ReceiptsExpire
    <2>1. Shown' = Shown /\ ShownPaused' = ShownPaused /\ ShownPaused \in BOOLEAN
        BY <1>9, ExpiryFacts DEF Shown, ShownPaused, View, Seen
    <2> QED BY <2>1 DEF Changes
<1>6. ASSUME NEW p \in Proc, Begin(p) PROVE file' = file /\ man' = man
    BY <1>1, <1>6 DEF Begin
<1>7. Next /\ ~CommitManifest /\ ~CommitLoad /\ ~ReceiptsExpire => file' = file /\ man' = man
    BY <1>5, <1>6 DEF Next, Crash, Operate, OpEnqueue, OpUpdate, OpRemove, OpAck, OpMove, OpPause, OpResume,
           OpClaim, OpSetState, OpConvert, OpRetry, OpRecoverOrphans, Stage, StageWithBlob,
           Unlock, WriteBlob, Cleanup, WriteFails, disk
<1>8. CASE UNCHANGED vars
    BY <1>4, <1>8 DEF vars, disk
<1> QED BY <1>2, <1>3, <1>4, <1>7, <1>8, <1>9

(* Every step of the store is a step of the queue: of its operations while  *)
(* the manifest is intact, then the damage, and nothing after it.           *)
LEMMA StepsRefine ==
    StoreInv /\ StoreInv' /\ QueueOK /\ [Next]_vars => [Queue!QNext]_(Queue!qvars)
<1> SUFFICES ASSUME StoreInv, StoreInv', QueueOK, [Next]_vars PROVE [Queue!QNext]_(Queue!qvars)
    OBVIOUS
<1>1. corruptions \in Nat /\ corruptions' \in Nat
    BY DEF StoreInv, DiskOK
<1>2. corruptions' = corruptions \/ CorruptManifest
    BY DEF Next, Begin, CommitLoad, Operate, OpEnqueue, OpUpdate, OpRemove, OpAck, OpMove, OpPause, OpResume,
           OpClaim, OpSetState, OpConvert, OpRetry, OpRecoverOrphans, Stage, StageWithBlob, Crash,
           Unlock, WriteBlob, CommitManifest, Cleanup, WriteFails, ReceiptsExpire, vars, faults
<1>3. CASE corruptions = 0 /\ corruptions' = 0
    <2>1. Queue!QStep
        BY <1>3, StepsShow, ChangeIsStep
    <2> QED BY <1>3, <2>1 DEF Queue!QNext
<1>4. CASE corruptions = 0 /\ corruptions' # 0
    BY <1>1, <1>4 DEF Queue!QNext, Queue!Damage, Intact
<1>5. CASE corruptions > 0
    <2>1. corruptions' > 0
        BY <1>1, <1>2, <1>5 DEF CorruptManifest
    <2> QED BY <1>5, <2>1 DEF Queue!qvars, Intact
<1> QED BY <1>1, <1>3, <1>4, <1>5

(* QueueOK holds in every state of the store.                               *)
THEOREM StagedIsOneStep == Spec => []QueueOK
    BY QueueInit, QueueNext, StoreIsInductive, PTL DEF Spec

(* The multi-step transactions of any number of processes, cut short by     *)
(* crashes and failing writes, appear to every reader as the atomic         *)
(* operations of a durable queue, until the manifest is damaged on disk.    *)
THEOREM StoreImplementsQueue == Spec => ImplementsDurableQueue
<1>1. Init => Queue!QInit
    BY DEF Init, Queue!QInit, Intact
<1> QED BY <1>1, StepsRefine, StoreIsInductive, StagedIsOneStep, PTL
    DEF Spec, ImplementsDurableQueue, Queue!QSpec
=============================================================================
