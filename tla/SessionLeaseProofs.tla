------------------------- MODULE SessionLeaseProofs -------------------------
(***************************************************************************)
(* Theorems about SessionLease, for any processes, attempts, platforms,    *)
(* plans and bounds.  Everything rests on one inductive invariant: which   *)
(* locks an attempt or a save holds is told by the step it is at, two      *)
(* locks are never on one inode, and as long as no lock was granted on a   *)
(* file that had lost its name, whoever has not yet removed its file has   *)
(* it under its name.  A remove by path on Windows counts as an orphan as  *)
(* soon as the file it takes the name of is locked.                        *)
(***************************************************************************)
EXTENDS SessionLease, FiniteSetTheorems, TLAPS

(* The steps at which an attempt has each lock file open, and locked.       *)
LeaseLocked == Holding \cup {"unlock", "gunlock"}
LeaseOpened == LeaseLocked \cup {"lock"}
SaveLocked == {"guard", "abort", "gremove", "gclear", "staleremove", "staleunlock"}
SaveOpened == SaveLocked \cup {"convert", "gsavelock", "stalelock"}

StepsLocked(f) == IF f = "lease" THEN LeaseLocked ELSE SaveLocked
StepsOpened(f) == IF f = "lease" THEN LeaseOpened ELSE SaveOpened

(* Descriptors and locks follow the steps of their agents.                  *)
LeasesTracked ==
    \A l \in Lease, f \in File :
        /\ fd[l][f] # NoFile <=> lease[l].pc \in StepsOpened(f)
        /\ <<l, f>> \in held <=> lease[l].pc \in StepsLocked(f)
SaversTracked ==
    \A p \in Proc :
        /\ fd[p]["lease"] = NoFile /\ <<p, "lease">> \notin held
        /\ fd[p]["save"] # NoFile <=> saver[p].pc # "off"
        /\ <<p, "save">> \in held <=> saver[p].pc \in {"begin", "write", "unlock"}

(* A lock is on an open file, and the operating system grants the lock of   *)
(* an inode once.                                                           *)
LocksExclusive ==
    /\ \A a \in Agent, f \in File : <<a, f>> \in held => fd[a][f] # NoFile
    /\ \A a, b \in Agent, f \in File :
          <<a, f>> \in held /\ <<b, f>> \in held /\ fd[a][f] = fd[b][f] => a = b

(* Steps at which an attempt has removed a file it still has locked.        *)
Removed(f) == IF f = "lease" THEN {"unlock", "gunlock"} ELSE {"gclear", "staleunlock"}
Kept(a, f) == <<a, f>> \in held /\ ~(a \in Lease /\ lease[a].pc \in Removed(f))

(* Without orphans, a locked file has its name until its holder removes it; *)
(* on Windows, before any fallback, every open file has.                    *)
LockedIsNamed ==
    ~orphaned => \A a \in Agent, f \in File : Kept(a, f) => fd[a][f] = name[f]
WindowsNamed ==
    platform = "windows" /\ ~fellback =>
        /\ ~orphaned
        /\ \A a \in Agent, f \in File : fd[a][f] # NoFile => fd[a][f] = name[f]

(* Steps at which an attempt may be registered as active or as owner, and   *)
(* steps before it is released.                                             *)
ActiveSteps == {"held", "convert", "revoke", "dropped"}
OwnerSteps == {"open", "lock", "publish", "activate", "held", "convert", "guard", "revoke",
               "unreserve", "dropped"}
EarlySteps == {"new", "open", "lock", "publish", "activate", "held", "convert", "dropped"}

(* The registries name attempts of their own process that are under way.    *)
ActiveTracked ==
    \A p \in Proc : active[p] # NoLease =>
        /\ ProcOf[active[p]] = p
        /\ lease[active[p]].pc \in ActiveSteps
OwnersTracked ==
    \A p \in Proc : owners[p] # NoLease =>
        /\ ProcOf[owners[p]] = p /\ lease[owners[p]].mode \in {"acquire", "reclaim"}
        /\ lease[owners[p]].pc \in OwnerSteps

(* A lease is marked released from the moment Release or a conversion       *)
(* decides, and not before.                                                 *)
ReleasedTracked ==
    \A l \in Lease :
        /\ lease[l].pc \in EarlySteps => ~lease[l].released
        /\ lease[l].pc = "revoke" => lease[l].released

(* activeSaves counts the save that writes under the lease, if any.         *)
SavesCounted ==
    /\ \A p \in Proc : Writing(p) =>
          /\ saver[p].lease \in Lease /\ ProcOf[saver[p].lease] = p
          /\ lease[saver[p].lease].pc # "new"
    /\ \A l \in Lease :
          lease[l].saves = IF Writing(ProcOf[l]) /\ saver[ProcOf[l]].lease = l THEN 1 ELSE 0

(* A save without orphans writes under a lease that nobody has given up.    *)
WriterHolds ==
    \A p \in Proc : Writing(p) /\ ~orphaned => lease[saver[p].lease].pc \in {"held", "convert"}

LeaseInv ==
    /\ LTypeOK /\ LeasesTracked /\ SaversTracked /\ LocksExclusive /\ LockedIsNamed /\ WindowsNamed
    /\ ActiveTracked /\ OwnersTracked /\ ReleasedTracked /\ SavesCounted
    /\ WriterHolds /\ ParkedReleaseHasWaker

LeaseRecord == [pc : Steps, mode : AllModes \cup {"none"}, released : BOOLEAN,
                gen : 0..MaxGen, cur : 0..MaxGen, saves : 0..1, chan : BOOLEAN]

(***************************************************************************)
(* The shape of an attempt's step, for the lemmas: where it goes, what the *)
(* registries may do, that it leaves no save behind, and the files it      *)
(* leaves alone.                                                           *)
(***************************************************************************)
(* An attempt goes to a step, and is released from then on or not.          *)
Moved(l, s, r) ==
    /\ lease' \in [Lease -> LeaseRecord]
    /\ \A k \in Lease : k # l => lease'[k] = lease[k]
    /\ lease'[l].pc = s /\ lease'[l].released = r
    /\ lease'[l].mode = lease[l].mode /\ lease'[l].gen = lease[l].gen
    /\ lease'[l].saves = lease[l].saves /\ lease'[l].chan = lease[l].chan

Registers(l, s) ==
    /\ owners' \in [Proc -> Lease \cup {NoLease}] /\ active' \in [Proc -> Lease \cup {NoLease}]
    /\ \A p \in Proc : \/ active'[p] = active[p] \/ active'[p] = NoLease
                       \/ p = ProcOf[l] /\ active'[p] = l
    /\ \A p \in Proc : \/ owners'[p] = owners[p] \/ owners'[p] = NoLease
                       \/ p = ProcOf[l] /\ owners'[p] = l
    /\ active'[ProcOf[l]] = l => s \in ActiveSteps
    /\ owners'[ProcOf[l]] = l => s \in OwnerSteps /\ lease[l].mode \in {"acquire", "reclaim"}

Fits(l, s, r) ==
    /\ s # "new"
    /\ s \in EarlySteps => ~r
    /\ s = "revoke" => r
    /\ ~orphaned' /\ (\E p \in Proc : Writing(p) /\ saver[p].lease = l) => s \in {"held", "convert"}

LeavesFile(l, s, f) ==
    /\ lease[l].pc \in StepsOpened(f) <=> s \in StepsOpened(f)
    /\ lease[l].pc \in StepsLocked(f) <=> s \in StepsLocked(f)
    /\ lease[l].pc \in Removed(f) => s \in Removed(f)

-----------------------------------------------------------------------------
(***************************************************************************)
(* What the operations on lock files do to descriptors, names and locks.   *)
(***************************************************************************)

(* An open binds the descriptor to the file that has the name afterwards,   *)
(* and renames nothing that had a file.                                     *)
LEMMA OpenFile ==
    ASSUME LTypeOK, LocksExclusive, WindowsNamed, UNCHANGED <<platform, orphaned>>,
           NEW a \in Agent, NEW f \in File, Open(a, f), <<a, f>> \notin held
    PROVE  /\ fd' \in [Agent -> [File -> Inode \cup {NoFile}]]
           /\ name' \in [File -> Inode \cup {NoFile}]
           /\ info' \in [Inode -> Proc \cup {NoProc}]
           /\ UNCHANGED <<doomed, held, late, fellback>>
           /\ fd'[a][f] = name'[f] /\ name'[f] # NoFile
           /\ \A b \in Agent, g \in File : b # a \/ g # f => fd'[b][g] = fd[b][g]
           /\ \A b \in Agent, g \in File :
                 <<b, g>> \in held /\ fd[b][g] = name[g] => fd'[b][g] = name'[g]
           /\ LocksExclusive' /\ WindowsNamed'
<1> DEFINE i == IF name[f] = NoFile THEN CHOOSE j \in FreeInodes : TRUE ELSE name[f]
<1>1. i \in Inode
  BY DEF Open, CanOpen, FreeInodes, LTypeOK
<1>2. /\ fd' = [fd EXCEPT ![a][f] = i] /\ name' = [name EXCEPT ![f] = i]
      /\ info' = IF name[f] = NoFile THEN [info EXCEPT ![i] = NoProc] ELSE info
      /\ UNCHANGED <<doomed, held, late, fellback>>
  BY DEF Open
<1>3. name[f] # NoFile => i = name[f]
  OBVIOUS
<1> HIDE DEF i
<1>4. /\ fd' \in [Agent -> [File -> Inode \cup {NoFile}]]
      /\ name' \in [File -> Inode \cup {NoFile}]
      /\ info' \in [Inode -> Proc \cup {NoProc}]
  BY <1>1, <1>2 DEF LTypeOK
<1>5. /\ fd'[a][f] = name'[f] /\ name'[f] # NoFile
      /\ \A b \in Agent, g \in File : b # a \/ g # f => fd'[b][g] = fd[b][g]
      /\ \A g \in File : name[g] # NoFile => name'[g] = name[g]
  BY <1>1, <1>2, <1>3 DEF LTypeOK, NoFile, Inode
<1>8. \A b \in Agent, g \in File : <<b, g>> \in held /\ fd[b][g] = name[g] => fd'[b][g] = name'[g]
  BY <1>5 DEF LocksExclusive
<1>6. LocksExclusive'
  BY <1>2, <1>5 DEF LocksExclusive
<1>7. WindowsNamed'
  BY <1>2, <1>5 DEF WindowsNamed
<1> QED
  BY <1>2, <1>4, <1>5, <1>6, <1>7, <1>8

(* A lock is granted on a free inode; on Windows that file has its name.    *)
LEMMA LockFile ==
    ASSUME LTypeOK, LocksExclusive, WindowsNamed, UNCHANGED platform,
           NEW a \in Agent, NEW f \in File, TakeLock(a, f), fd[a][f] # NoFile
    PROVE  /\ held' = held \cup {<<a, f>>} /\ UNCHANGED <<name, doomed, fd, late, fellback>>
           /\ orphaned' \in BOOLEAN
           /\ ~orphaned' => ~orphaned /\ fd[a][f] = name[f]
           /\ LocksExclusive' /\ WindowsNamed'
<1>1. /\ held' = held \cup {<<a, f>>} /\ UNCHANGED <<name, doomed, fd, late, fellback>>
      /\ orphaned' = (orphaned \/ fd[a][f] # name[f])
  BY DEF TakeLock
<1>2. LocksExclusive'
  BY <1>1 DEF TakeLock, LockFree, LocksExclusive
<1>3. WindowsNamed'
  BY <1>1 DEF WindowsNamed
<1> QED
  BY <1>1, <1>2, <1>3

(* Closing descriptors gives up their locks; a name goes only with a file   *)
(* that nobody has open any more.                                           *)
LEMMA CloseFiles ==
    ASSUME LTypeOK, LocksExclusive, WindowsNamed, UNCHANGED <<platform, orphaned>>,
           NEW S \in SUBSET (Agent \X File), CloseAll(S)
    PROVE  /\ fd' \in [Agent -> [File -> Inode \cup {NoFile}]]
           /\ name' \in [File -> Inode \cup {NoFile}]
           /\ doomed' \subseteq Inode /\ fellback' = fellback
           /\ held' = held \ S
           /\ \A b \in Agent, g \in File :
                 fd'[b][g] = IF <<b, g>> \in S THEN NoFile ELSE fd[b][g]
           /\ \A b \in Agent, g \in File :
                 <<b, g>> \in held' /\ fd[b][g] = name[g] => fd'[b][g] = name'[g]
           /\ LocksExclusive' /\ WindowsNamed'
<1> DEFINE open == {fd[d[1]][d[2]] : d \in (Agent \X File) \ S}
<1>1. /\ fd' = [a \in Agent |-> [f \in File |-> IF <<a, f>> \in S THEN NoFile ELSE fd[a][f]]]
      /\ held' = held \ S
      /\ name' = [f \in File |-> IF name[f] \in doomed \ open THEN NoFile ELSE name[f]]
      /\ doomed' = doomed \cap open /\ fellback' = fellback
  BY DEF CloseAll
<1>2. \A b \in Agent, g \in File : <<b, g>> \notin S => fd[b][g] \in open
  OBVIOUS
<1> HIDE DEF open
<1>3. /\ fd' \in [Agent -> [File -> Inode \cup {NoFile}]]
      /\ name' \in [File -> Inode \cup {NoFile}]
      /\ doomed' \subseteq Inode
  BY <1>1 DEF LTypeOK
<1>4. /\ \A b \in Agent, g \in File : fd'[b][g] = IF <<b, g>> \in S THEN NoFile ELSE fd[b][g]
      /\ \A b \in Agent, g \in File :
            <<b, g>> \notin S /\ fd[b][g] = name[g] => name'[g] = name[g]
  BY <1>1, <1>2
<1>5. LocksExclusive'
  BY <1>1, <1>4 DEF LocksExclusive
<1>6. WindowsNamed'
  BY ZenonT(60), <1>1, <1>4 DEF WindowsNamed
<1>7. \A b \in Agent, g \in File : <<b, g>> \in held' /\ fd[b][g] = name[g] => fd'[b][g] = name'[g]
  BY <1>1, <1>4
<1> QED
  BY <1>1, <1>3, <1>4, <1>5, <1>6, <1>7

(* Removing a locked file takes away at most its own name.                  *)
LEMMA UnlinkFile ==
    ASSUME LTypeOK, LocksExclusive, WindowsNamed, UNCHANGED <<platform, orphaned>>,
           NEW a \in Agent, NEW f \in File, Unlink(a, f), <<a, f>> \in held
    PROVE  /\ fd' = fd /\ held' = held /\ doomed' \subseteq Inode
           /\ late' \subseteq Agent \X File /\ fellback' = fellback
           /\ name' \in [File -> Inode \cup {NoFile}]
           /\ fd[a][f] = name[f] => \A b \in Agent, g \in File :
                 <<b, g>> \in held' /\ ~(b = a /\ g = f) /\ fd[b][g] = name[g] => fd'[b][g] = name'[g]
           /\ LocksExclusive' /\ WindowsNamed'
<1>1. fd[a][f] \in Inode
  BY DEF LTypeOK, LocksExclusive
<1>2. fd' = fd /\ held' = held /\ fellback' = fellback
  BY DEF Unlink
<1>3. /\ doomed' \subseteq Inode /\ name' \in [File -> Inode \cup {NoFile}]
      /\ late' \subseteq Agent \X File
      /\ \A g \in File : g # f => name'[g] = name[g]
  BY <1>1 DEF Unlink, LTypeOK
<1>4. LocksExclusive'
  BY <1>2 DEF LocksExclusive
<1>5. WindowsNamed'
  BY <1>2 DEF WindowsNamed, Unlink
<1>6. fd[a][f] = name[f] => \A b \in Agent, g \in File :
         <<b, g>> \in held' /\ ~(b = a /\ g = f) /\ fd[b][g] = name[g] => fd'[b][g] = name'[g]
  BY <1>2, <1>3 DEF LocksExclusive
<1> QED
  BY <1>2, <1>3, <1>4, <1>5, <1>6

(* Locks and descriptors follow the steps when the attempt that moves is    *)
(* the only one whose files change.                                         *)
LEMMA AttemptTracked ==
    ASSUME LeasesTracked, SaversTracked, UNCHANGED saver, NEW l \in Lease,
           \A k \in Lease : k # l => lease'[k].pc = lease[k].pc,
           \A a \in Agent, f \in File :
               a # l => fd'[a][f] = fd[a][f] /\ (<<a, f>> \in held' <=> <<a, f>> \in held),
           \A f \in File : /\ fd'[l][f] # NoFile <=> lease'[l].pc \in StepsOpened(f)
                           /\ <<l, f>> \in held' <=> lease'[l].pc \in StepsLocked(f)
    PROVE  LeasesTracked' /\ SaversTracked'
<1>1. LeasesTracked'
  BY ZenonT(60) DEF LeasesTracked, Agent
<1>2. SaversTracked'
  BY LeaseAssumption DEF SaversTracked, Agent, File
<1> QED
  BY <1>1, <1>2

(* The two ways an attempt moves.                                           *)
LEMMA GoMoves ==
    ASSUME LTypeOK, NEW l \in Lease, NEW s \in Steps, Go(l, s)
    PROVE  Moved(l, s, lease[l].released)
  BY ZenonT(60) DEF LTypeOK, Go, Moved, LeaseRecord
LEMMA ReleaseMoves ==
    ASSUME LTypeOK, NEW l \in Lease, NEW s \in Steps, NEW r \in BOOLEAN,
           \/ lease' = [lease EXCEPT ![l].pc = s, ![l].released = r]
           \/ lease' = [lease EXCEPT ![l].pc = s, ![l].released = r, ![l].cur = 0]
    PROVE  Moved(l, s, r)
<1>1. CASE lease' = [lease EXCEPT ![l].pc = s, ![l].released = r]
  <2>1. lease' = [lease EXCEPT ![l] = [lease[l] EXCEPT !.pc = s, !.released = r]]
    BY <1>1 DEF LTypeOK
  <2>2. lease[l] \in LeaseRecord
    BY DEF LTypeOK, LeaseRecord
  <2>3. [lease[l] EXCEPT !.pc = s, !.released = r] \in LeaseRecord
    BY <2>2 DEF LeaseRecord
  <2> QED
    BY <2>1, <2>2, <2>3 DEF LTypeOK, Moved, LeaseRecord
<1>2. CASE lease' = [lease EXCEPT ![l].pc = s, ![l].released = r, ![l].cur = 0]
  <2>1. 0 \in 0..MaxGen
    BY LimitsAssumption
  <2>2. lease' = [lease EXCEPT ![l] = [lease[l] EXCEPT !.pc = s, !.released = r, !.cur = 0]]
    BY <1>2 DEF LTypeOK
  <2>3. lease[l] \in LeaseRecord
    BY DEF LTypeOK, LeaseRecord
  <2>4. [lease[l] EXCEPT !.pc = s, !.released = r, !.cur = 0] \in LeaseRecord
    BY <2>1, <2>3 DEF LeaseRecord
  <2> QED
    BY <2>2, <2>3, <2>4 DEF LTypeOK, Moved, LeaseRecord
<1> QED
  BY <1>1, <1>2

(* The registries keep naming attempts under way.                           *)
LEMMA RegistriesKept ==
    ASSUME LTypeOK, ActiveTracked, OwnersTracked,
           NEW l \in Lease, NEW s, NEW r, Moved(l, s, r), Registers(l, s)
    PROVE  ActiveTracked' /\ OwnersTracked'
<1>1. ActiveTracked'
  <2> SUFFICES ASSUME NEW p \in Proc, active'[p] # NoLease
               PROVE  ProcOf[active'[p]] = p /\ lease'[active'[p]].pc \in ActiveSteps
    BY DEF ActiveTracked
  <2>1. CASE active'[p] = l
    BY <2>1 DEF ActiveTracked, Moved, Registers
  <2>2. CASE active'[p] # l
    BY <2>2 DEF ActiveTracked, Moved, LTypeOK, Registers
  <2> QED
    BY <2>1, <2>2
<1>2. OwnersTracked'
  <2> SUFFICES ASSUME NEW p \in Proc, owners'[p] # NoLease
               PROVE  /\ ProcOf[owners'[p]] = p /\ lease'[owners'[p]].mode \in {"acquire", "reclaim"}
                      /\ lease'[owners'[p]].pc \in OwnerSteps
    BY DEF OwnersTracked
  <2>1. CASE owners'[p] = l
    BY <2>1 DEF OwnersTracked, Moved, Registers
  <2>2. CASE owners'[p] # l
    BY <2>2 DEF OwnersTracked, Moved, LTypeOK, Registers
  <2> QED
    BY <2>1, <2>2
<1> QED
  BY <1>1, <1>2

(* What is left to show of a step of an attempt: its files and the names of *)
(* the locked ones.                                                         *)
LEMMA AttemptKeeps ==
    ASSUME LeaseInv, UNCHANGED <<platform, saver, crashes>>,
           NEW l \in Lease, NEW s \in Steps, NEW r \in BOOLEAN,
           Moved(l, s, r), Registers(l, s), Fits(l, s, r),
           fd' \in [Agent -> [File -> Inode \cup {NoFile}]],
           name' \in [File -> Inode \cup {NoFile}], doomed' \subseteq Inode,
           late' \subseteq Agent \X File, fellback' = fellback,
           held' \subseteq Agent \X File, info' \in [Inode -> Proc \cup {NoProc}],
           orphaned' \in BOOLEAN, ~orphaned' => ~orphaned,
           \A a \in Agent, f \in File :
               a # l => fd'[a][f] = fd[a][f] /\ (<<a, f>> \in held' <=> <<a, f>> \in held),
           \A f \in File : /\ fd'[l][f] # NoFile <=> s \in StepsOpened(f)
                           /\ <<l, f>> \in held' <=> s \in StepsLocked(f),
           LocksExclusive', WindowsNamed', LockedIsNamed'
    PROVE  LeaseInv'
<1> USE DEF LeaseInv
<1>1. LTypeOK'
  BY DEF LTypeOK, Moved, LeaseRecord, Registers
<1>2. LeasesTracked' /\ SaversTracked'
  BY AttemptTracked DEF Moved
<1>3. ActiveTracked' /\ OwnersTracked'
  BY RegistriesKept
<1>4. ReleasedTracked'
  BY DEF ReleasedTracked, Moved, Fits
<1>5. SavesCounted'
  BY DEF SavesCounted, Moved, Writing, Fits
<1>6. ParkedReleaseHasWaker'
  BY DEF ParkedReleaseHasWaker, Moved
<1>7. WriterHolds'
  <2> SUFFICES ASSUME NEW p \in Proc, Writing(p)', ~orphaned'
               PROVE  lease'[saver'[p].lease].pc \in {"held", "convert"}
    BY DEF WriterHolds
  <2>1. Writing(p) /\ saver'[p] = saver[p] /\ saver[p].lease \in Lease
    BY DEF Writing, SavesCounted
  <2>2. CASE saver[p].lease = l
    BY <2>1, <2>2 DEF Moved, Fits
  <2>3. CASE saver[p].lease # l
    BY <2>1, <2>3 DEF Moved, WriterHolds
  <2> QED
    BY <2>2, <2>3
<1> QED
  BY <1>1, <1>2, <1>3, <1>4, <1>5, <1>6, <1>7

(* A step that leaves the files alone.                                      *)
LEMMA PlainStep ==
    ASSUME LeaseInv, UNCHANGED <<platform, files, saver, crashes, orphaned>>,
           info' \in [Inode -> Proc \cup {NoProc}],
           NEW l \in Lease, NEW s \in Steps, NEW r \in BOOLEAN,
           Moved(l, s, r), Registers(l, s), Fits(l, s, r),
           \A f \in File : LeavesFile(l, s, f)
    PROVE  LeaseInv'
<1> USE DEF LeaseInv
<1>1. l \in Agent /\ UNCHANGED <<name, doomed, fd, held, late, fellback>>
  BY DEF Agent, files
<1>2. LocksExclusive' /\ WindowsNamed'
  BY <1>1 DEF LocksExclusive, WindowsNamed
<1>3. LockedIsNamed'
  <2>1. \A a \in Agent, f \in File : Kept(a, f)' => Kept(a, f)
    BY <1>1 DEF Kept, Moved, LeavesFile
  <2> QED
    BY <1>1, <2>1 DEF LockedIsNamed
<1>4. \A f \in File : /\ fd'[l][f] # NoFile <=> s \in StepsOpened(f)
                      /\ <<l, f>> \in held' <=> s \in StepsLocked(f)
  BY <1>1 DEF LeasesTracked, LeavesFile
<1> QED
  BY <1>1, <1>2, <1>3, <1>4, AttemptKeeps DEF LTypeOK

(* A step that opens a lock file.                                           *)
LEMMA OpenStep ==
    ASSUME LeaseInv, UNCHANGED <<platform, saver, crashes, orphaned>>,
           NEW l \in Lease, NEW s \in Steps, NEW r \in BOOLEAN,
           Moved(l, s, r), Registers(l, s), Fits(l, s, r),
           NEW f \in File, Open(l, f),
           lease[l].pc \notin StepsOpened(f) \cup StepsLocked(f),
           s \in StepsOpened(f) \ StepsLocked(f),
           \A g \in File \ {f} : LeavesFile(l, s, g)
    PROVE  LeaseInv'
<1> USE DEF LeaseInv
<1>1. l \in Agent /\ <<l, f>> \notin held
  BY DEF Agent, LeasesTracked
<1>2. /\ fd' \in [Agent -> [File -> Inode \cup {NoFile}]]
      /\ name' \in [File -> Inode \cup {NoFile}]
      /\ info' \in [Inode -> Proc \cup {NoProc}]
      /\ UNCHANGED <<doomed, held, late, fellback>>
      /\ fd'[l][f] = name'[f] /\ name'[f] # NoFile
      /\ \A b \in Agent, g \in File : b # l \/ g # f => fd'[b][g] = fd[b][g]
      /\ \A b \in Agent, g \in File :
            <<b, g>> \in held /\ fd[b][g] = name[g] => fd'[b][g] = name'[g]
      /\ LocksExclusive' /\ WindowsNamed'
  BY <1>1, OpenFile
<1>3. LockedIsNamed'
  <2>1. \A a \in Agent, g \in File : Kept(a, g)' => Kept(a, g)
    BY <1>1, <1>2 DEF Kept, Moved, LeavesFile
  <2> QED
    BY <1>2, <2>1 DEF LockedIsNamed, Kept
<1>4. \A g \in File : /\ fd'[l][g] # NoFile <=> s \in StepsOpened(g)
                      /\ <<l, g>> \in held' <=> s \in StepsLocked(g)
  <2> SUFFICES ASSUME NEW g \in File
               PROVE  /\ fd'[l][g] # NoFile <=> s \in StepsOpened(g)
                      /\ <<l, g>> \in held' <=> s \in StepsLocked(g)
    OBVIOUS
  <2>1. CASE g = f
    BY <1>1, <1>2, <2>1
  <2>2. CASE g # f
    BY <1>1, <1>2, <2>2 DEF LeasesTracked, LeavesFile
  <2> QED
    BY <2>1, <2>2
<1>5. \A a \in Agent, g \in File :
         a # l => fd'[a][g] = fd[a][g] /\ (<<a, g>> \in held' <=> <<a, g>> \in held)
  BY <1>2
<1>6. /\ held' \subseteq Agent \X File /\ doomed' \subseteq Inode /\ orphaned' \in BOOLEAN
      /\ late' \subseteq Agent \X File
  BY <1>2 DEF LTypeOK
<1> QED
  BY <1>2, <1>3, <1>4, <1>5, <1>6, AttemptKeeps

(* A step that takes the lock of a file it has open.                        *)
LEMMA LockStep ==
    ASSUME LeaseInv, UNCHANGED <<platform, info, saver, crashes>>,
           NEW l \in Lease, NEW s \in Steps, NEW r \in BOOLEAN,
           Moved(l, s, r), Registers(l, s), Fits(l, s, r),
           NEW f \in File, TakeLock(l, f),
           lease[l].pc \in StepsOpened(f), s \in StepsOpened(f) \cap StepsLocked(f),
           \A g \in File \ {f} : LeavesFile(l, s, g)
    PROVE  LeaseInv'
<1> USE DEF LeaseInv
<1>1. l \in Agent /\ fd[l][f] # NoFile
  BY DEF Agent, LeasesTracked
<1>2. /\ held' = held \cup {<<l, f>>} /\ UNCHANGED <<name, doomed, fd, late, fellback>>
      /\ orphaned' \in BOOLEAN /\ (~orphaned' => ~orphaned /\ fd[l][f] = name[f])
      /\ LocksExclusive' /\ WindowsNamed'
  BY <1>1, LockFile
<1>3. LockedIsNamed'
  <2>1. \A a \in Agent, g \in File : Kept(a, g)' => Kept(a, g) \/ (a = l /\ g = f)
    BY <1>1, <1>2 DEF Kept, Moved, LeavesFile
  <2> QED
    BY <1>2, <2>1 DEF LockedIsNamed
<1>4. \A g \in File : /\ fd'[l][g] # NoFile <=> s \in StepsOpened(g)
                      /\ <<l, g>> \in held' <=> s \in StepsLocked(g)
  BY <1>1, <1>2 DEF LeasesTracked, LeavesFile
<1>5. \A a \in Agent, g \in File :
         a # l => fd'[a][g] = fd[a][g] /\ (<<a, g>> \in held' <=> <<a, g>> \in held)
  BY <1>2
<1>6. held' \subseteq Agent \X File /\ late' \subseteq Agent \X File
  BY <1>1, <1>2 DEF LTypeOK
<1> QED
  BY SMTT(20), <1>2, <1>3, <1>4, <1>5, <1>6, AttemptKeeps DEF LTypeOK

(* A step that closes some of the attempt's files.                          *)
LEMMA CloseStep ==
    ASSUME LeaseInv, UNCHANGED <<platform, info, saver, crashes, orphaned>>,
           NEW l \in Lease, NEW s \in Steps, NEW r \in BOOLEAN,
           Moved(l, s, r), Registers(l, s), Fits(l, s, r),
           NEW F \in SUBSET File, CloseAll({l} \X F), UNCHANGED late,
           \A f \in F : s \notin StepsOpened(f) \cup StepsLocked(f),
           \A g \in File \ F : LeavesFile(l, s, g)
    PROVE  LeaseInv'
<1> USE DEF LeaseInv
<1>1. l \in Agent /\ {l} \X F \in SUBSET (Agent \X File)
  BY DEF Agent
<1>2. /\ fd' \in [Agent -> [File -> Inode \cup {NoFile}]]
      /\ name' \in [File -> Inode \cup {NoFile}]
      /\ doomed' \subseteq Inode /\ fellback' = fellback
      /\ held' = held \ ({l} \X F)
      /\ \A b \in Agent, g \in File :
            fd'[b][g] = IF <<b, g>> \in {l} \X F THEN NoFile ELSE fd[b][g]
      /\ \A b \in Agent, g \in File :
            <<b, g>> \in held' /\ fd[b][g] = name[g] => fd'[b][g] = name'[g]
      /\ LocksExclusive' /\ WindowsNamed'
  BY <1>1, CloseFiles
<1>3. LockedIsNamed'
  <2>1. \A a \in Agent, g \in File : Kept(a, g)' => Kept(a, g)
    BY <1>1, <1>2 DEF Kept, Moved, LeavesFile
  <2> QED
    BY <1>2, <2>1 DEF LockedIsNamed, Kept
<1>4. \A g \in File : /\ fd'[l][g] # NoFile <=> s \in StepsOpened(g)
                      /\ <<l, g>> \in held' <=> s \in StepsLocked(g)
  <2> SUFFICES ASSUME NEW g \in File
               PROVE  /\ fd'[l][g] # NoFile <=> s \in StepsOpened(g)
                      /\ <<l, g>> \in held' <=> s \in StepsLocked(g)
    OBVIOUS
  <2>1. CASE g \in F
    BY <1>1, <1>2, <2>1
  <2>2. CASE g \notin F
    BY <1>1, <1>2, <2>2 DEF LeasesTracked, LeavesFile
  <2> QED
    BY <2>1, <2>2
<1>5. \A a \in Agent, g \in File :
         a # l => fd'[a][g] = fd[a][g] /\ (<<a, g>> \in held' <=> <<a, g>> \in held)
  BY <1>2
<1>6. /\ held' \subseteq Agent \X File /\ info' \in [Inode -> Proc \cup {NoProc}] /\ orphaned' \in BOOLEAN
      /\ late' \subseteq Agent \X File
  BY <1>2 DEF LTypeOK
<1> QED
  BY <1>2, <1>3, <1>4, <1>5, <1>6, AttemptKeeps

(* A step that removes a file the attempt has locked and not removed yet:   *)
(* nobody else has that name, unless there are orphans.                     *)
LEMMA UnlinkStep ==
    ASSUME LeaseInv, UNCHANGED <<platform, info, saver, crashes, orphaned>>,
           NEW l \in Lease, NEW s \in Steps, NEW r \in BOOLEAN,
           Moved(l, s, r), Registers(l, s), Fits(l, s, r),
           NEW f \in File, Unlink(l, f),
           lease[l].pc \in (StepsOpened(f) \cap StepsLocked(f)) \ Removed(f),
           s \in StepsOpened(f) \cap StepsLocked(f) \cap Removed(f),
           \A g \in File \ {f} : LeavesFile(l, s, g)
    PROVE  LeaseInv'
<1> USE DEF LeaseInv
<1>1. l \in Agent /\ <<l, f>> \in held
  BY DEF Agent, LeasesTracked
<1>2. /\ fd' = fd /\ held' = held /\ doomed' \subseteq Inode
      /\ late' \subseteq Agent \X File /\ fellback' = fellback
      /\ name' \in [File -> Inode \cup {NoFile}]
      /\ fd[l][f] = name[f] => \A b \in Agent, g \in File :
            <<b, g>> \in held' /\ ~(b = l /\ g = f) /\ fd[b][g] = name[g] => fd'[b][g] = name'[g]
      /\ LocksExclusive' /\ WindowsNamed'
  BY <1>1, UnlinkFile
<1>3. LockedIsNamed'
  <2>1. ~orphaned => fd[l][f] = name[f]
    BY <1>1 DEF LockedIsNamed, Kept
  <2>2. \A a \in Agent, g \in File : Kept(a, g)' => Kept(a, g) /\ ~(a = l /\ g = f)
    BY <1>1, <1>2 DEF Kept, Moved, LeavesFile
  <2> QED
    BY <1>2, <2>1, <2>2 DEF LockedIsNamed, Kept
<1>4. \A g \in File : /\ fd'[l][g] # NoFile <=> s \in StepsOpened(g)
                      /\ <<l, g>> \in held' <=> s \in StepsLocked(g)
  BY <1>1, <1>2 DEF LeasesTracked, LeavesFile
<1> QED
  BY <1>2, <1>3, <1>4, AttemptKeeps DEF LTypeOK

-----------------------------------------------------------------------------
(***************************************************************************)
(* Every step of an attempt keeps the invariant.                           *)
(***************************************************************************)

(* An attempt begins, or is refused.                                        *)
LEMMA BeginKeeps ==
    ASSUME LeaseInv, NEW l \in Lease, Begin(l) PROVE LeaseInv'
<1> USE DEF LeaseInv
<1>1. /\ lease[l].pc = "new" /\ lease[l].mode # "none" /\ ProcOf[l] \in Proc /\ l # NoLease
      /\ active[ProcOf[l]] = l => lease[l].pc \in ActiveSteps
      /\ owners[ProcOf[l]] = l => lease[l].pc \in OwnerSteps /\ lease[l].mode \in {"acquire", "reclaim"}
  BY LeaseAssumption DEF Begin, At, ActiveTracked, OwnersTracked
<1>2. PICK s \in {"done", "open"} :
      /\ UNCHANGED <<platform, saver, crashes, orphaned, info, active, files>>
      /\ owners' = owners \/ (s = "open" /\ lease[l].mode = "acquire" /\ owners' = [owners EXCEPT ![ProcOf[l]] = l])
      /\ Go(l, s)
  BY DEF Begin, At, registry
<1>3. s \in Steps /\ lease[l].released \in BOOLEAN
  BY <1>2 DEF Steps, Holding, LTypeOK
<1>4. Moved(l, s, lease[l].released)
  BY <1>2, <1>3, GoMoves
<1>5. Registers(l, s)
  <2>1. CASE owners' = owners
    BY <1>1, <1>2, <2>1 DEF Registers, ActiveSteps, OwnerSteps, LTypeOK
  <2>2. CASE owners' # owners
    <3>1. owners' = [owners EXCEPT ![ProcOf[l]] = l]
      BY <1>2, <2>2
    <3>2. /\ owners' \in [Proc -> Lease \cup {NoLease}] /\ owners'[ProcOf[l]] = l
          /\ \A p \in Proc : p # ProcOf[l] => owners'[p] = owners[p]
      BY <1>1, <3>1 DEF LTypeOK
    <3> QED
      BY <1>1, <1>2, <2>2, <3>2 DEF Registers, ActiveSteps, OwnerSteps, LTypeOK
  <2> QED
    BY <2>1, <2>2
<1>6. Fits(l, s, lease[l].released)
  BY <1>1, <1>2 DEF Fits, EarlySteps, WriterHolds, ReleasedTracked, SavesCounted
<1>7. \A f \in File : LeavesFile(l, s, f)
  BY <1>1, <1>2 DEF LeavesFile, Removed, File, StepsOpened, StepsLocked, LeaseOpened,
     LeaseLocked, SaveOpened, SaveLocked, Holding
<1> QED
  BY <1>2, <1>3, <1>4, <1>5, <1>6, <1>7, PlainStep DEF LTypeOK

(* The lease file is opened, or its name is being deleted.                  *)
LEMMA OpenLeaseKeeps ==
    ASSUME LeaseInv, NEW l \in Lease, OpenLease(l) PROVE LeaseInv'
<1> USE DEF LeaseInv
<1>1. /\ lease[l].pc = "open" /\ ProcOf[l] \in Proc /\ l # NoLease
      /\ active[ProcOf[l]] = l => lease[l].pc \in ActiveSteps
      /\ owners[ProcOf[l]] = l => lease[l].pc \in OwnerSteps /\ lease[l].mode \in {"acquire", "reclaim"}
  BY LeaseAssumption DEF OpenLease, At, ActiveTracked, OwnersTracked
<1>2. CASE Open(l, "lease") /\ Go(l, "lock") /\ UNCHANGED owners
  <2>1. /\ UNCHANGED <<platform, saver, crashes, orphaned, owners, active>>
        /\ Open(l, "lease")
        /\ Go(l, "lock")
    BY <1>2 DEF OpenLease, At, registry
  <2>2. "lock" \in Steps /\ lease[l].released \in BOOLEAN
    BY DEF Steps, Holding, LTypeOK
  <2>3. Moved(l, "lock", lease[l].released)
    BY <2>1, <2>2, GoMoves
  <2>4. Registers(l, "lock")
    BY <1>1, <2>1 DEF Registers, ActiveSteps, OwnerSteps, LTypeOK
  <2>5. Fits(l, "lock", lease[l].released)
    BY <1>1, <2>1 DEF Fits, EarlySteps, WriterHolds, ReleasedTracked, SavesCounted
  <2>6. /\ lease[l].pc \notin StepsOpened("lease") \cup StepsLocked("lease")
        /\ "lock" \in StepsOpened("lease") \ StepsLocked("lease")
        /\ \A g \in File \ {"lease"} : LeavesFile(l, "lock", g)
    BY <1>1 DEF LeavesFile, Removed, File, StepsOpened, StepsLocked, LeaseOpened,
       LeaseLocked, SaveOpened, SaveLocked, Holding
  <2> QED
    BY <2>1, <2>2, <2>3, <2>4, <2>5, <2>6, OpenStep DEF File
<1>3. CASE Go(l, "done") /\ owners' = CAD(owners, l) /\ UNCHANGED <<files, info>>
  <2>1. /\ UNCHANGED <<platform, saver, crashes, orphaned, info, active, files>>
        /\ owners' = CAD(owners, l)
        /\ Go(l, "done")
    BY <1>3 DEF OpenLease, At, registry
  <2>2. "done" \in Steps /\ lease[l].released \in BOOLEAN
    BY DEF Steps, Holding, LTypeOK
  <2>3. Moved(l, "done", lease[l].released)
    BY <2>1, <2>2, GoMoves
  <2>4. Registers(l, "done")
    BY <1>1, <2>1 DEF Registers, ActiveSteps, OwnerSteps, LTypeOK, CAD
  <2>5. Fits(l, "done", lease[l].released)
    BY <1>1, <2>1 DEF Fits, EarlySteps, WriterHolds, ReleasedTracked, SavesCounted
  <2>6. \A f \in File : LeavesFile(l, "done", f)
    BY <1>1 DEF LeavesFile, Removed, File, StepsOpened, StepsLocked, LeaseOpened,
       LeaseLocked, SaveOpened, SaveLocked, Holding
  <2> QED
    BY <2>1, <2>2, <2>3, <2>4, <2>5, <2>6, PlainStep DEF LTypeOK
<1> QED
  BY <1>2, <1>3 DEF OpenLease, At

(* The lock of the lease file is granted or refused.                        *)
LEMMA LockLeaseKeeps ==
    ASSUME LeaseInv, NEW l \in Lease, LockLease(l) PROVE LeaseInv'
<1> USE DEF LeaseInv
<1>1. /\ lease[l].pc = "lock" /\ ProcOf[l] \in Proc /\ l # NoLease
      /\ active[ProcOf[l]] = l => lease[l].pc \in ActiveSteps
      /\ owners[ProcOf[l]] = l => lease[l].pc \in OwnerSteps /\ lease[l].mode \in {"acquire", "reclaim"}
  BY LeaseAssumption DEF LockLease, At, ActiveTracked, OwnersTracked
<1>2. CASE LockFree(l, "lease")
  <2>1. PICK s \in {"gsave", "swept", "publish"} :
        /\ UNCHANGED <<platform, saver, crashes, info, owners, active>>
        /\ TakeLock(l, "lease")
        /\ s = "publish" \/ lease[l].mode \in {"guard", "sweep"}
        /\ Go(l, s)
    BY <1>2 DEF LockLease, At, registry
  <2>2. s \in Steps /\ lease[l].released \in BOOLEAN
    BY <2>1 DEF Steps, Holding, LTypeOK
  <2>3. Moved(l, s, lease[l].released)
    BY <2>1, <2>2, GoMoves
  <2>4. Registers(l, s)
    BY <1>1, <2>1 DEF Registers, ActiveSteps, OwnerSteps, LTypeOK
  <2>5. Fits(l, s, lease[l].released)
    <3>1. ~orphaned' => ~orphaned
      BY <2>1 DEF TakeLock
    <3> QED
      BY <1>1, <2>1, <3>1 DEF Fits, EarlySteps, WriterHolds, ReleasedTracked
  <2>6. /\ lease[l].pc \in StepsOpened("lease")
        /\ s \in StepsOpened("lease") \cap StepsLocked("lease")
        /\ \A g \in File \ {"lease"} : LeavesFile(l, s, g)
    BY <1>1, <2>1 DEF LeavesFile, Removed, File, StepsOpened, StepsLocked, LeaseOpened,
       LeaseLocked, SaveOpened, SaveLocked, Holding
  <2> QED
    BY <2>1, <2>2, <2>3, <2>4, <2>5, <2>6, LockStep DEF File
<1>3. CASE ~LockFree(l, "lease")
  <2>1. /\ UNCHANGED <<platform, saver, crashes, orphaned, info, active>>
        /\ owners' = CAD(owners, l)
        /\ CloseAll({<<l, "lease">>}) /\ UNCHANGED late
        /\ Go(l, "done")
    BY <1>3 DEF LockLease, At, registry, Close
  <2>2. "done" \in Steps /\ lease[l].released \in BOOLEAN
    BY DEF Steps, Holding, LTypeOK
  <2>3. Moved(l, "done", lease[l].released)
    BY <2>1, <2>2, GoMoves
  <2>4. Registers(l, "done")
    BY <1>1, <2>1 DEF Registers, ActiveSteps, OwnerSteps, LTypeOK, CAD
  <2>5. Fits(l, "done", lease[l].released)
    BY <1>1, <2>1 DEF Fits, EarlySteps, WriterHolds, ReleasedTracked, SavesCounted
  <2> DEFINE F == {"lease"}
  <2>6. /\ \A f \in F : "done" \notin StepsOpened(f) \cup StepsLocked(f)
        /\ \A g \in File \ F : LeavesFile(l, "done", g)
    BY <1>1 DEF LeavesFile, Removed, File, StepsOpened, StepsLocked, LeaseOpened,
       LeaseLocked, SaveOpened, SaveLocked, Holding
  <2>7. F \in SUBSET File /\ CloseAll({l} \X F)
    <3>1. {l} \X F = {<<l, "lease">>}
      OBVIOUS
    <3> QED
      BY <2>1, <3>1 DEF File
  <2> HIDE DEF F
  <2> QED
    BY <2>1, <2>2, <2>3, <2>4, <2>5, <2>6, <2>7, CloseStep
<1> QED
  BY <1>2, <1>3 DEF LockLease, At

(* The owner is written, or the lease is given up again.                    *)
LEMMA PublishKeeps ==
    ASSUME LeaseInv, NEW l \in Lease, Publish(l) PROVE LeaseInv'
<1> USE DEF LeaseInv
<1>1. /\ lease[l].pc = "publish" /\ ProcOf[l] \in Proc /\ l # NoLease
      /\ active[ProcOf[l]] = l => lease[l].pc \in ActiveSteps
      /\ owners[ProcOf[l]] = l => lease[l].pc \in OwnerSteps /\ lease[l].mode \in {"acquire", "reclaim"}
  BY LeaseAssumption DEF Publish, At, ActiveTracked, OwnersTracked
<1>2. CASE Go(l, "activate") /\ info' = [info EXCEPT ![fd[l]["lease"]] = ProcOf[l]]
  <2>1. /\ UNCHANGED <<platform, saver, crashes, orphaned, files>>
        /\ active' = [active EXCEPT ![ProcOf[l]] = NoLease]
        /\ owners' = owners \/ (lease[l].mode = "reclaim" /\ owners' = [owners EXCEPT ![ProcOf[l]] = l])
        /\ info' = [info EXCEPT ![fd[l]["lease"]] = ProcOf[l]]
        /\ Go(l, "activate")
    BY <1>2 DEF Publish, At, registry
  <2>2. "activate" \in Steps /\ lease[l].released \in BOOLEAN
    BY DEF Steps, Holding, LTypeOK
  <2>3. Moved(l, "activate", lease[l].released)
    BY <2>1, <2>2, GoMoves
  <2>4. Registers(l, "activate")
    <3>1. CASE owners' = owners
      BY <1>1, <2>1, <3>1 DEF Registers, ActiveSteps, OwnerSteps, LTypeOK
    <3>2. CASE owners' # owners
      <4>1. owners' = [owners EXCEPT ![ProcOf[l]] = l]
        BY <2>1, <3>2
      <4>2. /\ owners' \in [Proc -> Lease \cup {NoLease}] /\ owners'[ProcOf[l]] = l
            /\ \A p \in Proc : p # ProcOf[l] => owners'[p] = owners[p]
        BY <1>1, <4>1 DEF LTypeOK
      <4> QED
        BY <1>1, <2>1, <3>2, <4>2 DEF Registers, ActiveSteps, OwnerSteps, LTypeOK
    <3> QED
      BY <3>1, <3>2
  <2>5. Fits(l, "activate", lease[l].released)
    BY <1>1, <2>1 DEF Fits, EarlySteps, WriterHolds, ReleasedTracked, SavesCounted
  <2>6. \A f \in File : LeavesFile(l, "activate", f)
    BY <1>1 DEF LeavesFile, Removed, File, StepsOpened, StepsLocked, LeaseOpened,
       LeaseLocked, SaveOpened, SaveLocked, Holding
  <2>7. info' \in [Inode -> Proc \cup {NoProc}]
    <3>1. fd[l]["lease"] \in Inode
      <4>1. fd[l]["lease"] # NoFile
        BY <1>1 DEF LeasesTracked, File, StepsOpened, LeaseOpened, LeaseLocked, Holding
      <4> QED
        BY <4>1 DEF LTypeOK, Agent, File
    <3> QED
      BY <1>1, <2>1, <3>1 DEF LTypeOK
  <2> QED
    BY <2>1, <2>2, <2>3, <2>4, <2>5, <2>6, <2>7, PlainStep
<1>3. CASE lease' = [lease EXCEPT ![l].pc = "revoke", ![l].released = TRUE] /\ UNCHANGED info
  <2>1. /\ UNCHANGED <<platform, saver, crashes, orphaned, info, files>>
        /\ active' = [active EXCEPT ![ProcOf[l]] = NoLease]
        /\ owners' = owners \/ (lease[l].mode = "reclaim" /\ owners' = [owners EXCEPT ![ProcOf[l]] = l])
        /\ lease' = [lease EXCEPT ![l].pc = "revoke", ![l].released = TRUE]
    BY <1>3 DEF Publish, At, registry
  <2>2. "revoke" \in Steps /\ TRUE \in BOOLEAN
    BY DEF Steps, Holding
  <2>3. Moved(l, "revoke", TRUE)
    BY <2>1, <2>2, ReleaseMoves
  <2>4. Registers(l, "revoke")
    <3>1. CASE owners' = owners
      BY <1>1, <2>1, <3>1 DEF Registers, ActiveSteps, OwnerSteps, LTypeOK
    <3>2. CASE owners' # owners
      <4>1. owners' = [owners EXCEPT ![ProcOf[l]] = l]
        BY <2>1, <3>2
      <4>2. /\ owners' \in [Proc -> Lease \cup {NoLease}] /\ owners'[ProcOf[l]] = l
            /\ \A p \in Proc : p # ProcOf[l] => owners'[p] = owners[p]
        BY <1>1, <4>1 DEF LTypeOK
      <4> QED
        BY <1>1, <2>1, <3>2, <4>2 DEF Registers, ActiveSteps, OwnerSteps, LTypeOK
    <3> QED
      BY <3>1, <3>2
  <2>5. Fits(l, "revoke", TRUE)
    BY <1>1, <2>1 DEF Fits, EarlySteps, WriterHolds, ReleasedTracked, SavesCounted
  <2>6. \A f \in File : LeavesFile(l, "revoke", f)
    BY <1>1 DEF LeavesFile, Removed, File, StepsOpened, StepsLocked, LeaseOpened,
       LeaseLocked, SaveOpened, SaveLocked, Holding
  <2> QED
    BY <2>1, <2>2, <2>3, <2>4, <2>5, <2>6, PlainStep DEF LTypeOK
<1> QED
  BY <1>2, <1>3 DEF Publish, At

(* The lease is registered as active.                                       *)
LEMMA ActivateKeeps ==
    ASSUME LeaseInv, NEW l \in Lease, Activate(l) PROVE LeaseInv'
<1> USE DEF LeaseInv
<1>1. /\ lease[l].pc = "activate" /\ ProcOf[l] \in Proc /\ l # NoLease
      /\ active[ProcOf[l]] = l => lease[l].pc \in ActiveSteps
      /\ owners[ProcOf[l]] = l => lease[l].pc \in OwnerSteps /\ lease[l].mode \in {"acquire", "reclaim"}
  BY LeaseAssumption DEF Activate, At, ActiveTracked, OwnersTracked
<1>2. /\ UNCHANGED <<platform, saver, crashes, orphaned, info, owners, files>>
      /\ active' = [active EXCEPT ![ProcOf[l]] = l]
      /\ Go(l, "held")
  BY DEF Activate, At, registry
<1>3. "held" \in Steps /\ lease[l].released \in BOOLEAN
  BY DEF Steps, Holding, LTypeOK
<1>4. Moved(l, "held", lease[l].released)
  BY <1>2, <1>3, GoMoves
<1>5. Registers(l, "held")
  BY <1>1, <1>2 DEF Registers, ActiveSteps, OwnerSteps, LTypeOK
<1>6. Fits(l, "held", lease[l].released)
  BY <1>1, <1>2 DEF Fits, EarlySteps, WriterHolds, ReleasedTracked, SavesCounted
<1>7. \A f \in File : LeavesFile(l, "held", f)
  BY <1>1 DEF LeavesFile, Removed, File, StepsOpened, StepsLocked, LeaseOpened,
     LeaseLocked, SaveOpened, SaveLocked, Holding
<1> QED
  BY <1>2, <1>3, <1>4, <1>5, <1>6, <1>7, PlainStep DEF LTypeOK

(* A lease that is forgotten has no save under way.                         *)
LEMMA DropLeaseKeeps ==
    ASSUME LeaseInv, NEW l \in Lease, DropLease(l) PROVE LeaseInv'
<1> USE DEF LeaseInv
<1>1. /\ lease[l].pc = "held" /\ lease[l].saves = 0 /\ ProcOf[l] \in Proc /\ l # NoLease
      /\ active[ProcOf[l]] = l => lease[l].pc \in ActiveSteps
      /\ owners[ProcOf[l]] = l => lease[l].pc \in OwnerSteps /\ lease[l].mode \in {"acquire", "reclaim"}
  BY LeaseAssumption DEF DropLease, At, ActiveTracked, OwnersTracked
<1>2. /\ UNCHANGED <<platform, saver, crashes, orphaned, info, owners, active>>
      /\ CloseAll({<<l, "lease">>}) /\ UNCHANGED late
      /\ Go(l, "dropped")
  BY DEF DropLease, At, registry, Close
<1>3. "dropped" \in Steps /\ lease[l].released \in BOOLEAN
  BY DEF Steps, Holding, LTypeOK
<1>4. Moved(l, "dropped", lease[l].released)
  BY <1>2, <1>3, GoMoves
<1>5. Registers(l, "dropped")
  BY <1>1, <1>2 DEF Registers, ActiveSteps, OwnerSteps, LTypeOK
<1>6. Fits(l, "dropped", lease[l].released)
  BY <1>1, <1>2 DEF Fits, EarlySteps, WriterHolds, ReleasedTracked, SavesCounted
<1> DEFINE F == {"lease"}
<1>7. /\ \A f \in F : "dropped" \notin StepsOpened(f) \cup StepsLocked(f)
      /\ \A g \in File \ F : LeavesFile(l, "dropped", g)
  BY <1>1 DEF LeavesFile, Removed, File, StepsOpened, StepsLocked, LeaseOpened,
     LeaseLocked, SaveOpened, SaveLocked, Holding
<1>8. F \in SUBSET File /\ CloseAll({l} \X F)
  <2>1. {l} \X F = {<<l, "lease">>}
    OBVIOUS
  <2> QED
    BY <1>2, <2>1 DEF File
<1> HIDE DEF F
<1> QED
  BY <1>2, <1>3, <1>4, <1>5, <1>6, <1>7, <1>8, CloseStep

(* Release leaves the active registry.                                      *)
LEMMA RevokeKeeps ==
    ASSUME LeaseInv, NEW l \in Lease, Revoke(l) PROVE LeaseInv'
<1> USE DEF LeaseInv
<1>1. /\ lease[l].pc = "revoke" /\ ProcOf[l] \in Proc /\ l # NoLease
      /\ active[ProcOf[l]] = l => lease[l].pc \in ActiveSteps
      /\ owners[ProcOf[l]] = l => lease[l].pc \in OwnerSteps /\ lease[l].mode \in {"acquire", "reclaim"}
  BY LeaseAssumption DEF Revoke, At, ActiveTracked, OwnersTracked
<1>2. /\ UNCHANGED <<platform, saver, crashes, orphaned, info, owners, files>>
      /\ active' = CAD(active, l)
      /\ Go(l, "unreserve")
  BY DEF Revoke, At, registry
<1>3. "unreserve" \in Steps /\ lease[l].released \in BOOLEAN
  BY DEF Steps, Holding, LTypeOK
<1>4. Moved(l, "unreserve", lease[l].released)
  BY <1>2, <1>3, GoMoves
<1>5. Registers(l, "unreserve")
  BY <1>1, <1>2 DEF Registers, ActiveSteps, OwnerSteps, LTypeOK, CAD
<1>6. Fits(l, "unreserve", lease[l].released)
  BY <1>1, <1>2 DEF Fits, EarlySteps, WriterHolds, ReleasedTracked, SavesCounted
<1>7. \A f \in File : LeavesFile(l, "unreserve", f)
  BY <1>1 DEF LeavesFile, Removed, File, StepsOpened, StepsLocked, LeaseOpened,
     LeaseLocked, SaveOpened, SaveLocked, Holding
<1> QED
  BY <1>2, <1>3, <1>4, <1>5, <1>6, <1>7, PlainStep DEF LTypeOK

(* Release gives the reservation back.                                      *)
LEMMA UnreserveKeeps ==
    ASSUME LeaseInv, NEW l \in Lease, Unreserve(l) PROVE LeaseInv'
<1> USE DEF LeaseInv
<1>1. /\ lease[l].pc = "unreserve" /\ ProcOf[l] \in Proc /\ l # NoLease
      /\ active[ProcOf[l]] = l => lease[l].pc \in ActiveSteps
      /\ owners[ProcOf[l]] = l => lease[l].pc \in OwnerSteps /\ lease[l].mode \in {"acquire", "reclaim"}
  BY LeaseAssumption DEF Unreserve, At, ActiveTracked, OwnersTracked
<1>2. /\ UNCHANGED <<platform, saver, crashes, orphaned, info, active, files>>
      /\ owners' = CAD(owners, l)
      /\ Go(l, "remove")
  BY DEF Unreserve, At, registry
<1>3. "remove" \in Steps /\ lease[l].released \in BOOLEAN
  BY DEF Steps, Holding, LTypeOK
<1>4. Moved(l, "remove", lease[l].released)
  BY <1>2, <1>3, GoMoves
<1>5. Registers(l, "remove")
  BY <1>1, <1>2 DEF Registers, ActiveSteps, OwnerSteps, LTypeOK, CAD
<1>6. Fits(l, "remove", lease[l].released)
  BY <1>1, <1>2 DEF Fits, EarlySteps, WriterHolds, ReleasedTracked, SavesCounted
<1>7. \A f \in File : LeavesFile(l, "remove", f)
  BY <1>1 DEF LeavesFile, Removed, File, StepsOpened, StepsLocked, LeaseOpened,
     LeaseLocked, SaveOpened, SaveLocked, Holding
<1> QED
  BY <1>2, <1>3, <1>4, <1>5, <1>6, <1>7, PlainStep DEF LTypeOK

(* Release or a sweep removes the lease file.                               *)
LEMMA RemoveLeaseFileKeeps ==
    ASSUME LeaseInv, NEW l \in Lease, RemoveLeaseFile(l) PROVE LeaseInv'
<1> USE DEF LeaseInv
<1>1. /\ lease[l].pc \in {"remove", "swept"} /\ ProcOf[l] \in Proc /\ l # NoLease
      /\ active[ProcOf[l]] = l => lease[l].pc \in ActiveSteps
      /\ owners[ProcOf[l]] = l => lease[l].pc \in OwnerSteps /\ lease[l].mode \in {"acquire", "reclaim"}
  BY LeaseAssumption DEF RemoveLeaseFile, At, ActiveTracked, OwnersTracked
<1>2. /\ UNCHANGED <<platform, saver, crashes, orphaned, info, owners, active>>
      /\ Unlink(l, "lease")
      /\ Go(l, "unlock")
  BY DEF RemoveLeaseFile, At, registry
<1>3. "unlock" \in Steps /\ lease[l].released \in BOOLEAN
  BY DEF Steps, Holding, LTypeOK
<1>4. Moved(l, "unlock", lease[l].released)
  BY <1>2, <1>3, GoMoves
<1>5. Registers(l, "unlock")
  BY <1>1, <1>2 DEF Registers, ActiveSteps, OwnerSteps, LTypeOK
<1>6. Fits(l, "unlock", lease[l].released)
  BY <1>1, <1>2 DEF Fits, EarlySteps, WriterHolds, ReleasedTracked, SavesCounted
<1>7. /\ lease[l].pc \in (StepsOpened("lease") \cap StepsLocked("lease")) \ Removed("lease")
      /\ "unlock" \in StepsOpened("lease") \cap StepsLocked("lease") \cap Removed("lease")
      /\ \A g \in File \ {"lease"} : LeavesFile(l, "unlock", g)
  BY <1>1 DEF LeavesFile, Removed, File, StepsOpened, StepsLocked, LeaseOpened,
     LeaseLocked, SaveOpened, SaveLocked, Holding
<1> QED
  BY <1>2, <1>3, <1>4, <1>5, <1>6, <1>7, UnlinkStep DEF File

(* The lease file is unlocked.                                              *)
LEMMA UnlockLeaseFileKeeps ==
    ASSUME LeaseInv, NEW l \in Lease, UnlockLeaseFile(l) PROVE LeaseInv'
<1> USE DEF LeaseInv
<1>1. /\ lease[l].pc = "unlock" /\ ProcOf[l] \in Proc /\ l # NoLease
      /\ active[ProcOf[l]] = l => lease[l].pc \in ActiveSteps
      /\ owners[ProcOf[l]] = l => lease[l].pc \in OwnerSteps /\ lease[l].mode \in {"acquire", "reclaim"}
  BY LeaseAssumption DEF UnlockLeaseFile, At, ActiveTracked, OwnersTracked
<1>2. PICK s \in {"stale", "done"} :
      /\ UNCHANGED <<platform, saver, crashes, orphaned, info, owners, active>>
      /\ CloseAll({<<l, "lease">>}) /\ UNCHANGED late
      /\ Go(l, s)
  BY DEF UnlockLeaseFile, At, registry, Close
<1>3. s \in Steps /\ lease[l].released \in BOOLEAN
  BY <1>2 DEF Steps, Holding, LTypeOK
<1>4. Moved(l, s, lease[l].released)
  BY <1>2, <1>3, GoMoves
<1>5. Registers(l, s)
  BY <1>1, <1>2 DEF Registers, ActiveSteps, OwnerSteps, LTypeOK
<1>6. Fits(l, s, lease[l].released)
  BY <1>1, <1>2 DEF Fits, EarlySteps, WriterHolds, ReleasedTracked, SavesCounted
<1> DEFINE F == {"lease"}
<1>7. /\ \A f \in F : s \notin StepsOpened(f) \cup StepsLocked(f)
      /\ \A g \in File \ F : LeavesFile(l, s, g)
  BY <1>1, <1>2 DEF LeavesFile, Removed, File, StepsOpened, StepsLocked, LeaseOpened,
     LeaseLocked, SaveOpened, SaveLocked, Holding
<1>8. F \in SUBSET File /\ CloseAll({l} \X F)
  <2>1. {l} \X F = {<<l, "lease">>}
    OBVIOUS
  <2> QED
    BY <1>2, <2>1 DEF File
<1> HIDE DEF F
<1> QED
  BY <1>2, <1>3, <1>4, <1>5, <1>6, <1>7, <1>8, CloseStep

(* The stale save lock is left alone or opened.                             *)
LEMMA StaleSaveLockKeeps ==
    ASSUME LeaseInv, NEW l \in Lease, StaleSaveLock(l) PROVE LeaseInv'
<1> USE DEF LeaseInv
<1>1. /\ lease[l].pc = "stale" /\ ProcOf[l] \in Proc /\ l # NoLease
      /\ active[ProcOf[l]] = l => lease[l].pc \in ActiveSteps
      /\ owners[ProcOf[l]] = l => lease[l].pc \in OwnerSteps /\ lease[l].mode \in {"acquire", "reclaim"}
  BY LeaseAssumption DEF StaleSaveLock, At, ActiveTracked, OwnersTracked
<1>2. CASE Go(l, "done") /\ UNCHANGED <<files, info>>
  <2>1. /\ UNCHANGED <<platform, saver, crashes, orphaned, info, owners, active, files>>
        /\ Go(l, "done")
    BY <1>2 DEF StaleSaveLock, At, registry
  <2>2. "done" \in Steps /\ lease[l].released \in BOOLEAN
    BY DEF Steps, Holding, LTypeOK
  <2>3. Moved(l, "done", lease[l].released)
    BY <2>1, <2>2, GoMoves
  <2>4. Registers(l, "done")
    BY <1>1, <2>1 DEF Registers, ActiveSteps, OwnerSteps, LTypeOK
  <2>5. Fits(l, "done", lease[l].released)
    BY <1>1, <2>1 DEF Fits, EarlySteps, WriterHolds, ReleasedTracked, SavesCounted
  <2>6. \A f \in File : LeavesFile(l, "done", f)
    BY <1>1 DEF LeavesFile, Removed, File, StepsOpened, StepsLocked, LeaseOpened,
       LeaseLocked, SaveOpened, SaveLocked, Holding
  <2> QED
    BY <2>1, <2>2, <2>3, <2>4, <2>5, <2>6, PlainStep DEF LTypeOK
<1>3. CASE Open(l, "save") /\ Go(l, "stalelock")
  <2>1. /\ UNCHANGED <<platform, saver, crashes, orphaned, owners, active>>
        /\ Open(l, "save")
        /\ Go(l, "stalelock")
    BY <1>3 DEF StaleSaveLock, At, registry
  <2>2. "stalelock" \in Steps /\ lease[l].released \in BOOLEAN
    BY DEF Steps, Holding, LTypeOK
  <2>3. Moved(l, "stalelock", lease[l].released)
    BY <2>1, <2>2, GoMoves
  <2>4. Registers(l, "stalelock")
    BY <1>1, <2>1 DEF Registers, ActiveSteps, OwnerSteps, LTypeOK
  <2>5. Fits(l, "stalelock", lease[l].released)
    BY <1>1, <2>1 DEF Fits, EarlySteps, WriterHolds, ReleasedTracked, SavesCounted
  <2>6. /\ lease[l].pc \notin StepsOpened("save") \cup StepsLocked("save")
        /\ "stalelock" \in StepsOpened("save") \ StepsLocked("save")
        /\ \A g \in File \ {"save"} : LeavesFile(l, "stalelock", g)
    BY <1>1 DEF LeavesFile, Removed, File, StepsOpened, StepsLocked, LeaseOpened,
       LeaseLocked, SaveOpened, SaveLocked, Holding
  <2> QED
    BY <2>1, <2>2, <2>3, <2>4, <2>5, <2>6, OpenStep DEF File
<1> QED
  BY <1>2, <1>3 DEF StaleSaveLock, At

(* It is locked, or somebody uses it.                                       *)
LEMMA StaleSaveTakeKeeps ==
    ASSUME LeaseInv, NEW l \in Lease, StaleSaveTake(l) PROVE LeaseInv'
<1> USE DEF LeaseInv
<1>1. /\ lease[l].pc = "stalelock" /\ ProcOf[l] \in Proc /\ l # NoLease
      /\ active[ProcOf[l]] = l => lease[l].pc \in ActiveSteps
      /\ owners[ProcOf[l]] = l => lease[l].pc \in OwnerSteps /\ lease[l].mode \in {"acquire", "reclaim"}
  BY LeaseAssumption DEF StaleSaveTake, At, ActiveTracked, OwnersTracked
<1>2. CASE TakeLock(l, "save") /\ Go(l, "staleremove")
  <2>1. /\ UNCHANGED <<platform, saver, crashes, info, owners, active>>
        /\ TakeLock(l, "save")
        /\ Go(l, "staleremove")
    BY <1>2 DEF StaleSaveTake, At, registry
  <2>2. "staleremove" \in Steps /\ lease[l].released \in BOOLEAN
    BY DEF Steps, Holding, LTypeOK
  <2>3. Moved(l, "staleremove", lease[l].released)
    BY <2>1, <2>2, GoMoves
  <2>4. Registers(l, "staleremove")
    BY <1>1, <2>1 DEF Registers, ActiveSteps, OwnerSteps, LTypeOK
  <2>5. Fits(l, "staleremove", lease[l].released)
    <3>1. ~orphaned' => ~orphaned
      BY <2>1 DEF TakeLock
    <3> QED
      BY <1>1, <2>1, <3>1 DEF Fits, EarlySteps, WriterHolds, ReleasedTracked
  <2>6. /\ lease[l].pc \in StepsOpened("save")
        /\ "staleremove" \in StepsOpened("save") \cap StepsLocked("save")
        /\ \A g \in File \ {"save"} : LeavesFile(l, "staleremove", g)
    BY <1>1 DEF LeavesFile, Removed, File, StepsOpened, StepsLocked, LeaseOpened,
       LeaseLocked, SaveOpened, SaveLocked, Holding
  <2> QED
    BY <2>1, <2>2, <2>3, <2>4, <2>5, <2>6, LockStep DEF File
<1>3. CASE Close(l, "save") /\ Go(l, "done") /\ UNCHANGED orphaned
  <2>1. /\ UNCHANGED <<platform, saver, crashes, orphaned, info, owners, active>>
        /\ CloseAll({<<l, "save">>}) /\ UNCHANGED late
        /\ Go(l, "done")
    BY <1>3 DEF StaleSaveTake, At, registry, Close
  <2>2. "done" \in Steps /\ lease[l].released \in BOOLEAN
    BY DEF Steps, Holding, LTypeOK
  <2>3. Moved(l, "done", lease[l].released)
    BY <2>1, <2>2, GoMoves
  <2>4. Registers(l, "done")
    BY <1>1, <2>1 DEF Registers, ActiveSteps, OwnerSteps, LTypeOK
  <2>5. Fits(l, "done", lease[l].released)
    BY <1>1, <2>1 DEF Fits, EarlySteps, WriterHolds, ReleasedTracked, SavesCounted
  <2> DEFINE F == {"save"}
  <2>6. /\ \A f \in F : "done" \notin StepsOpened(f) \cup StepsLocked(f)
        /\ \A g \in File \ F : LeavesFile(l, "done", g)
    BY <1>1 DEF LeavesFile, Removed, File, StepsOpened, StepsLocked, LeaseOpened,
       LeaseLocked, SaveOpened, SaveLocked, Holding
  <2>7. F \in SUBSET File /\ CloseAll({l} \X F)
    <3>1. {l} \X F = {<<l, "save">>}
      OBVIOUS
    <3> QED
      BY <2>1, <3>1 DEF File
  <2> HIDE DEF F
  <2> QED
    BY ZenonT(60), <2>1, <2>2, <2>3, <2>4, <2>5, <2>6, <2>7, CloseStep
<1> QED
  BY <1>2, <1>3 DEF StaleSaveTake, At

(* A conversion opens the save lock.                                        *)
LEMMA ConvertOpenKeeps ==
    ASSUME LeaseInv, NEW l \in Lease, ConvertOpen(l) PROVE LeaseInv'
<1> USE DEF LeaseInv
<1>1. /\ lease[l].pc = "held" /\ ProcOf[l] \in Proc /\ l # NoLease
      /\ active[ProcOf[l]] = l => lease[l].pc \in ActiveSteps
      /\ owners[ProcOf[l]] = l => lease[l].pc \in OwnerSteps /\ lease[l].mode \in {"acquire", "reclaim"}
  BY LeaseAssumption DEF ConvertOpen, At, ActiveTracked, OwnersTracked
<1>2. /\ UNCHANGED <<platform, saver, crashes, orphaned, owners, active>>
      /\ Open(l, "save")
      /\ Go(l, "convert")
  BY DEF ConvertOpen, At, registry
<1>3. "convert" \in Steps /\ lease[l].released \in BOOLEAN
  BY DEF Steps, Holding, LTypeOK
<1>4. Moved(l, "convert", lease[l].released)
  BY <1>2, <1>3, GoMoves
<1>5. Registers(l, "convert")
  BY <1>1, <1>2 DEF Registers, ActiveSteps, OwnerSteps, LTypeOK
<1>6. Fits(l, "convert", lease[l].released)
  BY <1>1, <1>2 DEF Fits, EarlySteps, WriterHolds, ReleasedTracked, SavesCounted
<1>7. /\ lease[l].pc \notin StepsOpened("save") \cup StepsLocked("save")
      /\ "convert" \in StepsOpened("save") \ StepsLocked("save")
      /\ \A g \in File \ {"save"} : LeavesFile(l, "convert", g)
  BY <1>1 DEF LeavesFile, Removed, File, StepsOpened, StepsLocked, LeaseOpened,
     LeaseLocked, SaveOpened, SaveLocked, Holding
<1> QED
  BY <1>2, <1>3, <1>4, <1>5, <1>6, <1>7, OpenStep DEF File

(* Without orphans a conversion gets the save lock only if nobody writes.   *)
LEMMA ConvertTakeKeeps ==
    ASSUME LeaseInv, NEW l \in Lease, ConvertTake(l) PROVE LeaseInv'
<1> USE DEF LeaseInv
<1>1. /\ lease[l].pc = "convert" /\ ProcOf[l] \in Proc /\ l # NoLease
      /\ active[ProcOf[l]] = l => lease[l].pc \in ActiveSteps
      /\ owners[ProcOf[l]] = l => lease[l].pc \in OwnerSteps /\ lease[l].mode \in {"acquire", "reclaim"}
  BY LeaseAssumption DEF ConvertTake, At, ActiveTracked, OwnersTracked
<1>2. CASE LockFree(l, "save")
  <2>1. /\ UNCHANGED <<platform, saver, crashes, info, owners>>
        /\ active' = CAD(active, l)
        /\ TakeLock(l, "save")
        /\ lease' = [lease EXCEPT ![l].pc = "guard", ![l].released = TRUE]
    BY <1>2 DEF ConvertTake, At, registry
  <2>2. "guard" \in Steps /\ TRUE \in BOOLEAN
    BY DEF Steps, Holding
  <2>3. Moved(l, "guard", TRUE)
    BY <2>1, <2>2, ReleaseMoves
  <2>4. Registers(l, "guard")
    BY <1>1, <2>1 DEF Registers, ActiveSteps, OwnerSteps, LTypeOK, CAD
  <2>5. Fits(l, "guard", TRUE)
    <3>1. ASSUME ~orphaned', NEW p \in Proc, Writing(p) PROVE FALSE
      <4>1. p \in Agent /\ Kept(p, "save") /\ p # l
        BY <3>1, LeaseAssumption DEF Kept, SaversTracked, Writing, Agent
      <4>2. fd[p]["save"] = fd[l]["save"]
        BY <2>1, <3>1, <4>1 DEF LockedIsNamed, TakeLock, File
      <4> QED
        BY <2>1, <4>1, <4>2 DEF TakeLock, LockFree, Kept
    <3> QED
      BY <3>1 DEF Fits, EarlySteps
  <2>6. /\ lease[l].pc \in StepsOpened("save")
        /\ "guard" \in StepsOpened("save") \cap StepsLocked("save")
        /\ \A g \in File \ {"save"} : LeavesFile(l, "guard", g)
    BY <1>1 DEF LeavesFile, Removed, File, StepsOpened, StepsLocked, LeaseOpened,
       LeaseLocked, SaveOpened, SaveLocked, Holding
  <2> QED
    BY <2>1, <2>2, <2>3, <2>4, <2>5, <2>6, LockStep DEF File
<1>3. CASE ~LockFree(l, "save")
  <2>1. /\ UNCHANGED <<platform, saver, crashes, orphaned, info, owners, active>>
        /\ CloseAll({<<l, "save">>}) /\ UNCHANGED late
        /\ Go(l, "held")
    BY <1>3 DEF ConvertTake, At, registry, Close
  <2>2. "held" \in Steps /\ lease[l].released \in BOOLEAN
    BY DEF Steps, Holding, LTypeOK
  <2>3. Moved(l, "held", lease[l].released)
    BY <2>1, <2>2, GoMoves
  <2>4. Registers(l, "held")
    BY <1>1, <2>1 DEF Registers, ActiveSteps, OwnerSteps, LTypeOK
  <2>5. Fits(l, "held", lease[l].released)
    BY <1>1, <2>1 DEF Fits, EarlySteps, WriterHolds, ReleasedTracked, SavesCounted
  <2> DEFINE F == {"save"}
  <2>6. /\ \A f \in F : "held" \notin StepsOpened(f) \cup StepsLocked(f)
        /\ \A g \in File \ F : LeavesFile(l, "held", g)
    BY <1>1 DEF LeavesFile, Removed, File, StepsOpened, StepsLocked, LeaseOpened,
       LeaseLocked, SaveOpened, SaveLocked, Holding
  <2>7. F \in SUBSET File /\ CloseAll({l} \X F)
    <3>1. {l} \X F = {<<l, "save">>}
      OBVIOUS
    <3> QED
      BY <2>1, <3>1 DEF File
  <2> HIDE DEF F
  <2> QED
    BY <2>1, <2>2, <2>3, <2>4, <2>5, <2>6, <2>7, CloseStep
<1> QED
  BY <1>2, <1>3 DEF ConvertTake, At

(* A removal guard opens the save lock, or gives up.                        *)
LEMMA GuardOpenKeeps ==
    ASSUME LeaseInv, NEW l \in Lease, GuardOpen(l) PROVE LeaseInv'
<1> USE DEF LeaseInv
<1>1. /\ lease[l].pc = "gsave" /\ ProcOf[l] \in Proc /\ l # NoLease
      /\ active[ProcOf[l]] = l => lease[l].pc \in ActiveSteps
      /\ owners[ProcOf[l]] = l => lease[l].pc \in OwnerSteps /\ lease[l].mode \in {"acquire", "reclaim"}
  BY LeaseAssumption DEF GuardOpen, At, ActiveTracked, OwnersTracked
<1>2. CASE Open(l, "save") /\ Go(l, "gsavelock")
  <2>1. /\ UNCHANGED <<platform, saver, crashes, orphaned, owners, active>>
        /\ Open(l, "save")
        /\ Go(l, "gsavelock")
    BY <1>2 DEF GuardOpen, At, registry
  <2>2. "gsavelock" \in Steps /\ lease[l].released \in BOOLEAN
    BY DEF Steps, Holding, LTypeOK
  <2>3. Moved(l, "gsavelock", lease[l].released)
    BY <2>1, <2>2, GoMoves
  <2>4. Registers(l, "gsavelock")
    BY <1>1, <2>1 DEF Registers, ActiveSteps, OwnerSteps, LTypeOK
  <2>5. Fits(l, "gsavelock", lease[l].released)
    BY <1>1, <2>1 DEF Fits, EarlySteps, WriterHolds, ReleasedTracked, SavesCounted
  <2>6. /\ lease[l].pc \notin StepsOpened("save") \cup StepsLocked("save")
        /\ "gsavelock" \in StepsOpened("save") \ StepsLocked("save")
        /\ \A g \in File \ {"save"} : LeavesFile(l, "gsavelock", g)
    BY <1>1 DEF LeavesFile, Removed, File, StepsOpened, StepsLocked, LeaseOpened,
       LeaseLocked, SaveOpened, SaveLocked, Holding
  <2> QED
    BY <2>1, <2>2, <2>3, <2>4, <2>5, <2>6, OpenStep DEF File
<1>3. CASE Close(l, "lease") /\ Go(l, "done") /\ UNCHANGED info
  <2>1. /\ UNCHANGED <<platform, saver, crashes, orphaned, info, owners, active>>
        /\ CloseAll({<<l, "lease">>}) /\ UNCHANGED late
        /\ Go(l, "done")
    BY <1>3 DEF GuardOpen, At, registry, Close
  <2>2. "done" \in Steps /\ lease[l].released \in BOOLEAN
    BY DEF Steps, Holding, LTypeOK
  <2>3. Moved(l, "done", lease[l].released)
    BY <2>1, <2>2, GoMoves
  <2>4. Registers(l, "done")
    BY <1>1, <2>1 DEF Registers, ActiveSteps, OwnerSteps, LTypeOK
  <2>5. Fits(l, "done", lease[l].released)
    BY <1>1, <2>1 DEF Fits, EarlySteps, WriterHolds, ReleasedTracked, SavesCounted
  <2> DEFINE F == {"lease"}
  <2>6. /\ \A f \in F : "done" \notin StepsOpened(f) \cup StepsLocked(f)
        /\ \A g \in File \ F : LeavesFile(l, "done", g)
    BY <1>1 DEF LeavesFile, Removed, File, StepsOpened, StepsLocked, LeaseOpened,
       LeaseLocked, SaveOpened, SaveLocked, Holding
  <2>7. F \in SUBSET File /\ CloseAll({l} \X F)
    <3>1. {l} \X F = {<<l, "lease">>}
      OBVIOUS
    <3> QED
      BY <2>1, <3>1 DEF File
  <2> HIDE DEF F
  <2> QED
    BY <2>1, <2>2, <2>3, <2>4, <2>5, <2>6, <2>7, CloseStep
<1> QED
  BY <1>2, <1>3 DEF GuardOpen, At

(* A removal guard takes the save lock, or gives both files up.             *)
LEMMA GuardTakeKeeps ==
    ASSUME LeaseInv, NEW l \in Lease, GuardTake(l) PROVE LeaseInv'
<1> USE DEF LeaseInv
<1>1. /\ lease[l].pc = "gsavelock" /\ ProcOf[l] \in Proc /\ l # NoLease
      /\ active[ProcOf[l]] = l => lease[l].pc \in ActiveSteps
      /\ owners[ProcOf[l]] = l => lease[l].pc \in OwnerSteps /\ lease[l].mode \in {"acquire", "reclaim"}
  BY LeaseAssumption DEF GuardTake, At, ActiveTracked, OwnersTracked
<1>2. CASE LockFree(l, "save")
  <2>1. /\ UNCHANGED <<platform, saver, crashes, info, owners, active>>
        /\ TakeLock(l, "save")
        /\ Go(l, "guard")
    BY <1>2 DEF GuardTake, At, registry
  <2>2. "guard" \in Steps /\ lease[l].released \in BOOLEAN
    BY DEF Steps, Holding, LTypeOK
  <2>3. Moved(l, "guard", lease[l].released)
    BY <2>1, <2>2, GoMoves
  <2>4. Registers(l, "guard")
    BY <1>1, <2>1 DEF Registers, ActiveSteps, OwnerSteps, LTypeOK
  <2>5. Fits(l, "guard", lease[l].released)
    <3>1. ~orphaned' => ~orphaned
      BY <2>1 DEF TakeLock
    <3> QED
      BY <1>1, <2>1, <3>1 DEF Fits, EarlySteps, WriterHolds, ReleasedTracked
  <2>6. /\ lease[l].pc \in StepsOpened("save")
        /\ "guard" \in StepsOpened("save") \cap StepsLocked("save")
        /\ \A g \in File \ {"save"} : LeavesFile(l, "guard", g)
    BY <1>1 DEF LeavesFile, Removed, File, StepsOpened, StepsLocked, LeaseOpened,
       LeaseLocked, SaveOpened, SaveLocked, Holding
  <2> QED
    BY <2>1, <2>2, <2>3, <2>4, <2>5, <2>6, LockStep DEF File
<1>3. CASE ~LockFree(l, "save")
  <2>1. /\ UNCHANGED <<platform, saver, crashes, orphaned, info, owners, active>>
        /\ CloseAll({<<l, "save">>, <<l, "lease">>}) /\ UNCHANGED late
        /\ Go(l, "done")
    BY <1>3 DEF GuardTake, At, registry
  <2>2. "done" \in Steps /\ lease[l].released \in BOOLEAN
    BY DEF Steps, Holding, LTypeOK
  <2>3. Moved(l, "done", lease[l].released)
    BY <2>1, <2>2, GoMoves
  <2>4. Registers(l, "done")
    BY <1>1, <2>1 DEF Registers, ActiveSteps, OwnerSteps, LTypeOK
  <2>5. Fits(l, "done", lease[l].released)
    BY <1>1, <2>1 DEF Fits, EarlySteps, WriterHolds, ReleasedTracked, SavesCounted
  <2> DEFINE F == {"lease", "save"}
  <2>6. /\ \A f \in F : "done" \notin StepsOpened(f) \cup StepsLocked(f)
        /\ \A g \in File \ F : LeavesFile(l, "done", g)
    BY <1>1 DEF LeavesFile, Removed, File, StepsOpened, StepsLocked, LeaseOpened,
       LeaseLocked, SaveOpened, SaveLocked, Holding
  <2>7. F \in SUBSET File /\ CloseAll({l} \X F)
    <3>1. {l} \X F = {<<l, "save">>, <<l, "lease">>}
      OBVIOUS
    <3> QED
      BY <2>1, <3>1 DEF File
  <2> HIDE DEF F
  <2> QED
    BY <2>1, <2>2, <2>3, <2>4, <2>5, <2>6, <2>7, CloseStep
<1> QED
  BY <1>2, <1>3 DEF GuardTake, At

(* A converted lease is restored while it still has its reservation.        *)
LEMMA RestoreKeeps ==
    ASSUME LeaseInv, NEW l \in Lease, RestoreSessionLease(l) PROVE LeaseInv'
<1> USE DEF LeaseInv
<1>1. /\ lease[l].pc = "guard" /\ ProcOf[l] \in Proc /\ l # NoLease
      /\ active[ProcOf[l]] = l => lease[l].pc \in ActiveSteps
      /\ owners[ProcOf[l]] = l => lease[l].pc \in OwnerSteps /\ lease[l].mode \in {"acquire", "reclaim"}
  BY LeaseAssumption DEF RestoreSessionLease, At, ActiveTracked, OwnersTracked
<1>2. /\ UNCHANGED <<platform, saver, crashes, orphaned, info, owners>>
      /\ active' = [active EXCEPT ![ProcOf[l]] = l]
      /\ CloseAll({<<l, "save">>}) /\ UNCHANGED late
      /\ lease' = [lease EXCEPT ![l].pc = "held", ![l].released = FALSE, ![l].cur = 0]
  BY DEF RestoreSessionLease, At, registry, Close
<1>3. "held" \in Steps /\ FALSE \in BOOLEAN
  BY DEF Steps, Holding
<1>4. Moved(l, "held", FALSE)
  BY <1>2, <1>3, ReleaseMoves
<1>5. Registers(l, "held")
  BY <1>1, <1>2 DEF Registers, ActiveSteps, OwnerSteps, LTypeOK
<1>6. Fits(l, "held", FALSE)
  BY <1>1, <1>2 DEF Fits, EarlySteps, WriterHolds, ReleasedTracked, SavesCounted
<1> DEFINE F == {"save"}
<1>7. /\ \A f \in F : "held" \notin StepsOpened(f) \cup StepsLocked(f)
      /\ \A g \in File \ F : LeavesFile(l, "held", g)
  BY <1>1 DEF LeavesFile, Removed, File, StepsOpened, StepsLocked, LeaseOpened,
     LeaseLocked, SaveOpened, SaveLocked, Holding
<1>8. F \in SUBSET File /\ CloseAll({l} \X F)
  <2>1. {l} \X F = {<<l, "save">>}
    OBVIOUS
  <2> QED
    BY <1>2, <2>1 DEF File
<1> HIDE DEF F
<1> QED
  BY <1>2, <1>3, <1>4, <1>5, <1>6, <1>7, <1>8, CloseStep

(* A guard gives back what the conversion had reserved.                     *)
LEMMA GuardEndsKeeps ==
    ASSUME LeaseInv, NEW l \in Lease, GuardEnds(l) PROVE LeaseInv'
<1> USE DEF LeaseInv
<1>1. /\ lease[l].pc = "guard" /\ ProcOf[l] \in Proc /\ l # NoLease
      /\ active[ProcOf[l]] = l => lease[l].pc \in ActiveSteps
      /\ owners[ProcOf[l]] = l => lease[l].pc \in OwnerSteps /\ lease[l].mode \in {"acquire", "reclaim"}
  BY LeaseAssumption DEF GuardEnds, At, ActiveTracked, OwnersTracked
<1>2. PICK s \in {"abort", "gremove"} :
      /\ UNCHANGED <<platform, saver, crashes, orphaned, info, files>>
      /\ owners' = CAD(owners, l) \/ (owners' = owners /\ lease[l].mode \notin {"acquire", "reclaim"})
      /\ active' = active \/ active' = CAD(active, l)
      /\ Go(l, s)
  BY DEF GuardEnds, At, registry, Converted
<1>3. s \in Steps /\ lease[l].released \in BOOLEAN
  BY <1>2 DEF Steps, Holding, LTypeOK
<1>4. Moved(l, s, lease[l].released)
  BY <1>2, <1>3, GoMoves
<1>5. Registers(l, s)
  <2>1. CASE owners' = owners
    BY <1>1, <1>2, <2>1 DEF Registers, ActiveSteps, OwnerSteps, LTypeOK, CAD
  <2>2. CASE owners' # owners
    BY <1>1, <1>2, <2>2 DEF Registers, ActiveSteps, OwnerSteps, LTypeOK, CAD
  <2> QED
    BY <2>1, <2>2
<1>6. Fits(l, s, lease[l].released)
  BY <1>1, <1>2 DEF Fits, EarlySteps, WriterHolds, ReleasedTracked, SavesCounted
<1>7. \A f \in File : LeavesFile(l, s, f)
  BY <1>1, <1>2 DEF LeavesFile, Removed, File, StepsOpened, StepsLocked, LeaseOpened,
     LeaseLocked, SaveOpened, SaveLocked, Holding
<1> QED
  BY <1>2, <1>3, <1>4, <1>5, <1>6, <1>7, PlainStep DEF LTypeOK

(* An aborted guard closes the save lock, then the lease file.              *)
LEMMA GuardReleaseKeeps ==
    ASSUME LeaseInv, NEW l \in Lease, GuardRelease(l) PROVE LeaseInv'
<1> USE DEF LeaseInv
<1>1. /\ lease[l].pc \in {"abort", "gunlock"} /\ ProcOf[l] \in Proc /\ l # NoLease
      /\ active[ProcOf[l]] = l => lease[l].pc \in ActiveSteps
      /\ owners[ProcOf[l]] = l => lease[l].pc \in OwnerSteps /\ lease[l].mode \in {"acquire", "reclaim"}
  BY LeaseAssumption DEF GuardRelease, At, ActiveTracked, OwnersTracked
<1>2. CASE At(l, "abort") /\ Close(l, "save") /\ Go(l, "gunlock")
  <2>1. /\ UNCHANGED <<platform, saver, crashes, orphaned, info, owners, active>>
        /\ CloseAll({<<l, "save">>}) /\ UNCHANGED late
        /\ Go(l, "gunlock")
    BY <1>2 DEF GuardRelease, At, registry, Close
  <2>2. "gunlock" \in Steps /\ lease[l].released \in BOOLEAN
    BY DEF Steps, Holding, LTypeOK
  <2>3. Moved(l, "gunlock", lease[l].released)
    BY <2>1, <2>2, GoMoves
  <2>4. Registers(l, "gunlock")
    BY <1>1, <1>2, <2>1 DEF Registers, ActiveSteps, OwnerSteps, LTypeOK, At
  <2>5. Fits(l, "gunlock", lease[l].released)
    BY <1>1, <1>2, <2>1 DEF Fits, EarlySteps, WriterHolds, ReleasedTracked,
       SavesCounted, At
  <2> DEFINE F == {"save"}
  <2>6. /\ \A f \in F : "gunlock" \notin StepsOpened(f) \cup StepsLocked(f)
        /\ \A g \in File \ F : LeavesFile(l, "gunlock", g)
    BY <1>1, <1>2 DEF LeavesFile, Removed, File, StepsOpened, StepsLocked, LeaseOpened,
       LeaseLocked, SaveOpened, SaveLocked, Holding, At
  <2>7. F \in SUBSET File /\ CloseAll({l} \X F)
    <3>1. {l} \X F = {<<l, "save">>}
      OBVIOUS
    <3> QED
      BY <2>1, <3>1 DEF File
  <2> HIDE DEF F
  <2> QED
    BY <2>1, <2>2, <2>3, <2>4, <2>5, <2>6, <2>7, CloseStep
<1>3. CASE At(l, "gunlock") /\ Close(l, "lease") /\ Go(l, "done")
  <2>1. /\ UNCHANGED <<platform, saver, crashes, orphaned, info, owners, active>>
        /\ CloseAll({<<l, "lease">>}) /\ UNCHANGED late
        /\ Go(l, "done")
    BY <1>3 DEF GuardRelease, At, registry, Close
  <2>2. "done" \in Steps /\ lease[l].released \in BOOLEAN
    BY DEF Steps, Holding, LTypeOK
  <2>3. Moved(l, "done", lease[l].released)
    BY <2>1, <2>2, GoMoves
  <2>4. Registers(l, "done")
    BY <1>1, <1>3, <2>1 DEF Registers, ActiveSteps, OwnerSteps, LTypeOK, At
  <2>5. Fits(l, "done", lease[l].released)
    BY <1>1, <1>3, <2>1 DEF Fits, EarlySteps, WriterHolds, ReleasedTracked,
       SavesCounted, At
  <2> DEFINE F == {"lease"}
  <2>6. /\ \A f \in F : "done" \notin StepsOpened(f) \cup StepsLocked(f)
        /\ \A g \in File \ F : LeavesFile(l, "done", g)
    BY <1>1, <1>3 DEF LeavesFile, Removed, File, StepsOpened, StepsLocked, LeaseOpened,
       LeaseLocked, SaveOpened, SaveLocked, Holding, At
  <2>7. F \in SUBSET File /\ CloseAll({l} \X F)
    <3>1. {l} \X F = {<<l, "lease">>}
      OBVIOUS
    <3> QED
      BY <2>1, <3>1 DEF File
  <2> HIDE DEF F
  <2> QED
    BY <2>1, <2>2, <2>3, <2>4, <2>5, <2>6, <2>7, CloseStep
<1> QED
  BY <1>2, <1>3 DEF GuardRelease, At

(* The stale save lock is removed and closed.                               *)
LEMMA StaleSaveRemoveKeeps ==
    ASSUME LeaseInv, NEW l \in Lease, StaleSaveRemove(l) PROVE LeaseInv'
<1> USE DEF LeaseInv
<1>1. /\ lease[l].pc \in {"staleremove", "staleunlock"} /\ ProcOf[l] \in Proc /\ l # NoLease
      /\ active[ProcOf[l]] = l => lease[l].pc \in ActiveSteps
      /\ owners[ProcOf[l]] = l => lease[l].pc \in OwnerSteps /\ lease[l].mode \in {"acquire", "reclaim"}
  BY LeaseAssumption DEF StaleSaveRemove, At, ActiveTracked, OwnersTracked
<1>2. CASE At(l, "staleremove") /\ Unlink(l, "save") /\ Go(l, "staleunlock")
  <2>1. /\ UNCHANGED <<platform, saver, crashes, orphaned, info, owners, active>>
        /\ Unlink(l, "save")
        /\ Go(l, "staleunlock")
    BY <1>2 DEF StaleSaveRemove, At, registry
  <2>2. "staleunlock" \in Steps /\ lease[l].released \in BOOLEAN
    BY DEF Steps, Holding, LTypeOK
  <2>3. Moved(l, "staleunlock", lease[l].released)
    BY <2>1, <2>2, GoMoves
  <2>4. Registers(l, "staleunlock")
    BY <1>1, <1>2, <2>1 DEF Registers, ActiveSteps, OwnerSteps, LTypeOK, At
  <2>5. Fits(l, "staleunlock", lease[l].released)
    BY <1>1, <1>2, <2>1 DEF Fits, EarlySteps, WriterHolds, ReleasedTracked,
       SavesCounted, At
  <2>6. /\ lease[l].pc \in (StepsOpened("save") \cap StepsLocked("save")) \ Removed("save")
        /\ "staleunlock" \in StepsOpened("save") \cap StepsLocked("save") \cap Removed("save")
        /\ \A g \in File \ {"save"} : LeavesFile(l, "staleunlock", g)
    BY <1>1, <1>2 DEF LeavesFile, Removed, File, StepsOpened, StepsLocked, LeaseOpened,
       LeaseLocked, SaveOpened, SaveLocked, Holding, At
  <2> QED
    BY <2>1, <2>2, <2>3, <2>4, <2>5, <2>6, UnlinkStep DEF File
<1>3. CASE At(l, "staleunlock") /\ Close(l, "save") /\ Go(l, "done")
  <2>1. /\ UNCHANGED <<platform, saver, crashes, orphaned, info, owners, active>>
        /\ CloseAll({<<l, "save">>}) /\ UNCHANGED late
        /\ Go(l, "done")
    BY <1>3 DEF StaleSaveRemove, At, registry, Close
  <2>2. "done" \in Steps /\ lease[l].released \in BOOLEAN
    BY DEF Steps, Holding, LTypeOK
  <2>3. Moved(l, "done", lease[l].released)
    BY <2>1, <2>2, GoMoves
  <2>4. Registers(l, "done")
    BY <1>1, <1>3, <2>1 DEF Registers, ActiveSteps, OwnerSteps, LTypeOK, At
  <2>5. Fits(l, "done", lease[l].released)
    BY <1>1, <1>3, <2>1 DEF Fits, EarlySteps, WriterHolds, ReleasedTracked,
       SavesCounted, At
  <2> DEFINE F == {"save"}
  <2>6. /\ \A f \in F : "done" \notin StepsOpened(f) \cup StepsLocked(f)
        /\ \A g \in File \ F : LeavesFile(l, "done", g)
    BY <1>1, <1>3 DEF LeavesFile, Removed, File, StepsOpened, StepsLocked, LeaseOpened,
       LeaseLocked, SaveOpened, SaveLocked, Holding, At
  <2>7. F \in SUBSET File /\ CloseAll({l} \X F)
    <3>1. {l} \X F = {<<l, "save">>}
      OBVIOUS
    <3> QED
      BY <2>1, <3>1 DEF File
  <2> HIDE DEF F
  <2> QED
    BY ZenonT(60), <2>1, <2>2, <2>3, <2>4, <2>5, <2>6, <2>7, CloseStep
<1> QED
  BY <1>2, <1>3 DEF StaleSaveRemove, At

(* A guard removes both files, the save lock first.                         *)
LEMMA RemoveSidecarsKeeps ==
    ASSUME LeaseInv, NEW l \in Lease, RemoveSidecarsAndRelease(l) PROVE LeaseInv'
<1> USE DEF LeaseInv
<1>1. /\ lease[l].pc \in {"gremove", "gclear", "gremove2"} /\ ProcOf[l] \in Proc /\ l # NoLease
      /\ active[ProcOf[l]] = l => lease[l].pc \in ActiveSteps
      /\ owners[ProcOf[l]] = l => lease[l].pc \in OwnerSteps /\ lease[l].mode \in {"acquire", "reclaim"}
  BY LeaseAssumption DEF RemoveSidecarsAndRelease, At, ActiveTracked, OwnersTracked
<1>2. CASE At(l, "gremove") /\ Unlink(l, "save") /\ Go(l, "gclear")
  <2>1. /\ UNCHANGED <<platform, saver, crashes, orphaned, info, owners, active>>
        /\ Unlink(l, "save")
        /\ Go(l, "gclear")
    BY <1>2 DEF RemoveSidecarsAndRelease, At, registry
  <2>2. "gclear" \in Steps /\ lease[l].released \in BOOLEAN
    BY DEF Steps, Holding, LTypeOK
  <2>3. Moved(l, "gclear", lease[l].released)
    BY <2>1, <2>2, GoMoves
  <2>4. Registers(l, "gclear")
    BY <1>1, <1>2, <2>1 DEF Registers, ActiveSteps, OwnerSteps, LTypeOK, At
  <2>5. Fits(l, "gclear", lease[l].released)
    BY <1>1, <1>2, <2>1 DEF Fits, EarlySteps, WriterHolds, ReleasedTracked,
       SavesCounted, At
  <2>6. /\ lease[l].pc \in (StepsOpened("save") \cap StepsLocked("save")) \ Removed("save")
        /\ "gclear" \in StepsOpened("save") \cap StepsLocked("save") \cap Removed("save")
        /\ \A g \in File \ {"save"} : LeavesFile(l, "gclear", g)
    BY <1>1, <1>2 DEF LeavesFile, Removed, File, StepsOpened, StepsLocked, LeaseOpened,
       LeaseLocked, SaveOpened, SaveLocked, Holding, At
  <2> QED
    BY <2>1, <2>2, <2>3, <2>4, <2>5, <2>6, UnlinkStep DEF File
<1>3. CASE At(l, "gclear") /\ Close(l, "save") /\ Go(l, "gremove2")
  <2>1. /\ UNCHANGED <<platform, saver, crashes, orphaned, info, owners, active>>
        /\ CloseAll({<<l, "save">>}) /\ UNCHANGED late
        /\ Go(l, "gremove2")
    BY <1>3 DEF RemoveSidecarsAndRelease, At, registry, Close
  <2>2. "gremove2" \in Steps /\ lease[l].released \in BOOLEAN
    BY DEF Steps, Holding, LTypeOK
  <2>3. Moved(l, "gremove2", lease[l].released)
    BY <2>1, <2>2, GoMoves
  <2>4. Registers(l, "gremove2")
    BY <1>1, <1>3, <2>1 DEF Registers, ActiveSteps, OwnerSteps, LTypeOK, At
  <2>5. Fits(l, "gremove2", lease[l].released)
    BY <1>1, <1>3, <2>1 DEF Fits, EarlySteps, WriterHolds, ReleasedTracked,
       SavesCounted, At
  <2> DEFINE F == {"save"}
  <2>6. /\ \A f \in F : "gremove2" \notin StepsOpened(f) \cup StepsLocked(f)
        /\ \A g \in File \ F : LeavesFile(l, "gremove2", g)
    BY <1>1, <1>3 DEF LeavesFile, Removed, File, StepsOpened, StepsLocked, LeaseOpened,
       LeaseLocked, SaveOpened, SaveLocked, Holding, At
  <2>7. F \in SUBSET File /\ CloseAll({l} \X F)
    <3>1. {l} \X F = {<<l, "save">>}
      OBVIOUS
    <3> QED
      BY <2>1, <3>1 DEF File
  <2> HIDE DEF F
  <2> QED
    BY <2>1, <2>2, <2>3, <2>4, <2>5, <2>6, <2>7, CloseStep
<1>4. CASE At(l, "gremove2") /\ Unlink(l, "lease") /\ Go(l, "gunlock")
  <2>1. /\ UNCHANGED <<platform, saver, crashes, orphaned, info, owners, active>>
        /\ Unlink(l, "lease")
        /\ Go(l, "gunlock")
    BY <1>4 DEF RemoveSidecarsAndRelease, At, registry
  <2>2. "gunlock" \in Steps /\ lease[l].released \in BOOLEAN
    BY DEF Steps, Holding, LTypeOK
  <2>3. Moved(l, "gunlock", lease[l].released)
    BY <2>1, <2>2, GoMoves
  <2>4. Registers(l, "gunlock")
    BY <1>1, <1>4, <2>1 DEF Registers, ActiveSteps, OwnerSteps, LTypeOK, At
  <2>5. Fits(l, "gunlock", lease[l].released)
    BY <1>1, <1>4, <2>1 DEF Fits, EarlySteps, WriterHolds, ReleasedTracked,
       SavesCounted, At
  <2>6. /\ lease[l].pc \in (StepsOpened("lease") \cap StepsLocked("lease")) \ Removed("lease")
        /\ "gunlock" \in StepsOpened("lease") \cap StepsLocked("lease") \cap Removed("lease")
        /\ \A g \in File \ {"lease"} : LeavesFile(l, "gunlock", g)
    BY <1>1, <1>4 DEF LeavesFile, Removed, File, StepsOpened, StepsLocked, LeaseOpened,
       LeaseLocked, SaveOpened, SaveLocked, Holding, At
  <2> QED
    BY <2>1, <2>2, <2>3, <2>4, <2>5, <2>6, UnlinkStep DEF File
<1> QED
  BY <1>2, <1>3, <1>4 DEF RemoveSidecarsAndRelease, At

-----------------------------------------------------------------------------
(***************************************************************************)
(* The other steps: authorities, the wait of Release, saves and crashes.   *)
(***************************************************************************)

(* A step that moves nobody and touches no file: only the counting of saves *)
(* is left to show.                                                         *)
LEMMA CountingStep ==
    ASSUME LeaseInv, UNCHANGED <<platform, files, info, registry, crashes, orphaned>>,
           lease' \in [Lease -> LeaseRecord],
           saver' \in [Proc -> [pc : {"off", "lock", "begin", "write", "unlock"},
                                lease : Lease \cup {NoLease}]],
           \A k \in Lease : /\ lease'[k].pc = lease[k].pc /\ lease'[k].mode = lease[k].mode
                            /\ lease'[k].released = lease[k].released,
           \A p \in Proc : \/ saver'[p] = saver[p]
                           \/ /\ saver[p].pc \in {"begin", "write", "unlock"}
                              /\ saver'[p].pc \in {"begin", "write", "unlock"},
           SavesCounted', WriterHolds', ParkedReleaseHasWaker'
    PROVE  LeaseInv'
<1> USE DEF LeaseInv
<1>1. UNCHANGED <<name, doomed, fd, held, late, fellback, owners, active>>
  BY DEF files, registry
<1>2. LTypeOK'
  BY <1>1 DEF LTypeOK, LeaseRecord
<1>3. LeasesTracked'
  BY <1>1 DEF LeasesTracked
<1>4. SaversTracked'
  BY ZenonT(60), <1>1 DEF SaversTracked
<1>5. LocksExclusive' /\ WindowsNamed'
  BY <1>1 DEF LocksExclusive, WindowsNamed
<1>6. LockedIsNamed'
  BY <1>1 DEF LockedIsNamed, Kept
<1>7. ActiveTracked'
  BY <1>1 DEF ActiveTracked, LTypeOK
<1>8. OwnersTracked'
  BY <1>1 DEF OwnersTracked, LTypeOK
<1>9. ReleasedTracked'
  BY DEF ReleasedTracked
<1> QED
  BY <1>2, <1>3, <1>4, <1>5, <1>6, <1>7, <1>8, <1>9

(* A fresh authority.                                                       *)
LEMMA IssueKeeps ==
    ASSUME LeaseInv, NEW l \in Lease, IssueWriteAuthority(l) PROVE LeaseInv'
<1> USE DEF LeaseInv
<1>1. /\ lease' = [lease EXCEPT ![l].gen = lease[l].gen + 1, ![l].cur = lease[l].gen + 1]
      /\ lease[l].gen < MaxGen
      /\ UNCHANGED <<platform, files, info, registry, saver, crashes, orphaned>>
  BY DEF IssueWriteAuthority
<1>2. lease[l] \in LeaseRecord /\ lease[l].gen + 1 \in 0..MaxGen
  BY <1>1, LimitsAssumption DEF LTypeOK, LeaseRecord
<1>3. lease' = [lease EXCEPT ![l] = [lease[l] EXCEPT !.gen = lease[l].gen + 1, !.cur = lease[l].gen + 1]]
  BY <1>1 DEF LTypeOK
<1>4. [lease[l] EXCEPT !.gen = lease[l].gen + 1, !.cur = lease[l].gen + 1] \in LeaseRecord
  BY <1>2 DEF LeaseRecord
<1>5. /\ lease' \in [Lease -> LeaseRecord]
      /\ \A k \in Lease : /\ lease'[k].pc = lease[k].pc /\ lease'[k].mode = lease[k].mode
                          /\ lease'[k].released = lease[k].released
                          /\ lease'[k].saves = lease[k].saves /\ lease'[k].chan = lease[k].chan
  BY <1>2, <1>3, <1>4 DEF LTypeOK, LeaseRecord
<1>6. SavesCounted' /\ WriterHolds' /\ ParkedReleaseHasWaker'
  BY <1>1, <1>5 DEF SavesCounted, WriterHolds, ParkedReleaseHasWaker, Writing
<1> QED
  BY <1>1, <1>5, <1>6, CountingStep DEF LTypeOK

(* Release goes ahead when no save is under way, and parks otherwise.       *)
LEMMA ReleaseKeeps ==
    ASSUME LeaseInv, NEW l \in Lease, Release(l) PROVE LeaseInv'
<1> USE DEF LeaseInv
<1>1. /\ lease[l].pc = "held" /\ ProcOf[l] \in Proc /\ l # NoLease
      /\ UNCHANGED <<platform, files, info, owners, active, saver, crashes, orphaned>>
  BY LeaseAssumption DEF Release, At, registry
<1>2. CASE lease[l].saves = 0
  <2>1. lease' = [lease EXCEPT ![l].pc = "revoke", ![l].released = TRUE]
    BY <1>2 DEF Release
  <2>2. "revoke" \in Steps /\ TRUE \in BOOLEAN
    BY DEF Steps, Holding
  <2>3. Moved(l, "revoke", TRUE)
    BY <2>1, <2>2, ReleaseMoves
  <2>4. Registers(l, "revoke")
    <3>1. owners[ProcOf[l]] = l => lease[l].mode \in {"acquire", "reclaim"}
      BY <1>1 DEF OwnersTracked
    <3> QED
      BY <1>1, <3>1 DEF Registers, ActiveSteps, OwnerSteps, LTypeOK
  <2>5. Fits(l, "revoke", TRUE)
    BY <1>1, <1>2 DEF Fits, EarlySteps, SavesCounted
  <2>6. \A f \in File : LeavesFile(l, "revoke", f)
    BY <1>1 DEF LeavesFile, Removed, File, StepsOpened, StepsLocked, LeaseOpened,
       LeaseLocked, SaveOpened, SaveLocked, Holding
  <2> QED
    BY <1>1, <2>2, <2>3, <2>4, <2>5, <2>6, PlainStep DEF LTypeOK
<1>3. CASE lease[l].saves # 0
  <2>1. lease' = [lease EXCEPT ![l].chan = TRUE]
    BY <1>3 DEF Release
  <2>2. /\ lease' \in [Lease -> LeaseRecord]
        /\ \A k \in Lease : /\ lease'[k].pc = lease[k].pc /\ lease'[k].mode = lease[k].mode
                            /\ lease'[k].released = lease[k].released
                            /\ lease'[k].saves = lease[k].saves
                            /\ k # l => lease'[k].chan = lease[k].chan
    BY ZenonT(60), <2>1 DEF LTypeOK, LeaseRecord
  <2>3. SavesCounted' /\ WriterHolds'
    BY <1>1, <2>2 DEF SavesCounted, WriterHolds, Writing
  <2>4. ParkedReleaseHasWaker'
    BY <1>3, <2>2 DEF ParkedReleaseHasWaker, LTypeOK
  <2> QED
    BY <1>1, <2>2, <2>3, <2>4, CountingStep DEF LTypeOK, registry
<1> QED
  BY <1>2, <1>3

(* An authorised save is counted under a lease that is held.                *)
LEMMA BeginSaveKeeps ==
    ASSUME LeaseInv, NEW p \in Proc, BeginSave(p) PROVE LeaseInv'
<1> USE DEF LeaseInv
<1>1. PICK l \in Lease, g \in 1..MaxGen :
         /\ saver[p].pc = "begin" /\ ProcOf[l] = p /\ MutexFree(l)
         /\ UNCHANGED <<platform, files, info, registry, crashes, orphaned>>
         /\ \/ /\ AuthorityValid(l, g)
               /\ lease' = [lease EXCEPT ![l].saves = lease[l].saves + 1]
               /\ saver' = [saver EXCEPT ![p] = [pc |-> "write", lease |-> l]]
            \/ saver' = [saver EXCEPT ![p].pc = "unlock"] /\ UNCHANGED lease
  <2>1. PICK l \in Lease : \E g \in 1..lease[l].gen :
          /\ ProcOf[l] = p /\ MutexFree(l)
          /\ IF AuthorityValid(l, g)
             THEN /\ lease' = [lease EXCEPT ![l].saves = @ + 1]
                  /\ saver' = [saver EXCEPT ![p] = [pc |-> "write", lease |-> l]]
             ELSE SaveTo(p, "unlock") /\ UNCHANGED lease
    BY DEF BeginSave
  <2>2. \A g \in 1..lease[l].gen : g \in 1..MaxGen
    BY LimitsAssumption DEF LTypeOK
  <2> QED
    BY <2>1, <2>2 DEF BeginSave, SaveTo
<1>2. CASE saver' = [saver EXCEPT ![p].pc = "unlock"] /\ UNCHANGED lease
  <2>1. SavesCounted' /\ WriterHolds' /\ ParkedReleaseHasWaker'
    BY <1>1, <1>2 DEF SavesCounted, WriterHolds, ParkedReleaseHasWaker, Writing, LTypeOK
  <2>2. /\ saver' \in [Proc -> [pc : {"off", "lock", "begin", "write", "unlock"},
                                lease : Lease \cup {NoLease}]]
        /\ \A q \in Proc : \/ saver'[q] = saver[q]
                           \/ /\ saver[q].pc \in {"begin", "write", "unlock"}
                              /\ saver'[q].pc \in {"begin", "write", "unlock"}
    BY <1>1, <1>2 DEF LTypeOK
  <2> QED
    BY <1>1, <1>2, <2>1, <2>2, CountingStep DEF LTypeOK, LeaseRecord
<1>3. CASE /\ AuthorityValid(l, g)
           /\ lease' = [lease EXCEPT ![l].saves = lease[l].saves + 1]
           /\ saver' = [saver EXCEPT ![p] = [pc |-> "write", lease |-> l]]
  <2>1. lease[l].saves = 0
    BY <1>1 DEF SavesCounted, Writing
  <2>2. lease[l].pc = "held"
    <3>1. /\ lease[l].pc \in ActiveSteps /\ ~lease[l].released
          /\ <<l, "lease">> \in held /\ lease[l].pc # "convert"
      BY <1>1, <1>3, LeaseAssumption DEF AuthorityValid, ActiveTracked, MutexFree, At
    <3>2. lease[l].pc # "dropped"
      BY <3>1 DEF LeasesTracked, StepsLocked, LeaseLocked, Holding, File
    <3> QED
      BY <3>1, <3>2 DEF ActiveSteps, ReleasedTracked
  <2>3. /\ lease' \in [Lease -> LeaseRecord]
        /\ \A k \in Lease : /\ lease'[k].pc = lease[k].pc /\ lease'[k].mode = lease[k].mode
                            /\ lease'[k].released = lease[k].released
                            /\ lease'[k].chan = lease[k].chan
                            /\ lease'[k].saves = IF k = l THEN 1 ELSE lease[k].saves
    <3>1. lease' = [lease EXCEPT ![l].saves = 1]
      BY <1>3, <2>1
    <3>2. 1 \in 0..1
      OBVIOUS
    <3> QED
      BY ZenonT(60), <3>1, <3>2 DEF LTypeOK, LeaseRecord
  <2>4. /\ saver' \in [Proc -> [pc : {"off", "lock", "begin", "write", "unlock"},
                                lease : Lease \cup {NoLease}]]
        /\ \A q \in Proc : q # p => saver'[q] = saver[q]
        /\ saver'[p].pc = "write" /\ saver'[p].lease = l
    BY <1>3 DEF LTypeOK
  <2>5. SavesCounted'
    BY <1>1, <2>2, <2>3, <2>4, LeaseAssumption DEF SavesCounted, Writing
  <2>6. WriterHolds'
    BY <1>1, <2>2, <2>3, <2>4 DEF WriterHolds, Writing, SavesCounted
  <2>7. ParkedReleaseHasWaker'
    BY <2>1, <2>3 DEF ParkedReleaseHasWaker
  <2>8. \A q \in Proc : \/ saver'[q] = saver[q]
                        \/ /\ saver[q].pc \in {"begin", "write", "unlock"}
                           /\ saver'[q].pc \in {"begin", "write", "unlock"}
    BY <1>1, <2>4
  <2> QED
    BY <1>1, <2>3, <2>4, <2>5, <2>6, <2>7, <2>8, CountingStep
<1> QED
  BY <1>1, <1>2, <1>3

(* The end of a save wakes the Release that waits for it.                   *)
LEMMA EndSaveKeeps ==
    ASSUME LeaseInv, NEW p \in Proc, EndSave(p) PROVE LeaseInv'
<1> USE DEF LeaseInv
<1> DEFINE l == saver[p].lease
<1>1. /\ saver[p].pc = "write" /\ Writing(p)
      /\ lease' = [lease EXCEPT ![l].saves = lease[l].saves - 1,
                                ![l].chan = lease[l].chan /\ ~(lease[l].saves = 1)]
      /\ saver' = [saver EXCEPT ![p] = [pc |-> "unlock", lease |-> NoLease]]
      /\ UNCHANGED <<platform, files, info, registry, crashes, orphaned>>
  BY DEF EndSave, Writing
<1>2. l \in Lease /\ ProcOf[l] = p /\ lease[l].saves = 1
  BY <1>1 DEF SavesCounted
<1> HIDE DEF l
<1>3. lease[l] \in LeaseRecord /\ lease[l].saves - 1 = 0
  BY <1>2 DEF LTypeOK, LeaseRecord
<1>4. lease' = [lease EXCEPT ![l] = [lease[l] EXCEPT !.saves = 0, !.chan = FALSE]]
  BY <1>1, <1>2, <1>3 DEF LTypeOK
<1>5. [lease[l] EXCEPT !.saves = 0, !.chan = FALSE] \in LeaseRecord
  <2>1. 0 \in 0..1 /\ FALSE \in BOOLEAN
    OBVIOUS
  <2> HIDE <1>1, <1>4
  <2> QED
    BY <1>3, <2>1 DEF LeaseRecord
<1>6. /\ lease' \in [Lease -> LeaseRecord]
      /\ \A k \in Lease : /\ lease'[k].pc = lease[k].pc /\ lease'[k].mode = lease[k].mode
                          /\ lease'[k].released = lease[k].released
                          /\ k # l => lease'[k] = lease[k]
      /\ lease'[l].saves = 0 /\ lease'[l].chan = FALSE
  BY <1>2, <1>3, <1>4, <1>5 DEF LTypeOK, LeaseRecord
<1>7. /\ saver' \in [Proc -> [pc : {"off", "lock", "begin", "write", "unlock"},
                              lease : Lease \cup {NoLease}]]
      /\ \A q \in Proc : q # p => saver'[q] = saver[q]
      /\ saver'[p].pc = "unlock" /\ saver'[p].lease = NoLease
  BY <1>1 DEF LTypeOK
<1>8. SavesCounted'
  <2>1. \A q \in Proc : Writing(q)' => q # p /\ Writing(q)
    BY <1>7 DEF Writing
  <2>2. \A q \in Proc : Writing(q)' => /\ saver'[q].lease \in Lease /\ ProcOf[saver'[q].lease] = q
                                       /\ lease'[saver'[q].lease].pc # "new"
    BY <2>1, <1>6, <1>7 DEF SavesCounted
  <2>3. ASSUME NEW k \in Lease
        PROVE  lease'[k].saves = IF Writing(ProcOf[k])' /\ saver'[ProcOf[k]].lease = k THEN 1 ELSE 0
    <3>1. ProcOf[k] \in Proc /\ NoLease \notin Lease
      BY LeaseAssumption
    <3>2. CASE k = l
      BY <1>2, <1>6, <1>7, <3>2 DEF Writing
    <3>3. CASE k # l /\ ProcOf[k] = p
      <4>1. lease[k].saves = 0
        BY <3>3 DEF SavesCounted, l
      <4> QED
        BY <1>6, <1>7, <3>3, <4>1 DEF Writing
    <3>4. CASE ProcOf[k] # p
      <4>1. k # l /\ saver'[ProcOf[k]] = saver[ProcOf[k]]
        BY <1>2, <1>7, <3>1, <3>4
      <4> QED
        BY <1>6, <4>1 DEF SavesCounted, Writing
    <3> QED
      BY <3>2, <3>3, <3>4
  <2> QED
    BY <2>2, <2>3 DEF SavesCounted, Writing
<1>9. WriterHolds'
  BY <1>1, <1>6, <1>7 DEF WriterHolds, Writing, SavesCounted
<1>10. ParkedReleaseHasWaker'
  BY <1>6 DEF ParkedReleaseHasWaker
<1>11. \A q \in Proc : \/ saver'[q] = saver[q]
                       \/ /\ saver[q].pc \in {"begin", "write", "unlock"}
                          /\ saver'[q].pc \in {"begin", "write", "unlock"}
  BY <1>1, <1>7
<1> QED
  BY <1>1, <1>6, <1>7, <1>8, <1>9, <1>10, <1>11, CountingStep

(* What is left to show of a step of a saver that is not writing: its file  *)
(* and the names of the locked ones.                                        *)
LEMMA SaverKeeps ==
    ASSUME LeaseInv, UNCHANGED <<platform, registry, lease, crashes>>, NEW p \in Proc,
           saver' \in [Proc -> [pc : {"off", "lock", "begin", "write", "unlock"},
                                lease : Lease \cup {NoLease}]],
           \A q \in Proc : q # p => saver'[q] = saver[q],
           saver[p].pc # "write", saver'[p].pc # "write",
           fd' \in [Agent -> [File -> Inode \cup {NoFile}]],
           name' \in [File -> Inode \cup {NoFile}], doomed' \subseteq Inode,
           late' \subseteq Agent \X File, fellback' = fellback,
           held' \subseteq Agent \X File, info' \in [Inode -> Proc \cup {NoProc}],
           orphaned' \in BOOLEAN, ~orphaned' => ~orphaned,
           \A a \in Agent, f \in File : a # p \/ f # "save" =>
               fd'[a][f] = fd[a][f] /\ (<<a, f>> \in held' <=> <<a, f>> \in held),
           fd'[p]["save"] # NoFile <=> saver'[p].pc # "off",
           <<p, "save">> \in held' <=> saver'[p].pc \in {"begin", "write", "unlock"},
           LocksExclusive', WindowsNamed', LockedIsNamed'
    PROVE  LeaseInv'
<1> USE DEF LeaseInv
<1>1. UNCHANGED <<owners, active>>
  BY DEF registry
<1>2. LTypeOK'
  BY <1>1 DEF LTypeOK
<1>3. LeasesTracked'
  <2>1. \A k \in Lease : k \in Agent /\ k # p
    BY LeaseAssumption DEF Agent
  <2>2. \A k \in Lease, f \in File :
           fd'[k][f] = fd[k][f] /\ (<<k, f>> \in held' <=> <<k, f>> \in held)
    BY <2>1
  <2>3. lease' = lease
    OBVIOUS
  <2> QED
    <3> SUFFICES ASSUME NEW k \in Lease, NEW f \in File
                 PROVE  /\ fd'[k][f] # NoFile <=> lease'[k].pc \in StepsOpened(f)
                        /\ <<k, f>> \in held' <=> lease'[k].pc \in StepsLocked(f)
      BY DEF LeasesTracked
    <3>1. /\ fd[k][f] # NoFile <=> lease[k].pc \in StepsOpened(f)
          /\ <<k, f>> \in held <=> lease[k].pc \in StepsLocked(f)
      BY DEF LeasesTracked
    <3> QED
      BY <2>2, <2>3, <3>1
<1>4. SaversTracked'
  BY ZenonT(60) DEF SaversTracked, Agent, File
<1>5. ActiveTracked' /\ OwnersTracked' /\ ReleasedTracked' /\ ParkedReleaseHasWaker'
  BY <1>1 DEF ActiveTracked, OwnersTracked, ReleasedTracked, ParkedReleaseHasWaker
<1>6. SavesCounted' /\ WriterHolds'
  <2>1. \A q \in Proc : /\ Writing(q)' <=> Writing(q)
                        /\ Writing(q) => saver'[q] = saver[q]
    BY DEF Writing
  <2>2. SavesCounted'
    BY <2>1, LeaseAssumption DEF SavesCounted
  <2>3. WriterHolds'
    BY <2>1 DEF WriterHolds
  <2> QED
    BY <2>2, <2>3
<1> QED
  BY <1>2, <1>3, <1>4, <1>5, <1>6

(* A save opens the save lock.                                              *)
LEMMA SaveOpenKeeps ==
    ASSUME LeaseInv, NEW p \in Proc, SaveOpen(p) PROVE LeaseInv'
<1> USE DEF LeaseInv
<1>1. /\ p \in Agent /\ "save" \in File /\ saver[p].pc = "off" /\ Open(p, "save")
      /\ saver' = [saver EXCEPT ![p].pc = "lock"]
      /\ UNCHANGED <<platform, registry, lease, crashes, orphaned>>
  BY DEF SaveOpen, SaveTo, Agent, File
<1>2. <<p, "save">> \notin held
  BY <1>1 DEF SaversTracked
<1>3. /\ fd' \in [Agent -> [File -> Inode \cup {NoFile}]]
      /\ name' \in [File -> Inode \cup {NoFile}]
      /\ info' \in [Inode -> Proc \cup {NoProc}]
      /\ UNCHANGED <<doomed, held, late, fellback>>
      /\ fd'[p]["save"] = name'["save"] /\ name'["save"] # NoFile
      /\ \A b \in Agent, g \in File : b # p \/ g # "save" => fd'[b][g] = fd[b][g]
      /\ \A b \in Agent, g \in File :
            <<b, g>> \in held /\ fd[b][g] = name[g] => fd'[b][g] = name'[g]
      /\ LocksExclusive' /\ WindowsNamed'
  BY <1>1, <1>2, OpenFile
<1>4. LockedIsNamed'
  BY <1>1, <1>3 DEF LockedIsNamed, Kept
<1>5. /\ saver' \in [Proc -> [pc : {"off", "lock", "begin", "write", "unlock"},
                              lease : Lease \cup {NoLease}]]
      /\ \A q \in Proc : q # p => saver'[q] = saver[q]
      /\ saver'[p].pc = "lock"
  BY <1>1 DEF LTypeOK
<1>6. /\ held' \subseteq Agent \X File /\ doomed' \subseteq Inode /\ orphaned' \in BOOLEAN
      /\ late' \subseteq Agent \X File
  BY <1>1, <1>3 DEF LTypeOK
<1>7. \A a \in Agent, f \in File : a # p \/ f # "save" =>
         fd'[a][f] = fd[a][f] /\ (<<a, f>> \in held' <=> <<a, f>> \in held)
  BY <1>3
<1>8. /\ fd'[p]["save"] # NoFile <=> saver'[p].pc # "off"
      /\ <<p, "save">> \in held' <=> saver'[p].pc \in {"begin", "write", "unlock"}
  BY <1>2, <1>3, <1>5
<1> QED
  BY <1>1, <1>3, <1>4, <1>5, <1>6, <1>7, <1>8, SaverKeeps

(* A saver that closes the save lock, after its save or without it.         *)
LEMMA SaverCloses ==
    ASSUME LeaseInv, NEW p \in Proc, saver[p].pc # "write", Close(p, "save"), SaveTo(p, "off"),
           UNCHANGED <<platform, info, registry, lease, crashes, orphaned>>
    PROVE  LeaseInv'
<1> USE DEF LeaseInv
<1> DEFINE S == {<<p, "save">>}
<1>1. /\ p \in Agent /\ "save" \in File /\ S \in SUBSET (Agent \X File) /\ CloseAll(S)
      /\ late' = late
      /\ saver' = [saver EXCEPT ![p].pc = "off"]
  BY DEF Close, SaveTo, Agent, File
<1>2. /\ fd' \in [Agent -> [File -> Inode \cup {NoFile}]]
      /\ name' \in [File -> Inode \cup {NoFile}]
      /\ doomed' \subseteq Inode /\ fellback' = fellback /\ held' = held \ S
      /\ \A b \in Agent, g \in File : fd'[b][g] = IF <<b, g>> \in S THEN NoFile ELSE fd[b][g]
      /\ \A b \in Agent, g \in File :
            <<b, g>> \in held' /\ fd[b][g] = name[g] => fd'[b][g] = name'[g]
      /\ LocksExclusive' /\ WindowsNamed'
  <2> HIDE DEF S
  <2> QED
    BY <1>1, CloseFiles
<1>3. LockedIsNamed'
  BY <1>1, <1>2 DEF LockedIsNamed, Kept
<1>4. /\ saver' \in [Proc -> [pc : {"off", "lock", "begin", "write", "unlock"},
                              lease : Lease \cup {NoLease}]]
      /\ \A q \in Proc : q # p => saver'[q] = saver[q]
      /\ saver'[p].pc = "off"
  BY ZenonT(60), <1>1 DEF LTypeOK
<1>5. /\ held' \subseteq Agent \X File /\ info' \in [Inode -> Proc \cup {NoProc}] /\ orphaned' \in BOOLEAN
      /\ late' \subseteq Agent \X File
  BY <1>1, <1>2 DEF LTypeOK
<1>6. \A a \in Agent, f \in File : a # p \/ f # "save" =>
         fd'[a][f] = fd[a][f] /\ (<<a, f>> \in held' <=> <<a, f>> \in held)
  BY <1>2
<1>7. /\ fd'[p]["save"] # NoFile <=> saver'[p].pc # "off"
      /\ <<p, "save">> \in held' <=> saver'[p].pc \in {"begin", "write", "unlock"}
  BY <1>1, <1>2, <1>4
<1> HIDE DEF S
<1> QED
  BY <1>2, <1>3, <1>4, <1>5, <1>6, <1>7, SaverKeeps

(* A save takes the save lock, or closes the file and tries again.          *)
LEMMA SaveLockKeeps ==
    ASSUME LeaseInv, NEW p \in Proc, SaveLock(p) PROVE LeaseInv'
<1> USE DEF LeaseInv
<1>1. /\ p \in Agent /\ "save" \in File /\ saver[p].pc = "lock"
      /\ UNCHANGED <<platform, info, registry, lease, crashes>>
  BY DEF SaveLock, Agent, File
<1>2. CASE Close(p, "save") /\ SaveTo(p, "off") /\ UNCHANGED orphaned
  BY <1>1, <1>2, SaverCloses
<1>3. CASE TakeLock(p, "save") /\ SaveTo(p, "begin")
  <2>1. fd[p]["save"] # NoFile
    BY <1>1 DEF SaversTracked
  <2>2. /\ held' = held \cup {<<p, "save">>} /\ UNCHANGED <<name, doomed, fd, late, fellback>>
        /\ orphaned' \in BOOLEAN /\ (~orphaned' => ~orphaned /\ fd[p]["save"] = name["save"])
        /\ LocksExclusive' /\ WindowsNamed'
    BY <1>1, <1>3, <2>1, LockFile
  <2>3. LockedIsNamed'
    BY <1>1, <2>2 DEF LockedIsNamed, Kept
  <2>4. /\ saver' \in [Proc -> [pc : {"off", "lock", "begin", "write", "unlock"},
                                lease : Lease \cup {NoLease}]]
        /\ \A q \in Proc : q # p => saver'[q] = saver[q]
        /\ saver'[p].pc = "begin"
    BY <1>3 DEF LTypeOK, SaveTo
  <2>5. held' \subseteq Agent \X File /\ late' \subseteq Agent \X File
    BY <1>1, <2>2 DEF LTypeOK
  <2>6. \A a \in Agent, f \in File : a # p \/ f # "save" =>
           fd'[a][f] = fd[a][f] /\ (<<a, f>> \in held' <=> <<a, f>> \in held)
    BY <2>2
  <2>7. /\ fd'[p]["save"] # NoFile <=> saver'[p].pc # "off"
        /\ <<p, "save">> \in held' <=> saver'[p].pc \in {"begin", "write", "unlock"}
    BY <2>1, <2>2, <2>4
  <2> QED
    BY <1>1, <2>2, <2>3, <2>4, <2>5, <2>6, <2>7, SaverKeeps DEF LTypeOK
<1> QED
  BY <1>2, <1>3 DEF SaveLock

(* A save is over.                                                          *)
LEMMA SaveUnlockKeeps ==
    ASSUME LeaseInv, NEW p \in Proc, SaveUnlock(p) PROVE LeaseInv'
  BY SaverCloses DEF SaveUnlock

(* An attempt that has not begun.                                           *)
LEMMA FreshLease ==
    /\ NewLease \in LeaseRecord
    /\ NewLease.pc = "new" /\ NewLease.saves = 0 /\ NewLease.chan = FALSE /\ NewLease.released = FALSE
<1>1. "new" \in Steps /\ "none" \in AllModes \cup {"none"} /\ FALSE \in BOOLEAN
  BY DEF Steps
<1>2. 0 \in 0..MaxGen /\ 0 \in 0..1
  BY LimitsAssumption
<1> QED
  BY <1>1, <1>2 DEF NewLease, LeaseRecord

(* The death of a process closes its files and forgets its attempts.        *)
LEMMA CrashKeeps ==
    ASSUME LeaseInv, NEW p \in Proc, Crash(p) PROVE LeaseInv'
<1> USE DEF LeaseInv
<1> DEFINE mine == {l \in Lease : ProcOf[l] = p /\ lease[l].pc # "new"}
           S == (mine \cup {p}) \X File
           dead == [NewLease EXCEPT !.pc = "done"]
<1>1. /\ crashes < MaxCrashes /\ crashes' = crashes + 1 /\ CloseAll(S)
      /\ late' = late \ (mine \X File)
      /\ lease' = [l \in Lease |-> IF l \in mine THEN dead ELSE lease[l]]
      /\ saver' = [saver EXCEPT ![p] = SaverOff]
      /\ owners' = [owners EXCEPT ![p] = NoLease] /\ active' = [active EXCEPT ![p] = NoLease]
      /\ UNCHANGED <<platform, info, orphaned>>
  BY DEF Crash
<1>2. S \in SUBSET (Agent \X File)
  BY DEF Agent
<1>3. /\ dead \in LeaseRecord /\ dead.pc = "done" /\ dead.saves = 0 /\ dead.chan = FALSE
      /\ dead.released = FALSE
  <2>1. "done" \in Steps
    BY DEF Steps
  <2> QED
    BY <2>1, FreshLease DEF LeaseRecord
<1>4. \A l \in Lease : ProcOf[l] = p /\ l \notin mine => lease[l].pc = "new"
  OBVIOUS
<1>5. \A l \in mine : l \in Lease /\ ProcOf[l] = p /\ l \notin Proc
  BY LeaseAssumption
<1>6. \A a \in Agent, f \in File : <<a, f>> \in S <=> a \in mine \/ a = p
  OBVIOUS
<1> HIDE DEF mine, S, dead
<1>7. /\ fd' \in [Agent -> [File -> Inode \cup {NoFile}]]
      /\ name' \in [File -> Inode \cup {NoFile}]
      /\ doomed' \subseteq Inode /\ fellback' = fellback /\ held' = held \ S
      /\ \A b \in Agent, g \in File : fd'[b][g] = IF <<b, g>> \in S THEN NoFile ELSE fd[b][g]
      /\ \A b \in Agent, g \in File :
            <<b, g>> \in held' /\ fd[b][g] = name[g] => fd'[b][g] = name'[g]
      /\ LocksExclusive' /\ WindowsNamed'
  BY <1>1, <1>2, CloseFiles
<1>8. /\ \A l \in Lease : l \in mine => lease'[l] = dead
      /\ \A l \in Lease : l \notin mine => lease'[l] = lease[l]
      /\ lease' \in [Lease -> LeaseRecord]
  BY <1>1, <1>3 DEF LTypeOK, LeaseRecord
<1>9. /\ saver' \in [Proc -> [pc : {"off", "lock", "begin", "write", "unlock"},
                              lease : Lease \cup {NoLease}]]
      /\ \A q \in Proc : q # p => saver'[q] = saver[q]
      /\ saver'[p].pc = "off"
  BY <1>1 DEF LTypeOK, SaverOff
<1>10. /\ owners' \in [Proc -> Lease \cup {NoLease}] /\ active' \in [Proc -> Lease \cup {NoLease}]
       /\ owners'[p] = NoLease /\ active'[p] = NoLease
       /\ \A q \in Proc : q # p => owners'[q] = owners[q] /\ active'[q] = active[q]
  BY <1>1 DEF LTypeOK
<1>11. LTypeOK'
  <2>1. held' \subseteq Agent \X File /\ late' \subseteq Agent \X File /\ crashes' \in 0..MaxCrashes
    BY <1>1, <1>7, LimitsAssumption DEF LTypeOK
  <2> QED
    BY <1>1, <1>7, <1>8, <1>9, <1>10, <2>1 DEF LTypeOK, LeaseRecord
<1>12. LeasesTracked'
  <2> SUFFICES ASSUME NEW l \in Lease, NEW f \in File
               PROVE  /\ fd'[l][f] # NoFile <=> lease'[l].pc \in StepsOpened(f)
                      /\ <<l, f>> \in held' <=> lease'[l].pc \in StepsLocked(f)
    BY DEF LeasesTracked
  <2>1. l \in Agent /\ l # p
    BY LeaseAssumption DEF Agent
  <2>2. CASE l \in mine
    <3>1. "done" \notin StepsOpened(f) /\ "done" \notin StepsLocked(f)
      BY DEF StepsOpened, StepsLocked, LeaseOpened, LeaseLocked, SaveOpened, SaveLocked, Holding
    <3> QED
      BY <1>3, <1>6, <1>7, <1>8, <2>1, <2>2, <3>1
  <2>3. CASE l \notin mine
    BY <1>6, <1>7, <1>8, <2>1, <2>3 DEF LeasesTracked
  <2> QED
    BY <2>2, <2>3
<1>13. SaversTracked'
  <2> SUFFICES ASSUME NEW q \in Proc
               PROVE  /\ fd'[q]["lease"] = NoFile /\ <<q, "lease">> \notin held'
                      /\ fd'[q]["save"] # NoFile <=> saver'[q].pc # "off"
                      /\ <<q, "save">> \in held' <=> saver'[q].pc \in {"begin", "write", "unlock"}
    BY DEF SaversTracked
  <2>1. q \in Agent /\ "lease" \in File /\ "save" \in File /\ q \notin mine
    BY <1>5 DEF Agent, File
  <2>2. CASE q = p
    BY <1>6, <1>7, <1>9, <2>1, <2>2
  <2>3. CASE q # p
    BY <1>6, <1>7, <1>9, <2>1, <2>3 DEF SaversTracked
  <2> QED
    BY <2>2, <2>3
<1>14. LockedIsNamed'
  <2>1. \A a \in Agent, f \in File : Kept(a, f)' => Kept(a, f)
    BY <1>6, <1>7, <1>8 DEF Kept
  <2> QED
    BY <1>1, <1>7, <2>1 DEF LockedIsNamed, Kept
<1>15. ActiveTracked' /\ OwnersTracked'
  <2>1. \A q \in Proc : active'[q] # NoLease => q # p /\ active'[q] \notin mine /\ active'[q] \in Lease
    BY <1>5, <1>10 DEF ActiveTracked, LTypeOK
  <2>2. \A q \in Proc : owners'[q] # NoLease => q # p /\ owners'[q] \notin mine /\ owners'[q] \in Lease
    BY <1>5, <1>10 DEF OwnersTracked, LTypeOK
  <2>3. ActiveTracked'
    BY <1>8, <1>10, <2>1 DEF ActiveTracked
  <2>4. OwnersTracked'
    BY <1>8, <1>10, <2>2 DEF OwnersTracked
  <2> QED
    BY <2>3, <2>4
<1>16. ReleasedTracked' /\ ParkedReleaseHasWaker'
  BY <1>3, <1>8 DEF ReleasedTracked, ParkedReleaseHasWaker
<1>17. \A q \in Proc : Writing(q)' => q # p /\ Writing(q) /\ saver[q].lease \notin mine /\ saver'[q] = saver[q]
  BY <1>5, <1>9 DEF Writing, SavesCounted
<1>18. SavesCounted'
  <2>1. ASSUME NEW l \in Lease
        PROVE  lease'[l].saves = IF Writing(ProcOf[l])' /\ saver'[ProcOf[l]].lease = l THEN 1 ELSE 0
    <3>1. CASE l \in mine
      BY <1>3, <1>5, <1>8, <1>9, <3>1 DEF Writing
    <3>2. CASE l \notin mine /\ ProcOf[l] = p
      <4>1. lease[l].saves = 0
        BY <1>4, <3>2 DEF SavesCounted
      <4> QED
        BY <1>8, <1>9, <3>2, <4>1 DEF Writing
    <3>3. CASE ProcOf[l] # p
      <4>1. l \notin mine /\ saver'[ProcOf[l]] = saver[ProcOf[l]]
        BY <1>5, <1>9, <3>3, LeaseAssumption
      <4> QED
        BY <1>8, <4>1 DEF SavesCounted, Writing
    <3> QED
      BY <3>1, <3>2, <3>3
  <2>2. \A q \in Proc : Writing(q)' => /\ saver'[q].lease \in Lease /\ ProcOf[saver'[q].lease] = q
                                       /\ lease'[saver'[q].lease].pc # "new"
    BY <1>8, <1>17 DEF SavesCounted
  <2> QED
    BY <2>1, <2>2 DEF SavesCounted, Writing
<1>19. WriterHolds'
  BY <1>1, <1>8, <1>17 DEF WriterHolds, SavesCounted
<1> QED
  BY <1>7, <1>11, <1>12, <1>13, <1>14, <1>15, <1>16, <1>18, <1>19

(* A remove by path takes the name of a locked file only by orphaning it.   *)
LEMMA RemoveByPathKeeps ==
    ASSUME LeaseInv, NEW l \in Lease, RemoveByPath(l) PROVE LeaseInv'
<1> USE DEF LeaseInv
<1>1. PICK f \in File :
         /\ late' = late \ {<<l, f>>} /\ fellback' = TRUE
         /\ \/ /\ name' = [name EXCEPT ![f] = NoFile]
               /\ orphaned' = (orphaned \/ \E a \in Agent : <<a, f>> \in held /\ fd[a][f] = name[f])
               /\ UNCHANGED doomed
            \/ /\ name[f] # NoFile
               /\ doomed' = doomed \cup {name[f]} /\ UNCHANGED <<name, orphaned>>
            \/ UNCHANGED <<name, doomed, orphaned>>
         /\ UNCHANGED <<platform, fd, held, info, registry, lease, saver, crashes>>
  BY DEF RemoveByPath
<1>2. UNCHANGED <<platform, fd, held, info, owners, active, lease, saver, crashes>>
  BY <1>1 DEF registry
<1>3. /\ name' \in [File -> Inode \cup {NoFile}] /\ doomed' \subseteq Inode
      /\ late' \subseteq Agent \X File /\ fellback' = TRUE
      /\ orphaned' \in BOOLEAN /\ (~orphaned' => ~orphaned)
      /\ \A g \in File : g # f => name'[g] = name[g]
  BY <1>1 DEF LTypeOK
<1>4. ~orphaned' => name'[f] = name[f] \/ \A a \in Agent : <<a, f>> \in held => fd[a][f] # name[f]
  BY <1>1
<1>5. LTypeOK'
  BY <1>2, <1>3 DEF LTypeOK
<1>6. LeasesTracked' /\ LocksExclusive'
  BY <1>2 DEF LeasesTracked, LocksExclusive
<1>7. SaversTracked'
  BY ZenonT(60), <1>2 DEF SaversTracked
<1>8. WindowsNamed'
  BY <1>3 DEF WindowsNamed
<1>9. LockedIsNamed'
  <2> SUFFICES ASSUME ~orphaned', NEW a \in Agent, NEW g \in File, Kept(a, g)
               PROVE  fd[a][g] = name'[g]
    BY <1>2 DEF LockedIsNamed, Kept
  <2>1. fd[a][g] = name[g] /\ <<a, g>> \in held
    BY <1>3 DEF LockedIsNamed, Kept
  <2> QED
    BY <1>3, <1>4, <2>1
<1>10. ActiveTracked' /\ OwnersTracked' /\ ReleasedTracked' /\ ParkedReleaseHasWaker'
  BY <1>2 DEF ActiveTracked, OwnersTracked, ReleasedTracked, ParkedReleaseHasWaker
<1>11. SavesCounted' /\ WriterHolds'
  BY <1>2, <1>3 DEF SavesCounted, WriterHolds, Writing
<1> QED
  BY <1>5, <1>6, <1>7, <1>8, <1>9, <1>10, <1>11

-----------------------------------------------------------------------------
(* The initial states.                                                      *)
LEMMA LeaseInvInit == LInit => LeaseInv
<1> SUFFICES ASSUME LInit PROVE LeaseInv
  OBVIOUS
<1>1. PICK plan \in [Lease -> AllModes \cup {"none"}] :
         lease = [l \in Lease |-> [NewLease EXCEPT !.mode = plan[l]]]
  BY PlatformAssumption DEF LInit
<1>2. ASSUME NEW l \in Lease
      PROVE  /\ lease[l] \in LeaseRecord /\ lease[l].pc = "new" /\ lease[l].released = FALSE
             /\ lease[l].saves = 0 /\ lease[l].chan = FALSE
  <2>1. lease[l] = [NewLease EXCEPT !.mode = plan[l]] /\ plan[l] \in AllModes \cup {"none"}
    BY <1>1
  <2> HIDE <1>1
  <2> QED
    BY <2>1, FreshLease DEF LeaseRecord
<1>3. LTypeOK
  <2>1. lease \in [Lease -> LeaseRecord]
    BY <1>1, <1>2
  <2>2. saver \in [Proc -> [pc : {"off", "lock", "begin", "write", "unlock"},
                           lease : Lease \cup {NoLease}]]
    BY DEF LInit, SaverOff
  <2>3. crashes \in 0..MaxCrashes
    BY LimitsAssumption DEF LInit
  <2>4. orphaned \in BOOLEAN /\ fellback \in BOOLEAN /\ late \subseteq Agent \X File
    BY DEF LInit
  <2> QED
    BY <2>1, <2>2, <2>3, <2>4 DEF LInit, LTypeOK, LeaseRecord
<1>4. LeasesTracked
  BY <1>2 DEF LInit, LeasesTracked, Agent, StepsOpened, StepsLocked, LeaseOpened, LeaseLocked,
     SaveOpened, SaveLocked, Holding
<1>5. SaversTracked
  BY DEF LInit, SaversTracked, SaverOff, Agent, File
<1>6. LocksExclusive /\ WindowsNamed /\ LockedIsNamed
  BY DEF LInit, LocksExclusive, WindowsNamed, LockedIsNamed, Kept
<1>7. ActiveTracked /\ OwnersTracked
  BY DEF LInit, ActiveTracked, OwnersTracked
<1>8. ReleasedTracked /\ ParkedReleaseHasWaker
  BY <1>2 DEF ReleasedTracked, ParkedReleaseHasWaker
<1>9. SavesCounted /\ WriterHolds
  BY <1>2, LeaseAssumption DEF LInit, SavesCounted, WriterHolds, Writing, SaverOff
<1> QED
  BY <1>3, <1>4, <1>5, <1>6, <1>7, <1>8, <1>9 DEF LeaseInv

(* Every step keeps the invariant, one case per action.                     *)
LEMMA LeaseInvNext == LeaseInv /\ [LNext]_lvars => LeaseInv'
<1> SUFFICES ASSUME LeaseInv, [LNext]_lvars PROVE LeaseInv'
  OBVIOUS
<1>1. ASSUME NEW l \in Lease, LeaseStep(l) PROVE LeaseInv'
  BY <1>1, BeginKeeps, OpenLeaseKeeps, LockLeaseKeeps, PublishKeeps, ActivateKeeps, IssueKeeps,
     DropLeaseKeeps, ReleaseKeeps, RevokeKeeps, UnreserveKeeps, RemoveLeaseFileKeeps,
     UnlockLeaseFileKeeps, RemoveByPathKeeps, StaleSaveLockKeeps, StaleSaveTakeKeeps, StaleSaveRemoveKeeps,
     ConvertOpenKeeps, ConvertTakeKeeps, GuardOpenKeeps, GuardTakeKeeps, RestoreKeeps,
     GuardEndsKeeps, GuardReleaseKeeps, RemoveSidecarsKeeps DEF LeaseStep
<1>2. ASSUME NEW p \in Proc, SaveStep(p) PROVE LeaseInv'
  BY <1>2, SaveOpenKeeps, SaveLockKeeps, BeginSaveKeeps, EndSaveKeeps, SaveUnlockKeeps DEF SaveStep
<1>3. ASSUME NEW p \in Proc, Crash(p) PROVE LeaseInv'
  BY <1>3, CrashKeeps
<1>4. CASE UNCHANGED lvars
  <2>1. UNCHANGED <<platform, name, doomed, fd, held, late, fellback, info, owners, active, lease, saver, crashes, orphaned>>
    BY <1>4 DEF lvars, files, registry
  <2> QED
    BY <2>1 DEF LeaseInv, LTypeOK, LeasesTracked, SaversTracked, LocksExclusive, LockedIsNamed, Kept,
       WindowsNamed, ActiveTracked, OwnersTracked, ReleasedTracked, SavesCounted, WriterHolds,
       ParkedReleaseHasWaker, Writing
<1> QED
  BY <1>1, <1>2, <1>3, <1>4 DEF LNext

(* The invariant holds in every reachable state.                            *)
LEMMA LeaseInvariant == LSpec => []LeaseInv
  BY LeaseInvInit, LeaseInvNext, PTL DEF LSpec

(* A set all of whose members are equal has at most one.                    *)
LEMMA AtMostOne ==
    ASSUME NEW S, \A x, y \in S : x = y
    PROVE  Cardinality(S) <= 1
<1>1. CASE S = {}
  BY <1>1, FS_EmptySet
<1>2. CASE S # {}
  <2>1. PICK x \in S : S = {x}
    BY <1>2
  <2> QED
    BY <2>1, FS_Singleton
<1> QED
  BY <1>1, <1>2

(***************************************************************************)
(* Theorem.  While no locked file was without its name, at most one        *)
(* attempt of any process holds the lease or its removal guard; on Windows *)
(* there is no such lock before a removal falls back to a remove by path   *)
(* (TryAcquireSessionLease, RemoveAndUnlock).                              *)
(***************************************************************************)
THEOREM LeaseIsExclusive == LSpec => []ExclusiveUnlessOrphaned
<1>1. LeaseInv => ExclusiveUnlessOrphaned
  <2> SUFFICES ASSUME LeaseInv, ~orphaned PROVE OneLeaseHolder
    BY DEF ExclusiveUnlessOrphaned, LeaseInv, WindowsNamed
  <2>1. ASSUME NEW k \in Holders PROVE k \in Lease /\ Kept(k, "lease")
    BY <2>1 DEF Holders, Kept, LeaseInv, LeasesTracked, StepsLocked, LeaseLocked, Removed, Holding, File
  <2>2. ASSUME NEW k \in Holders, NEW m \in Holders PROVE k = m
    <3>1. k \in Agent /\ m \in Agent /\ "lease" \in File /\ <<k, "lease">> \in held /\ <<m, "lease">> \in held
      BY <2>1 DEF Agent, File, Kept
    <3>2. fd[k]["lease"] = fd[m]["lease"]
      BY <2>1, <3>1 DEF LeaseInv, LockedIsNamed
    <3> QED
      BY <3>1, <3>2 DEF LeaseInv, LocksExclusive
  <2> QED
    BY <2>2, AtMostOne DEF OneLeaseHolder
<1> QED
  BY <1>1, LeaseInvariant, PTL

(***************************************************************************)
(* Theorem.  While an authorised save writes, its lease is held, counted   *)
(* and not released, whatever Release, conversions and other processes do, *)
(* as long as there are no orphans (beginLeaseSave, Release,               *)
(* TryConvertToRemovalGuard).                                              *)
(***************************************************************************)
THEOREM WritesKeepTheirLease == LSpec => []SaveKeepsLease
<1>1. LeaseInv => SaveKeepsLease
  <2> SUFFICES ASSUME LeaseInv, NEW p \in Proc, Writing(p), ~orphaned
               PROVE  /\ lease[saver[p].lease].saves = 1 /\ ~lease[saver[p].lease].released
                      /\ <<saver[p].lease, "lease">> \in held
    BY DEF SaveKeepsLease
  <2>1. /\ saver[p].lease \in Lease /\ ProcOf[saver[p].lease] = p
        /\ lease[saver[p].lease].pc \in {"held", "convert"}
    BY DEF LeaseInv, SavesCounted, WriterHolds
  <2>2. lease[saver[p].lease].saves = 1
    BY <2>1 DEF LeaseInv, SavesCounted
  <2>3. ~lease[saver[p].lease].released
    BY <2>1 DEF LeaseInv, ReleasedTracked, EarlySteps
  <2>4. <<saver[p].lease, "lease">> \in held
    BY <2>1 DEF LeaseInv, LeasesTracked, StepsLocked, LeaseLocked, Holding, File
  <2> QED
    BY <2>2, <2>3, <2>4
<1> QED
  BY <1>1, LeaseInvariant, PTL

(***************************************************************************)
(* Theorem.  Of all saves in their write phase and all removal guards, in  *)
(* all processes, at most one exists, as long as there are no orphans (the *)
(* save lock of withSessionSaveLocks and TryAcquireSessionRemovalGuard).   *)
(***************************************************************************)
THEOREM WritersAndRemoversExclude == LSpec => []OneWriterOrRemover
<1>1. LeaseInv => OneWriterOrRemover
  <2> SUFFICES ASSUME LeaseInv, ~orphaned
               PROVE  Cardinality({p \in Proc : Writing(p)} \cup Guards) <= 1
    BY DEF OneWriterOrRemover
  <2> DEFINE W == {p \in Proc : Writing(p)} \cup Guards
  <2>1. ASSUME NEW a \in W PROVE a \in Agent /\ <<a, "save">> \in held /\ Kept(a, "save")
    <3>1. CASE a \in Proc /\ Writing(a)
      BY <3>1, LeaseAssumption DEF Writing, LeaseInv, SaversTracked, Kept, Agent
    <3>2. CASE a \in Lease /\ lease[a].pc \in {"guard", "gremove"}
      BY <3>2 DEF LeaseInv, LeasesTracked, StepsLocked, SaveLocked, Kept, Removed, Agent, File
    <3> QED
      BY <2>1, <3>1, <3>2 DEF Guards
  <2>2. ASSUME NEW a \in W, NEW b \in W PROVE a = b
    <3>1. fd[a]["save"] = fd[b]["save"]
      BY <2>1 DEF LeaseInv, LockedIsNamed, File
    <3> QED
      BY <2>1, <3>1 DEF LeaseInv, LocksExclusive, File
  <2> HIDE DEF W
  <2>3. Cardinality(W) <= 1
    BY <2>2, AtMostOne
  <2> QED
    BY <2>3 DEF W
<1> QED
  BY <1>1, LeaseInvariant, PTL

(***************************************************************************)
(* Theorem.  The registries of every process name attempts that are under  *)
(* way and hold their lock, and a parked Release has a save that wakes it, *)
(* through refusals, reclaims and crashes (sessionLeaseOwners,             *)
(* sessionLeaseActiveOwners, releaseWait).                                 *)
(***************************************************************************)
THEOREM RegistriesTellTheTruth == LSpec => []RegistrySound
<1>1. LeaseInv => RegistrySound
  <2> SUFFICES ASSUME LeaseInv PROVE RegistryBacked
    BY DEF RegistrySound, LeaseInv
  <2> SUFFICES ASSUME NEW p \in Proc
               PROVE  /\ active[p] # NoLease => <<active[p], "lease">> \in held \/ At(active[p], "dropped")
                      /\ owners[p] # NoLease => lease[owners[p]].pc \notin {"new", "stale", "stalelock", "done"}
    BY DEF RegistryBacked
  <2>1. active[p] # NoLease => active[p] \in Lease /\ lease[active[p]].pc \in ActiveSteps
    BY DEF LeaseInv, ActiveTracked, LTypeOK
  <2>2. active[p] # NoLease => <<active[p], "lease">> \in held \/ At(active[p], "dropped")
    BY <2>1 DEF LeaseInv, LeasesTracked, ActiveSteps, StepsLocked, LeaseLocked, Holding, File, At
  <2>3. owners[p] # NoLease => lease[owners[p]].pc \notin {"new", "stale", "stalelock", "done"}
    BY DEF LeaseInv, OwnersTracked, OwnerSteps
  <2> QED
    BY <2>2, <2>3
<1> QED
  BY <1>1, LeaseInvariant, PTL
=============================================================================
