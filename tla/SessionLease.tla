---------------------------- MODULE SessionLease ----------------------------
(***************************************************************************)
(* Who may write one session: the lease and its lock file, the removal     *)
(* guard, the per-process registries and the authority every guarded save  *)
(* presents.  Processes share a directory with two lock files; a lock is   *)
(* taken on the file a descriptor was opened on (an inode), but files are  *)
(* removed by name on Unix and through the handle on Windows, or by name   *)
(* there too, once unlocked, where the file system cannot do that.         *)
(***************************************************************************)
EXTENDS Naturals, FiniteSets

CONSTANTS
    Proc,       \* processes that open the session
    Lease,      \* attempts to take the lease; each is one SessionLease and its ownerID
    ProcOf,     \* the process an attempt is made in
    NoLease,
    NoProc,
    Platforms,  \* subset of {"unix", "windows"}
    Plans,      \* what the attempts may be: functions from Lease to AllModes or "none"
    MaxInode,   \* bound: lock files in existence at a time
    MaxGen,     \* bound: authorities issued by one lease
    MaxCrashes  \* bound: process deaths

AllModes == {"acquire", "reclaim", "guard", "sweep"}

ASSUME LeaseAssumption ==
    /\ ProcOf \in [Lease -> Proc] /\ NoLease \notin Lease /\ NoProc \notin Proc
    /\ Lease \cap Proc = {}
ASSUME PlatformAssumption ==
    Platforms \subseteq {"unix", "windows"} /\ Plans \subseteq [Lease -> AllModes \cup {"none"}]
ASSUME LimitsAssumption == MaxInode \in Nat \ {0} /\ MaxGen \in Nat /\ MaxCrashes \in Nat

File == {"lease", "save"}           \* .lease.lock and .lock
Agent == Lease \cup Proc            \* a process stands for the one saver its path mutex lets in
Inode == 1..MaxInode
NoFile == 0

VARIABLES
    platform,   \* fixed at start
    name,       \* the inode each lock file name is bound to, or NoFile
    doomed,     \* Windows: inodes marked for deletion when their last handle closes
    fd,         \* the inode each agent has open for each file
    held,       \* descriptors that own their inode's lock, as <<agent, file>>
    late,       \* Windows: files still to be removed by path, as <<agent, file>>
    fellback,   \* history: sessionLockDispositionFallbacks is not zero
    info,       \* the holder written inside each lease inode
    owners,     \* sessionLeaseOwners: reservation of each process
    active,     \* sessionLeaseActiveOwners: completed lease of each process
    lease,      \* each SessionLease or removal guard
    saver,      \* the save each process has under way
    crashes,
    orphaned    \* history: a lock was granted on a file that had lost its name,
                \* or a locked file lost its name to a remove by path

files == <<name, doomed, fd, held, late, fellback>>
registry == <<owners, active>>
lvars == <<platform, files, info, registry, lease, saver, crashes, orphaned>>

(* pc of a lease: the step it is at.  gen counts authorities issued, cur is  *)
(* writeGeneration, saves is activeSaves, chan is releaseWait # nil.         *)
NewLease == [pc |-> "new", mode |-> "none", released |-> FALSE, gen |-> 0, cur |-> 0,
             saves |-> 0, chan |-> FALSE]
SaverOff == [pc |-> "off", lease |-> NoLease]

Holding == {"publish", "activate", "held", "convert", "revoke", "unreserve", "remove",
            "gsave", "gsavelock", "guard", "abort", "gremove", "gclear", "gremove2",
            "swept"}
Steps == Holding \cup {"new", "open", "lock", "unlock", "gunlock", "stale", "stalelock", "staleremove",
                       "staleunlock", "dropped", "done"}

LInit ==
    /\ platform \in Platforms
    /\ name = [f \in File |-> NoFile] /\ doomed = {}
    /\ fd = [a \in Agent |-> [f \in File |-> NoFile]] /\ held = {}
    /\ late = {} /\ fellback = FALSE
    /\ info = [i \in Inode |-> NoProc]
    /\ owners = [p \in Proc |-> NoLease] /\ active = [p \in Proc |-> NoLease]
    /\ \E plan \in Plans : lease = [l \in Lease |-> [NewLease EXCEPT !.mode = plan[l]]]
    /\ saver = [p \in Proc |-> SaverOff]
    /\ crashes = 0 /\ orphaned = FALSE

-----------------------------------------------------------------------------
(***************************************************************************)
(* The lock files, as the operating system keeps them.                     *)
(***************************************************************************)
OpenInodes == {fd[a][f] : a \in Agent, f \in File} \cup {name[f] : f \in File}
FreeInodes == Inode \ OpenInodes

(* open(O_CREATE): on Windows a name whose file is marked for deletion      *)
(* cannot be opened.                                                        *)
CanOpen(f) ==
    /\ name[f] \notin doomed
    /\ name[f] = NoFile => FreeInodes # {}

Open(a, f) ==
    /\ CanOpen(f)
    /\ LET i == IF name[f] = NoFile THEN CHOOSE j \in FreeInodes : TRUE ELSE name[f]
       IN  /\ fd' = [fd EXCEPT ![a][f] = i]
           /\ name' = [name EXCEPT ![f] = i]
           /\ info' = IF name[f] = NoFile THEN [info EXCEPT ![i] = NoProc] ELSE info
    /\ UNCHANGED <<doomed, held, late, fellback>>

(* flock or LockFileEx, without waiting.                                    *)
LockFree(a, f) == \A b \in Agent : <<b, f>> \in held => fd[b][f] # fd[a][f]
TakeLock(a, f) ==
    /\ LockFree(a, f)
    /\ held' = held \cup {<<a, f>>}
    /\ orphaned' = (orphaned \/ fd[a][f] # name[f])
    /\ UNCHANGED <<name, doomed, fd, late, fellback>>

(* Closing descriptors: Windows deletes a doomed file with its last handle. *)
CloseAll(S) ==
    LET open == {fd[d[1]][d[2]] : d \in (Agent \X File) \ S}
    IN  /\ fd' = [a \in Agent |-> [f \in File |-> IF <<a, f>> \in S THEN NoFile ELSE fd[a][f]]]
        /\ held' = held \ S
        /\ name' = [f \in File |-> IF name[f] \in doomed \ open THEN NoFile ELSE name[f]]
        /\ doomed' = doomed \cap open
        /\ UNCHANGED fellback

Close(a, f) == CloseAll({<<a, f>>}) /\ UNCHANGED late

(* Slip: Windows removes by name as well.                                   *)
UnlinkByName(a, f) ==
    /\ name' = [name EXCEPT ![f] = NoFile]
    /\ UNCHANGED <<doomed, fd, held, late, fellback>>

(* The first half of RemoveAndUnlock: Unix removes whatever has the name,   *)
(* Windows marks the file it holds, or fails to and will remove by path.    *)
Unlink(a, f) ==
    /\ \/ platform = "unix" /\ name' = [name EXCEPT ![f] = NoFile] /\ UNCHANGED <<doomed, late>>
       \/ platform = "windows" /\ doomed' = doomed \cup {fd[a][f]} /\ UNCHANGED <<name, late>>
       \/ platform = "windows" /\ late' = late \cup {<<a, f>>} /\ UNCHANGED <<name, doomed>>
    /\ UNCHANGED <<fd, held, fellback>>

(* The fallback, after the unlock: whatever has the name by now goes at     *)
(* once, or with its last handle, or the removal is refused.                *)
RemoveByPath(l) ==
    \E f \in File :
       /\ <<l, f>> \in late /\ <<l, f>> \notin held
       /\ late' = late \ {<<l, f>>} /\ fellback' = TRUE
       /\ \/ /\ name[f] \notin doomed \cup {NoFile} /\ name' = [name EXCEPT ![f] = NoFile]
             /\ orphaned' = (orphaned \/ \E a \in Agent : <<a, f>> \in held /\ fd[a][f] = name[f])
             /\ UNCHANGED doomed
          \/ /\ name[f] # NoFile /\ \E a \in Agent : fd[a][f] = name[f]
             /\ doomed' = doomed \cup {name[f]} /\ UNCHANGED <<name, orphaned>>
          \/ UNCHANGED <<name, doomed, orphaned>>
       /\ UNCHANGED <<platform, fd, held, info, registry, lease, saver, crashes>>

-----------------------------------------------------------------------------
At(l, step) == lease[l].pc = step
Go(l, step) == lease' = [lease EXCEPT ![l].pc = step]
CAD(reg, l) == [reg EXCEPT ![ProcOf[l]] = IF @ = l THEN NoLease ELSE @]
HeldLocally(p) == owners[p] # NoLease
NameOwner == IF name["lease"] = NoFile THEN NoProc ELSE info[name["lease"]]

(***************************************************************************)
(* Taking the lease: TryAcquireSessionLease reserves the path in its own   *)
(* process first; TryReclaimCurrentProcessSessionLease only looks at who   *)
(* is named; a removal guard and the sidecar sweep refuse a path reserved  *)
(* locally.  Then all open and lock the lease file.                        *)
(***************************************************************************)
Begin(l) ==
    LET p == ProcOf[l]
        refused == CASE lease[l].mode \in {"acquire", "guard", "sweep"} -> HeldLocally(p)
                     [] lease[l].mode = "reclaim" -> NameOwner \notin {NoProc, p}
    IN  /\ At(l, "new") /\ lease[l].mode # "none"
        /\ Go(l, IF refused THEN "done" ELSE "open")
        /\ owners' = IF lease[l].mode = "acquire" /\ ~refused THEN [owners EXCEPT ![p] = l] ELSE owners
        /\ UNCHANGED <<platform, files, info, active, saver, crashes, orphaned>>

OpenLease(l) ==
    /\ At(l, "open")
    /\ \/ Open(l, "lease") /\ Go(l, "lock") /\ UNCHANGED owners
       \/ /\ name["lease"] \in doomed
          /\ Go(l, "done") /\ owners' = CAD(owners, l)
          /\ UNCHANGED <<files, info>>
    /\ UNCHANGED <<platform, active, saver, crashes, orphaned>>

(* Slip: a refused attempt keeps its reservation.                           *)
LockLeaseKeepsReservation(l) ==
    /\ At(l, "lock")
    /\ IF LockFree(l, "lease")
       THEN /\ TakeLock(l, "lease")
            /\ Go(l, CASE lease[l].mode = "guard" -> "gsave"
                       [] lease[l].mode = "sweep" -> "swept"
                       [] OTHER -> "publish")
       ELSE Close(l, "lease") /\ Go(l, "done") /\ UNCHANGED orphaned
    /\ UNCHANGED <<platform, info, registry, saver, crashes>>

LockLease(l) ==
    /\ At(l, "lock")
    /\ IF LockFree(l, "lease")
       THEN /\ TakeLock(l, "lease")
            /\ Go(l, CASE lease[l].mode = "guard" -> "gsave"
                       [] lease[l].mode = "sweep" -> "swept"
                       [] OTHER -> "publish")
            /\ UNCHANGED owners
       ELSE /\ Close(l, "lease")
            /\ Go(l, "done")
            /\ owners' = CAD(owners, l)
            /\ UNCHANGED orphaned
    /\ UNCHANGED <<platform, info, active, saver, crashes>>

(* Under the lock: drop a stale active entry, a reclaim takes the           *)
(* reservation over, and the owner is written into the file; a failed write *)
(* releases the lease again.                                                *)
Publish(l) ==
    LET p == ProcOf[l]
    IN  /\ At(l, "publish")
        /\ active' = [active EXCEPT ![p] = NoLease]
        /\ owners' = IF lease[l].mode = "reclaim" THEN [owners EXCEPT ![p] = l] ELSE owners
        /\ \/ Go(l, "activate") /\ info' = [info EXCEPT ![fd[l]["lease"]] = p]
           \/ lease' = [lease EXCEPT ![l].pc = "revoke", ![l].released = TRUE] /\ UNCHANGED info
        /\ UNCHANGED <<platform, files, saver, crashes, orphaned>>

Activate(l) ==
    /\ At(l, "activate") /\ Go(l, "held")
    /\ active' = [active EXCEPT ![ProcOf[l]] = l]
    /\ UNCHANGED <<platform, files, info, owners, saver, crashes, orphaned>>

(* A controller binds: a fresh generation makes earlier authorities stale.  *)
IssueWriteAuthority(l) ==
    /\ At(l, "held") /\ lease[l].gen < MaxGen
    /\ lease' = [lease EXCEPT ![l].gen = @ + 1, ![l].cur = lease[l].gen + 1]
    /\ UNCHANGED <<platform, files, info, registry, saver, crashes, orphaned>>

(* A lease forgotten without Release: the runtime closes its descriptor and *)
(* the registries keep naming it.                                           *)
DropLease(l) ==
    /\ At(l, "held") /\ lease[l].saves = 0 /\ ~lease[l].chan
    /\ Close(l, "lease")
    /\ Go(l, "dropped")
    /\ UNCHANGED <<platform, info, registry, saver, crashes, orphaned>>

-----------------------------------------------------------------------------
(***************************************************************************)
(* Release parks (chan) until the guarded saves are over and tries again;  *)
(* then it revokes the registries, removes the lock file, unlocks it and   *)
(* retires the file of the save lock.                                      *)
(***************************************************************************)
(* Slip: Release does not wait for saves.                                   *)
ReleaseNoWait(l) ==
    /\ At(l, "held")
    /\ lease' = [lease EXCEPT ![l].pc = "revoke", ![l].released = TRUE]
    /\ UNCHANGED <<platform, files, info, registry, saver, crashes, orphaned>>

Release(l) ==
    /\ At(l, "held")
    /\ lease' = IF lease[l].saves = 0
                THEN [lease EXCEPT ![l].pc = "revoke", ![l].released = TRUE]
                ELSE [lease EXCEPT ![l].chan = TRUE]
    /\ UNCHANGED <<platform, files, info, registry, saver, crashes, orphaned>>

Revoke(l) ==
    /\ At(l, "revoke") /\ Go(l, "unreserve")
    /\ active' = CAD(active, l)
    /\ UNCHANGED <<platform, files, info, owners, saver, crashes, orphaned>>

Unreserve(l) ==
    /\ At(l, "unreserve") /\ Go(l, "remove")
    /\ owners' = CAD(owners, l)
    /\ UNCHANGED <<platform, files, info, active, saver, crashes, orphaned>>

RemoveLeaseFile(l) ==
    /\ lease[l].pc \in {"remove", "swept"} /\ Unlink(l, "lease")
    /\ Go(l, "unlock")
    /\ UNCHANGED <<platform, info, registry, saver, crashes, orphaned>>

UnlockLeaseFile(l) ==
    /\ At(l, "unlock") /\ Close(l, "lease")
    /\ Go(l, IF lease[l].mode \in {"acquire", "reclaim"} THEN "stale" ELSE "done")
    /\ UNCHANGED <<platform, info, registry, saver, crashes, orphaned>>

(* removeStaleSessionLockSidecar: not while the lease is held here or,      *)
(* asking the lease file, elsewhere.                                        *)
HeldByOther(p) ==
    /\ active[p] = NoLease /\ name["lease"] # NoFile /\ NameOwner # p
    /\ \/ name["lease"] \in doomed
       \/ \E l \in Lease : <<l, "lease">> \in held /\ fd[l]["lease"] = name["lease"]

StaleSaveLock(l) ==
    /\ At(l, "stale") /\ <<l, "lease">> \notin late
    /\ \/ /\ HeldLocally(ProcOf[l]) \/ HeldByOther(ProcOf[l]) \/ name["save"] \in doomed
          /\ Go(l, "done") /\ UNCHANGED <<files, info>>
       \/ /\ ~HeldLocally(ProcOf[l]) /\ ~HeldByOther(ProcOf[l])
          /\ Open(l, "save") /\ Go(l, "stalelock")
    /\ UNCHANGED <<platform, registry, saver, crashes, orphaned>>

StaleSaveTake(l) ==
    /\ At(l, "stalelock")
    /\ \/ LockFree(l, "save") /\ TakeLock(l, "save") /\ Go(l, "staleremove")
       \/ ~LockFree(l, "save") /\ Close(l, "save") /\ Go(l, "done") /\ UNCHANGED orphaned
    /\ UNCHANGED <<platform, info, registry, saver, crashes>>

StaleSaveRemove(l) ==
    /\ \/ At(l, "staleremove") /\ Unlink(l, "save") /\ Go(l, "staleunlock")
       \/ At(l, "staleunlock") /\ Close(l, "save") /\ Go(l, "done")
    /\ UNCHANGED <<platform, info, registry, saver, crashes, orphaned>>

-----------------------------------------------------------------------------
(***************************************************************************)
(* The removal guard: taken directly, or converted from a live lease under *)
(* its mutex (pc "convert"); restored, aborted, or ended with the removal  *)
(* of both lock files.                                                     *)
(***************************************************************************)
ConvertOpen(l) ==
    /\ At(l, "held") /\ Open(l, "save") /\ Go(l, "convert")
    /\ UNCHANGED <<platform, registry, saver, crashes, orphaned>>

(* Slip: the conversion forgets the save lock.                              *)
ConvertTakeUnlocked(l) ==
    /\ At(l, "convert")
    /\ active' = CAD(active, l)
    /\ lease' = [lease EXCEPT ![l].pc = "guard", ![l].released = TRUE]
    /\ UNCHANGED <<platform, files, info, owners, saver, crashes, orphaned>>

ConvertTake(l) ==
    /\ At(l, "convert")
    /\ IF LockFree(l, "save")
       THEN /\ TakeLock(l, "save")
            /\ active' = CAD(active, l)
            /\ lease' = [lease EXCEPT ![l].pc = "guard", ![l].released = TRUE]
       ELSE Close(l, "save") /\ Go(l, "held") /\ UNCHANGED <<active, orphaned>>
    /\ UNCHANGED <<platform, info, owners, saver, crashes>>

GuardOpen(l) ==
    /\ At(l, "gsave")
    /\ \/ Open(l, "save") /\ Go(l, "gsavelock")
       \/ name["save"] \in doomed /\ Close(l, "lease") /\ Go(l, "done") /\ UNCHANGED info
    /\ UNCHANGED <<platform, registry, saver, crashes, orphaned>>

GuardTake(l) ==
    /\ At(l, "gsavelock")
    /\ IF LockFree(l, "save") THEN TakeLock(l, "save") /\ Go(l, "guard")
       ELSE CloseAll({<<l, "save">>, <<l, "lease">>}) /\ Go(l, "done") /\ UNCHANGED <<late, orphaned>>
    /\ UNCHANGED <<platform, info, registry, saver, crashes>>

Converted(l) == lease[l].mode \in {"acquire", "reclaim"}

RestoreSessionLease(l) ==
    /\ At(l, "guard") /\ Converted(l) /\ owners[ProcOf[l]] = l
    /\ active' = [active EXCEPT ![ProcOf[l]] = l]
    /\ lease' = [lease EXCEPT ![l].pc = "held", ![l].released = FALSE, ![l].cur = 0]
    /\ Close(l, "save")
    /\ UNCHANGED <<platform, info, owners, saver, crashes, orphaned>>

(* Both ends of a converted guard give the reservation back first.          *)
GuardEnds(l) ==
    /\ At(l, "guard")
    /\ owners' = IF Converted(l) THEN CAD(owners, l) ELSE owners
    /\ active' = IF Converted(l) THEN CAD(active, l) ELSE active
    /\ Go(l, "abort") \/ Go(l, "gremove")
    /\ UNCHANGED <<platform, files, info, saver, crashes, orphaned>>

GuardRelease(l) ==
    /\ \/ At(l, "abort") /\ Close(l, "save") /\ Go(l, "gunlock")
       \/ At(l, "gunlock") /\ Close(l, "lease") /\ Go(l, "done")
    /\ UNCHANGED <<platform, info, registry, saver, crashes, orphaned>>

RemoveSidecarsAndRelease(l) ==
    /\ \/ At(l, "gremove") /\ Unlink(l, "save") /\ Go(l, "gclear")
       \/ At(l, "gclear") /\ Close(l, "save") /\ Go(l, "gremove2")
       \/ At(l, "gremove2") /\ <<l, "save">> \notin late /\ Unlink(l, "lease") /\ Go(l, "gunlock")
    /\ UNCHANGED <<platform, info, registry, saver, crashes, orphaned>>

-----------------------------------------------------------------------------
(***************************************************************************)
(* A guarded save: path mutex, save lock, then the authority is checked    *)
(* under the lease mutex and counted until the save is over.               *)
(***************************************************************************)
SaveTo(p, pc) == saver' = [saver EXCEPT ![p].pc = pc]

SaveOpen(p) ==
    /\ saver[p].pc = "off" /\ \E l \in Lease : ProcOf[l] = p /\ lease[l].gen > 0
    /\ Open(p, "save") /\ SaveTo(p, "lock")
    /\ UNCHANGED <<platform, registry, lease, crashes, orphaned>>

(* A held lock is polled for a while, each time through a fresh open.       *)
SaveLock(p) ==
    /\ saver[p].pc = "lock"
    /\ \/ LockFree(p, "save") /\ TakeLock(p, "save") /\ SaveTo(p, "begin")
       \/ ~LockFree(p, "save") /\ Close(p, "save") /\ SaveTo(p, "off") /\ UNCHANGED orphaned
    /\ UNCHANGED <<platform, info, registry, lease, crashes>>

(* The lease mutex is free unless a conversion is taking the save lock.     *)
MutexFree(l) == ~At(l, "convert")

AuthorityValid(l, g) ==
    /\ ~lease[l].released /\ <<l, "lease">> \in held
    /\ lease[l].cur = g
    /\ active[ProcOf[l]] = l

BeginSave(p) ==
    /\ saver[p].pc = "begin"
    /\ \E l \in Lease : \E g \in 1..lease[l].gen :
          /\ ProcOf[l] = p /\ MutexFree(l)
          /\ IF AuthorityValid(l, g)
             THEN /\ lease' = [lease EXCEPT ![l].saves = @ + 1]
                  /\ saver' = [saver EXCEPT ![p] = [pc |-> "write", lease |-> l]]
             ELSE SaveTo(p, "unlock") /\ UNCHANGED lease
    /\ UNCHANGED <<platform, files, info, registry, crashes, orphaned>>

EndSave(p) ==
    LET l == saver[p].lease
        last == lease[l].saves = 1
    IN  /\ saver[p].pc = "write"
        /\ MutexFree(l)
        /\ lease' = [lease EXCEPT ![l].saves = @ - 1,
                                  ![l].chan = @ /\ ~last]
        /\ saver' = [saver EXCEPT ![p] = [pc |-> "unlock", lease |-> NoLease]]
        /\ UNCHANGED <<platform, files, info, registry, crashes, orphaned>>

SaveUnlock(p) ==
    /\ saver[p].pc = "unlock" /\ Close(p, "save") /\ SaveTo(p, "off")
    /\ UNCHANGED <<platform, info, registry, lease, crashes, orphaned>>

-----------------------------------------------------------------------------
(* A process dies: its descriptors close and its memory is gone.            *)
Crash(p) ==
    LET mine == {l \in Lease : ProcOf[l] = p /\ lease[l].pc # "new"}
    IN  /\ crashes < MaxCrashes /\ crashes' = crashes + 1
        /\ CloseAll((mine \cup {p}) \X File) /\ late' = late \ (mine \X File)
        /\ lease' = [l \in Lease |-> IF l \in mine THEN [NewLease EXCEPT !.pc = "done"] ELSE lease[l]]
        /\ saver' = [saver EXCEPT ![p] = SaverOff]
        /\ owners' = [owners EXCEPT ![p] = NoLease] /\ active' = [active EXCEPT ![p] = NoLease]
        /\ UNCHANGED <<platform, info, orphaned>>

LeaseStep(l) ==
    \/ Begin(l) \/ OpenLease(l) \/ LockLease(l) \/ Publish(l) \/ Activate(l)
    \/ IssueWriteAuthority(l) \/ DropLease(l)
    \/ Release(l) \/ Revoke(l) \/ Unreserve(l) \/ RemoveLeaseFile(l) \/ UnlockLeaseFile(l)
    \/ RemoveByPath(l) \/ StaleSaveLock(l) \/ StaleSaveTake(l) \/ StaleSaveRemove(l)
    \/ ConvertOpen(l) \/ ConvertTake(l) \/ GuardOpen(l) \/ GuardTake(l)
    \/ RestoreSessionLease(l) \/ GuardEnds(l) \/ GuardRelease(l) \/ RemoveSidecarsAndRelease(l)

SaveStep(p) == SaveOpen(p) \/ SaveLock(p) \/ BeginSave(p) \/ EndSave(p) \/ SaveUnlock(p)

LNext ==
    \/ \E l \in Lease : LeaseStep(l)
    \/ \E p \in Proc : SaveStep(p) \/ Crash(p)

LSpec == LInit /\ [][LNext]_lvars

-----------------------------------------------------------------------------
(***************************************************************************)
(* The type invariant of the lease model.                                  *)
(***************************************************************************)
LTypeOK ==
    /\ platform \in Platforms
    /\ name \in [File -> Inode \cup {NoFile}] /\ doomed \subseteq Inode
    /\ fd \in [Agent -> [File -> Inode \cup {NoFile}]]
    /\ held \subseteq Agent \X File /\ late \subseteq Agent \X File /\ fellback \in BOOLEAN
    /\ info \in [Inode -> Proc \cup {NoProc}]
    /\ owners \in [Proc -> Lease \cup {NoLease}] /\ active \in [Proc -> Lease \cup {NoLease}]
    /\ lease \in [Lease -> [pc : Steps, mode : AllModes \cup {"none"}, released : BOOLEAN,
                            gen : 0..MaxGen, cur : 0..MaxGen, saves : 0..1, chan : BOOLEAN]]
    /\ saver \in [Proc -> [pc : {"off", "lock", "begin", "write", "unlock"},
                           lease : Lease \cup {NoLease}]]
    /\ crashes \in 0..MaxCrashes /\ orphaned \in BOOLEAN

Holders == {l \in Lease : lease[l].pc \in Holding}

(***************************************************************************)
(* At most one runtime holds the session: two processes, or two attempts   *)
(* of one process, never both believe they own the lease or its removal    *)
(* guard ("a later acquirer can never lock an inode that survived the      *)
(* deletion", session_removal.go).                                         *)
(***************************************************************************)
OneLeaseHolder == Cardinality(Holders) <= 1

(***************************************************************************)
(* The lease is exclusive as long as no locked file was without its name;  *)
(* and on Windows that takes a fallback to a remove by path, which         *)
(* "reopens the cleanup-vs-saver window, so tests pin it at zero"          *)
(* (session_lock_windows.go): files removed through their handle leave no  *)
(* such lock behind, however opens, locks, removals and crashes fall.      *)
(***************************************************************************)
ExclusiveUnlessOrphaned ==
    /\ ~orphaned => OneLeaseHolder
    /\ platform = "windows" /\ ~fellback => ~orphaned

Writing(p) == saver[p].pc = "write"
Guards == {l \in Lease : lease[l].pc \in {"guard", "gremove"}}

(***************************************************************************)
(* While an authorised save writes, its lease is not revoked: Release and  *)
(* conversion wait for it or are refused ("so a rebind cannot revoke       *)
(* mid-write and create an ABA ownership hole").  Conversion relies on the *)
(* save lock alone, so the promise ends where that lock is on a lost file. *)
(***************************************************************************)
SaveKeepsLease ==
    \A p \in Proc : Writing(p) /\ ~orphaned =>
        LET l == saver[p].lease
        IN  /\ lease[l].saves = 1 /\ ~lease[l].released
            /\ <<l, "lease">> \in held

(***************************************************************************)
(* One writer at a time: of all authorised saves in their write phase and  *)
(* all removal guards, across processes, at most one exists.               *)
(***************************************************************************)
OneWriterOrRemover ==
    ~orphaned => Cardinality({p \in Proc : Writing(p)} \cup Guards) <= 1

(***************************************************************************)
(* A Release that waits for saves has a save that will wake it.            *)
(***************************************************************************)
ParkedReleaseHasWaker ==
    \A l \in Lease : lease[l].chan => lease[l].saves > 0

(***************************************************************************)
(* Whoever is registered as active holds its OS lock (a lease dropped      *)
(* without Release aside), and a reservation belongs to an attempt that is *)
(* still under way.                                                        *)
(***************************************************************************)
RegistryBacked ==
    \A p \in Proc :
        /\ active[p] # NoLease => <<active[p], "lease">> \in held \/ At(active[p], "dropped")
        /\ owners[p] # NoLease => lease[owners[p]].pc \notin {"new", "stale", "stalelock", "done"}

(***************************************************************************)
(* The bookkeeping of the leases tells the truth, through refusals, parked *)
(* releases, reclaims and crashes: no finished lease wedges the session as *)
(* busy and no Release waits for ever.  Types included.                    *)
(***************************************************************************)
RegistrySound == LTypeOK /\ ParkedReleaseHasWaker /\ RegistryBacked
=============================================================================
