---------------------- MODULE RewindTransactionProofs ----------------------
(***************************************************************************)
(* Theorems about RewindTransaction, for any number of files, shapes and   *)
(* transactions and any number of edits, failures and crashes.  The        *)
(* inductive invariant says what the process, its manifest and the disk    *)
(* agree on at every durable step; RewindInv joins what holds always, and  *)
(* what holds of files the user left alone as long as nothing irregular    *)
(* happened (Calm).                                                        *)
(***************************************************************************)
EXTENDS RewindTransaction, WellFoundedInduction, TLAPS

Publishing == {"intent", "backup", "swap", "progress"}
Compensating == {"comp", "compswap"}
Busy == {"stage", "commit", "mark"} \cup Publishing \cup Compensating

(* Where the process can be.                                                *)
PlaceOK ==
    /\ op.pc \in Busy => op.t \in Txs
    /\ op.pc \in {"stage", "intent"} => op.i \in 1 .. NumFiles + 1
    /\ op.pc \in {"backup", "swap", "progress", "compswap"} => op.i \in Files
    /\ op.pc = "comp" => op.i \in 0 .. NumFiles
    /\ op.pc = "recover" => op.t \in 1 .. MaxTx + 1 /\ op.startup
    /\ op.startup => op.pc \in Compensating \cup {"recover"}
    /\ op.pc \notin Compensating => ~op.err

(* The files the process has announced at its step of the commit.           *)
Announced == IF op.pc = "intent" THEN 1 .. (op.i - 1) ELSE 1 .. op.i

(* What the process works on is what its manifest says.                     *)
MemOK ==
    /\ op.pc \in Busy =>
          /\ op.pc \in {"stage", "commit"} => mem.state = "prepared" /\ mem.pub = {}
          /\ op.pc \in Publishing => mem.state = "committing" /\ mem.pub = Announced
          /\ op.pc \in Compensating => mem.state = "committing"
          /\ op.pc = "mark" => mem.state = "committed" /\ mem.kind = "undo"
    /\ op.pc \in Busy =>
          \/ man[op.t] = mem
          \/ op.pc = "stage" /\ mem.kind = "rewind" /\ man[op.t] = NoManifest
          \/ /\ op.pc = "comp" /\ ~op.startup /\ ~op.err /\ mem.pub = {}
             /\ man[op.t] = [mem EXCEPT !.state = "prepared"]
    /\ op.pc = "stage" /\ mem.kind = "rewind" => man[op.t] = NoManifest
    /\ op.pc = "compswap" => op.i \in mem.pub /\ mem.fwd[op.i] # "absent"

(* A manifest that was written restores the checkpoint, or what its parent  *)
(* replaced.                                                                *)
WellMadeIn(m, mans, before) ==
    IF m.kind = "rewind" THEN m.rst = before
    ELSE /\ m.parent \in Txs /\ mans[m.parent].kind = "rewind"
         /\ mans[m.parent].state \in {"committed", "undone"}
         /\ m.rst = mans[m.parent].fwd
WellMade(m) == WellMadeIn(m, man, Before)
ManOK ==
    /\ \A t \in Txs : IF man[t].state = "none" THEN man[t] = NoManifest ELSE WellMade(man[t])
    /\ op.pc \in Busy => WellMade(mem)

(* Transactions are numbered in the order they begin.                       *)
OrderOK ==
    /\ \A t, u \in Txs : t < u /\ man[u].state # "none" => man[t].state # "none"
    /\ op.pc \in Busy /\ ~op.startup =>
          /\ \A u \in Txs : u > op.t => man[u].state = "none"
          /\ \A u \in Txs : u < op.t => man[u].state # "none"

(* What is offered for undo is a committed rewind that was not undone.      *)
OfferOK ==
    lastUndo # 0 => /\ man[lastUndo].state = "committed" /\ man[lastUndo].kind = "rewind"
                    /\ op.pc # "mark" => ~Undone(lastUndo)

(* A backup is written once, and the path is empty between two renames.     *)
BakOK ==
    /\ \A t \in Txs, x \in Files : man[t].state \in {"none", "prepared"} => bak[t][x] = "absent"
    /\ op.pc \in Publishing => \A x \in Files : x > op.i => bak[op.t][x] = "absent"
    /\ op.pc \in {"intent", "backup"} /\ op.i \in Files => bak[op.t][op.i] = "absent"
    /\ op.pc \in {"swap", "compswap"} => target[op.i] = "absent"

(* What the user wrote is at the path, in a backup or a durable manifest.   *)
Saved(x) ==
    \/ target[x] = "ext"
    \/ \E t \in Txs : bak[t][x] = "ext" \/ man[t].fwd[x] = "ext"
SavedOK == \A x \in Files : user[x] = "ext" => Saved(x)

StructureOK ==
    RTypeOK /\ PlaceOK /\ MemOK /\ ManOK /\ OrderOK /\ OfferOK /\ BakOK /\ SavedOK

-----------------------------------------------------------------------------
(***************************************************************************)
(* Files the user left alone, as long as no compensation was cut in two    *)
(* and no rewind began over a pending one.                                 *)
(***************************************************************************)
Calm == odd \subseteq {"edit"}
Alone == {x \in Files : user[x] = "none"}

EditsCounted == "edit" \notin odd => Alone = Files

(* At most one transaction is pending: the one the process works on.        *)
OnePending ==
    Calm => /\ \A t, u \in Pending : t = u
            /\ op.pc \in Busy => Pending \subseteq {op.t}

(* The temps that are still to be published.                                *)
TempsOK ==
    /\ op.pc = "stage" => \A x \in Files : x < op.i => tmp[op.t][x] = mem.rst[x]
    /\ op.pc = "commit" => \A x \in Files : tmp[op.t][x] = mem.rst[x]
    /\ op.pc \in {"intent", "backup", "swap"} =>
          \A x \in Files : x >= op.i => tmp[op.t][x] = mem.rst[x]
    /\ op.pc = "progress" => \A x \in Files : x > op.i => tmp[op.t][x] = mem.rst[x]
    /\ op.pc = "swap" => mem.rst[op.i] # "absent"

(* What was captured is what was promised.                                  *)
CapturedOK ==
    Calm => \A x \in Alone :
        /\ op.pc = "stage" /\ (mem.kind = "undo" \/ x < op.i) => mem.fwd[x] = target[x]
        /\ op.pc = "commit" => mem.fwd[x] = target[x]

(* With nothing pending the workspace is what the manifests promise.        *)
RestOK == Calm /\ Pending = {} => \A x \in Alone : target[x] = Promised[x]

(* A file of a pending transaction: untouched or rolled back, in the window *)
(* between two renames, published, or in the window of its compensation.    *)
InWindow(t, x) ==
    /\ x \in man[t].pub /\ man[t].fwd[x] # "absent"
    /\ target[x] = "absent" /\ bak[t][x] = man[t].fwd[x]
    /\ man[t].rst[x] = "absent" \/ tmp[t][x] # "absent"
Published(t, x) ==
    x \in man[t].pub /\ target[x] = man[t].rst[x] /\ bak[t][x] = man[t].fwd[x]
BeingRolledBack(t, x) ==
    /\ op.pc = "compswap" /\ op.i = x /\ op.t = t
    /\ bak[t][x] \in {"absent", man[t].fwd[x]}
FileOK(t, x) ==
    target[x] = man[t].fwd[x] \/ InWindow(t, x) \/ Published(t, x) \/ BeingRolledBack(t, x)
PendingOK ==
    Calm => \A t \in Pending, x \in Alone : man[t].fwd[x] = Promised[x] /\ FileOK(t, x)

(* How far the commit has come.                                             *)
ProgressOK ==
    Calm /\ op.pc \in Publishing => \A x \in Alone :
        /\ x < op.i \/ (op.pc = "progress" /\ x = op.i) =>
              target[x] = mem.rst[x] /\ bak[op.t][x] = mem.fwd[x]
        /\ x > op.i \/ (op.pc \in {"intent", "backup"} /\ x = op.i) => target[x] = mem.fwd[x]
        /\ op.pc = "swap" /\ x = op.i => bak[op.t][x] = mem.fwd[x]

(* How far the compensation has come.                                       *)
RolledOK ==
    /\ Calm /\ op.pc \in Compensating => \A x \in Alone :
          x > op.i /\ x \in mem.pub => target[x] = mem.fwd[x] \/ (op.err /\ fails > 0)
    /\ op.err /\ odd = {} => fails > 0

(* What a start or a failure leaves pending is rolled back where it can be. *)
Left == IF op.pc = "idle" THEN Txs ELSE IF op.pc = "recover" THEN {t \in Txs : t < op.t} ELSE {}
LeftOK ==
    Calm /\ fails = 0 => \A t \in Pending \cap Left :
        /\ odd # {}
        /\ \A x \in Alone \cap man[t].pub : target[x] = man[t].fwd[x]

RewindInv ==
    /\ StructureOK /\ EditsCounted /\ OnePending /\ TempsOK /\ CapturedOK /\ RestOK
    /\ PendingOK /\ ProgressOK /\ RolledOK /\ LeftOK

(* A set of transaction or file numbers that is not empty has a least one. *)
LEMMA LeastElement == ASSUME NEW S \in SUBSET Nat, S # {} PROVE \E x \in S : \A y \in S : x <= y
<1> DEFINE R == OpToRel(<, Nat)
<1>1. IsWellFoundedOn(R, Nat)
  BY NatLessThanWellFounded
<1>2. \A a, b \in Nat : a < b => <<a, b>> \in R
  BY DEF OpToRel
<1> HIDE DEF R
<1>3. PICK x \in S : \A y \in S : ~(<<y, x>> \in R)
  BY <1>1, WFMin
<1>4. x \in Nat /\ \A y \in S : y \in Nat /\ ~(y < x)
  BY <1>3, <1>2
<1>5. \A y \in S : x <= y
  BY <1>4
<1> QED
  BY <1>5

(* What Min chooses: a new transaction takes the least unused number.      *)
LEMMA MinIn == ASSUME NEW S \in SUBSET Nat, S # {} PROVE Min(S) \in S /\ \A y \in S : Min(S) <= y
  BY LeastElement DEF Min

(* What Max chooses: the last settled transaction decides what the         *)
(* workspace is to be.                                                     *)
LEMMA MaxIn ==
  ASSUME NEW n \in Nat, NEW S \in SUBSET (0..n), S # {}
  PROVE  Max(S) \in S /\ \A y \in S : y <= Max(S)
<1> DEFINE T == {n - x : x \in S}
<1>1. T # {}
  OBVIOUS
<1>2. T \in SUBSET Nat
  <2> SUFFICES ASSUME NEW x \in S PROVE n - x \in Nat
    OBVIOUS
  <2> QED OBVIOUS
<1>3. \A x \in S : n - x \in T
  OBVIOUS
<1> HIDE DEF T
<1>4. PICK m \in T : \A y \in T : m <= y
  BY <1>1, <1>2, LeastElement
<1>5. PICK x \in S : m = n - x
  BY <1>4 DEF T
<1>6. \A y \in S : n - x <= n - y
  BY <1>4, <1>5, <1>3
<1>7. \A y \in S : y <= x
  BY <1>6
<1> QED
  BY <1>7 DEF Max

(* What the constants are.                                                 *)
LEMMA Consts ==
  /\ NumFiles \in Nat /\ NumFiles > 0 /\ MaxTx \in Nat /\ MaxEdits \in Nat /\ MaxFails \in Nat
     /\ MaxCrashes \in Nat
  /\ Files = 1 .. NumFiles /\ Txs = 1 .. MaxTx
  /\ Shapes \subseteq [Files -> ShapeKinds]
  BY RewindAssumption DEF Files, Txs

(* A new transaction gets an unused number below which none is unused.     *)
LEMMA FreeLeast ==
  ASSUME Free # {}
  PROVE  /\ Min(Free) \in Txs /\ man[Min(Free)].state = "none"
         /\ \A u \in Txs : u < Min(Free) => man[u].state # "none"
<1>1. Free \in SUBSET Nat
  BY Consts DEF Free
<1> DEFINE S == Free
<1> HIDE DEF S
<1>2. S \in SUBSET Nat /\ S # {}
  BY <1>1 DEF S
<1>3. Min(S) \in S /\ \A y \in S : Min(S) <= y
  BY <1>2, MinIn
<1>4. Min(Free) \in Free /\ \A y \in Free : Min(Free) <= y
  BY <1>3 DEF S
<1>5. Min(Free) \in Txs /\ man[Min(Free)].state = "none"
  BY <1>4 DEF Free
<1>6. ASSUME NEW u \in Txs, u < Min(Free), man[u].state = "none" PROVE FALSE
  <2>1. u \in Free
    BY <1>6 DEF Free
  <2>2. Min(Free) \in Nat /\ u \in Nat /\ Min(Free) <= u
    BY <1>4, <1>5, <2>1, Consts
  <2> QED BY <1>6, <2>2
<1> QED
  BY <1>5, <1>6

(* Writing the state of a manifest leaves its other fields alone.          *)
LEMMA WithState ==
  ASSUME NEW m \in Manifests, NEW s \in TxStates, NEW n, n = [m EXCEPT !.state = s]
  PROVE  /\ n \in Manifests
         /\ n.state = s /\ n.kind = m.kind /\ n.parent = m.parent /\ n.fwd = m.fwd /\ n.rst = m.rst
            /\ n.pub = m.pub
  BY DEF Manifests

(* Announcing a file in a manifest leaves its other fields alone.          *)
LEMMA WithPub ==
  ASSUME NEW m \in Manifests, NEW x \in Files, NEW n, n = [m EXCEPT !.pub = @ \cup {x}]
  PROVE  /\ n \in Manifests
         /\ n.state = m.state /\ n.kind = m.kind /\ n.parent = m.parent /\ n.fwd = m.fwd /\ n.rst = m.rst
         /\ n.pub = m.pub \cup {x}
  BY DEF Manifests

(* Capturing the forward image of a file leaves the other fields alone.    *)
LEMMA WithFwd ==
  ASSUME NEW m \in Manifests, NEW x \in Files, NEW a \in Images, NEW n, n = [m EXCEPT !.fwd[x] = a]
  PROVE  /\ n \in Manifests
         /\ n.state = m.state /\ n.kind = m.kind /\ n.parent = m.parent /\ n.rst = m.rst /\ n.pub = m.pub
         /\ n.fwd = [m.fwd EXCEPT ![x] = a]
<1>1. n = [m EXCEPT !.fwd = [m.fwd EXCEPT ![x] = a]]
  BY DEF Manifests
<1> QED BY <1>1 DEF Manifests

(* The fields of a manifest that was never written.                        *)
LEMMA NoManifestFacts ==
  /\ NoManifest \in Manifests
  /\ NoManifest.state = "none" /\ NoManifest.kind = "rewind" /\ NoManifest.parent = 0 /\ NoManifest.pub = {}
  /\ \A x \in Files : NoManifest.fwd[x] = "absent"
  BY Consts DEF NoManifest, Manifests, TxStates, Images

(* A checkpoint never holds an image of the user's.                        *)
LEMMA BeforeFacts == Before \in [Files -> Images] /\ \A x \in Files : Before[x] # "ext"
  BY DEF Before, Images

(* The types of the fields of a manifest.                                  *)
LEMMA ManifestFields ==
  ASSUME NEW m \in Manifests
  PROVE  /\ m.state \in TxStates /\ m.kind \in {"rewind", "undo"} /\ m.parent \in 0 .. MaxTx
         /\ m.fwd \in [Files -> Images] /\ m.rst \in [Files -> Images] /\ m.pub \in SUBSET Files
  BY DEF Manifests

(* A step that writes no manifest keeps the manifests well made.           *)
LEMMA ManKept ==
  ASSUME ManOK, UNCHANGED <<shape, man>>, op'.pc \in Busy => WellMadeIn(mem', man, Before)
  PROVE  ManOK'
  BY DEF ManOK, WellMade, WellMadeIn, Before

(* persistTransaction replaces one manifest.                               *)
LEMMA Written ==
  ASSUME RTypeOK, NEW t0 \in Txs, NEW m, man' = [man EXCEPT ![t0] = m]
  PROVE  /\ man'[t0] = m /\ \A t \in Txs : t # t0 => man'[t] = man[t]
         /\ m \in Manifests => man' \in [Txs -> Manifests]
  BY DEF RTypeOK

(* Writing a well made manifest keeps all of them well made: what a        *)
(* settled rewind captured, which its undo restores, is never overwritten. *)
LEMMA ManWritten ==
  ASSUME RTypeOK, ManOK, NEW t0 \in Txs, NEW m \in Manifests, shape' = shape,
         man'[t0] = m, \A t \in Txs : t # t0 => man'[t] = man[t],
         m.state # "none", WellMadeIn(m, man, Before),
         man[t0].state \in {"committed", "undone"} =>
            m.state \in {"committed", "undone"} /\ m.kind = man[t0].kind /\ m.fwd = man[t0].fwd,
         op'.pc \in Busy => WellMadeIn(mem', man, Before)
  PROVE  ManOK'
<1>1. Before' = Before
  BY DEF Before
<1>2. ASSUME NEW w, WellMadeIn(w, man, Before) PROVE WellMadeIn(w, man', Before)
  BY <1>2 DEF WellMadeIn
<1>3. \A t \in Txs : IF man'[t].state = "none" THEN man'[t] = NoManifest
                     ELSE WellMadeIn(man'[t], man', Before)
  BY <1>2 DEF ManOK, WellMade
<1>4. op'.pc \in Busy => WellMadeIn(mem', man', Before)
  BY <1>2
<1>5. NoManifest' = NoManifest
  OBVIOUS
<1> QED
  BY <1>1, <1>3, <1>4, <1>5 DEF ManOK, WellMade

(* What the user wrote stays saved when no file moves and no manifest      *)
(* loses its forward images.                                               *)
LEMMA SavedPlain ==
  ASSUME SavedOK, UNCHANGED <<user, target, bak>>,
         \A t \in Txs : man'[t].fwd = man[t].fwd \/ man[t] = NoManifest
  PROVE  SavedOK'
<1>1. \A t \in Txs, x \in Files : man[t].fwd[x] = "ext" => man'[t].fwd[x] = "ext"
  BY NoManifestFacts
<1> QED BY <1>1 DEF SavedOK, Saved

(* The positions of the process, as RTypeOK lists them.                    *)
OpSpace == [pc : Steps, t : 0 .. MaxTx + 1, i : 0 .. NumFiles + 1, err : BOOLEAN, startup : BOOLEAN]

(* How the position of the process is put together.                        *)
LEMMA OpMade ==
  ASSUME NEW p \in Steps, NEW t \in 0 .. MaxTx + 1, NEW i \in 0 .. NumFiles + 1,
         NEW e \in BOOLEAN, NEW s \in BOOLEAN
  PROVE  [pc |-> p, t |-> t, i |-> i, err |-> e, startup |-> s] \in OpSpace
  BY DEF OpSpace

(* The manifest that commitTransaction changed in memory is the durable    *)
(* one but for its state.                                                  *)
LEMMA StateBack ==
  ASSUME NEW m \in Manifests, m.state = "prepared", NEW n, n = [m EXCEPT !.state = "committing"]
  PROVE  [n EXCEPT !.state = "prepared"] = m
  BY DEF Manifests

(* Writing one manifest uses one number.                                   *)
LEMMA OrderWritten ==
  ASSUME OrderOK, NEW t0 \in Txs, NEW m, man'[t0] = m,
         \A t \in Txs : t # t0 => man'[t] = man[t], m.state # "none"
  PROVE  \A t \in Txs : man'[t].state = "none" <=> man[t].state = "none" /\ t # t0
  OBVIOUS

(* Writing a manifest that neither was nor becomes committed does not      *)
(* change what is offered for undo.                                        *)
LEMMA OfferWritten ==
  ASSUME RTypeOK, OfferOK, op.pc # "mark", lastUndo' = lastUndo, NEW t0 \in Txs, NEW m, man'[t0] = m,
         \A t \in Txs : t # t0 => man'[t] = man[t], m.state # "committed", man[t0].state # "committed"
  PROVE  OfferOK'
<1>1. \A t : Undone(t)' => Undone(t)
  BY DEF Undone
<1> QED BY <1>1, Consts DEF OfferOK, RTypeOK

(* The states of a settled transaction.                                    *)
Done == {"committed", "undone"}

(* The promise stays when no transaction settles: manifests move only      *)
(* among the unsettled states, or among the settled ones with the same     *)
(* images.                                                                 *)
LEMMA PromisedKept ==
  ASSUME shape' = shape,
         \A t \in Txs : \/ man'[t] = man[t]
                        \/ man[t].state \notin Done /\ man'[t].state \notin Done
                        \/ man[t].state \in Done /\ man'[t].state \in Done /\ man'[t].rst = man[t].rst
  PROVE  Promised' = Promised
<1> DEFINE D == {t \in Txs : man[t].state \in Done}
           E == {t \in Txs : man'[t].state \in Done}
<1>1. D = E
  OBVIOUS
<1>2. After' = After
  BY DEF After
<1>3. D \in SUBSET (0 .. MaxTx)
  BY Consts
<1>4. ASSUME D # {} PROVE man'[Max(D)].rst = man[Max(D)].rst
  <2> HIDE DEF D
  <2>1. Max(D) \in D
    BY <1>3, <1>4, MaxIn, Consts
  <2> QED BY <2>1 DEF D
<1>5. Promised = IF D = {} THEN After ELSE man[Max(D)].rst
  BY DEF Promised, Done
<1>6. Promised' = IF E = {} THEN After' ELSE man'[Max(E)].rst
  BY DEF Promised, Done
<1> HIDE DEF D, E
<1> QED BY <1>1, <1>2, <1>4, <1>5, <1>6

(* The promise is what the last settled transaction restored.              *)
LEMMA PromisedNow ==
  ASSUME NEW t0 \in Txs, man'[t0].state \in Done, \A u \in Txs : u > t0 => man'[u].state \notin Done
  PROVE  Promised' = man'[t0].rst
<1> DEFINE E == {t \in Txs : man'[t].state \in Done}
<1>1. E \in SUBSET (0 .. MaxTx) /\ t0 \in E /\ \A u \in E : u \in Nat /\ ~(u > t0)
  BY Consts
<1>2. Promised' = IF E = {} THEN After' ELSE man'[Max(E)].rst
  BY DEF Promised, Done
<1> HIDE DEF E
<1>3. Max(E) \in E /\ t0 <= Max(E)
  BY <1>1, MaxIn, Consts
<1>4. Max(E) = t0
  <2>1. Max(E) \in Nat /\ t0 \in Nat /\ ~(Max(E) > t0)
    BY <1>1, <1>3, Consts
  <2> QED BY <1>3, <2>1
<1> QED BY <1>1, <1>2, <1>4

(* The same for a step that writes one manifest.                           *)
LEMMA PromisedWritten ==
  ASSUME shape' = shape, NEW t0 \in Txs, \A t \in Txs : t # t0 => man'[t] = man[t],
         \/ man[t0].state \notin Done /\ man'[t0].state \notin Done
         \/ man[t0].state \in Done /\ man'[t0].state \in Done /\ man'[t0].rst = man[t0].rst
  PROVE  Promised' = Promised
<1>1. \A t \in Txs : \/ man'[t] = man[t]
                     \/ man[t].state \notin Done /\ man'[t].state \notin Done
                     \/ man[t].state \in Done /\ man'[t].state \in Done /\ man'[t].rst = man[t].rst
  <2> SUFFICES ASSUME NEW t \in Txs
               PROVE  \/ man'[t] = man[t]
                      \/ man[t].state \notin Done /\ man'[t].state \notin Done
                      \/ man[t].state \in Done /\ man'[t].state \in Done /\ man'[t].rst = man[t].rst
    OBVIOUS
  <2>1. CASE t = t0
    BY <2>1
  <2>2. CASE t # t0
    BY <2>2
  <2> QED BY <2>1, <2>2
<1> QED BY <1>1, PromisedKept

(* The same for a step that writes none.                                   *)
LEMMA PromisedSame ==
  ASSUME UNCHANGED <<shape, man>>
  PROVE  Promised' = Promised
  BY DEF Promised, After

(* A file of a pending transaction stays accounted for when nothing of it  *)
(* moves.                                                                  *)
LEMMA FileSame ==
  ASSUME NEW t, NEW x, FileOK(t, x), ~(op.pc = "compswap" /\ op.i = x /\ op.t = t),
         man'[t].fwd = man[t].fwd, man'[t].rst = man[t].rst, man[t].pub \subseteq man'[t].pub,
         target'[x] = target[x], bak'[t][x] = bak[t][x], tmp'[t][x] = tmp[t][x]
  PROVE  FileOK(t, x)'
  BY DEF FileOK, InWindow, Published, BeingRolledBack

(* A step that writes no manifest and moves no file keeps every pending    *)
(* file accounted for.                                                     *)
LEMMA PendingPlain ==
  ASSUME PendingOK, Calm' => Calm /\ op.pc # "compswap", Alone' \subseteq Alone, Promised' = Promised,
         UNCHANGED <<man, target, bak>>, \A t \in Pending : tmp'[t] = tmp[t]
  PROVE  PendingOK'
<1> SUFFICES ASSUME Calm', NEW t \in Pending', NEW x \in Alone'
             PROVE  man'[t].fwd[x] = Promised'[x] /\ FileOK(t, x)'
  BY DEF PendingOK
<1>1. t \in Pending /\ man[t].fwd[x] = Promised[x] /\ FileOK(t, x)
  BY DEF Pending, PendingOK
<1> QED BY <1>1, FileSame

(* Three parts of the invariant speak only about a process that stages or  *)
(* commits.                                                                *)
LEMMA NotCommitting ==
  ASSUME op'.pc \notin {"stage", "commit"} \cup Publishing
  PROVE  TempsOK' /\ CapturedOK' /\ ProgressOK'
  BY DEF TempsOK, CapturedOK, ProgressOK, Publishing

(* CommitRewindWithForward begins: every file holds an image it knows.     *)
LEMMA CommitRewindKeeps ==
  ASSUME RewindInv, CommitRewind
  PROVE  RewindInv'
<1>1. RTypeOK /\ PlaceOK /\ MemOK /\ ManOK /\ OrderOK /\ OfferOK /\ BakOK /\ SavedOK
  BY DEF RewindInv, StructureOK
<1>2. /\ Min(Free) \in Txs /\ man[Min(Free)].state = "none"
      /\ \A u \in Txs : u < Min(Free) => man[u].state # "none"
  BY FreeLeast DEF CommitRewind
<1>3. op.pc = "idle" /\ op'.pc = "stage" /\ op'.t = Min(Free) /\ op'.i = 1 /\ op'.err = op.err
      /\ op'.startup = op.startup
  BY DEF CommitRewind, At
<1>4. man \in [Txs -> Manifests] /\ mem \in Manifests /\ op.pc \in Steps
  BY <1>1 DEF RTypeOK
<1>5. mem' \in Manifests /\ mem'.state = "prepared" /\ mem'.kind = "rewind" /\ mem'.rst = Before
      /\ mem'.pub = {}
  BY NoManifestFacts, BeforeFacts DEF CommitRewind, Manifests, TxStates
<1>6. man' = man /\ man' \in [Txs -> Manifests]
  BY <1>4 DEF CommitRewind
<1>7. RTypeOK'
  <2>1. op' \in OpSpace
    <3>1. op' = [pc |-> op'.pc, t |-> op'.t, i |-> op'.i, err |-> op'.err, startup |-> op'.startup]
      BY <1>1 DEF CommitRewind, At, disk, RTypeOK
    <3>2. op'.pc \in Steps /\ op'.t \in 0 .. MaxTx + 1 /\ op'.i \in 0 .. NumFiles + 1
      BY <1>2, <1>3, Consts DEF Steps
    <3>3. op'.err \in BOOLEAN /\ op'.startup \in BOOLEAN
      BY <1>1, <1>3 DEF RTypeOK
    <3> QED BY <3>1, <3>2, <3>3, OpMade
  <2>2. /\ target' \in [Files -> Images] /\ bak' \in [Txs -> [Files -> Images]]
        /\ tmp' \in [Txs -> [Files -> Images]] /\ recov' \in [Files -> [Images -> Images]]
    <3>1. "absent" \in Images /\ mem.fwd \in [Files -> Images] /\ mem.rst \in [Files -> Images]
      BY <1>4, ManifestFields DEF Images
    <3> QED BY <1>1 DEF CommitRewind, disk, RTypeOK
  <2>3. /\ shape' \in Shapes /\ user' \in [Files -> Images \cup {"none"}]
        /\ odd' \subseteq {"edit", "split", "overpending"}
    BY <1>1 DEF CommitRewind, RTypeOK
  <2>4. lastUndo' \in 0 .. MaxTx /\ edits' \in 0 .. MaxEdits /\ fails' \in 0 .. MaxFails
        /\ crashes' \in 0 .. MaxCrashes
    BY <1>1 DEF CommitRewind, RTypeOK
  <2> QED BY <1>5, <1>6, <2>1, <2>2, <2>3, <2>4 DEF RTypeOK, OpSpace
<1>8. PlaceOK'
  BY <1>2, <1>1, Consts DEF CommitRewind, At, PlaceOK, Compensating
<1>9. MemOK'
  BY <1>2, <1>1, <1>3, <1>5, <1>6 DEF MemOK, ManOK, Publishing, Compensating
<1>10. ManOK'
  <2>1. op'.pc \in Busy => WellMadeIn(mem', man, Before)
    BY <1>5 DEF WellMadeIn
  <2>2. UNCHANGED <<shape, man>>
    BY <1>6 DEF CommitRewind
  <2> QED BY <1>1, <2>1, <2>2, ManKept
<1>11. OrderOK'
  BY <1>2, <1>1 DEF CommitRewind, OrderOK
<1>12. OfferOK'
  BY <1>1 DEF CommitRewind, At, OfferOK, Undone
<1>13. BakOK'
  BY <1>2, <1>1 DEF CommitRewind, disk, BakOK
<1>14. SavedOK'
  BY <1>1 DEF CommitRewind, disk, SavedOK, Saved
<1>15. (Calm' => Calm) /\ Alone' \subseteq Alone /\ shape' = shape
  BY DEF CommitRewind, Calm, Alone
<1>16. Promised' = Promised
  BY <1>6, <1>15, PromisedSame
<1>17. EditsCounted /\ OnePending /\ TempsOK /\ CapturedOK /\ RestOK /\ PendingOK /\ ProgressOK
       /\ RolledOK /\ LeftOK
  BY DEF RewindInv
<1>18. EditsCounted'
  BY <1>17 DEF CommitRewind, EditsCounted, Alone
<1>19. OnePending'
  BY DEF CommitRewind, OnePending, Pending, Calm
<1>20. TempsOK'
  BY Consts DEF CommitRewind, TempsOK
<1>21. CapturedOK'
  BY <1>3, <1>5, Consts DEF CapturedOK, Alone
<1>22. RestOK'
  BY <1>15, <1>16, <1>17 DEF CommitRewind, disk, RestOK, Pending
<1>23. PendingOK'
  <2>1. Calm' => Calm /\ op.pc # "compswap"
    BY DEF CommitRewind, At, Calm
  <2>2. UNCHANGED <<man, target, bak>>
    BY DEF CommitRewind, disk
  <2>3. \A t \in Pending : tmp'[t] = tmp[t]
    BY DEF CommitRewind, disk
  <2> QED BY <1>15, <1>16, <1>17, <2>1, <2>2, <2>3, PendingPlain
<1>24. ProgressOK'
  BY DEF CommitRewind, ProgressOK, Publishing
<1>25. RolledOK'
  BY <1>17 DEF CommitRewind, RolledOK, Compensating
<1>26. LeftOK'
  BY DEF CommitRewind, LeftOK, Left
<1> QED
  BY <1>7, <1>8, <1>9, <1>10, <1>11, <1>12, <1>13, <1>14, <1>18, <1>19, <1>20, <1>21, <1>22, <1>23, <1>24,
     <1>25, <1>26
  DEF RewindInv, StructureOK

(* UndoRewind begins: its manifest names a committed rewind and captures   *)
(* what that published.                                                    *)
LEMMA UndoRewindKeeps ==
  ASSUME RewindInv, UndoRewind
  PROVE  RewindInv'
<1>1. RTypeOK /\ PlaceOK /\ MemOK /\ ManOK /\ OrderOK /\ OfferOK /\ BakOK /\ SavedOK
  BY DEF RewindInv, StructureOK
<1>2. /\ Min(Free) \in Txs /\ man[Min(Free)].state = "none"
      /\ \A u \in Txs : u < Min(Free) => man[u].state # "none"
  BY FreeLeast DEF UndoRewind
<1>3. op.pc = "idle" /\ op'.pc = "stage" /\ op'.t = Min(Free) /\ op'.i = 1 /\ op'.err = op.err
      /\ op'.startup = op.startup
  BY DEF UndoRewind, At
<1>4. man \in [Txs -> Manifests] /\ mem \in Manifests /\ op.pc \in Steps
  BY <1>1 DEF RTypeOK
<1>5. mem' \in Manifests /\ mem'.state = "prepared" /\ mem'.kind = "undo" /\ mem'.parent = lastUndo
      /\ mem'.fwd = man[lastUndo].rst /\ mem'.rst = man[lastUndo].fwd /\ mem'.pub = {}
  <2>1. lastUndo \in Txs /\ lastUndo \in 0 .. MaxTx
    BY <1>1, Consts DEF UndoRewind, RTypeOK
  <2>2. man[lastUndo].fwd \in [Files -> Images] /\ man[lastUndo].rst \in [Files -> Images]
    BY <1>4, <2>1, ManifestFields
  <2> QED BY <2>1, <2>2 DEF UndoRewind, Manifests, TxStates
<1>6. Min(Free) \in Txs
  BY <1>2
<1>7. mem' \in Manifests
  BY <1>5, <1>4
<1>8. man' = [man EXCEPT ![Min(Free)] = mem']
  BY DEF UndoRewind
<1>9. /\ man'[Min(Free)] = mem' /\ (\A t \in Txs : t # Min(Free) => man'[t] = man[t])
      /\ man' \in [Txs -> Manifests]
  BY <1>1, <1>6, <1>7, <1>8, Written
<1>10. man[Min(Free)].state \in {"none"}
  BY <1>2
<1>11. RTypeOK'
  <2>1. op' \in OpSpace
    <3>1. op' = [pc |-> op'.pc, t |-> op'.t, i |-> op'.i, err |-> op'.err, startup |-> op'.startup]
      BY <1>1 DEF UndoRewind, At, disk, RTypeOK
    <3>2. op'.pc \in Steps /\ op'.t \in 0 .. MaxTx + 1 /\ op'.i \in 0 .. NumFiles + 1
      BY <1>2, <1>3, Consts DEF Steps
    <3>3. op'.err \in BOOLEAN /\ op'.startup \in BOOLEAN
      BY <1>1, <1>3 DEF RTypeOK
    <3> QED BY <3>1, <3>2, <3>3, OpMade
  <2>2. /\ target' \in [Files -> Images] /\ bak' \in [Txs -> [Files -> Images]]
        /\ tmp' \in [Txs -> [Files -> Images]] /\ recov' \in [Files -> [Images -> Images]]
    <3>1. "absent" \in Images /\ mem.fwd \in [Files -> Images] /\ mem.rst \in [Files -> Images]
      BY <1>4, ManifestFields DEF Images
    <3> QED BY <1>1 DEF UndoRewind, disk, RTypeOK
  <2>3. /\ shape' \in Shapes /\ user' \in [Files -> Images \cup {"none"}]
        /\ odd' \subseteq {"edit", "split", "overpending"}
    BY <1>1 DEF UndoRewind, RTypeOK
  <2>4. lastUndo' \in 0 .. MaxTx /\ edits' \in 0 .. MaxEdits /\ fails' \in 0 .. MaxFails
        /\ crashes' \in 0 .. MaxCrashes
    BY <1>1 DEF UndoRewind, RTypeOK
  <2> QED BY <1>5, <1>9, <2>1, <2>2, <2>3, <2>4 DEF RTypeOK, OpSpace
<1>12. PlaceOK'
  BY <1>2, <1>1, Consts DEF UndoRewind, At, PlaceOK, Compensating
<1>13. MemOK'
  BY <1>3, <1>5, <1>9 DEF MemOK, Publishing, Compensating
<1>14. ManOK'
  <2>1. op'.pc \in Busy => WellMadeIn(mem', man, Before)
    <3>1. lastUndo \in Txs /\ man[lastUndo].state = "committed" /\ man[lastUndo].kind = "rewind"
      BY <1>1, Consts DEF UndoRewind, OfferOK, RTypeOK
    <3> QED BY <1>5, <3>1 DEF WellMadeIn
  <2>2. WellMadeIn(mem', man, Before)
    BY <2>1 DEF UndoRewind, Busy
  <2>3. mem'.state # "none" /\ (man[Min(Free)].state \in {"committed", "undone"} =>
            mem'.state \in {"committed", "undone"} /\ mem'.kind = man[Min(Free)].kind
            /\ mem'.fwd = man[Min(Free)].fwd)
    BY <1>10 DEF UndoRewind
  <2>4. shape' = shape
    BY DEF UndoRewind
  <2> QED BY <1>1, <1>9, <1>6, <2>2, <2>3, <2>4, ManWritten
<1>15. OrderOK'
  <2>1. \A t \in Txs : man'[t].state = "none" <=> man[t].state = "none" /\ t # Min(Free)
    <3>1. mem'.state # "none"
      BY <1>5
    <3> QED BY <1>9, <3>1
  <2> QED BY <1>2, <1>1 DEF UndoRewind, OrderOK
<1>16. OfferOK'
  <2>1. mem'.state # "committed" /\ lastUndo' = lastUndo /\ op.pc # "mark"
    BY <1>3 DEF UndoRewind
  <2> QED BY <1>1, <1>9, <1>6, <1>10, <2>1, OfferWritten
<1>17. BakOK'
  BY <1>1, <1>6, <1>10 DEF UndoRewind, disk, BakOK
<1>18. SavedOK'
  <2>1. UNCHANGED <<user, target, bak>>
    BY DEF UndoRewind, disk
  <2>2. \A t \in Txs : man'[t].fwd = man[t].fwd \/ man[t] = NoManifest
    BY <1>2, <1>1, <1>9 DEF ManOK
  <2> QED BY <1>1, <2>1, <2>2, SavedPlain
<1>19. (Calm' => Calm) /\ Alone' \subseteq Alone /\ shape' = shape
  BY DEF UndoRewind, Calm, Alone
<1>20. Promised' = Promised
  <2>1. man[Min(Free)].state \notin Done
    BY <1>10 DEF Done
  <2>2. man'[Min(Free)].state \notin Done
    BY <1>5, <1>9 DEF Done
  <2> QED BY <1>9, <1>6, <1>19, <2>1, <2>2, PromisedWritten
<1>21. EditsCounted /\ OnePending /\ TempsOK /\ CapturedOK /\ RestOK /\ PendingOK /\ ProgressOK
       /\ RolledOK /\ LeftOK
  BY DEF RewindInv
<1>22. EditsCounted'
  BY <1>21 DEF UndoRewind, EditsCounted, Alone
<1>23. OnePending'
  BY DEF UndoRewind, OnePending, Pending, Calm
<1>24. TempsOK'
  BY Consts DEF UndoRewind, TempsOK
<1>25. CapturedOK'
  BY DEF UndoRewind, disk, CapturedOK, Alone
<1>26. RestOK'
  BY <1>10, <1>19, <1>20, <1>21 DEF UndoRewind, disk, RestOK, Pending
<1>27. PendingOK'
  <2> SUFFICES ASSUME Calm', NEW t \in Pending', NEW x \in Alone'
               PROVE  man'[t].fwd[x] = Promised'[x] /\ FileOK(t, x)'
    BY DEF PendingOK
  <2>1. Calm /\ x \in Alone /\ x \in Files /\ t \in Txs
    BY <1>19 DEF Alone, Pending
  <2>2. t # Min(Free) /\ man'[t] = man[t] /\ t \in Pending
    BY <1>5, <1>9 DEF Pending
  <2>3. /\ t # Min(Free) /\ man[t].fwd[x] = Promised[x] /\ FileOK(t, x)
        /\ man'[t].fwd = man[t].fwd /\ man'[t].rst = man[t].rst /\ man[t].pub \subseteq man'[t].pub
    BY <1>21, <2>1, <2>2 DEF PendingOK
  <2>4. op.pc # "compswap"
    BY <1>3
  <2>5. target'[x] = target[x] /\ bak'[t][x] = bak[t][x]
    BY DEF UndoRewind, disk
  <2>6. tmp'[t][x] = tmp[t][x]
    BY DEF UndoRewind, disk
  <2> QED BY <1>20, <2>3, <2>4, <2>5, <2>6, FileSame
<1>28. ProgressOK'
  BY Consts DEF UndoRewind, disk, ProgressOK, Alone
<1>29. RolledOK'
  BY <1>21 DEF UndoRewind, RolledOK
<1>30. LeftOK'
  BY DEF UndoRewind, LeftOK, Left
<1> QED
  BY <1>11, <1>12, <1>13, <1>14, <1>15, <1>16, <1>17, <1>18, <1>22, <1>23, <1>24, <1>25, <1>26, <1>27,
     <1>28, <1>29, <1>30
  DEF RewindInv, StructureOK

(* prepareTransaction stages one file.                                     *)
LEMMA StageKeeps ==
  ASSUME RewindInv, Stage
  PROVE  RewindInv'
<1>1. RTypeOK /\ PlaceOK /\ MemOK /\ ManOK /\ OrderOK /\ OfferOK /\ BakOK /\ SavedOK
  BY DEF RewindInv, StructureOK
<1>2. op.pc = "stage" /\ op'.pc = "stage" /\ op'.t = op.t /\ op'.i = op.i + 1 /\ op'.err = op.err
      /\ op'.startup = op.startup
  BY DEF Stage, At, Goto
<1>3. man \in [Txs -> Manifests] /\ mem \in Manifests /\ op.pc \in Steps
  BY <1>1 DEF RTypeOK
<1>4. /\ mem' \in Manifests /\ mem'.state = mem.state /\ mem'.kind = mem.kind
      /\ mem'.parent = mem.parent /\ mem'.rst = mem.rst /\ mem'.pub = mem.pub
      /\ (mem.kind = "undo" => mem' = mem)
      /\ (mem.kind = "rewind" => mem'.fwd = [mem.fwd EXCEPT ![op.i] = target[op.i]])
  <2>1. CASE mem.kind = "rewind"
    <3>1. mem' = [mem EXCEPT !.fwd[op.i] = target[op.i]] /\ op.i \in Files /\ target[op.i] \in Images
      BY <1>1, <2>1 DEF Stage, RTypeOK
    <3> QED BY <1>3, <2>1, <3>1 DEF Manifests
  <2>2. CASE mem.kind = "undo"
    BY <1>3, <2>2 DEF Stage
  <2> QED BY <1>3, <2>1, <2>2, ManifestFields
<1>5. man' = man /\ man' \in [Txs -> Manifests]
  BY <1>3 DEF Stage
<1>6. RTypeOK'
  <2>1. op' \in OpSpace
    <3>1. op' = [pc |-> op'.pc, t |-> op'.t, i |-> op'.i, err |-> op'.err, startup |-> op'.startup]
      BY <1>1 DEF Stage, At, Goto, hist, RTypeOK
    <3>2. op'.pc \in Steps /\ op'.t \in 0 .. MaxTx + 1 /\ op'.i \in 0 .. NumFiles + 1
      BY <1>1, <1>2, Consts DEF Stage, RTypeOK, Steps
    <3>3. op'.err \in BOOLEAN /\ op'.startup \in BOOLEAN
      BY <1>1, <1>2 DEF RTypeOK
    <3> QED BY <3>1, <3>2, <3>3, OpMade
  <2>2. /\ target' \in [Files -> Images] /\ bak' \in [Txs -> [Files -> Images]]
        /\ tmp' \in [Txs -> [Files -> Images]] /\ recov' \in [Files -> [Images -> Images]]
    <3>1. "absent" \in Images /\ mem.fwd \in [Files -> Images] /\ mem.rst \in [Files -> Images]
      BY <1>3, ManifestFields DEF Images
    <3> QED BY <1>1, <1>2, <3>1 DEF Stage, RTypeOK, PlaceOK, Busy
  <2>3. /\ shape' \in Shapes /\ user' \in [Files -> Images \cup {"none"}]
        /\ odd' \subseteq {"edit", "split", "overpending"}
    BY <1>1 DEF Stage, hist, RTypeOK
  <2>4. lastUndo' \in 0 .. MaxTx /\ edits' \in 0 .. MaxEdits /\ fails' \in 0 .. MaxFails
        /\ crashes' \in 0 .. MaxCrashes
    BY <1>1 DEF Stage, hist, RTypeOK
  <2> QED BY <1>4, <1>5, <2>1, <2>2, <2>3, <2>4 DEF RTypeOK, OpSpace
<1>7. PlaceOK'
  BY <1>1, <1>2, <1>3, Consts DEF Stage, PlaceOK
<1>8. MemOK'
  BY <1>1, <1>2, <1>4, <1>5, ManifestFields DEF MemOK
<1>9. ManOK'
  <2>1. op'.pc \in Busy => WellMadeIn(mem', man, Before)
    BY <1>1, <1>2, <1>4 DEF ManOK, WellMade, WellMadeIn
  <2>2. UNCHANGED <<shape, man>>
    BY <1>5 DEF Stage
  <2> QED BY <1>1, <2>1, <2>2, ManKept
<1>10. OrderOK'
  BY <1>1, <1>2 DEF Stage, OrderOK
<1>11. OfferOK'
  BY <1>1 DEF Stage, At, OfferOK, Undone
<1>12. BakOK'
  BY <1>1, <1>2, Consts DEF Stage, BakOK
<1>13. SavedOK'
  BY <1>1 DEF Stage, hist, SavedOK, Saved
<1>14. (Calm' => Calm) /\ Alone' \subseteq Alone /\ shape' = shape
  BY DEF Stage, hist, Calm, Alone
<1>15. Promised' = Promised
  BY <1>5, <1>14, PromisedSame
<1>16. EditsCounted /\ OnePending /\ TempsOK /\ CapturedOK /\ RestOK /\ PendingOK /\ ProgressOK
       /\ RolledOK /\ LeftOK
  BY DEF RewindInv
<1>17. EditsCounted'
  BY <1>16 DEF Stage, hist, EditsCounted, Alone
<1>18. OnePending'
  BY <1>16 DEF Stage, At, Goto, hist, OnePending, Pending, Calm
<1>19. TempsOK'
  <2> SUFFICES ASSUME NEW x \in Files, x < op.i + 1 PROVE tmp'[op.t][x] = mem.rst[x]
    BY <1>2, <1>4 DEF TempsOK
  <2>1. op.t \in Txs /\ op.i \in Files /\ tmp' = [tmp EXCEPT ![op.t][op.i] = mem.rst[op.i]]
    BY <1>1, <1>2 DEF Stage, PlaceOK, Busy
  <2>2. CASE x = op.i
    BY <1>1, <2>1, <2>2 DEF RTypeOK
  <2>3. CASE x # op.i
    <3>1. x < op.i /\ tmp'[op.t][x] = tmp[op.t][x]
      BY <2>1, <2>3, Consts
    <3> QED BY <1>2, <1>16, <3>1 DEF TempsOK
  <2> QED BY <2>2, <2>3
<1>20. CapturedOK'
  <2> SUFFICES ASSUME Calm', NEW x \in Alone', mem'.kind = "undo" \/ x < op.i + 1
               PROVE  mem'.fwd[x] = target'[x]
    BY <1>2 DEF CapturedOK
  <2>1. Calm /\ x \in Alone /\ x \in Files /\ op.i \in Files /\ target' = target
        /\ mem.fwd \in [Files -> Images]
    BY <1>3, <1>14, ManifestFields DEF Alone, Stage
  <2>2. CASE mem.kind = "undo"
    BY <1>2, <1>4, <1>16, <2>1, <2>2 DEF CapturedOK
  <2>3. CASE mem.kind = "rewind"
    <3>1. CASE x = op.i
      BY <1>4, <2>1, <2>3, <3>1
    <3>2. CASE x # op.i
      <4>1. x < op.i /\ mem'.fwd[x] = mem.fwd[x]
        BY <1>4, <2>1, <2>3, <3>2, Consts
      <4> QED BY <1>2, <1>16, <2>1, <4>1 DEF CapturedOK
    <3> QED BY <3>1, <3>2
  <2> QED BY <1>3, <2>2, <2>3, ManifestFields
<1>21. RestOK'
  BY <1>14, <1>15, <1>16 DEF Stage, RestOK, Pending
<1>22. PendingOK'
  <2>1. Calm' => Calm /\ op.pc # "compswap"
    BY <1>14 DEF Stage, At
  <2>2. UNCHANGED <<man, target, bak>>
    BY DEF Stage
  <2>3. \A t \in Pending : tmp'[t] = tmp[t]
    BY <1>1, <1>2, NoManifestFacts DEF Stage, Pending, MemOK, Busy
  <2> QED BY <1>14, <1>15, <1>16, <2>1, <2>2, <2>3, PendingPlain
<1>23. ProgressOK'
  BY DEF Stage, Goto, ProgressOK, Publishing
<1>24. RolledOK'
  BY <1>14, <1>16, Consts DEF Stage, At, Goto, hist, RolledOK, Alone
<1>25. LeftOK'
  BY DEF Stage, Goto, LeftOK, Left
<1> QED
  BY <1>6, <1>7, <1>8, <1>9, <1>10, <1>11, <1>12, <1>13, <1>17, <1>18, <1>19, <1>20, <1>21, <1>22, <1>23,
     <1>24, <1>25
  DEF RewindInv, StructureOK

(* Staging an undo fails, and its manifest is aborted.                     *)
LEMMA StageAbortsKeeps ==
  ASSUME RewindInv, StageFails, mem.kind = "undo" /\ Persist([mem EXCEPT !.state = "aborted"])
  PROVE  RewindInv'
<1>1. RTypeOK /\ PlaceOK /\ MemOK /\ ManOK /\ OrderOK /\ OfferOK /\ BakOK /\ SavedOK
  BY DEF RewindInv, StructureOK
<1>2. op.pc = "stage" /\ op'.pc = "idle" /\ op'.t = op.t /\ op'.i = 0 /\ op'.err = FALSE
      /\ op'.startup = op.startup
  BY DEF StageFails, At, Rest
<1>3. man \in [Txs -> Manifests] /\ mem \in Manifests /\ op.pc \in Steps
  BY <1>1 DEF RTypeOK
<1>4. mem' = mem /\ mem' \in Manifests
  BY <1>3 DEF StageFails
<1>5. op.t \in Txs
  BY <1>1, <1>2 DEF PlaceOK, Busy
<1> DEFINE m == [mem EXCEPT !.state = "aborted"]
<1>6. m \in Manifests /\ m.state = "aborted" /\ m.kind = mem.kind /\ m.parent = mem.parent
      /\ m.fwd = mem.fwd /\ m.rst = mem.rst /\ m.pub = mem.pub
  <2>1. "aborted" \in TxStates /\ mem \in Manifests
    BY <1>3 DEF TxStates
  <2> QED BY <2>1, WithState
<1>7. man' = [man EXCEPT ![op.t] = m]
  BY DEF Persist
<1> HIDE DEF m
<1>8. man'[op.t] = m /\ (\A t \in Txs : t # op.t => man'[t] = man[t]) /\ man' \in [Txs -> Manifests]
  BY <1>1, <1>5, <1>6, <1>7, Written
<1>9. man[op.t].state \in {"prepared"}
  BY <1>1, <1>2 DEF MemOK, Busy
<1>10. RTypeOK'
  <2>1. op' \in OpSpace
    <3>1. op' = [pc |-> op'.pc, t |-> op'.t, i |-> op'.i, err |-> op'.err, startup |-> op'.startup]
      BY <1>1 DEF StageFails, At, Rest, Fail, Persist, RTypeOK
    <3>2. op'.pc \in Steps /\ op'.t \in 0 .. MaxTx + 1 /\ op'.i \in 0 .. NumFiles + 1
      BY <1>1, <1>2, Consts DEF RTypeOK, Steps
    <3>3. op'.err \in BOOLEAN /\ op'.startup \in BOOLEAN
      BY <1>1, <1>2 DEF RTypeOK
    <3> QED BY <3>1, <3>2, <3>3, OpMade
  <2>2. /\ target' \in [Files -> Images] /\ bak' \in [Txs -> [Files -> Images]]
        /\ tmp' \in [Txs -> [Files -> Images]] /\ recov' \in [Files -> [Images -> Images]]
    <3>1. "absent" \in Images /\ mem.fwd \in [Files -> Images] /\ mem.rst \in [Files -> Images]
      BY <1>3, ManifestFields DEF Images
    <3> QED BY <1>1, <1>2, <3>1 DEF StageFails, RTypeOK, PlaceOK, Busy
  <2>3. /\ shape' \in Shapes /\ user' \in [Files -> Images \cup {"none"}]
        /\ odd' \subseteq {"edit", "split", "overpending"}
    BY <1>1 DEF StageFails, Fail, RTypeOK
  <2>4. lastUndo' \in 0 .. MaxTx /\ edits' \in 0 .. MaxEdits /\ fails' \in 0 .. MaxFails
        /\ crashes' \in 0 .. MaxCrashes
    BY <1>1, Consts DEF StageFails, Fail, RTypeOK
  <2> QED BY <1>4, <1>8, <2>1, <2>2, <2>3, <2>4 DEF RTypeOK, OpSpace
<1>11. PlaceOK'
  BY <1>1, <1>2 DEF PlaceOK, Busy, Compensating
<1>12. MemOK'
  BY <1>2 DEF MemOK, Busy, Publishing, Compensating
<1>13. ManOK'
  <2>1. op'.pc \in Busy => WellMadeIn(mem', man, Before)
    BY <1>2 DEF Busy, Publishing, Compensating
  <2>2. WellMadeIn(m, man, Before)
    BY <1>1, <1>2, <1>6 DEF ManOK, WellMade, WellMadeIn, Busy
  <2>3. m.state # "none" /\ (man[op.t].state \in {"committed", "undone"} =>
            m.state \in {"committed", "undone"} /\ m.kind = man[op.t].kind /\ m.fwd = man[op.t].fwd)
    BY <1>6, <1>9
  <2>4. shape' = shape
    BY DEF StageFails
  <2> QED BY <1>1, <1>8, <1>5, <2>1, <2>2, <2>3, <2>4, ManWritten
<1>14. OrderOK'
  <2>1. \A t \in Txs : man'[t].state = "none" <=> man[t].state = "none" /\ t # op.t
    <3>1. m.state # "none"
      BY <1>6
    <3> QED BY <1>8, <3>1
  <2> QED BY <1>1, <1>2, <2>1 DEF OrderOK, PlaceOK, Busy, Compensating
<1>15. OfferOK'
  <2>1. m.state # "committed" /\ lastUndo' = lastUndo /\ op.pc # "mark"
    BY <1>2, <1>6 DEF StageFails
  <2> QED BY <1>1, <1>8, <1>5, <1>9, <2>1, OfferWritten
<1>16. BakOK'
  BY <1>1, <1>2 DEF StageFails, Persist, BakOK, Publishing
<1>17. SavedOK'
  <2>1. UNCHANGED <<user, target, bak>>
    BY DEF StageFails, Fail
  <2>2. \A t \in Txs : man'[t].fwd = man[t].fwd \/ man[t] = NoManifest
    BY <1>1, <1>2, <1>8, <1>6 DEF MemOK, Busy
  <2> QED BY <1>1, <2>1, <2>2, SavedPlain
<1>18. (Calm' => Calm) /\ Alone' \subseteq Alone /\ shape' = shape
  BY DEF StageFails, Fail, Calm, Alone
<1>19. Promised' = Promised
  <2>1. man[op.t].state \notin Done
    BY <1>9 DEF Done
  <2>2. man'[op.t].state \notin Done
    BY <1>8, <1>6 DEF Done
  <2> QED BY <1>8, <1>5, <1>18, <2>1, <2>2, PromisedWritten
<1>20. EditsCounted /\ OnePending /\ TempsOK /\ CapturedOK /\ RestOK /\ PendingOK /\ ProgressOK
       /\ RolledOK /\ LeftOK
  BY DEF RewindInv
<1>21. EditsCounted'
  BY <1>20 DEF StageFails, Fail, EditsCounted, Alone
<1>22. OnePending'
  BY <1>20 DEF StageFails, At, Rest, Fail, Persist, OnePending, Pending, Calm, Busy
<1>23. TempsOK' /\ CapturedOK' /\ ProgressOK'
  BY <1>2, NotCommitting DEF Publishing
<1>24. RestOK'
  BY <1>9, <1>18, <1>19, <1>20 DEF StageFails, Persist, RestOK, Pending
<1>25. PendingOK'
  BY <1>3, <1>18, <1>20 DEF StageFails, At, Persist, PendingOK, OnePending, Pending, Busy
<1>26. RolledOK'
  BY DEF StageFails, Rest, RolledOK, Compensating
<1>27. LeftOK'
  BY <1>3, <1>18, <1>20 DEF StageFails, At, Persist, LeftOK, Pending, OnePending, Busy
<1> QED
  BY <1>10, <1>11, <1>12, <1>13, <1>14, <1>15, <1>16, <1>17, <1>21, <1>22, <1>23, <1>24, <1>25, <1>26, <1>27
  DEF RewindInv, StructureOK

(* Staging fails with no manifest written.                                 *)
LEMMA StageDropsKeeps ==
  ASSUME RewindInv, StageFails, man' = man
  PROVE  RewindInv'
<1>1. RTypeOK /\ PlaceOK /\ MemOK /\ ManOK /\ OrderOK /\ OfferOK /\ BakOK /\ SavedOK
  BY DEF RewindInv, StructureOK
<1>2. op.pc = "stage" /\ op'.pc = "idle" /\ op'.t = op.t /\ op'.i = 0 /\ op'.err = FALSE
      /\ op'.startup = op.startup
  BY DEF StageFails, At, Rest
<1>3. man \in [Txs -> Manifests] /\ mem \in Manifests /\ op.pc \in Steps
  BY <1>1 DEF RTypeOK
<1>4. mem' = mem /\ mem' \in Manifests
  BY <1>3 DEF StageFails
<1>5. man' = man /\ man' \in [Txs -> Manifests]
  BY <1>3 DEF StageFails
<1>6. RTypeOK'
  <2>1. op' \in OpSpace
    <3>1. op' = [pc |-> op'.pc, t |-> op'.t, i |-> op'.i, err |-> op'.err, startup |-> op'.startup]
      BY <1>1 DEF StageFails, At, Rest, Fail, Persist, RTypeOK
    <3>2. op'.pc \in Steps /\ op'.t \in 0 .. MaxTx + 1 /\ op'.i \in 0 .. NumFiles + 1
      BY <1>1, <1>2, Consts DEF RTypeOK, Steps
    <3>3. op'.err \in BOOLEAN /\ op'.startup \in BOOLEAN
      BY <1>1, <1>2 DEF RTypeOK
    <3> QED BY <3>1, <3>2, <3>3, OpMade
  <2>2. /\ target' \in [Files -> Images] /\ bak' \in [Txs -> [Files -> Images]]
        /\ tmp' \in [Txs -> [Files -> Images]] /\ recov' \in [Files -> [Images -> Images]]
    <3>1. "absent" \in Images /\ mem.fwd \in [Files -> Images] /\ mem.rst \in [Files -> Images]
      BY <1>3, ManifestFields DEF Images
    <3> QED BY <1>1, <1>2, <3>1 DEF StageFails, RTypeOK, PlaceOK, Busy
  <2>3. /\ shape' \in Shapes /\ user' \in [Files -> Images \cup {"none"}]
        /\ odd' \subseteq {"edit", "split", "overpending"}
    BY <1>1 DEF StageFails, Fail, RTypeOK
  <2>4. lastUndo' \in 0 .. MaxTx /\ edits' \in 0 .. MaxEdits /\ fails' \in 0 .. MaxFails
        /\ crashes' \in 0 .. MaxCrashes
    BY <1>1, Consts DEF StageFails, Fail, RTypeOK
  <2> QED BY <1>4, <1>5, <2>1, <2>2, <2>3, <2>4 DEF RTypeOK, OpSpace
<1>7. PlaceOK'
  BY <1>1, <1>2 DEF PlaceOK, Busy, Compensating
<1>8. MemOK'
  BY <1>2 DEF MemOK, Busy, Publishing, Compensating
<1>9. ManOK'
  <2>1. op'.pc \in Busy => WellMadeIn(mem', man, Before)
    BY <1>2 DEF Busy, Publishing, Compensating
  <2>2. UNCHANGED <<shape, man>>
    BY <1>5 DEF StageFails
  <2> QED BY <1>1, <2>1, <2>2, ManKept
<1>10. OrderOK'
  BY <1>1, <1>2 DEF OrderOK, Busy
<1>11. OfferOK'
  BY <1>1 DEF StageFails, At, OfferOK, Undone
<1>12. BakOK'
  BY <1>1, <1>2 DEF StageFails, BakOK, Publishing
<1>13. SavedOK'
  BY <1>1 DEF StageFails, Fail, SavedOK, Saved
<1>14. (Calm' => Calm) /\ Alone' \subseteq Alone /\ shape' = shape
  BY DEF StageFails, Fail, Calm, Alone
<1>15. Promised' = Promised
  BY <1>14, PromisedSame
<1>16. EditsCounted /\ OnePending /\ TempsOK /\ CapturedOK /\ RestOK /\ PendingOK /\ ProgressOK
       /\ RolledOK /\ LeftOK
  BY DEF RewindInv
<1>17. EditsCounted'
  BY <1>16 DEF StageFails, Fail, EditsCounted, Alone
<1>18. OnePending'
  BY <1>16 DEF StageFails, At, Rest, Fail, OnePending, Pending, Calm, Busy
<1>19. TempsOK' /\ CapturedOK' /\ ProgressOK'
  BY <1>2, NotCommitting DEF Publishing
<1>20. RestOK'
  BY <1>14, <1>15, <1>16 DEF StageFails, RestOK, Pending
<1>21. PendingOK'
  <2>1. Calm' => Calm /\ op.pc # "compswap"
    BY <1>14 DEF StageFails, At
  <2>2. UNCHANGED <<man, target, bak>>
    BY DEF StageFails
  <2>3. \A t \in Pending : tmp'[t] = tmp[t]
    BY <1>1, <1>2, NoManifestFacts DEF StageFails, Pending, MemOK, Busy
  <2> QED BY <1>14, <1>15, <1>16, <2>1, <2>2, <2>3, PendingPlain
<1>22. RolledOK'
  BY DEF StageFails, Rest, RolledOK, Compensating
<1>23. LeftOK'
  BY <1>1 DEF StageFails, Fail, LeftOK, RTypeOK
<1> QED
  BY <1>6, <1>7, <1>8, <1>9, <1>10, <1>11, <1>12, <1>13, <1>17, <1>18, <1>19, <1>20, <1>21, <1>22, <1>23
  DEF RewindInv, StructureOK

(* prepareTransaction writes the manifest with all its forward images.     *)
LEMMA PrepareKeeps ==
  ASSUME RewindInv, Prepare
  PROVE  RewindInv'
<1>1. RTypeOK /\ PlaceOK /\ MemOK /\ ManOK /\ OrderOK /\ OfferOK /\ BakOK /\ SavedOK
  BY DEF RewindInv, StructureOK
<1>2. op.pc = "stage" /\ op'.pc = "commit" /\ op'.t = op.t /\ op'.i = 0 /\ op'.err = op.err
      /\ op'.startup = op.startup
  BY DEF Prepare, At, Goto
<1>3. man \in [Txs -> Manifests] /\ mem \in Manifests /\ op.pc \in Steps
  BY <1>1 DEF RTypeOK
<1>4. mem' = mem /\ mem' \in Manifests
  BY <1>3 DEF Prepare
<1>5. op.t \in Txs
  BY <1>1, <1>2 DEF PlaceOK, Busy
<1>6. mem \in Manifests
  BY <1>4, <1>3
<1>7. man' = [man EXCEPT ![op.t] = mem]
  BY DEF Prepare, Persist
<1>8. man'[op.t] = mem /\ (\A t \in Txs : t # op.t => man'[t] = man[t]) /\ man' \in [Txs -> Manifests]
  BY <1>1, <1>5, <1>6, <1>7, Written
<1>9. man[op.t].state \in {"none", "prepared"}
  BY <1>1, <1>2, NoManifestFacts DEF MemOK, Busy
<1>10. RTypeOK'
  <2>1. op' \in OpSpace
    <3>1. op' = [pc |-> op'.pc, t |-> op'.t, i |-> op'.i, err |-> op'.err, startup |-> op'.startup]
      BY <1>1 DEF Prepare, At, Goto, Persist, disk, hist, RTypeOK
    <3>2. op'.pc \in Steps /\ op'.t \in 0 .. MaxTx + 1 /\ op'.i \in 0 .. NumFiles + 1
      BY <1>1, <1>2 DEF Prepare, RTypeOK, Steps
    <3>3. op'.err \in BOOLEAN /\ op'.startup \in BOOLEAN
      BY <1>1, <1>2 DEF RTypeOK
    <3> QED BY <3>1, <3>2, <3>3, OpMade
  <2>2. /\ target' \in [Files -> Images] /\ bak' \in [Txs -> [Files -> Images]]
        /\ tmp' \in [Txs -> [Files -> Images]] /\ recov' \in [Files -> [Images -> Images]]
    <3>1. "absent" \in Images /\ mem.fwd \in [Files -> Images] /\ mem.rst \in [Files -> Images]
      BY <1>3, ManifestFields DEF Images
    <3> QED BY <1>1 DEF Prepare, disk, RTypeOK
  <2>3. /\ shape' \in Shapes /\ user' \in [Files -> Images \cup {"none"}]
        /\ odd' \subseteq {"edit", "split", "overpending"}
    BY <1>1 DEF Prepare, hist, RTypeOK
  <2>4. lastUndo' \in 0 .. MaxTx /\ edits' \in 0 .. MaxEdits /\ fails' \in 0 .. MaxFails
        /\ crashes' \in 0 .. MaxCrashes
    BY <1>1 DEF Prepare, hist, RTypeOK
  <2> QED BY <1>4, <1>8, <2>1, <2>2, <2>3, <2>4 DEF RTypeOK, OpSpace
<1>11. PlaceOK'
  BY <1>1, <1>2 DEF PlaceOK, Busy, Compensating
<1>12. MemOK'
  BY <1>1, <1>2, <1>4, <1>8 DEF MemOK, Busy, Publishing, Compensating
<1>13. ManOK'
  <2>1. op'.pc \in Busy => WellMadeIn(mem', man, Before)
    BY <1>1, <1>2, <1>4 DEF ManOK, WellMade, Busy
  <2>2. WellMadeIn(mem, man, Before)
    BY <1>1, <1>2 DEF ManOK, WellMade, Busy
  <2>3. mem.state # "none" /\ (man[op.t].state \in {"committed", "undone"} =>
            mem.state \in {"committed", "undone"} /\ mem.kind = man[op.t].kind /\ mem.fwd = man[op.t].fwd)
    BY <1>1, NoManifestFacts DEF Prepare, At, MemOK, Busy
  <2>4. shape' = shape
    BY DEF Prepare
  <2> QED BY <1>1, <1>8, <1>5, <2>1, <2>2, <2>3, <2>4, ManWritten
<1>14. OrderOK'
  <2>1. \A t \in Txs : man'[t].state = "none" <=> man[t].state = "none" /\ t # op.t
    <3>1. mem.state # "none"
      BY <1>1, <1>2 DEF MemOK, Busy
    <3> QED BY <1>8, <3>1
  <2> QED BY <1>1, <1>2, <2>1 DEF OrderOK, PlaceOK, Busy, Compensating
<1>15. OfferOK'
  <2>1. mem.state # "committed" /\ lastUndo' = lastUndo /\ op.pc # "mark"
    BY <1>1, <1>2 DEF Prepare, MemOK, Busy
  <2> QED BY <1>1, <1>8, <1>5, <1>9, <2>1, OfferWritten
<1>16. BakOK'
  BY <1>1, NoManifestFacts DEF Prepare, At, Goto, Persist, disk, BakOK, MemOK, Busy, Publishing
<1>17. SavedOK'
  <2>1. UNCHANGED <<user, target, bak>>
    BY DEF Prepare, disk, hist
  <2>2. \A t \in Txs : man'[t].fwd = man[t].fwd \/ man[t] = NoManifest
    BY <1>1, <1>2, <1>8 DEF MemOK, Busy
  <2> QED BY <1>1, <2>1, <2>2, SavedPlain
<1>18. (Calm' => Calm) /\ Alone' \subseteq Alone /\ shape' = shape
  BY DEF Prepare, hist, Calm, Alone
<1>19. Promised' = Promised
  <2>1. man[op.t].state \notin Done
    BY <1>9 DEF Done
  <2>2. man'[op.t].state \notin Done
    BY <1>1, <1>2, <1>8 DEF MemOK, Done, Busy
  <2> QED BY <1>8, <1>5, <1>18, <2>1, <2>2, PromisedWritten
<1>20. EditsCounted /\ OnePending /\ TempsOK /\ CapturedOK /\ RestOK /\ PendingOK /\ ProgressOK
       /\ RolledOK /\ LeftOK
  BY DEF RewindInv
<1>21. EditsCounted'
  BY <1>20 DEF Prepare, hist, EditsCounted, Alone
<1>22. OnePending'
  BY <1>20 DEF Prepare, At, Goto, Persist, hist, OnePending, Pending, Calm, Busy
<1>23. TempsOK'
  BY <1>20, Consts DEF Prepare, At, Goto, disk, TempsOK
<1>24. CapturedOK'
  BY <1>18, <1>20, Consts DEF Prepare, At, disk, CapturedOK, Alone
<1>25. RestOK'
  BY <1>9, <1>18, <1>19, <1>20 DEF Prepare, Persist, disk, RestOK, Pending
<1>26. PendingOK'
  BY <1>1, <1>2, <1>18, <1>20
  DEF Prepare, Persist, PendingOK, OnePending, Pending, BeingRolledBack, MemOK, PlaceOK, RTypeOK, Busy
<1>27. ProgressOK'
  BY DEF Prepare, Goto, ProgressOK, Publishing
<1>28. RolledOK'
  BY <1>20 DEF Prepare, Goto, hist, RolledOK, Compensating
<1>29. LeftOK'
  BY DEF Prepare, Goto, LeftOK, Left
<1> QED
  BY <1>10, <1>11, <1>12, <1>13, <1>14, <1>15, <1>16, <1>17, <1>21, <1>22, <1>23, <1>24, <1>25, <1>26,
     <1>27, <1>28, <1>29
  DEF RewindInv, StructureOK

(* A rewind that is dropped before its commit leaves a prepared manifest.  *)
LEMMA PrepareFailsKeeps ==
  ASSUME RewindInv, PrepareFails
  PROVE  RewindInv'
<1>1. RTypeOK /\ PlaceOK /\ MemOK /\ ManOK /\ OrderOK /\ OfferOK /\ BakOK /\ SavedOK
  BY DEF RewindInv, StructureOK
<1>2. op.pc = "commit" /\ op'.pc = "idle" /\ op'.t = op.t /\ op'.i = 0 /\ op'.err = FALSE
      /\ op'.startup = op.startup
  BY DEF PrepareFails, At, Rest
<1>3. man \in [Txs -> Manifests] /\ mem \in Manifests /\ op.pc \in Steps
  BY <1>1 DEF RTypeOK
<1>4. mem' = mem /\ mem' \in Manifests
  BY <1>3 DEF PrepareFails
<1>5. man' = man /\ man' \in [Txs -> Manifests]
  BY <1>3 DEF PrepareFails
<1>6. RTypeOK'
  <2>1. op' \in OpSpace
    <3>1. op' = [pc |-> op'.pc, t |-> op'.t, i |-> op'.i, err |-> op'.err, startup |-> op'.startup]
      BY <1>1 DEF PrepareFails, At, Rest, Fail, disk, RTypeOK
    <3>2. op'.pc \in Steps /\ op'.t \in 0 .. MaxTx + 1 /\ op'.i \in 0 .. NumFiles + 1
      BY <1>1, <1>2, Consts DEF RTypeOK, Steps
    <3>3. op'.err \in BOOLEAN /\ op'.startup \in BOOLEAN
      BY <1>1, <1>2 DEF RTypeOK
    <3> QED BY <3>1, <3>2, <3>3, OpMade
  <2>2. /\ target' \in [Files -> Images] /\ bak' \in [Txs -> [Files -> Images]]
        /\ tmp' \in [Txs -> [Files -> Images]] /\ recov' \in [Files -> [Images -> Images]]
    <3>1. "absent" \in Images /\ mem.fwd \in [Files -> Images] /\ mem.rst \in [Files -> Images]
      BY <1>3, ManifestFields DEF Images
    <3> QED BY <1>1 DEF PrepareFails, disk, RTypeOK
  <2>3. /\ shape' \in Shapes /\ user' \in [Files -> Images \cup {"none"}]
        /\ odd' \subseteq {"edit", "split", "overpending"}
    BY <1>1 DEF PrepareFails, Fail, RTypeOK
  <2>4. lastUndo' \in 0 .. MaxTx /\ edits' \in 0 .. MaxEdits /\ fails' \in 0 .. MaxFails
        /\ crashes' \in 0 .. MaxCrashes
    BY <1>1, Consts DEF PrepareFails, Fail, RTypeOK
  <2> QED BY <1>4, <1>5, <2>1, <2>2, <2>3, <2>4 DEF RTypeOK, OpSpace
<1>7. PlaceOK'
  BY <1>1, <1>2 DEF PlaceOK, Busy, Compensating
<1>8. MemOK'
  BY <1>2 DEF MemOK, Busy, Publishing, Compensating
<1>9. ManOK'
  <2>1. op'.pc \in Busy => WellMadeIn(mem', man, Before)
    BY <1>2 DEF Busy, Publishing, Compensating
  <2>2. UNCHANGED <<shape, man>>
    BY <1>5 DEF PrepareFails
  <2> QED BY <1>1, <2>1, <2>2, ManKept
<1>10. OrderOK'
  BY <1>1, <1>2 DEF PrepareFails, OrderOK, Busy
<1>11. OfferOK'
  BY <1>1 DEF PrepareFails, At, OfferOK, Undone
<1>12. BakOK'
  BY <1>1, <1>2 DEF PrepareFails, disk, BakOK, Publishing
<1>13. SavedOK'
  BY <1>1 DEF PrepareFails, Fail, disk, SavedOK, Saved
<1>14. (Calm' => Calm) /\ Alone' \subseteq Alone /\ shape' = shape
  BY DEF PrepareFails, Fail, Calm, Alone
<1>15. Promised' = Promised
  BY <1>5, <1>14, PromisedSame
<1>16. EditsCounted /\ OnePending /\ TempsOK /\ CapturedOK /\ RestOK /\ PendingOK /\ ProgressOK
       /\ RolledOK /\ LeftOK
  BY DEF RewindInv
<1>17. EditsCounted'
  BY <1>16 DEF PrepareFails, Fail, EditsCounted, Alone
<1>18. OnePending'
  BY <1>16 DEF PrepareFails, At, Rest, Fail, OnePending, Pending, Calm, Busy
<1>19. TempsOK' /\ CapturedOK' /\ ProgressOK'
  BY <1>2, NotCommitting DEF Publishing
<1>20. RestOK'
  BY <1>14, <1>15, <1>16 DEF PrepareFails, disk, RestOK, Pending
<1>21. PendingOK'
  <2>1. Calm' => Calm /\ op.pc # "compswap"
    BY <1>14 DEF PrepareFails, At
  <2>2. UNCHANGED <<man, target, bak>>
    BY DEF PrepareFails, disk
  <2>3. \A t \in Pending : tmp'[t] = tmp[t]
    BY DEF PrepareFails, disk
  <2> QED BY <1>14, <1>15, <1>16, <2>1, <2>2, <2>3, PendingPlain
<1>22. RolledOK'
  BY DEF PrepareFails, Rest, RolledOK, Compensating
<1>23. LeftOK'
  BY <1>1 DEF PrepareFails, Fail, LeftOK, RTypeOK
<1> QED
  BY <1>6, <1>7, <1>8, <1>9, <1>10, <1>11, <1>12, <1>13, <1>17, <1>18, <1>19, <1>20, <1>21, <1>22, <1>23
  DEF RewindInv, StructureOK

(* commitTransaction makes the manifest committing, the first durable      *)
(* step.                                                                   *)
LEMMA CommitKeeps ==
  ASSUME RewindInv, Commit
  PROVE  RewindInv'
<1>1. RTypeOK /\ PlaceOK /\ MemOK /\ ManOK /\ OrderOK /\ OfferOK /\ BakOK /\ SavedOK
  BY DEF RewindInv, StructureOK
<1>2. op.pc = "commit" /\ op'.pc = "intent" /\ op'.t = op.t /\ op'.i = 1 /\ op'.err = op.err
      /\ op'.startup = op.startup
  BY DEF Commit, At, Goto
<1>3. man \in [Txs -> Manifests] /\ mem \in Manifests /\ op.pc \in Steps
  BY <1>1 DEF RTypeOK
<1>4. mem' \in Manifests /\ mem'.state = "committing" /\ mem'.kind = mem.kind /\ mem'.parent = mem.parent
      /\ mem'.fwd = mem.fwd /\ mem'.rst = mem.rst /\ mem'.pub = mem.pub
  BY <1>3, WithState DEF Commit, TxStates
<1>5. op.t \in Txs
  BY <1>1, <1>2 DEF PlaceOK, Busy
<1>6. mem' \in Manifests
  BY <1>4, <1>3
<1>7. man' = [man EXCEPT ![op.t] = mem']
  BY DEF Commit, Persist
<1>8. man'[op.t] = mem' /\ (\A t \in Txs : t # op.t => man'[t] = man[t]) /\ man' \in [Txs -> Manifests]
  BY <1>1, <1>5, <1>6, <1>7, Written
<1>9. man[op.t].state \in {"prepared"}
  BY <1>1, <1>2 DEF MemOK, Busy
<1>10. RTypeOK'
  <2>1. op' \in OpSpace
    <3>1. op' = [pc |-> op'.pc, t |-> op'.t, i |-> op'.i, err |-> op'.err, startup |-> op'.startup]
      BY <1>1 DEF Commit, At, Goto, Persist, disk, hist, RTypeOK
    <3>2. op'.pc \in Steps /\ op'.t \in 0 .. MaxTx + 1 /\ op'.i \in 0 .. NumFiles + 1
      BY <1>1, <1>2, Consts DEF RTypeOK, Steps
    <3>3. op'.err \in BOOLEAN /\ op'.startup \in BOOLEAN
      BY <1>1, <1>2 DEF RTypeOK
    <3> QED BY <3>1, <3>2, <3>3, OpMade
  <2>2. /\ target' \in [Files -> Images] /\ bak' \in [Txs -> [Files -> Images]]
        /\ tmp' \in [Txs -> [Files -> Images]] /\ recov' \in [Files -> [Images -> Images]]
    <3>1. "absent" \in Images /\ mem.fwd \in [Files -> Images] /\ mem.rst \in [Files -> Images]
      BY <1>3, ManifestFields DEF Images
    <3> QED BY <1>1 DEF Commit, disk, RTypeOK
  <2>3. /\ shape' \in Shapes /\ user' \in [Files -> Images \cup {"none"}]
        /\ odd' \subseteq {"edit", "split", "overpending"}
    BY <1>1 DEF Commit, hist, RTypeOK
  <2>4. lastUndo' \in 0 .. MaxTx /\ edits' \in 0 .. MaxEdits /\ fails' \in 0 .. MaxFails
        /\ crashes' \in 0 .. MaxCrashes
    BY <1>1 DEF Commit, hist, RTypeOK
  <2> QED BY <1>4, <1>8, <2>1, <2>2, <2>3, <2>4 DEF RTypeOK, OpSpace
<1>11. PlaceOK'
  BY <1>1, <1>2, Consts DEF PlaceOK, Busy, Compensating
<1>12. MemOK'
  BY <1>1, <1>2, <1>4, <1>8 DEF MemOK, Announced, Busy
<1>13. ManOK'
  <2>1. op'.pc \in Busy => WellMadeIn(mem', man, Before)
    BY <1>1, <1>2, <1>4 DEF ManOK, WellMade, WellMadeIn, Busy
  <2>2. WellMadeIn(mem', man, Before)
    BY <1>1 DEF Commit, At, ManOK, WellMade, WellMadeIn, Busy
  <2>3. mem'.state # "none" /\ (man[op.t].state \in {"committed", "undone"} =>
            mem'.state \in {"committed", "undone"} /\ mem'.kind = man[op.t].kind /\ mem'.fwd = man[op.t].fwd)
    BY <1>9 DEF Commit
  <2>4. shape' = shape
    BY DEF Commit
  <2> QED BY <1>1, <1>8, <1>5, <2>2, <2>3, <2>4, ManWritten
<1>14. OrderOK'
  <2>1. \A t \in Txs : man'[t].state = "none" <=> man[t].state = "none" /\ t # op.t
    <3>1. mem'.state # "none"
      BY <1>4
    <3> QED BY <1>8, <3>1
  <2> QED BY <1>1, <1>2, <2>1 DEF OrderOK, PlaceOK, Busy, Compensating
<1>15. OfferOK'
  <2>1. mem'.state # "committed" /\ lastUndo' = lastUndo /\ op.pc # "mark"
    BY <1>2 DEF Commit
  <2> QED BY <1>1, <1>8, <1>5, <1>9, <2>1, OfferWritten
<1>16. BakOK'
  <2>1. bak' = bak /\ UNCHANGED target /\ op'.pc = "intent" /\ op'.t = op.t
    BY <1>2 DEF Commit, disk
  <2>2. \A x \in Files : bak[op.t][x] = "absent"
    BY <1>1, <1>5, <1>9 DEF BakOK
  <2>3. \A t \in Txs, x \in Files : man'[t].state \in {"none", "prepared"} => bak'[t][x] = "absent"
    BY <1>1, <1>4, <1>8, <2>1 DEF BakOK
  <2> QED BY <2>1, <2>2, <2>3 DEF BakOK
<1>17. SavedOK'
  <2>1. UNCHANGED <<user, target, bak>>
    BY DEF Commit, disk, hist
  <2>2. \A t \in Txs : man'[t].fwd = man[t].fwd \/ man[t] = NoManifest
    BY <1>1, <1>2, <1>4, <1>8 DEF MemOK, Busy
  <2> QED BY <1>1, <2>1, <2>2, SavedPlain
<1>18. (Calm' => Calm) /\ Alone' \subseteq Alone /\ shape' = shape
  BY DEF Commit, hist, Calm, Alone
<1>19. Promised' = Promised
  <2>1. man[op.t].state \notin Done
    BY <1>9 DEF Done
  <2>2. man'[op.t].state \notin Done
    BY <1>4, <1>8 DEF Done
  <2> QED BY <1>8, <1>5, <1>18, <2>1, <2>2, PromisedWritten
<1>20. EditsCounted /\ OnePending /\ TempsOK /\ CapturedOK /\ RestOK /\ PendingOK /\ ProgressOK
       /\ RolledOK /\ LeftOK
  BY DEF RewindInv
<1>21. EditsCounted'
  BY <1>20 DEF Commit, hist, EditsCounted, Alone
<1>22. OnePending'
  BY <1>20 DEF Commit, At, Goto, Persist, hist, OnePending, Pending, Calm, Busy
<1>23. TempsOK'
  BY <1>20 DEF Commit, At, Goto, disk, TempsOK
<1>24. CapturedOK'
  BY DEF Commit, Goto, CapturedOK
<1>25. RestOK'
  BY <1>18, <1>19, <1>20 DEF Commit, Persist, disk, RestOK, Pending
<1>26. PendingOK'
  <2> SUFFICES ASSUME Calm', NEW t \in Pending', NEW x \in Alone'
               PROVE  man'[t].fwd[x] = Promised'[x] /\ FileOK(t, x)'
    BY DEF PendingOK
  <2>1. Calm /\ x \in Alone /\ x \in Files /\ t \in Txs
    BY <1>18 DEF Alone, Pending
  <2>2. Pending = {} /\ t = op.t
    BY <1>2, <1>8, <1>9, <1>20, <2>1 DEF OnePending, Pending, Busy
  <2>3. mem.fwd[x] = target[x] /\ target[x] = Promised[x]
    BY <1>2, <1>20, <2>1, <2>2 DEF CapturedOK, RestOK
  <2>4. target' = target /\ man'[t].fwd = mem.fwd
    BY <1>4, <1>8, <2>2 DEF Commit, disk
  <2> QED BY <1>19, <2>3, <2>4 DEF FileOK
<1>27. ProgressOK'
  <2> SUFFICES ASSUME Calm', NEW x \in Alone' PROVE target'[x] = mem'.fwd[x] /\ ~(x < 1)
    BY <1>2 DEF ProgressOK
  <2>1. Calm /\ x \in Alone /\ x \in Files
    BY <1>18 DEF Alone
  <2>2. target[x] = mem.fwd[x]
    BY <1>2, <1>20, <2>1 DEF CapturedOK
  <2> QED BY <2>1, <2>2, Consts DEF Commit, disk
<1>28. RolledOK'
  BY <1>20 DEF Commit, Goto, hist, RolledOK, Compensating
<1>29. LeftOK'
  BY DEF Commit, Goto, LeftOK, Left
<1> QED
  BY <1>10, <1>11, <1>12, <1>13, <1>14, <1>15, <1>16, <1>17, <1>21, <1>22, <1>23, <1>24, <1>25, <1>26,
     <1>27, <1>28, <1>29
  DEF RewindInv, StructureOK

(* The write fails: memory says committing, the disk still says prepared.  *)
LEMMA CommitFailsKeeps ==
  ASSUME RewindInv, CommitFails
  PROVE  RewindInv'
<1>1. RTypeOK /\ PlaceOK /\ MemOK /\ ManOK /\ OrderOK /\ OfferOK /\ BakOK /\ SavedOK
  BY DEF RewindInv, StructureOK
<1>2. op.pc = "commit" /\ op'.pc = "comp" /\ op'.t = op.t /\ op'.i = NumFiles /\ op'.err = op.err
      /\ op'.startup = op.startup
  BY DEF CommitFails, At, Goto, Compensate
<1>3. man \in [Txs -> Manifests] /\ mem \in Manifests /\ op.pc \in Steps
  BY <1>1 DEF RTypeOK
<1>4. mem' \in Manifests /\ mem'.state = "committing" /\ mem'.kind = mem.kind /\ mem'.parent = mem.parent
      /\ mem'.fwd = mem.fwd /\ mem'.rst = mem.rst /\ mem'.pub = mem.pub
  BY <1>3, WithState DEF CommitFails, TxStates
<1>5. man' = man /\ man' \in [Txs -> Manifests]
  BY <1>3 DEF CommitFails
<1>6. man[op.t] = [mem' EXCEPT !.state = "prepared"]
  <2>1. man[op.t] = mem /\ mem.state = "prepared"
    BY <1>1, <1>2 DEF MemOK, Busy
  <2> QED BY <1>3, <2>1, StateBack DEF CommitFails
<1>7. RTypeOK'
  <2>1. op' \in OpSpace
    <3>1. op' = [pc |-> op'.pc, t |-> op'.t, i |-> op'.i, err |-> op'.err, startup |-> op'.startup]
      BY <1>1 DEF CommitFails, At, Goto, Fail, Compensate, disk, RTypeOK
    <3>2. op'.pc \in Steps /\ op'.t \in 0 .. MaxTx + 1 /\ op'.i \in 0 .. NumFiles + 1
      BY <1>1, <1>2, Consts DEF RTypeOK, Steps
    <3>3. op'.err \in BOOLEAN /\ op'.startup \in BOOLEAN
      BY <1>1, <1>2 DEF RTypeOK
    <3> QED BY <3>1, <3>2, <3>3, OpMade
  <2>2. /\ target' \in [Files -> Images] /\ bak' \in [Txs -> [Files -> Images]]
        /\ tmp' \in [Txs -> [Files -> Images]] /\ recov' \in [Files -> [Images -> Images]]
    <3>1. "absent" \in Images /\ mem.fwd \in [Files -> Images] /\ mem.rst \in [Files -> Images]
      BY <1>3, ManifestFields DEF Images
    <3> QED BY <1>1 DEF CommitFails, disk, RTypeOK
  <2>3. /\ shape' \in Shapes /\ user' \in [Files -> Images \cup {"none"}]
        /\ odd' \subseteq {"edit", "split", "overpending"}
    BY <1>1 DEF CommitFails, Fail, RTypeOK
  <2>4. lastUndo' \in 0 .. MaxTx /\ edits' \in 0 .. MaxEdits /\ fails' \in 0 .. MaxFails
        /\ crashes' \in 0 .. MaxCrashes
    BY <1>1, Consts DEF CommitFails, Fail, RTypeOK
  <2> QED BY <1>4, <1>5, <2>1, <2>2, <2>3, <2>4 DEF RTypeOK, OpSpace
<1>8. PlaceOK'
  BY <1>1, <1>2, Consts DEF PlaceOK, Busy, Compensating
<1>9. MemOK'
  BY <1>1, <1>2, <1>4, <1>5, <1>6 DEF MemOK, PlaceOK, Busy, Publishing
<1>10. ManOK'
  <2>1. op'.pc \in Busy => WellMadeIn(mem', man, Before)
    BY <1>1, <1>2, <1>4 DEF ManOK, WellMade, WellMadeIn, Busy
  <2>2. UNCHANGED <<shape, man>>
    BY <1>5 DEF CommitFails
  <2> QED BY <1>1, <2>1, <2>2, ManKept
<1>11. OrderOK'
  BY <1>1, <1>2 DEF CommitFails, OrderOK, Busy
<1>12. OfferOK'
  BY <1>1 DEF CommitFails, At, OfferOK, Undone
<1>13. BakOK'
  BY <1>1, <1>2, Consts DEF CommitFails, disk, BakOK
<1>14. SavedOK'
  BY <1>1 DEF CommitFails, Fail, disk, SavedOK, Saved
<1>15. (Calm' => Calm) /\ Alone' \subseteq Alone /\ shape' = shape
  BY DEF CommitFails, Fail, Calm, Alone
<1>16. Promised' = Promised
  BY <1>5, <1>15, PromisedSame
<1>17. EditsCounted /\ OnePending /\ TempsOK /\ CapturedOK /\ RestOK /\ PendingOK /\ ProgressOK
       /\ RolledOK /\ LeftOK
  BY DEF RewindInv
<1>18. EditsCounted'
  BY <1>17 DEF CommitFails, Fail, EditsCounted, Alone
<1>19. OnePending'
  BY <1>17 DEF CommitFails, At, Goto, Fail, Compensate, OnePending, Pending, Calm, Busy
<1>20. TempsOK' /\ CapturedOK' /\ ProgressOK'
  BY <1>2, NotCommitting DEF Publishing
<1>21. RestOK'
  BY <1>15, <1>16, <1>17 DEF CommitFails, disk, RestOK, Pending
<1>22. PendingOK'
  <2>1. Calm' => Calm /\ op.pc # "compswap"
    BY <1>15 DEF CommitFails, At
  <2>2. UNCHANGED <<man, target, bak>>
    BY DEF CommitFails, disk
  <2>3. \A t \in Pending : tmp'[t] = tmp[t]
    BY DEF CommitFails, disk
  <2> QED BY <1>15, <1>16, <1>17, <2>1, <2>2, <2>3, PendingPlain
<1>23. RolledOK'
  BY <1>1, <1>2, Consts DEF CommitFails, Fail, RolledOK, RTypeOK, Alone
<1>24. LeftOK'
  BY DEF CommitFails, Goto, Compensate, LeftOK, Left
<1> QED
  BY <1>7, <1>8, <1>9, <1>10, <1>11, <1>12, <1>13, <1>14, <1>18, <1>19, <1>20, <1>21, <1>22, <1>23, <1>24
  DEF RewindInv, StructureOK

(* The intent of one file is durable before its first rename, or all files *)
(* are published.                                                          *)
LEMMA IntentKeeps ==
  ASSUME RewindInv, Intent
  PROVE  RewindInv'
<1>1. RTypeOK /\ PlaceOK /\ MemOK /\ ManOK /\ OrderOK /\ OfferOK /\ BakOK /\ SavedOK
  BY DEF RewindInv, StructureOK
<1>2. op.pc = "intent" /\ op'.pc = "backup" /\ op'.t = op.t /\ op'.i = op.i /\ op'.err = op.err
      /\ op'.startup = op.startup
  BY DEF Intent, At, Goto
<1>3. man \in [Txs -> Manifests] /\ mem \in Manifests /\ op.pc \in Steps
  BY <1>1 DEF RTypeOK
<1>4. mem' \in Manifests /\ mem'.state = mem.state /\ mem'.kind = mem.kind /\ mem'.parent = mem.parent
      /\ mem'.fwd = mem.fwd /\ mem'.rst = mem.rst /\ mem'.pub = mem.pub \cup {op.i}
  BY <1>3, WithPub DEF Intent
<1>5. op.t \in Txs
  BY <1>1, <1>2 DEF PlaceOK, Busy, Publishing
<1>6. mem' \in Manifests
  BY <1>4, <1>3
<1>7. man' = [man EXCEPT ![op.t] = mem']
  BY DEF Intent, Persist
<1>8. man'[op.t] = mem' /\ (\A t \in Txs : t # op.t => man'[t] = man[t]) /\ man' \in [Txs -> Manifests]
  BY <1>1, <1>5, <1>6, <1>7, Written
<1>9. man[op.t].state \in {"committing"}
  BY <1>1, <1>2 DEF MemOK, Busy, Publishing
<1>10. RTypeOK'
  <2>1. op' \in OpSpace
    <3>1. op' = [pc |-> op'.pc, t |-> op'.t, i |-> op'.i, err |-> op'.err, startup |-> op'.startup]
      BY <1>1 DEF Intent, At, Goto, Persist, file, backup, disk, hist, RTypeOK
    <3>2. op'.pc \in Steps /\ op'.t \in 0 .. MaxTx + 1 /\ op'.i \in 0 .. NumFiles + 1
      BY <1>1, <1>2 DEF RTypeOK, Steps
    <3>3. op'.err \in BOOLEAN /\ op'.startup \in BOOLEAN
      BY <1>1, <1>2 DEF RTypeOK
    <3> QED BY <3>1, <3>2, <3>3, OpMade
  <2>2. /\ target' \in [Files -> Images] /\ bak' \in [Txs -> [Files -> Images]]
        /\ tmp' \in [Txs -> [Files -> Images]] /\ recov' \in [Files -> [Images -> Images]]
    <3>1. "absent" \in Images /\ mem.fwd \in [Files -> Images] /\ mem.rst \in [Files -> Images]
      BY <1>3, ManifestFields DEF Images
    <3> QED BY <1>1 DEF Intent, disk, RTypeOK
  <2>3. /\ shape' \in Shapes /\ user' \in [Files -> Images \cup {"none"}]
        /\ odd' \subseteq {"edit", "split", "overpending"}
    BY <1>1 DEF Intent, hist, RTypeOK
  <2>4. lastUndo' \in 0 .. MaxTx /\ edits' \in 0 .. MaxEdits /\ fails' \in 0 .. MaxFails
        /\ crashes' \in 0 .. MaxCrashes
    BY <1>1 DEF Intent, hist, RTypeOK
  <2> QED BY <1>4, <1>8, <2>1, <2>2, <2>3, <2>4 DEF RTypeOK, OpSpace
<1>11. PlaceOK'
  BY <1>1, <1>2 DEF Intent, PlaceOK, Busy, Publishing, Compensating
<1>12. MemOK'
  BY <1>1, <1>2, <1>4, <1>8 DEF MemOK, PlaceOK, Announced, Busy, Publishing
<1>13. ManOK'
  <2>1. op'.pc \in Busy => WellMadeIn(mem', man, Before)
    BY <1>1, <1>2, <1>4 DEF ManOK, WellMade, WellMadeIn, Busy, Publishing
  <2>2. WellMadeIn(mem', man, Before)
    BY <1>1 DEF Intent, At, ManOK, WellMade, WellMadeIn, Busy, Publishing
  <2>3. mem'.state # "none" /\ (man[op.t].state \in {"committed", "undone"} =>
            mem'.state \in {"committed", "undone"} /\ mem'.kind = man[op.t].kind /\ mem'.fwd = man[op.t].fwd)
    BY <1>1 DEF Intent, At, MemOK, Busy, Publishing
  <2>4. shape' = shape
    BY DEF Intent
  <2> QED BY <1>1, <1>8, <1>5, <2>2, <2>3, <2>4, ManWritten
<1>14. OrderOK'
  <2>1. \A t \in Txs : man'[t].state = "none" <=> man[t].state = "none" /\ t # op.t
    <3>1. mem'.state # "none"
      BY <1>1, <1>2, <1>4 DEF MemOK, Busy, Publishing
    <3> QED BY <1>8, <3>1
  <2> QED BY <1>1, <1>2, <1>5, <1>9, <2>1 DEF OrderOK, Busy, Publishing
<1>15. OfferOK'
  <2>1. mem'.state # "committed" /\ lastUndo' = lastUndo /\ op.pc # "mark"
    BY <1>1, <1>2 DEF Intent, MemOK, Busy, Publishing
  <2> QED BY <1>1, <1>8, <1>5, <1>9, <2>1, OfferWritten
<1>16. BakOK'
  BY <1>1 DEF Intent, At, Goto, Persist, disk, BakOK, MemOK, Busy, Publishing
<1>17. SavedOK'
  <2>1. UNCHANGED <<user, target, bak>>
    BY DEF Intent, disk, hist
  <2>2. \A t \in Txs : man'[t].fwd = man[t].fwd \/ man[t] = NoManifest
    BY <1>1, <1>2, <1>4, <1>8 DEF MemOK, Busy, Publishing
  <2> QED BY <1>1, <2>1, <2>2, SavedPlain
<1>18. (Calm' => Calm) /\ Alone' \subseteq Alone /\ shape' = shape
  BY DEF Intent, hist, Calm, Alone
<1>19. Promised' = Promised
  <2>1. man[op.t].state \notin Done
    BY <1>9 DEF Done
  <2>2. man'[op.t].state \notin Done
    BY <1>1, <1>2, <1>4, <1>8 DEF MemOK, Done, Busy, Publishing
  <2> QED BY <1>8, <1>5, <1>18, <2>1, <2>2, PromisedWritten
<1>20. EditsCounted /\ OnePending /\ TempsOK /\ CapturedOK /\ RestOK /\ PendingOK /\ ProgressOK
       /\ RolledOK /\ LeftOK
  BY DEF RewindInv
<1>21. EditsCounted'
  BY <1>20 DEF Intent, hist, EditsCounted, Alone
<1>22. OnePending'
  BY <1>20 DEF Intent, At, Goto, Persist, hist, OnePending, Pending, Calm, Busy, Publishing
<1>23. TempsOK'
  BY <1>20 DEF Intent, At, Goto, disk, TempsOK
<1>24. CapturedOK'
  BY DEF Intent, Goto, CapturedOK
<1>25. RestOK'
  BY <1>1, <1>2 DEF Intent, Persist, RestOK, Pending, MemOK, PlaceOK, Busy, Publishing
<1>26. PendingOK'
  <2> SUFFICES ASSUME Calm', NEW t \in Pending', NEW x \in Alone'
               PROVE  man'[t].fwd[x] = Promised'[x] /\ FileOK(t, x)'
    BY DEF PendingOK
  <2>1. Calm /\ x \in Alone /\ x \in Files /\ t \in Txs
    BY <1>18 DEF Alone, Pending
  <2>2. /\ t \in Pending /\ man'[t].fwd = man[t].fwd /\ man'[t].rst = man[t].rst
        /\ man[t].pub \subseteq man'[t].pub
    <3>1. man[op.t] = mem
      BY <1>1, <1>2 DEF MemOK, Busy, Publishing
    <3> QED BY <1>4, <1>8, <3>1 DEF Pending
  <2>3. /\ man[t].fwd[x] = Promised[x] /\ FileOK(t, x)
        /\ man'[t].fwd = man[t].fwd /\ man'[t].rst = man[t].rst /\ man[t].pub \subseteq man'[t].pub
    BY <1>20, <2>1, <2>2 DEF PendingOK
  <2>4. op.pc # "compswap"
    BY <1>2
  <2>5. target'[x] = target[x] /\ bak'[t][x] = bak[t][x]
    BY DEF Intent, disk
  <2>6. tmp'[t][x] = tmp[t][x]
    BY DEF Intent, disk
  <2> QED BY <1>19, <2>3, <2>4, <2>5, <2>6, FileSame
<1>27. ProgressOK'
  BY <1>18, <1>20 DEF Intent, At, Goto, disk, ProgressOK, Publishing
<1>28. RolledOK'
  BY <1>20 DEF Intent, Goto, hist, RolledOK, Compensating
<1>29. LeftOK'
  BY DEF Intent, Goto, LeftOK, Left
<1> QED
  BY <1>10, <1>11, <1>12, <1>13, <1>14, <1>15, <1>16, <1>17, <1>21, <1>22, <1>23, <1>24, <1>25, <1>26,
     <1>27, <1>28, <1>29
  DEF RewindInv, StructureOK

(* publishTarget moves what is at the path to the backup: the window       *)
(* opens.                                                                  *)
LEMMA BackupKeeps ==
  ASSUME RewindInv, Backup
  PROVE  RewindInv'
<1>1. RTypeOK /\ PlaceOK /\ MemOK /\ ManOK /\ OrderOK /\ OfferOK /\ BakOK /\ SavedOK
  BY DEF RewindInv, StructureOK
<1>2. op.pc = "backup" /\ op'.pc \in {"progress", "swap"} /\ op'.t = op.t /\ op'.i = op.i
      /\ op'.err = op.err /\ op'.startup = op.startup
  BY DEF Backup, At, Goto
<1>3. man \in [Txs -> Manifests] /\ mem \in Manifests /\ op.pc \in Steps
  BY <1>1 DEF RTypeOK
<1>4. mem' = mem /\ mem' \in Manifests
  BY <1>3 DEF Backup
<1>5. man' = man /\ man' \in [Txs -> Manifests]
  BY <1>3 DEF Backup
<1>6. RTypeOK'
  <2>1. op' \in OpSpace
    <3>1. op' = [pc |-> op'.pc, t |-> op'.t, i |-> op'.i, err |-> op'.err, startup |-> op'.startup]
      BY <1>1 DEF Backup, At, Goto, file, backup, hist, RTypeOK
    <3>2. op'.pc \in Steps /\ op'.t \in 0 .. MaxTx + 1 /\ op'.i \in 0 .. NumFiles + 1
      BY <1>1, <1>2 DEF RTypeOK, Steps
    <3>3. op'.err \in BOOLEAN /\ op'.startup \in BOOLEAN
      BY <1>1, <1>2 DEF RTypeOK
    <3> QED BY <3>1, <3>2, <3>3, OpMade
  <2>2. /\ target' \in [Files -> Images] /\ bak' \in [Txs -> [Files -> Images]]
        /\ tmp' \in [Txs -> [Files -> Images]] /\ recov' \in [Files -> [Images -> Images]]
    <3>1. "absent" \in Images /\ mem.fwd \in [Files -> Images] /\ mem.rst \in [Files -> Images]
      BY <1>3, ManifestFields DEF Images
    <3> QED BY <1>1, <1>2, <3>1 DEF Backup, RTypeOK, PlaceOK, Busy, Publishing
  <2>3. /\ shape' \in Shapes /\ user' \in [Files -> Images \cup {"none"}]
        /\ odd' \subseteq {"edit", "split", "overpending"}
    BY <1>1 DEF Backup, hist, RTypeOK
  <2>4. lastUndo' \in 0 .. MaxTx /\ edits' \in 0 .. MaxEdits /\ fails' \in 0 .. MaxFails
        /\ crashes' \in 0 .. MaxCrashes
    BY <1>1 DEF Backup, hist, RTypeOK
  <2> QED BY <1>4, <1>5, <2>1, <2>2, <2>3, <2>4 DEF RTypeOK, OpSpace
<1>7. PlaceOK'
  BY <1>1, <1>2 DEF PlaceOK, Busy, Publishing, Compensating
<1>8. MemOK'
  BY <1>1, <1>2, <1>4, <1>5 DEF MemOK, Announced, Busy, Publishing
<1>9. ManOK'
  <2>1. op'.pc \in Busy => WellMadeIn(mem', man, Before)
    BY <1>1, <1>2, <1>4 DEF ManOK, WellMade, Busy, Publishing
  <2>2. UNCHANGED <<shape, man>>
    BY <1>5 DEF Backup
  <2> QED BY <1>1, <2>1, <2>2, ManKept
<1>10. OrderOK'
  BY <1>1, <1>2 DEF Backup, OrderOK, Busy, Publishing
<1>11. OfferOK'
  BY <1>1 DEF Backup, At, OfferOK, Undone
<1>12. BakOK'
  BY <1>1, <1>2 DEF Backup, BakOK, MemOK, PlaceOK, RTypeOK, Busy, Publishing
<1>13. SavedOK'
  BY <1>1, <1>2 DEF Backup, hist, SavedOK, Saved, BakOK, PlaceOK, RTypeOK, Busy, Publishing
<1>14. (Calm' => Calm) /\ Alone' \subseteq Alone /\ shape' = shape
  BY DEF Backup, hist, Calm, Alone
<1>15. Promised' = Promised
  BY <1>5, <1>14, PromisedSame
<1>16. EditsCounted /\ OnePending /\ TempsOK /\ CapturedOK /\ RestOK /\ PendingOK /\ ProgressOK
       /\ RolledOK /\ LeftOK
  BY DEF RewindInv
<1>17. EditsCounted'
  BY <1>16 DEF Backup, hist, EditsCounted, Alone
<1>18. OnePending'
  BY <1>16 DEF Backup, At, Goto, hist, OnePending, Pending, Calm, Busy, Publishing
<1>19. TempsOK'
  BY <1>1, <1>16, Consts DEF Backup, At, Goto, TempsOK, RTypeOK
<1>20. CapturedOK'
  BY DEF Backup, Goto, CapturedOK
<1>21. RestOK'
  BY <1>1 DEF Backup, At, RestOK, Pending, MemOK, PlaceOK, Busy, Publishing
<1>22. PendingOK'
  <2> SUFFICES ASSUME Calm', NEW t \in Pending', NEW x \in Alone'
               PROVE  man'[t].fwd[x] = Promised'[x] /\ FileOK(t, x)'
    BY DEF PendingOK
  <2>1. Calm /\ x \in Alone /\ x \in Files /\ t \in Txs
    BY <1>14 DEF Alone, Pending
  <2>2. t \in Pending /\ man'[t] = man[t] /\ man[t].fwd[x] = Promised[x] /\ FileOK(t, x)
    BY <1>5, <1>16, <2>1 DEF Pending, PendingOK
  <2>3. t = op.t
    BY <1>2, <1>16, <2>1, <2>2 DEF OnePending, Busy, Publishing
  <2>4. CASE x # op.i
    <3>1. target'[x] = target[x] /\ bak'[t][x] = bak[t][x] /\ tmp'[t][x] = tmp[t][x]
      BY <2>4 DEF Backup
    <3> QED BY <1>15, <2>2, <2>4, <3>1, FileSame
  <2>5. CASE x = op.i
    <3>1. target[x] = mem.fwd[x] /\ man[t] = mem /\ x \in mem.pub /\ tmp[t][x] = mem.rst[x]
      BY <1>1, <1>2, <1>16, <2>1, <2>3, <2>5, Consts
      DEF ProgressOK, TempsOK, MemOK, Announced, Busy, Publishing
    <3>2. target'[x] = "absent" /\ bak'[t][x] = mem.fwd[x] /\ tmp' = tmp
      BY <1>1, <2>1, <2>3, <2>5, <3>1 DEF Backup, RTypeOK
    <3> QED BY <1>15, <2>2, <3>1, <3>2 DEF FileOK, InWindow
  <2> QED BY <2>4, <2>5
<1>23. ProgressOK'
  BY <1>1, <1>2, <1>4, <1>5, <1>3, <1>14, <1>15, <1>16
  DEF Backup, Goto, ProgressOK, PlaceOK, RTypeOK, Busy, Publishing
<1>24. RolledOK'
  BY <1>16 DEF Backup, Goto, hist, RolledOK, Compensating
<1>25. LeftOK'
  BY DEF Backup, Goto, LeftOK, Left
<1> QED
  BY <1>6, <1>7, <1>8, <1>9, <1>10, <1>11, <1>12, <1>13, <1>17, <1>18, <1>19, <1>20, <1>21, <1>22, <1>23,
     <1>24, <1>25
  DEF RewindInv, StructureOK

(* publishTarget moves the temp to the path: the window closes.            *)
LEMMA SwapKeeps ==
  ASSUME RewindInv, Swap
  PROVE  RewindInv'
<1>1. RTypeOK /\ PlaceOK /\ MemOK /\ ManOK /\ OrderOK /\ OfferOK /\ BakOK /\ SavedOK
  BY DEF RewindInv, StructureOK
<1>2. op.pc = "swap" /\ op'.pc = "progress" /\ op'.t = op.t /\ op'.i = op.i /\ op'.err = op.err
      /\ op'.startup = op.startup
  BY DEF Swap, At, Goto
<1>3. man \in [Txs -> Manifests] /\ mem \in Manifests /\ op.pc \in Steps
  BY <1>1 DEF RTypeOK
<1>4. mem' = mem /\ mem' \in Manifests
  BY <1>3 DEF Swap
<1>5. man' = man /\ man' \in [Txs -> Manifests]
  BY <1>3 DEF Swap
<1>6. RTypeOK'
  <2>1. op' \in OpSpace
    <3>1. op' = [pc |-> op'.pc, t |-> op'.t, i |-> op'.i, err |-> op'.err, startup |-> op'.startup]
      BY <1>1 DEF Swap, At, Goto, hist, RTypeOK
    <3>2. op'.pc \in Steps /\ op'.t \in 0 .. MaxTx + 1 /\ op'.i \in 0 .. NumFiles + 1
      BY <1>1, <1>2 DEF RTypeOK, Steps
    <3>3. op'.err \in BOOLEAN /\ op'.startup \in BOOLEAN
      BY <1>1, <1>2 DEF RTypeOK
    <3> QED BY <3>1, <3>2, <3>3, OpMade
  <2>2. /\ target' \in [Files -> Images] /\ bak' \in [Txs -> [Files -> Images]]
        /\ tmp' \in [Txs -> [Files -> Images]] /\ recov' \in [Files -> [Images -> Images]]
    <3>1. "absent" \in Images /\ mem.fwd \in [Files -> Images] /\ mem.rst \in [Files -> Images]
      BY <1>3, ManifestFields DEF Images
    <3> QED BY <1>1, <1>2, <3>1 DEF Swap, RTypeOK, PlaceOK, Busy, Publishing
  <2>3. /\ shape' \in Shapes /\ user' \in [Files -> Images \cup {"none"}]
        /\ odd' \subseteq {"edit", "split", "overpending"}
    BY <1>1 DEF Swap, hist, RTypeOK
  <2>4. lastUndo' \in 0 .. MaxTx /\ edits' \in 0 .. MaxEdits /\ fails' \in 0 .. MaxFails
        /\ crashes' \in 0 .. MaxCrashes
    BY <1>1 DEF Swap, hist, RTypeOK
  <2> QED BY <1>4, <1>5, <2>1, <2>2, <2>3, <2>4 DEF RTypeOK, OpSpace
<1>7. PlaceOK'
  BY <1>1, <1>2 DEF PlaceOK, Busy, Publishing, Compensating
<1>8. MemOK'
  BY <1>1, <1>2, <1>4, <1>5 DEF MemOK, Announced, Busy, Publishing
<1>9. ManOK'
  <2>1. op'.pc \in Busy => WellMadeIn(mem', man, Before)
    BY <1>1, <1>2, <1>4 DEF ManOK, WellMade, Busy, Publishing
  <2>2. UNCHANGED <<shape, man>>
    BY <1>5 DEF Swap
  <2> QED BY <1>1, <2>1, <2>2, ManKept
<1>10. OrderOK'
  BY <1>1, <1>2 DEF Swap, OrderOK, Busy, Publishing
<1>11. OfferOK'
  BY <1>1 DEF Swap, At, OfferOK, Undone
<1>12. BakOK'
  BY <1>1, <1>2 DEF Swap, BakOK, Publishing
<1>13. SavedOK'
  BY <1>1, <1>2 DEF Swap, hist, SavedOK, Saved, BakOK
<1>14. (Calm' => Calm) /\ Alone' \subseteq Alone /\ shape' = shape
  BY DEF Swap, hist, Calm, Alone
<1>15. Promised' = Promised
  BY <1>5, <1>14, PromisedSame
<1>16. EditsCounted /\ OnePending /\ TempsOK /\ CapturedOK /\ RestOK /\ PendingOK /\ ProgressOK
       /\ RolledOK /\ LeftOK
  BY DEF RewindInv
<1>17. EditsCounted'
  BY <1>16 DEF Swap, hist, EditsCounted, Alone
<1>18. OnePending'
  BY <1>16 DEF Swap, At, Goto, hist, OnePending, Pending, Calm, Busy, Publishing
<1>19. TempsOK'
  BY <1>1, <1>4, <1>15, <1>16, Consts DEF Swap, At, Goto, hist, TempsOK, RTypeOK
<1>20. CapturedOK'
  BY DEF Swap, Goto, CapturedOK
<1>21. RestOK'
  BY <1>1 DEF Swap, At, RestOK, Pending, MemOK, PlaceOK, Busy, Publishing
<1>22. PendingOK'
  <2> SUFFICES ASSUME Calm', NEW t \in Pending', NEW x \in Alone'
               PROVE  man'[t].fwd[x] = Promised'[x] /\ FileOK(t, x)'
    BY DEF PendingOK
  <2>1. Calm /\ x \in Alone /\ x \in Files /\ t \in Txs
    BY <1>14 DEF Alone, Pending
  <2>2. t \in Pending /\ man'[t] = man[t] /\ man[t].fwd[x] = Promised[x] /\ FileOK(t, x)
    BY <1>5, <1>16, <2>1 DEF Pending, PendingOK
  <2>3. t = op.t
    BY <1>2, <1>16, <2>1, <2>2 DEF OnePending, Busy, Publishing
  <2>4. CASE x # op.i
    <3>1. target'[x] = target[x] /\ bak'[t][x] = bak[t][x] /\ tmp'[t][x] = tmp[t][x]
      BY <2>4 DEF Swap
    <3> QED BY <1>15, <2>2, <2>4, <3>1, FileSame
  <2>5. CASE x = op.i
    <3>1. bak[t][x] = mem.fwd[x] /\ man[t] = mem /\ x \in mem.pub /\ tmp[t][x] = mem.rst[x]
      BY <1>1, <1>2, <1>16, <2>1, <2>3, <2>5, Consts
      DEF ProgressOK, TempsOK, MemOK, Announced, Busy, Publishing
    <3>2. target'[x] = mem.rst[x] /\ bak' = bak
      BY <1>1, <2>1, <2>3, <2>5, <3>1 DEF Swap, RTypeOK
    <3> QED BY <1>15, <2>2, <3>1, <3>2 DEF FileOK, Published
  <2> QED BY <2>4, <2>5
<1>23. ProgressOK'
  <2> SUFFICES ASSUME Calm', NEW x \in Alone'
               PROVE  /\ x < op.i \/ x = op.i => target'[x] = mem.rst[x] /\ bak[op.t][x] = mem.fwd[x]
                      /\ x > op.i => target'[x] = mem.fwd[x]
    BY <1>2 DEF ProgressOK, Swap
  <2>1. Calm /\ x \in Alone /\ x \in Files /\ op.i \in Files /\ op.t \in Txs
    BY <1>1, <1>2, <1>14 DEF Alone, PlaceOK, Busy, Publishing
  <2>2. CASE x = op.i
    <3>1. bak[op.t][x] = mem.fwd[x] /\ tmp[op.t][x] = mem.rst[x]
      BY <1>2, <1>16, <2>1, <2>2, Consts DEF ProgressOK, TempsOK, Publishing
    <3> QED BY <1>1, <2>1, <2>2, <3>1 DEF Swap, RTypeOK
  <2>3. CASE x # op.i
    <3>1. target'[x] = target[x]
      BY <2>3 DEF Swap
    <3> QED BY <1>2, <1>16, <2>1, <2>3, <3>1 DEF ProgressOK, Publishing
  <2> QED BY <2>2, <2>3
<1>24. RolledOK'
  BY <1>16 DEF Swap, Goto, hist, RolledOK, Compensating
<1>25. LeftOK'
  BY DEF Swap, Goto, LeftOK, Left
<1> QED
  BY <1>6, <1>7, <1>8, <1>9, <1>10, <1>11, <1>12, <1>13, <1>17, <1>18, <1>19, <1>20, <1>21, <1>22, <1>23,
     <1>24, <1>25
  DEF RewindInv, StructureOK

(* The second rename fails, and publishTarget puts the backup back.        *)
LEMMA SwapPutsBackKeeps ==
  ASSUME RewindInv, SwapFails,
         target' = [target EXCEPT ![op.i] = bak[op.t][op.i]] /\ bak' = [bak EXCEPT ![op.t][op.i] = "absent"]
  PROVE  RewindInv'
<1>1. RTypeOK /\ PlaceOK /\ MemOK /\ ManOK /\ OrderOK /\ OfferOK /\ BakOK /\ SavedOK
  BY DEF RewindInv, StructureOK
<1>2. op.pc = "swap" /\ op'.pc = "comp" /\ op'.t = op.t /\ op'.i = NumFiles /\ op'.err = op.err
      /\ op'.startup = op.startup
  BY DEF SwapFails, At, Goto, Compensate
<1>3. man \in [Txs -> Manifests] /\ mem \in Manifests /\ op.pc \in Steps
  BY <1>1 DEF RTypeOK
<1>4. mem' = mem /\ mem' \in Manifests
  BY <1>3 DEF SwapFails
<1>5. man' = man /\ man' \in [Txs -> Manifests]
  BY <1>3 DEF SwapFails
<1>6. RTypeOK'
  <2>1. op' \in OpSpace
    <3>1. op' = [pc |-> op'.pc, t |-> op'.t, i |-> op'.i, err |-> op'.err, startup |-> op'.startup]
      BY <1>1 DEF SwapFails, At, Goto, Fail, Compensate, RTypeOK
    <3>2. op'.pc \in Steps /\ op'.t \in 0 .. MaxTx + 1 /\ op'.i \in 0 .. NumFiles + 1
      BY <1>1, <1>2, Consts DEF RTypeOK, Steps
    <3>3. op'.err \in BOOLEAN /\ op'.startup \in BOOLEAN
      BY <1>1, <1>2 DEF RTypeOK
    <3> QED BY <3>1, <3>2, <3>3, OpMade
  <2>2. /\ target' \in [Files -> Images] /\ bak' \in [Txs -> [Files -> Images]]
        /\ tmp' \in [Txs -> [Files -> Images]] /\ recov' \in [Files -> [Images -> Images]]
    <3>1. "absent" \in Images /\ mem.fwd \in [Files -> Images] /\ mem.rst \in [Files -> Images]
      BY <1>3, ManifestFields DEF Images
    <3> QED BY <1>1, <1>2, <3>1 DEF SwapFails, RTypeOK, PlaceOK, Busy, Publishing
  <2>3. /\ shape' \in Shapes /\ user' \in [Files -> Images \cup {"none"}]
        /\ odd' \subseteq {"edit", "split", "overpending"}
    BY <1>1 DEF SwapFails, Fail, RTypeOK
  <2>4. lastUndo' \in 0 .. MaxTx /\ edits' \in 0 .. MaxEdits /\ fails' \in 0 .. MaxFails
        /\ crashes' \in 0 .. MaxCrashes
    BY <1>1, Consts DEF SwapFails, Fail, RTypeOK
  <2> QED BY <1>4, <1>5, <2>1, <2>2, <2>3, <2>4 DEF RTypeOK, OpSpace
<1>7. PlaceOK'
  BY <1>1, <1>2, Consts DEF PlaceOK, Busy, Publishing, Compensating
<1>8. MemOK'
  BY <1>1, <1>2, <1>4, <1>5 DEF MemOK, Busy, Publishing
<1>9. ManOK'
  <2>1. op'.pc \in Busy => WellMadeIn(mem', man, Before)
    BY <1>1, <1>2, <1>4 DEF ManOK, WellMade, Busy, Publishing
  <2>2. UNCHANGED <<shape, man>>
    BY <1>5 DEF SwapFails
  <2> QED BY <1>1, <2>1, <2>2, ManKept
<1>10. OrderOK'
  BY <1>1, <1>2 DEF SwapFails, OrderOK, Busy, Publishing
<1>11. OfferOK'
  BY <1>1 DEF SwapFails, At, OfferOK, Undone
<1>12. BakOK'
  BY <1>1, <1>2 DEF SwapFails, BakOK, Publishing
<1>13. SavedOK'
  BY <1>1, <1>2 DEF SwapFails, Fail, SavedOK, Saved, BakOK, RTypeOK
<1>14. (Calm' => Calm) /\ Alone' \subseteq Alone /\ shape' = shape
  BY DEF SwapFails, Fail, Calm, Alone
<1>15. Promised' = Promised
  BY <1>5, <1>14, PromisedSame
<1>16. EditsCounted /\ OnePending /\ TempsOK /\ CapturedOK /\ RestOK /\ PendingOK /\ ProgressOK
       /\ RolledOK /\ LeftOK
  BY DEF RewindInv
<1>17. EditsCounted'
  BY <1>16 DEF SwapFails, Fail, EditsCounted, Alone
<1>18. OnePending'
  BY <1>16 DEF SwapFails, At, Goto, Fail, Compensate, OnePending, Pending, Calm, Busy, Publishing
<1>19. TempsOK' /\ CapturedOK' /\ ProgressOK'
  BY <1>2, NotCommitting DEF Publishing
<1>20. RestOK'
  BY <1>1 DEF SwapFails, At, RestOK, Pending, MemOK, PlaceOK, Busy, Publishing
<1>21. PendingOK'
  <2> SUFFICES ASSUME Calm', NEW t \in Pending', NEW x \in Alone'
               PROVE  man'[t].fwd[x] = Promised'[x] /\ FileOK(t, x)'
    BY DEF PendingOK
  <2>1. Calm /\ x \in Alone /\ x \in Files /\ t \in Txs
    BY <1>14 DEF Alone, Pending
  <2>2. t \in Pending /\ man'[t] = man[t] /\ man[t].fwd[x] = Promised[x] /\ FileOK(t, x)
    BY <1>5, <1>16, <2>1 DEF Pending, PendingOK
  <2>3. t = op.t
    BY <1>2, <1>16, <2>1, <2>2 DEF OnePending, Busy, Publishing
  <2>4. CASE x # op.i
    <3>1. target'[x] = target[x] /\ bak'[t][x] = bak[t][x] /\ tmp'[t][x] = tmp[t][x]
      BY <2>4 DEF SwapFails
    <3> QED BY <1>15, <2>2, <2>4, <3>1, FileSame
  <2>5. CASE x = op.i
    <3>1. bak[t][x] = mem.fwd[x] /\ man[t] = mem
      BY <1>1, <1>2, <1>16, <2>1, <2>3, <2>5 DEF ProgressOK, MemOK, Busy, Publishing
    <3>2. target'[x] = man'[t].fwd[x]
      BY <1>1, <2>1, <2>2, <2>3, <2>5, <3>1 DEF RTypeOK
    <3> QED BY <1>15, <2>2, <3>2 DEF FileOK
  <2> QED BY <2>4, <2>5
<1>22. RolledOK'
  BY <1>1, <1>2, Consts DEF SwapFails, Fail, RolledOK, RTypeOK, Alone
<1>23. LeftOK'
  BY DEF SwapFails, Goto, Compensate, LeftOK, Left
<1> QED
  BY <1>6, <1>7, <1>8, <1>9, <1>10, <1>11, <1>12, <1>13, <1>17, <1>18, <1>19, <1>20, <1>21, <1>22, <1>23
  DEF RewindInv, StructureOK

(* The second rename fails, and so does putting the backup back: the       *)
(* window stays for the compensation.                                      *)
LEMMA SwapStaysOpenKeeps ==
  ASSUME RewindInv, SwapFails, target' = target /\ bak' = bak
  PROVE  RewindInv'
<1>1. RTypeOK /\ PlaceOK /\ MemOK /\ ManOK /\ OrderOK /\ OfferOK /\ BakOK /\ SavedOK
  BY DEF RewindInv, StructureOK
<1>2. op.pc = "swap" /\ op'.pc = "comp" /\ op'.t = op.t /\ op'.i = NumFiles /\ op'.err = op.err
      /\ op'.startup = op.startup
  BY DEF SwapFails, At, Goto, Compensate
<1>3. man \in [Txs -> Manifests] /\ mem \in Manifests /\ op.pc \in Steps
  BY <1>1 DEF RTypeOK
<1>4. mem' = mem /\ mem' \in Manifests
  BY <1>3 DEF SwapFails
<1>5. man' = man /\ man' \in [Txs -> Manifests]
  BY <1>3 DEF SwapFails
<1>6. RTypeOK'
  <2>1. op' \in OpSpace
    <3>1. op' = [pc |-> op'.pc, t |-> op'.t, i |-> op'.i, err |-> op'.err, startup |-> op'.startup]
      BY <1>1 DEF SwapFails, At, Goto, Fail, Compensate, RTypeOK
    <3>2. op'.pc \in Steps /\ op'.t \in 0 .. MaxTx + 1 /\ op'.i \in 0 .. NumFiles + 1
      BY <1>1, <1>2, Consts DEF RTypeOK, Steps
    <3>3. op'.err \in BOOLEAN /\ op'.startup \in BOOLEAN
      BY <1>1, <1>2 DEF RTypeOK
    <3> QED BY <3>1, <3>2, <3>3, OpMade
  <2>2. /\ target' \in [Files -> Images] /\ bak' \in [Txs -> [Files -> Images]]
        /\ tmp' \in [Txs -> [Files -> Images]] /\ recov' \in [Files -> [Images -> Images]]
    <3>1. "absent" \in Images /\ mem.fwd \in [Files -> Images] /\ mem.rst \in [Files -> Images]
      BY <1>3, ManifestFields DEF Images
    <3> QED BY <1>1 DEF SwapFails, RTypeOK
  <2>3. /\ shape' \in Shapes /\ user' \in [Files -> Images \cup {"none"}]
        /\ odd' \subseteq {"edit", "split", "overpending"}
    BY <1>1 DEF SwapFails, Fail, RTypeOK
  <2>4. lastUndo' \in 0 .. MaxTx /\ edits' \in 0 .. MaxEdits /\ fails' \in 0 .. MaxFails
        /\ crashes' \in 0 .. MaxCrashes
    BY <1>1, Consts DEF SwapFails, Fail, RTypeOK
  <2> QED BY <1>4, <1>5, <2>1, <2>2, <2>3, <2>4 DEF RTypeOK, OpSpace
<1>7. PlaceOK'
  BY <1>1, <1>2, Consts DEF PlaceOK, Busy, Publishing, Compensating
<1>8. MemOK'
  BY <1>1, <1>2, <1>4, <1>5 DEF MemOK, Busy, Publishing
<1>9. ManOK'
  <2>1. op'.pc \in Busy => WellMadeIn(mem', man, Before)
    BY <1>1, <1>2, <1>4 DEF ManOK, WellMade, Busy, Publishing
  <2>2. UNCHANGED <<shape, man>>
    BY <1>5 DEF SwapFails
  <2> QED BY <1>1, <2>1, <2>2, ManKept
<1>10. OrderOK'
  BY <1>1, <1>2 DEF SwapFails, OrderOK, Busy, Publishing
<1>11. OfferOK'
  BY <1>1 DEF SwapFails, At, OfferOK, Undone
<1>12. BakOK'
  BY <1>1, <1>2, Consts DEF SwapFails, BakOK
<1>13. SavedOK'
  BY <1>1 DEF SwapFails, Fail, SavedOK, Saved
<1>14. (Calm' => Calm) /\ Alone' \subseteq Alone /\ shape' = shape
  BY DEF SwapFails, Fail, Calm, Alone
<1>15. Promised' = Promised
  BY <1>5, <1>14, PromisedSame
<1>16. EditsCounted /\ OnePending /\ TempsOK /\ CapturedOK /\ RestOK /\ PendingOK /\ ProgressOK
       /\ RolledOK /\ LeftOK
  BY DEF RewindInv
<1>17. EditsCounted'
  BY <1>16 DEF SwapFails, Fail, EditsCounted, Alone
<1>18. OnePending'
  BY <1>16 DEF SwapFails, At, Goto, Fail, Compensate, OnePending, Pending, Calm, Busy, Publishing
<1>19. TempsOK' /\ CapturedOK' /\ ProgressOK'
  BY <1>2, NotCommitting DEF Publishing
<1>20. RestOK'
  BY <1>14, <1>15, <1>16 DEF SwapFails, RestOK, Pending
<1>21. PendingOK'
  <2>1. Calm' => Calm /\ op.pc # "compswap"
    BY <1>14 DEF SwapFails, At
  <2>2. UNCHANGED <<man, target, bak>>
    BY DEF SwapFails
  <2>3. \A t \in Pending : tmp'[t] = tmp[t]
    BY DEF SwapFails
  <2> QED BY <1>14, <1>15, <1>16, <2>1, <2>2, <2>3, PendingPlain
<1>22. RolledOK'
  BY <1>1, <1>2, Consts DEF SwapFails, Fail, RolledOK, RTypeOK, Alone
<1>23. LeftOK'
  BY DEF SwapFails, Goto, Compensate, LeftOK, Left
<1> QED
  BY <1>6, <1>7, <1>8, <1>9, <1>10, <1>11, <1>12, <1>13, <1>17, <1>18, <1>19, <1>20, <1>21, <1>22, <1>23
  DEF RewindInv, StructureOK

(* The progress write: the file is published.                              *)
LEMMA ProgressKeeps ==
  ASSUME RewindInv, Progress
  PROVE  RewindInv'
<1>1. RTypeOK /\ PlaceOK /\ MemOK /\ ManOK /\ OrderOK /\ OfferOK /\ BakOK /\ SavedOK
  BY DEF RewindInv, StructureOK
<1>2. op.pc = "progress" /\ op'.pc = "intent" /\ op'.t = op.t /\ op'.i = op.i + 1 /\ op'.err = op.err
      /\ op'.startup = op.startup
  BY DEF Progress, At, Goto
<1>3. man \in [Txs -> Manifests] /\ mem \in Manifests /\ op.pc \in Steps
  BY <1>1 DEF RTypeOK
<1>4. mem' = mem /\ mem' \in Manifests
  BY <1>3 DEF Progress
<1>5. man' = man /\ man' \in [Txs -> Manifests]
  BY <1>3 DEF Progress
<1>6. RTypeOK'
  <2>1. op' \in OpSpace
    <3>1. op' = [pc |-> op'.pc, t |-> op'.t, i |-> op'.i, err |-> op'.err, startup |-> op'.startup]
      BY <1>1 DEF Progress, At, Goto, disk, hist, RTypeOK
    <3>2. op'.pc \in Steps /\ op'.t \in 0 .. MaxTx + 1 /\ op'.i \in 0 .. NumFiles + 1
      BY <1>1, <1>2, Consts DEF RTypeOK, PlaceOK, Steps
    <3>3. op'.err \in BOOLEAN /\ op'.startup \in BOOLEAN
      BY <1>1, <1>2 DEF RTypeOK
    <3> QED BY <3>1, <3>2, <3>3, OpMade
  <2>2. /\ target' \in [Files -> Images] /\ bak' \in [Txs -> [Files -> Images]]
        /\ tmp' \in [Txs -> [Files -> Images]] /\ recov' \in [Files -> [Images -> Images]]
    <3>1. "absent" \in Images /\ mem.fwd \in [Files -> Images] /\ mem.rst \in [Files -> Images]
      BY <1>3, ManifestFields DEF Images
    <3> QED BY <1>1 DEF Progress, disk, RTypeOK
  <2>3. /\ shape' \in Shapes /\ user' \in [Files -> Images \cup {"none"}]
        /\ odd' \subseteq {"edit", "split", "overpending"}
    BY <1>1 DEF Progress, hist, RTypeOK
  <2>4. lastUndo' \in 0 .. MaxTx /\ edits' \in 0 .. MaxEdits /\ fails' \in 0 .. MaxFails
        /\ crashes' \in 0 .. MaxCrashes
    BY <1>1 DEF Progress, hist, RTypeOK
  <2> QED BY <1>4, <1>5, <2>1, <2>2, <2>3, <2>4 DEF RTypeOK, OpSpace
<1>7. PlaceOK'
  BY <1>1, <1>2, Consts DEF PlaceOK, Busy, Publishing, Compensating
<1>8. MemOK'
  BY <1>1, <1>2, <1>4, <1>5, Consts DEF MemOK, PlaceOK, Announced, Busy, Publishing
<1>9. ManOK'
  <2>1. op'.pc \in Busy => WellMadeIn(mem', man, Before)
    BY <1>1, <1>2, <1>4 DEF ManOK, WellMade, Busy, Publishing
  <2>2. UNCHANGED <<shape, man>>
    BY <1>5 DEF Progress
  <2> QED BY <1>1, <2>1, <2>2, ManKept
<1>10. OrderOK'
  BY <1>1, <1>2 DEF Progress, OrderOK, Busy, Publishing
<1>11. OfferOK'
  BY <1>1 DEF Progress, At, OfferOK, Undone
<1>12. BakOK'
  BY <1>1, <1>2, <1>4, <1>5, <1>3, Consts, NoManifestFacts
  DEF Progress, At, disk, BakOK, RTypeOK, Busy, Publishing, Compensating
<1>13. SavedOK'
  BY <1>1 DEF Progress, disk, hist, SavedOK, Saved
<1>14. (Calm' => Calm) /\ Alone' \subseteq Alone /\ shape' = shape
  BY DEF Progress, hist, Calm, Alone
<1>15. Promised' = Promised
  BY <1>5, <1>14, PromisedSame
<1>16. EditsCounted /\ OnePending /\ TempsOK /\ CapturedOK /\ RestOK /\ PendingOK /\ ProgressOK
       /\ RolledOK /\ LeftOK
  BY DEF RewindInv
<1>17. EditsCounted'
  BY <1>16 DEF Progress, hist, EditsCounted, Alone
<1>18. OnePending'
  BY <1>16 DEF Progress, At, Goto, hist, OnePending, Pending, Calm, Busy, Publishing
<1>19. TempsOK'
  BY <1>1, <1>2, <1>16, Consts DEF Progress, disk, TempsOK, PlaceOK
<1>20. CapturedOK'
  BY DEF Progress, Goto, CapturedOK
<1>21. RestOK'
  BY <1>14, <1>15, <1>16 DEF Progress, disk, RestOK, Pending
<1>22. PendingOK'
  <2>1. Calm' => Calm /\ op.pc # "compswap"
    BY <1>14 DEF Progress, At
  <2>2. UNCHANGED <<man, target, bak>>
    BY DEF Progress, disk
  <2>3. \A t \in Pending : tmp'[t] = tmp[t]
    BY DEF Progress, disk
  <2> QED BY <1>14, <1>15, <1>16, <2>1, <2>2, <2>3, PendingPlain
<1>23. ProgressOK'
  BY <1>1, <1>2, <1>3, <1>14, <1>15, <1>16, Consts
  DEF Progress, At, Goto, disk, hist, ProgressOK, PlaceOK, RTypeOK, Alone, Busy, Publishing, Compensating
<1>24. RolledOK'
  BY <1>16 DEF Progress, Goto, hist, RolledOK, Compensating
<1>25. LeftOK'
  BY DEF Progress, Goto, LeftOK, Left
<1> QED
  BY <1>6, <1>7, <1>8, <1>9, <1>10, <1>11, <1>12, <1>13, <1>17, <1>18, <1>19, <1>20, <1>21, <1>22, <1>23,
     <1>24, <1>25
  DEF RewindInv, StructureOK

(* A failure during the commit turns to compensation.                      *)
LEMMA PublishFailsKeeps ==
  ASSUME RewindInv, PublishFails
  PROVE  RewindInv'
<1>1. RTypeOK /\ PlaceOK /\ MemOK /\ ManOK /\ OrderOK /\ OfferOK /\ BakOK /\ SavedOK
  BY DEF RewindInv, StructureOK
<1>2. op.pc \in {"intent", "backup", "progress"} /\ op'.pc = "comp" /\ op'.t = op.t /\ op'.i = NumFiles
      /\ op'.err = op.err /\ op'.startup = op.startup
  BY DEF PublishFails, Goto, Compensate
<1>3. man \in [Txs -> Manifests] /\ mem \in Manifests /\ op.pc \in Steps
  BY <1>1 DEF RTypeOK
<1>4. mem' = mem /\ mem' \in Manifests
  BY <1>3 DEF PublishFails
<1>5. man' = man /\ man' \in [Txs -> Manifests]
  BY <1>3 DEF PublishFails
<1>6. RTypeOK'
  <2>1. op' \in OpSpace
    <3>1. op' = [pc |-> op'.pc, t |-> op'.t, i |-> op'.i, err |-> op'.err, startup |-> op'.startup]
      BY <1>1 DEF PublishFails, Goto, Fail, Compensate, file, backup, disk, RTypeOK
    <3>2. op'.pc \in Steps /\ op'.t \in 0 .. MaxTx + 1 /\ op'.i \in 0 .. NumFiles + 1
      BY <1>1, <1>2, Consts DEF RTypeOK, Steps
    <3>3. op'.err \in BOOLEAN /\ op'.startup \in BOOLEAN
      BY <1>1, <1>2 DEF RTypeOK
    <3> QED BY <3>1, <3>2, <3>3, OpMade
  <2>2. /\ target' \in [Files -> Images] /\ bak' \in [Txs -> [Files -> Images]]
        /\ tmp' \in [Txs -> [Files -> Images]] /\ recov' \in [Files -> [Images -> Images]]
    <3>1. "absent" \in Images /\ mem.fwd \in [Files -> Images] /\ mem.rst \in [Files -> Images]
      BY <1>3, ManifestFields DEF Images
    <3> QED BY <1>1 DEF PublishFails, disk, RTypeOK
  <2>3. /\ shape' \in Shapes /\ user' \in [Files -> Images \cup {"none"}]
        /\ odd' \subseteq {"edit", "split", "overpending"}
    BY <1>1 DEF PublishFails, Fail, RTypeOK
  <2>4. lastUndo' \in 0 .. MaxTx /\ edits' \in 0 .. MaxEdits /\ fails' \in 0 .. MaxFails
        /\ crashes' \in 0 .. MaxCrashes
    BY <1>1, Consts DEF PublishFails, Fail, RTypeOK
  <2> QED BY <1>4, <1>5, <2>1, <2>2, <2>3, <2>4 DEF RTypeOK, OpSpace
<1>7. PlaceOK'
  BY <1>1, <1>2, Consts DEF PlaceOK, Busy, Publishing, Compensating
<1>8. MemOK'
  BY <1>1, <1>2, <1>4, <1>5 DEF MemOK, Busy, Publishing
<1>9. ManOK'
  <2>1. op'.pc \in Busy => WellMadeIn(mem', man, Before)
    BY <1>1, <1>2, <1>4 DEF ManOK, WellMade, Busy, Publishing
  <2>2. UNCHANGED <<shape, man>>
    BY <1>5 DEF PublishFails
  <2> QED BY <1>1, <2>1, <2>2, ManKept
<1>10. OrderOK'
  BY <1>1, <1>2 DEF PublishFails, OrderOK, Busy, Publishing
<1>11. OfferOK'
  BY <1>1 DEF PublishFails, OfferOK, Undone
<1>12. BakOK'
  BY <1>1, <1>2, Consts DEF PublishFails, disk, BakOK
<1>13. SavedOK'
  BY <1>1 DEF PublishFails, Fail, disk, SavedOK, Saved
<1>14. (Calm' => Calm) /\ Alone' \subseteq Alone /\ shape' = shape
  BY DEF PublishFails, Fail, Calm, Alone
<1>15. Promised' = Promised
  BY <1>5, <1>14, PromisedSame
<1>16. EditsCounted /\ OnePending /\ TempsOK /\ CapturedOK /\ RestOK /\ PendingOK /\ ProgressOK
       /\ RolledOK /\ LeftOK
  BY DEF RewindInv
<1>17. EditsCounted'
  BY <1>16 DEF PublishFails, Fail, EditsCounted, Alone
<1>18. OnePending'
  BY <1>16 DEF PublishFails, Goto, Fail, Compensate, OnePending, Pending, Calm, Busy, Publishing
<1>19. TempsOK' /\ CapturedOK' /\ ProgressOK'
  BY <1>2, NotCommitting DEF Publishing
<1>20. RestOK'
  BY <1>14, <1>15, <1>16 DEF PublishFails, disk, RestOK, Pending
<1>21. PendingOK'
  <2>1. Calm' => Calm /\ op.pc # "compswap"
    BY <1>14 DEF PublishFails
  <2>2. UNCHANGED <<man, target, bak>>
    BY DEF PublishFails, disk
  <2>3. \A t \in Pending : tmp'[t] = tmp[t]
    BY DEF PublishFails, disk
  <2> QED BY <1>14, <1>15, <1>16, <2>1, <2>2, <2>3, PendingPlain
<1>22. RolledOK'
  BY <1>1, <1>2, Consts DEF PublishFails, Fail, RolledOK, RTypeOK, Alone
<1>23. LeftOK'
  BY DEF PublishFails, Goto, Compensate, LeftOK, Left
<1> QED
  BY <1>6, <1>7, <1>8, <1>9, <1>10, <1>11, <1>12, <1>13, <1>17, <1>18, <1>19, <1>20, <1>21, <1>22, <1>23
  DEF RewindInv, StructureOK

(* The commit point of a rewind: every file is published, so the promise   *)
(* moves to the restored images and the workspace with it.                 *)
LEMMA FinalizeRewindKeeps ==
  ASSUME RewindInv, Finalize, mem.kind = "rewind"
  PROVE  RewindInv'
<1>1. RTypeOK /\ PlaceOK /\ MemOK /\ ManOK /\ OrderOK /\ OfferOK /\ BakOK /\ SavedOK
  BY DEF RewindInv, StructureOK
<1>2. Rest
  BY DEF Finalize, file
<1>3. op.pc = "intent" /\ op'.pc = "idle" /\ op'.t = op.t /\ op'.i = 0 /\ op'.err = FALSE
      /\ op'.startup = op.startup
  BY <1>2 DEF Finalize, At, Rest
<1>4. man \in [Txs -> Manifests] /\ mem \in Manifests /\ op.pc \in Steps
  BY <1>1 DEF RTypeOK
<1>5. mem' \in Manifests /\ mem'.state = "committed" /\ mem'.kind = mem.kind /\ mem'.parent = mem.parent
      /\ mem'.fwd = mem.fwd /\ mem'.rst = mem.rst /\ mem'.pub = mem.pub
  BY <1>4, WithState DEF Finalize, TxStates
<1>6. op.t \in Txs
  BY <1>1, <1>3 DEF PlaceOK, Busy, Publishing
<1>7. mem' \in Manifests
  BY <1>5, <1>4
<1>8. man' = [man EXCEPT ![op.t] = mem']
  BY DEF Finalize, Persist
<1>9. man'[op.t] = mem' /\ (\A t \in Txs : t # op.t => man'[t] = man[t]) /\ man' \in [Txs -> Manifests]
  BY <1>1, <1>6, <1>7, <1>8, Written
<1>10. man[op.t].state \in {"committing"}
  BY <1>1, <1>3 DEF MemOK, Busy, Publishing
<1>11. RTypeOK'
  <2>1. op' \in OpSpace
    <3>1. op' = [pc |-> op'.pc, t |-> op'.t, i |-> op'.i, err |-> op'.err, startup |-> op'.startup]
      BY <1>1 DEF Finalize, Rest, RTypeOK
    <3>2. op'.pc \in Steps /\ op'.t \in 0 .. MaxTx + 1 /\ op'.i \in 0 .. NumFiles + 1
      BY <1>1, <1>3 DEF Finalize, RTypeOK, Steps
    <3>3. op'.err \in BOOLEAN /\ op'.startup \in BOOLEAN
      BY <1>1, <1>3 DEF RTypeOK
    <3> QED BY <3>1, <3>2, <3>3, OpMade
  <2>2. /\ target' \in [Files -> Images] /\ bak' \in [Txs -> [Files -> Images]]
        /\ tmp' \in [Txs -> [Files -> Images]] /\ recov' \in [Files -> [Images -> Images]]
    <3>1. "absent" \in Images /\ mem.fwd \in [Files -> Images] /\ mem.rst \in [Files -> Images]
      BY <1>4, ManifestFields DEF Images
    <3> QED BY <1>1 DEF Finalize, disk, RTypeOK
  <2>3. /\ shape' \in Shapes /\ user' \in [Files -> Images \cup {"none"}]
        /\ odd' \subseteq {"edit", "split", "overpending"}
    BY <1>1 DEF Finalize, hist, RTypeOK
  <2>4. lastUndo' \in 0 .. MaxTx /\ edits' \in 0 .. MaxEdits /\ fails' \in 0 .. MaxFails
        /\ crashes' \in 0 .. MaxCrashes
    BY <1>1, <1>3, Consts DEF Finalize, hist, RTypeOK, PlaceOK, Busy, Publishing
  <2> QED BY <1>5, <1>9, <2>1, <2>2, <2>3, <2>4 DEF RTypeOK, OpSpace
<1>12. PlaceOK'
  BY <1>1, <1>3 DEF PlaceOK, Busy, Publishing, Compensating
<1>13. MemOK'
  BY <1>3 DEF MemOK, Busy, Publishing, Compensating
<1>14. ManOK'
  <2>1. op'.pc \in Busy => WellMadeIn(mem', man, Before)
    BY <1>3 DEF Busy, Publishing, Compensating
  <2>2. WellMadeIn(mem', man, Before)
    BY <1>1 DEF Finalize, At, ManOK, WellMade, WellMadeIn, Busy, Publishing
  <2>3. mem'.state # "none" /\ (man[op.t].state \in {"committed", "undone"} =>
            mem'.state \in {"committed", "undone"} /\ mem'.kind = man[op.t].kind /\ mem'.fwd = man[op.t].fwd)
    BY <1>10 DEF Finalize
  <2>4. shape' = shape
    BY DEF Finalize
  <2> QED BY <1>1, <1>9, <1>6, <2>2, <2>3, <2>4, ManWritten
<1>15. OrderOK'
  <2>1. \A t \in Txs : man'[t].state = "none" <=> man[t].state = "none" /\ t # op.t
    <3>1. mem'.state # "none"
      BY <1>5
    <3> QED BY <1>9, <3>1
  <2> QED BY <1>1, <1>3, <2>1 DEF OrderOK, PlaceOK, Busy, Publishing, Compensating
<1>16. OfferOK'
  <2>1. lastUndo' = op.t /\ man'[op.t].state = "committed" /\ man'[op.t].kind = "rewind"
    BY <1>9 DEF Finalize
  <2>2. ASSUME NEW u \in Txs, man'[u].state = "committed", man'[u].kind = "undo", man'[u].parent = op.t
        PROVE  FALSE
    <3>1. u # op.t /\ man'[u] = man[u]
      BY <1>9, <2>1, <2>2
    <3>2. man[op.t].state \in {"committed", "undone"}
      BY <1>1, <2>2, <3>1 DEF ManOK, WellMade, WellMadeIn
    <3> QED BY <1>10, <3>2
  <2> QED BY <2>1, <2>2 DEF OfferOK, Undone
<1>17. BakOK'
  BY <1>1, <1>3 DEF Finalize, Persist, disk, BakOK, Publishing
<1>18. SavedOK'
  <2>1. UNCHANGED <<user, target, bak>>
    BY DEF Finalize, disk, hist
  <2>2. \A t \in Txs : man'[t].fwd = man[t].fwd \/ man[t] = NoManifest
    BY <1>1, <1>3, <1>5, <1>9 DEF MemOK, Busy, Publishing
  <2> QED BY <1>1, <2>1, <2>2, SavedPlain
<1>19. (Calm' => Calm) /\ Alone' \subseteq Alone /\ shape' = shape
  BY DEF Finalize, hist, Calm, Alone
<1>20. Promised' = mem.rst
  <2>1. \A u \in Txs : u > op.t => man'[u].state \notin Done
    BY <1>1, <1>3, <1>9 DEF OrderOK, PlaceOK, Done, Busy, Publishing, Compensating
  <2>2. man'[op.t].state \in Done /\ man'[op.t].rst = mem.rst
    BY <1>5, <1>9 DEF Done
  <2> QED BY <1>6, <2>1, <2>2, PromisedNow
<1>21. EditsCounted /\ OnePending /\ TempsOK /\ CapturedOK /\ RestOK /\ PendingOK /\ ProgressOK
       /\ RolledOK /\ LeftOK
  BY DEF RewindInv
<1>22. EditsCounted'
  BY <1>21 DEF Finalize, hist, EditsCounted, Alone
<1>23. OnePending'
  BY <1>4, <1>21 DEF Finalize, At, Persist, hist, OnePending, Pending, Calm, Busy, Publishing, Compensating
<1>24. TempsOK' /\ CapturedOK' /\ ProgressOK'
  BY <1>3, NotCommitting DEF Publishing
<1>25. RestOK'
  <2> SUFFICES ASSUME Calm', Pending' = {}, NEW x \in Alone' PROVE target'[x] = Promised'[x]
    BY DEF RestOK
  <2>1. Calm /\ x \in Alone /\ x \in Files
    BY <1>19 DEF Alone
  <2>2. op.i = NumFiles + 1 /\ target' = target
    BY DEF Finalize, disk
  <2>3. target[x] = mem.rst[x]
    BY <1>3, <1>21, <2>1, <2>2, Consts DEF ProgressOK, Publishing
  <2> QED BY <1>20, <2>2, <2>3
<1>26. PendingOK'
  BY <1>4, <1>19, <1>21 DEF Finalize, At, Persist, PendingOK, OnePending, Pending, Busy, Publishing
<1>27. RolledOK'
  BY <1>3 DEF RolledOK, Compensating
<1>28. LeftOK'
  BY <1>4, <1>19, <1>21 DEF Finalize, At, Persist, LeftOK, Pending, OnePending, Busy, Publishing, Compensating
<1> QED
  BY <1>11, <1>12, <1>13, <1>14, <1>15, <1>16, <1>17, <1>18, <1>22, <1>23, <1>24, <1>25, <1>26, <1>27, <1>28
  DEF RewindInv, StructureOK

(* The commit point of an undo; its parent is not offered again.           *)
LEMMA FinalizeUndoKeeps ==
  ASSUME RewindInv, Finalize, mem.kind = "undo"
  PROVE  RewindInv'
<1>1. RTypeOK /\ PlaceOK /\ MemOK /\ ManOK /\ OrderOK /\ OfferOK /\ BakOK /\ SavedOK
  BY DEF RewindInv, StructureOK
<1>2. op.pc = "intent" /\ op'.pc = "mark" /\ op'.t = op.t /\ op'.i = 0 /\ op'.err = op.err
      /\ op'.startup = op.startup
  <2>1. op.pc = "intent" /\ op' = [op EXCEPT !.pc = "mark", !.i = 0]
    BY DEF Finalize, At, Goto
  <2>2. DOMAIN op = {"pc", "t", "i", "err", "startup"}
    BY <1>1 DEF RTypeOK
  <2> QED BY <2>1, <2>2
<1>3. man \in [Txs -> Manifests] /\ mem \in Manifests /\ op.pc \in Steps
  BY <1>1 DEF RTypeOK
<1>4. mem' \in Manifests /\ mem'.state = "committed" /\ mem'.kind = mem.kind /\ mem'.parent = mem.parent
      /\ mem'.fwd = mem.fwd /\ mem'.rst = mem.rst /\ mem'.pub = mem.pub
  BY <1>3, WithState DEF Finalize, TxStates
<1>5. op.t \in Txs
  BY <1>1, <1>2 DEF PlaceOK, Busy, Publishing
<1>6. mem' \in Manifests
  BY <1>4, <1>3
<1>7. man' = [man EXCEPT ![op.t] = mem']
  BY DEF Finalize, Persist
<1>8. man'[op.t] = mem' /\ (\A t \in Txs : t # op.t => man'[t] = man[t]) /\ man' \in [Txs -> Manifests]
  BY <1>1, <1>5, <1>6, <1>7, Written
<1>9. man[op.t].state \in {"committing"}
  BY <1>1, <1>2 DEF MemOK, Busy, Publishing
<1>10. RTypeOK'
  <2>1. op' \in OpSpace
    <3>1. op' = [pc |-> op'.pc, t |-> op'.t, i |-> op'.i, err |-> op'.err, startup |-> op'.startup]
      BY <1>1 DEF Finalize, Goto, RTypeOK
    <3>2. op'.pc \in Steps /\ op'.t \in 0 .. MaxTx + 1 /\ op'.i \in 0 .. NumFiles + 1
      BY <1>1, <1>2 DEF Finalize, RTypeOK, Steps
    <3>3. op'.err \in BOOLEAN /\ op'.startup \in BOOLEAN
      BY <1>1, <1>2 DEF RTypeOK
    <3> QED BY <3>1, <3>2, <3>3, OpMade
  <2>2. /\ target' \in [Files -> Images] /\ bak' \in [Txs -> [Files -> Images]]
        /\ tmp' \in [Txs -> [Files -> Images]] /\ recov' \in [Files -> [Images -> Images]]
    <3>1. "absent" \in Images /\ mem.fwd \in [Files -> Images] /\ mem.rst \in [Files -> Images]
      BY <1>3, ManifestFields DEF Images
    <3> QED BY <1>1 DEF Finalize, disk, RTypeOK
  <2>3. /\ shape' \in Shapes /\ user' \in [Files -> Images \cup {"none"}]
        /\ odd' \subseteq {"edit", "split", "overpending"}
    BY <1>1 DEF Finalize, hist, RTypeOK
  <2>4. lastUndo' \in 0 .. MaxTx /\ edits' \in 0 .. MaxEdits /\ fails' \in 0 .. MaxFails
        /\ crashes' \in 0 .. MaxCrashes
    BY <1>1 DEF Finalize, hist, RTypeOK
  <2> QED BY <1>4, <1>8, <2>1, <2>2, <2>3, <2>4 DEF RTypeOK, OpSpace
<1>11. PlaceOK'
  BY <1>1, <1>2 DEF PlaceOK, Busy, Publishing, Compensating
<1>12. MemOK'
  BY <1>2, <1>4, <1>8 DEF MemOK, Publishing, Compensating
<1>13. ManOK'
  <2>1. op'.pc \in Busy => WellMadeIn(mem', man, Before)
    BY <1>1, <1>2, <1>4 DEF ManOK, WellMade, WellMadeIn, Busy, Publishing
  <2>2. WellMadeIn(mem', man, Before)
    BY <1>1 DEF Finalize, At, ManOK, WellMade, WellMadeIn, Busy, Publishing
  <2>3. mem'.state # "none" /\ (man[op.t].state \in {"committed", "undone"} =>
            mem'.state \in {"committed", "undone"} /\ mem'.kind = man[op.t].kind /\ mem'.fwd = man[op.t].fwd)
    BY <1>9 DEF Finalize
  <2>4. shape' = shape
    BY DEF Finalize
  <2> QED BY <1>1, <1>8, <1>5, <2>2, <2>3, <2>4, ManWritten
<1>14. OrderOK'
  <2>1. \A t \in Txs : man'[t].state = "none" <=> man[t].state = "none" /\ t # op.t
    <3>1. mem'.state # "none"
      BY <1>4
    <3> QED BY <1>8, <3>1
  <2> QED BY <1>1, <1>2, <1>9, <2>1 DEF OrderOK, Busy, Publishing
<1>15. OfferOK'
  <2>1. lastUndo' = lastUndo /\ op'.pc = "mark" /\ (lastUndo # 0 => lastUndo \in Txs)
    BY <1>1, <1>2, Consts DEF Finalize, RTypeOK
  <2> QED BY <1>1, <1>8, <1>9, <2>1 DEF OfferOK
<1>16. BakOK'
  BY <1>1, <1>2 DEF Finalize, Persist, disk, BakOK, Publishing
<1>17. SavedOK'
  <2>1. UNCHANGED <<user, target, bak>>
    BY DEF Finalize, disk, hist
  <2>2. \A t \in Txs : man'[t].fwd = man[t].fwd \/ man[t] = NoManifest
    BY <1>1, <1>2, <1>4, <1>8 DEF MemOK, Busy, Publishing
  <2> QED BY <1>1, <2>1, <2>2, SavedPlain
<1>18. (Calm' => Calm) /\ Alone' \subseteq Alone /\ shape' = shape
  BY DEF Finalize, hist, Calm, Alone
<1>19. Promised' = mem.rst
  <2>1. \A u \in Txs : u > op.t => man'[u].state \notin Done
    BY <1>1, <1>2, <1>8 DEF OrderOK, PlaceOK, Done, Busy, Publishing, Compensating
  <2>2. man'[op.t].state \in Done /\ man'[op.t].rst = mem.rst
    BY <1>4, <1>8 DEF Done
  <2> QED BY <1>5, <2>1, <2>2, PromisedNow
<1>20. EditsCounted /\ OnePending /\ TempsOK /\ CapturedOK /\ RestOK /\ PendingOK /\ ProgressOK
       /\ RolledOK /\ LeftOK
  BY DEF RewindInv
<1>21. EditsCounted'
  BY <1>20 DEF Finalize, hist, EditsCounted, Alone
<1>22. OnePending'
  BY <1>3, <1>20 DEF Finalize, At, Persist, hist, OnePending, Pending, Calm, Busy, Publishing
<1>23. TempsOK' /\ CapturedOK' /\ ProgressOK'
  BY <1>2, NotCommitting DEF Publishing
<1>24. RestOK'
  <2> SUFFICES ASSUME Calm', Pending' = {}, NEW x \in Alone' PROVE target'[x] = Promised'[x]
    BY DEF RestOK
  <2>1. Calm /\ x \in Alone /\ x \in Files
    BY <1>18 DEF Alone
  <2>2. op.i = NumFiles + 1 /\ target' = target
    BY DEF Finalize, disk
  <2>3. target[x] = mem.rst[x]
    BY <1>2, <1>20, <2>1, <2>2, Consts DEF ProgressOK, Publishing
  <2> QED BY <1>19, <2>2, <2>3
<1>25. PendingOK'
  BY <1>3, <1>18, <1>20 DEF Finalize, At, Persist, PendingOK, OnePending, Pending, Busy, Publishing
<1>26. RolledOK'
  BY <1>1, <1>2 DEF RolledOK, PlaceOK, Compensating
<1>27. LeftOK'
  BY <1>3, <1>18, <1>20 DEF Finalize, At, Persist, LeftOK, Pending, OnePending, Busy, Publishing
<1> QED
  BY <1>10, <1>11, <1>12, <1>13, <1>14, <1>15, <1>16, <1>17, <1>21, <1>22, <1>23, <1>24, <1>25, <1>26, <1>27
  DEF RewindInv, StructureOK

(* A committed undo marks its parent undone.                               *)
LEMMA ParentMarkedKeeps ==
  ASSUME RewindInv, MarkUndone, man' = [man EXCEPT ![mem.parent].state = "undone"]
  PROVE  RewindInv'
<1>1. RTypeOK /\ PlaceOK /\ MemOK /\ ManOK /\ OrderOK /\ OfferOK /\ BakOK /\ SavedOK
  BY DEF RewindInv, StructureOK
<1>2. op.pc = "mark" /\ op'.pc = "idle" /\ op'.t = op.t /\ op'.i = 0 /\ op'.err = FALSE
      /\ op'.startup = op.startup
  BY DEF MarkUndone, At, Rest
<1>3. man \in [Txs -> Manifests] /\ mem \in Manifests /\ op.pc \in Steps
  BY <1>1 DEF RTypeOK
<1>4. mem' = mem /\ mem' \in Manifests
  BY <1>3 DEF MarkUndone
<1>5. mem.parent \in Txs
  BY <1>1, <1>2 DEF MemOK, ManOK, WellMade, WellMadeIn, Busy
<1> DEFINE m == [man[mem.parent] EXCEPT !.state = "undone"]
<1>6. m \in Manifests /\ m.state = "undone" /\ m.kind = man[mem.parent].kind
      /\ m.parent = man[mem.parent].parent /\ m.fwd = man[mem.parent].fwd /\ m.rst = man[mem.parent].rst
      /\ m.pub = man[mem.parent].pub
  <2>1. "undone" \in TxStates /\ man[mem.parent] \in Manifests
    BY <1>3, <1>5 DEF TxStates
  <2> QED BY <2>1, WithState
<1>7. man' = [man EXCEPT ![mem.parent] = m]
  OBVIOUS
<1> HIDE DEF m
<1>8. /\ man'[mem.parent] = m /\ (\A t \in Txs : t # mem.parent => man'[t] = man[t])
      /\ man' \in [Txs -> Manifests]
  BY <1>1, <1>5, <1>6, <1>7, Written
<1>9. man[mem.parent].state \in {"committed", "undone"}
  BY <1>1, <1>2 DEF MemOK, ManOK, WellMade, WellMadeIn, Busy
<1>10. RTypeOK'
  <2>1. op' \in OpSpace
    <3>1. op' = [pc |-> op'.pc, t |-> op'.t, i |-> op'.i, err |-> op'.err, startup |-> op'.startup]
      BY <1>1 DEF MarkUndone, At, Rest, Fail, disk, hist, RTypeOK
    <3>2. op'.pc \in Steps /\ op'.t \in 0 .. MaxTx + 1 /\ op'.i \in 0 .. NumFiles + 1
      BY <1>1, <1>2, Consts DEF RTypeOK, Steps
    <3>3. op'.err \in BOOLEAN /\ op'.startup \in BOOLEAN
      BY <1>1, <1>2 DEF RTypeOK
    <3> QED BY <3>1, <3>2, <3>3, OpMade
  <2>2. /\ target' \in [Files -> Images] /\ bak' \in [Txs -> [Files -> Images]]
        /\ tmp' \in [Txs -> [Files -> Images]] /\ recov' \in [Files -> [Images -> Images]]
    <3>1. "absent" \in Images /\ mem.fwd \in [Files -> Images] /\ mem.rst \in [Files -> Images]
      BY <1>3, ManifestFields DEF Images
    <3> QED BY <1>1 DEF MarkUndone, disk, RTypeOK
  <2>3. /\ shape' \in Shapes /\ user' \in [Files -> Images \cup {"none"}]
        /\ odd' \subseteq {"edit", "split", "overpending"}
    BY <1>1 DEF MarkUndone, Fail, hist, RTypeOK
  <2>4. lastUndo' \in 0 .. MaxTx /\ edits' \in 0 .. MaxEdits /\ fails' \in 0 .. MaxFails
        /\ crashes' \in 0 .. MaxCrashes
    BY <1>1, Consts DEF MarkUndone, Fail, hist, RTypeOK
  <2> QED BY <1>4, <1>8, <2>1, <2>2, <2>3, <2>4 DEF RTypeOK, OpSpace
<1>11. PlaceOK'
  BY <1>1, <1>2 DEF PlaceOK, Busy, Compensating
<1>12. MemOK'
  BY <1>2 DEF MemOK, Busy, Publishing, Compensating
<1>13. ManOK'
  <2>1. op'.pc \in Busy => WellMadeIn(mem', man, Before)
    BY <1>2 DEF Busy, Publishing, Compensating
  <2>2. WellMadeIn(m, man, Before)
    BY <1>1, <1>5, <1>6, <1>9 DEF ManOK, WellMade, WellMadeIn
  <2>3. m.state # "none" /\ (man[mem.parent].state \in {"committed", "undone"} =>
            m.state \in {"committed", "undone"} /\ m.kind = man[mem.parent].kind
            /\ m.fwd = man[mem.parent].fwd)
    BY <1>6
  <2>4. shape' = shape
    BY DEF MarkUndone
  <2> QED BY <1>1, <1>8, <2>1, <2>2, <2>3, <2>4, ManWritten
<1>14. OrderOK'
  <2>1. \A t \in Txs : man'[t].state = "none" <=> man[t].state = "none" /\ t # mem.parent
    <3>1. m.state # "none"
      BY <1>6
    <3> QED BY <1>8, <1>5
  <2> QED BY <1>1, <1>2, <1>9 DEF OrderOK, Busy
<1>15. OfferOK'
  BY DEF MarkUndone, OfferOK
<1>16. BakOK'
  BY <1>1, <1>2 DEF MarkUndone, disk, BakOK, Publishing
<1>17. SavedOK'
  <2>1. UNCHANGED <<user, target, bak>>
    BY DEF MarkUndone, disk, hist, Fail
  <2>2. \A t \in Txs : man'[t].fwd = man[t].fwd \/ man[t] = NoManifest
    OBVIOUS
  <2> QED BY <1>1, <2>1, SavedPlain
<1>18. (Calm' => Calm) /\ Alone' \subseteq Alone /\ shape' = shape
  BY DEF MarkUndone, Fail, hist, Calm, Alone
<1>19. Promised' = Promised
  <2>1. man[mem.parent].state \in Done
    BY <1>9 DEF Done
  <2>2. man'[mem.parent].state \in Done /\ man'[mem.parent].rst = man[mem.parent].rst
    BY <1>8 DEF Done
  <2> QED BY <1>5, <1>18, <2>1, <2>2, PromisedWritten
<1>20. EditsCounted /\ OnePending /\ TempsOK /\ CapturedOK /\ RestOK /\ PendingOK /\ ProgressOK
       /\ RolledOK /\ LeftOK
  BY DEF RewindInv
<1>21. EditsCounted'
  BY <1>20 DEF MarkUndone, Fail, hist, EditsCounted, Alone
<1>22. OnePending'
  BY <1>20 DEF MarkUndone, At, Rest, Fail, hist, OnePending, Pending, Calm, Busy
<1>23. TempsOK' /\ CapturedOK' /\ ProgressOK'
  BY <1>2, NotCommitting DEF Publishing
<1>24. RestOK'
  BY <1>9, <1>18, <1>19, <1>20 DEF MarkUndone, disk, RestOK, Pending
<1>25. PendingOK'
  BY <1>1, <1>2, <1>18, <1>20 DEF PendingOK, OnePending, Pending, MemOK, Busy
<1>26. RolledOK'
  BY DEF MarkUndone, Rest, RolledOK, Compensating
<1>27. LeftOK'
  BY <1>1, <1>20 DEF MarkUndone, At, Fail, hist, LeftOK, Pending, OnePending, MemOK, Calm, Busy
<1> QED
  BY <1>10, <1>11, <1>12, <1>13, <1>14, <1>15, <1>16, <1>17, <1>21, <1>22, <1>23, <1>24, <1>25, <1>26, <1>27
  DEF RewindInv, StructureOK

(* Marking the parent fails; the committed undo still speaks for it.       *)
LEMMA ParentUnmarkedKeeps ==
  ASSUME RewindInv, MarkUndone, man' = man
  PROVE  RewindInv'
<1>1. RTypeOK /\ PlaceOK /\ MemOK /\ ManOK /\ OrderOK /\ OfferOK /\ BakOK /\ SavedOK
  BY DEF RewindInv, StructureOK
<1>2. op.pc = "mark" /\ op'.pc = "idle" /\ op'.t = op.t /\ op'.i = 0 /\ op'.err = FALSE
      /\ op'.startup = op.startup
  BY DEF MarkUndone, At, Rest
<1>3. man \in [Txs -> Manifests] /\ mem \in Manifests /\ op.pc \in Steps
  BY <1>1 DEF RTypeOK
<1>4. mem' = mem /\ mem' \in Manifests
  BY <1>3 DEF MarkUndone
<1>5. man' = man /\ man' \in [Txs -> Manifests]
  BY <1>3 DEF MarkUndone
<1>6. RTypeOK'
  <2>1. op' \in OpSpace
    <3>1. op' = [pc |-> op'.pc, t |-> op'.t, i |-> op'.i, err |-> op'.err, startup |-> op'.startup]
      BY <1>1 DEF MarkUndone, At, Rest, Fail, disk, hist, RTypeOK
    <3>2. op'.pc \in Steps /\ op'.t \in 0 .. MaxTx + 1 /\ op'.i \in 0 .. NumFiles + 1
      BY <1>1, <1>2, Consts DEF RTypeOK, Steps
    <3>3. op'.err \in BOOLEAN /\ op'.startup \in BOOLEAN
      BY <1>1, <1>2 DEF RTypeOK
    <3> QED BY <3>1, <3>2, <3>3, OpMade
  <2>2. /\ target' \in [Files -> Images] /\ bak' \in [Txs -> [Files -> Images]]
        /\ tmp' \in [Txs -> [Files -> Images]] /\ recov' \in [Files -> [Images -> Images]]
    <3>1. "absent" \in Images /\ mem.fwd \in [Files -> Images] /\ mem.rst \in [Files -> Images]
      BY <1>3, ManifestFields DEF Images
    <3> QED BY <1>1 DEF MarkUndone, disk, RTypeOK
  <2>3. /\ shape' \in Shapes /\ user' \in [Files -> Images \cup {"none"}]
        /\ odd' \subseteq {"edit", "split", "overpending"}
    BY <1>1 DEF MarkUndone, Fail, hist, RTypeOK
  <2>4. lastUndo' \in 0 .. MaxTx /\ edits' \in 0 .. MaxEdits /\ fails' \in 0 .. MaxFails
        /\ crashes' \in 0 .. MaxCrashes
    BY SMTT(20), <1>1, <1>2, Consts DEF MarkUndone, Fail, disk, hist, RTypeOK
  <2> QED BY <1>4, <1>5, <2>1, <2>2, <2>3, <2>4 DEF RTypeOK, OpSpace
<1>7. PlaceOK'
  BY <1>1, <1>2 DEF PlaceOK, Busy, Compensating
<1>8. MemOK'
  BY <1>2 DEF MemOK, Busy, Publishing, Compensating
<1>9. ManOK'
  <2>1. op'.pc \in Busy => WellMadeIn(mem', man, Before)
    BY <1>2 DEF Busy, Publishing, Compensating
  <2>2. UNCHANGED <<shape, man>>
    BY <1>5 DEF MarkUndone
  <2> QED BY <1>1, <2>1, <2>2, ManKept
<1>10. OrderOK'
  BY <1>1, <1>2 DEF OrderOK, Busy
<1>11. OfferOK'
  BY DEF MarkUndone, OfferOK
<1>12. BakOK'
  BY <1>1, <1>2 DEF MarkUndone, disk, BakOK, Publishing
<1>13. SavedOK'
  BY <1>1 DEF MarkUndone, Fail, disk, hist, SavedOK, Saved
<1>14. (Calm' => Calm) /\ Alone' \subseteq Alone /\ shape' = shape
  BY DEF MarkUndone, Fail, hist, Calm, Alone
<1>15. Promised' = Promised
  BY <1>14, PromisedSame
<1>16. EditsCounted /\ OnePending /\ TempsOK /\ CapturedOK /\ RestOK /\ PendingOK /\ ProgressOK
       /\ RolledOK /\ LeftOK
  BY DEF RewindInv
<1>17. EditsCounted'
  BY <1>16 DEF MarkUndone, Fail, hist, EditsCounted, Alone
<1>18. OnePending'
  BY <1>16 DEF MarkUndone, At, Rest, Fail, hist, OnePending, Pending, Calm, Busy
<1>19. TempsOK' /\ CapturedOK' /\ ProgressOK'
  BY <1>2, NotCommitting DEF Publishing
<1>20. RestOK'
  BY <1>14, <1>15, <1>16 DEF MarkUndone, disk, RestOK, Pending
<1>21. PendingOK'
  <2>1. Calm' => Calm /\ op.pc # "compswap"
    BY <1>14 DEF MarkUndone, At
  <2>2. UNCHANGED <<man, target, bak>>
    BY DEF MarkUndone, disk
  <2>3. \A t \in Pending : tmp'[t] = tmp[t]
    BY DEF MarkUndone, disk
  <2> QED BY <1>14, <1>15, <1>16, <2>1, <2>2, <2>3, PendingPlain
<1>22. RolledOK'
  BY DEF MarkUndone, Rest, RolledOK, Compensating
<1>23. LeftOK'
  BY <1>1, <1>2, <1>16 DEF MarkUndone, Fail, hist, LeftOK, Pending, OnePending, MemOK, Calm, Busy
<1> QED
  BY <1>6, <1>7, <1>8, <1>9, <1>10, <1>11, <1>12, <1>13, <1>17, <1>18, <1>19, <1>20, <1>21, <1>22, <1>23
  DEF RewindInv, StructureOK

(* compensatePublished passes a file that was never announced or is back   *)
(* already.                                                                *)
LEMMA CompSkipKeeps ==
  ASSUME RewindInv, CompSkip
  PROVE  RewindInv'
<1>1. RTypeOK /\ PlaceOK /\ MemOK /\ ManOK /\ OrderOK /\ OfferOK /\ BakOK /\ SavedOK
  BY DEF RewindInv, StructureOK
<1>2. op.pc = "comp" /\ op'.pc = "comp" /\ op'.t = op.t /\ op'.i = op.i - 1 /\ op'.err = op.err
      /\ op'.startup = op.startup
  BY <1>1 DEF CompSkip, At, CompNext, RTypeOK
<1>3. man \in [Txs -> Manifests] /\ mem \in Manifests /\ op.pc \in Steps
  BY <1>1 DEF RTypeOK
<1>4. mem' = mem /\ mem' \in Manifests
  BY <1>3 DEF CompSkip
<1>5. man' = man /\ man' \in [Txs -> Manifests]
  BY <1>3 DEF CompSkip
<1>6. RTypeOK'
  <2>1. op' \in OpSpace
    <3>1. op' = [pc |-> op'.pc, t |-> op'.t, i |-> op'.i, err |-> op'.err, startup |-> op'.startup]
      BY <1>1 DEF CompSkip, At, CompNext, NoTemp, file, hist, RTypeOK
    <3>2. op'.pc \in Steps /\ op'.t \in 0 .. MaxTx + 1 /\ op'.i \in 0 .. NumFiles + 1
      BY <1>1, <1>2, Consts DEF CompSkip, file, RTypeOK
    <3>3. op'.err \in BOOLEAN /\ op'.startup \in BOOLEAN
      BY <1>1, <1>2 DEF RTypeOK
    <3> QED BY <3>1, <3>2, <3>3, OpMade
  <2>2. /\ target' \in [Files -> Images] /\ bak' \in [Txs -> [Files -> Images]]
        /\ tmp' \in [Txs -> [Files -> Images]] /\ recov' \in [Files -> [Images -> Images]]
    <3>1. "absent" \in Images /\ mem.fwd \in [Files -> Images] /\ mem.rst \in [Files -> Images]
      BY <1>3, ManifestFields DEF Images
    <3> QED BY <1>1, <1>2, <3>1
            DEF CompSkip, At, CompNext, NoTemp, file, hist, RTypeOK, PlaceOK, Busy, Publishing,
                Compensating
  <2>3. /\ shape' \in Shapes /\ user' \in [Files -> Images \cup {"none"}]
        /\ odd' \subseteq {"edit", "split", "overpending"}
    BY <1>1 DEF CompSkip, hist, RTypeOK
  <2>4. lastUndo' \in 0 .. MaxTx /\ edits' \in 0 .. MaxEdits /\ fails' \in 0 .. MaxFails
        /\ crashes' \in 0 .. MaxCrashes
    BY <1>1 DEF CompSkip, hist, RTypeOK
  <2> QED BY <1>4, <1>5, <2>1, <2>2, <2>3, <2>4 DEF RTypeOK, OpSpace
<1>7. PlaceOK'
  BY <1>1, <1>2, Consts DEF CompSkip, file, PlaceOK
<1>8. MemOK'
  BY <1>1, <1>2, <1>4, <1>5 DEF MemOK, Publishing
<1>9. ManOK'
  <2>1. op'.pc \in Busy => WellMadeIn(mem', man, Before)
    BY <1>1, <1>2, <1>4 DEF ManOK, WellMade
  <2>2. UNCHANGED <<shape, man>>
    BY <1>5 DEF CompSkip
  <2> QED BY <1>1, <2>1, <2>2, ManKept
<1>10. OrderOK'
  BY <1>1, <1>2 DEF CompSkip, OrderOK
<1>11. OfferOK'
  BY <1>1 DEF CompSkip, At, OfferOK, Undone
<1>12. BakOK'
  BY <1>1, <1>2 DEF CompSkip, BakOK, Publishing
<1>13. SavedOK'
  BY <1>1 DEF CompSkip, hist, SavedOK, Saved
<1>14. (Calm' => Calm) /\ Alone' \subseteq Alone /\ shape' = shape
  BY DEF CompSkip, hist, Calm, Alone
<1>15. Promised' = Promised
  BY <1>5, <1>14, PromisedSame
<1>16. EditsCounted /\ OnePending /\ TempsOK /\ CapturedOK /\ RestOK /\ PendingOK /\ ProgressOK
       /\ RolledOK /\ LeftOK
  BY DEF RewindInv
<1>17. EditsCounted'
  BY <1>16 DEF CompSkip, hist, EditsCounted, Alone
<1>18. OnePending'
  BY <1>16 DEF CompSkip, At, CompNext, hist, OnePending, Pending, Calm
<1>19. TempsOK' /\ CapturedOK' /\ ProgressOK'
  BY <1>2, NotCommitting DEF Publishing
<1>20. RestOK'
  BY <1>14, <1>15, <1>16 DEF CompSkip, RestOK, Pending
<1>21. PendingOK'
  <2> SUFFICES ASSUME Calm', NEW t \in Pending', NEW x \in Alone'
               PROVE  man'[t].fwd[x] = Promised'[x] /\ FileOK(t, x)'
    BY DEF PendingOK
  <2>1. Calm /\ x \in Alone /\ x \in Files /\ t \in Txs
    BY <1>14 DEF Alone, Pending
  <2>2. t \in Pending /\ man'[t] = man[t] /\ man[t].fwd[x] = Promised[x] /\ FileOK(t, x)
    BY <1>5, <1>16, <2>1 DEF Pending, PendingOK
  <2>3. t = op.t
    BY <1>2, <1>16, <2>1, <2>2 DEF OnePending, Busy, Compensating
  <2>4. CASE x # op.i
    <3>1. target'[x] = target[x] /\ bak'[t][x] = bak[t][x] /\ tmp'[t][x] = tmp[t][x]
      BY <2>4 DEF CompSkip, NoTemp, file
    <3> QED BY <1>15, <2>2, <2>4, <3>1, FileSame
  <2>5. CASE x = op.i
    <3>1. CASE x \in mem.pub
      <4>1. target'[x] = man'[t].fwd[x]
        BY <1>1, <1>2, <2>3, <2>5, <3>1
        DEF CompSkip, NothingToCompensate, file, cur, MemOK, Busy, Compensating
      <4> QED BY <1>15, <2>2, <4>1 DEF FileOK
    <3>2. CASE x \notin mem.pub
      <4>1. man[t].state = "committing" /\ [mem EXCEPT !.state = "prepared"].state = "prepared"
        BY <2>2 DEF Pending
      <4>2. x \notin man[t].pub
        BY <1>1, <1>2, <2>3, <3>2, <4>1 DEF MemOK, Busy, Compensating
      <4>3. target[x] = man[t].fwd[x]
        BY <1>2, <2>2, <4>2 DEF FileOK, InWindow, Published, BeingRolledBack
      <4> QED BY <1>15, <2>2, <4>3 DEF FileOK, CompSkip
    <3> QED BY <3>1, <3>2
  <2> QED BY <2>4, <2>5
<1>22. RolledOK'
  <2>1. ASSUME Calm', NEW x \in Alone', x > op.i - 1, x \in mem.pub
        PROVE  target'[x] = mem.fwd[x] \/ (op'.err /\ fails' > 0)
    <3>1. Calm /\ x \in Alone /\ x \in Files /\ op.i \in Files
      BY <1>1, <1>2, <1>14, <2>1, Consts DEF Alone, PlaceOK, CompSkip, file
    <3>2. CASE x # op.i
      <4>1. x > op.i /\ target'[x] = target[x]
        BY <2>1, <3>1, <3>2, Consts DEF CompSkip
      <4> QED BY <1>2, <1>16, <2>1, <3>1, <4>1 DEF RolledOK, Compensating, CompSkip, hist
    <3>3. CASE x = op.i
      BY <2>1, <3>3 DEF CompSkip, NothingToCompensate, file, cur
    <3> QED BY <3>2, <3>3
  <2>2. op'.err /\ odd' = {} => fails' > 0
    BY <1>2, <1>16 DEF RolledOK, CompSkip, hist
  <2> QED BY <1>2, <1>4, <2>1, <2>2 DEF RolledOK
<1>23. LeftOK'
  BY DEF CompSkip, CompNext, LeftOK, Left
<1> QED
  BY <1>6, <1>7, <1>8, <1>9, <1>10, <1>11, <1>12, <1>13, <1>17, <1>18, <1>19, <1>20, <1>21, <1>22, <1>23
  DEF RewindInv, StructureOK

(* compensatePublished closes the window that publishTarget left.          *)
LEMMA CompWindowKeeps ==
  ASSUME RewindInv, CompWindow
  PROVE  RewindInv'
<1>1. RTypeOK /\ PlaceOK /\ MemOK /\ ManOK /\ OrderOK /\ OfferOK /\ BakOK /\ SavedOK
  BY DEF RewindInv, StructureOK
<1>2. op.pc = "comp" /\ op'.pc = "comp" /\ op'.t = op.t /\ op'.i = op.i - 1 /\ op'.err = op.err
      /\ op'.startup = op.startup
  BY <1>1 DEF CompWindow, At, CompNext, RTypeOK
<1>3. man \in [Txs -> Manifests] /\ mem \in Manifests /\ op.pc \in Steps
  BY <1>1 DEF RTypeOK
<1>4. mem' = mem /\ mem' \in Manifests
  BY <1>3 DEF CompWindow
<1>5. man' = man /\ man' \in [Txs -> Manifests]
  BY <1>3 DEF CompWindow
<1>6. /\ op.t \in Txs /\ op.i \in Files /\ op.i \in mem.pub /\ man[op.t] = mem /\ mem.state = "committing"
      /\ op.t \in Pending
  <2>1. op.t \in Txs /\ op.i \in Files /\ mem.state = "committing"
    BY <1>1, Consts DEF CompWindow, At, file, MemOK, PlaceOK, Busy, Compensating
  <2>2. op.i \in mem.pub
    BY DEF CompWindow, file, NothingToCompensate
  <2>3. man[op.t] = mem
    BY <1>1, <1>2, <2>2 DEF MemOK, Busy, Compensating
  <2> QED BY <2>1, <2>2, <2>3 DEF Pending
<1>7. /\ op.t \in Txs /\ op.i \in Files /\ target[op.i] = "absent" /\ UNCHANGED <<user, recov>>
      /\ target' = [target EXCEPT ![op.i] = bak[op.t][op.i]]
      /\ bak' = [bak EXCEPT ![op.t][op.i] = "absent"]
      /\ tmp' = [tmp EXCEPT ![op.t][op.i] = "absent"]
  BY <1>1, Consts
  DEF CompWindow, OwnedWindow, At, NoTemp, file, cur, backup, hist, PlaceOK, Busy, Compensating
<1>8. RTypeOK'
  <2>1. op' \in OpSpace
    <3>1. op' = [pc |-> op'.pc, t |-> op'.t, i |-> op'.i, err |-> op'.err, startup |-> op'.startup]
      BY <1>1 DEF CompWindow, At, CompNext, NoTemp, file, backup, hist, RTypeOK
    <3>2. op'.pc \in Steps /\ op'.t \in 0 .. MaxTx + 1 /\ op'.i \in 0 .. NumFiles + 1
      BY <1>6, <1>2, Consts DEF Steps
    <3>3. op'.err \in BOOLEAN /\ op'.startup \in BOOLEAN
      BY <1>1, <1>2 DEF RTypeOK
    <3> QED BY <3>1, <3>2, <3>3, OpMade
  <2>2. /\ target' \in [Files -> Images] /\ bak' \in [Txs -> [Files -> Images]]
        /\ tmp' \in [Txs -> [Files -> Images]] /\ recov' \in [Files -> [Images -> Images]]
    <3>1. "absent" \in Images /\ bak[op.t][op.i] \in Images
      BY <1>1, <1>7 DEF RTypeOK
    <3> QED BY <1>1, <1>7 DEF RTypeOK
  <2>3. /\ shape' \in Shapes /\ user' \in [Files -> Images \cup {"none"}]
        /\ odd' \subseteq {"edit", "split", "overpending"}
    BY <1>1 DEF CompWindow, hist, RTypeOK
  <2>4. lastUndo' \in 0 .. MaxTx /\ edits' \in 0 .. MaxEdits /\ fails' \in 0 .. MaxFails
        /\ crashes' \in 0 .. MaxCrashes
    BY <1>1 DEF CompWindow, hist, RTypeOK
  <2> QED BY <1>4, <1>5, <2>1, <2>2, <2>3, <2>4 DEF RTypeOK, OpSpace
<1>9. PlaceOK'
  BY <1>6, <1>1, Consts DEF CompWindow, At, CompNext, RTypeOK, PlaceOK
<1>10. MemOK'
  BY <1>1, <1>2, <1>4, <1>5 DEF MemOK, Publishing
<1>11. ManOK'
  <2>1. op'.pc \in Busy => WellMadeIn(mem', man, Before)
    BY <1>1, <1>2, <1>4 DEF ManOK, WellMade
  <2>2. UNCHANGED <<shape, man>>
    BY <1>5 DEF CompWindow
  <2> QED BY <1>1, <2>1, <2>2, ManKept
<1>12. OrderOK'
  BY <1>1, <1>2 DEF CompWindow, OrderOK
<1>13. OfferOK'
  BY <1>1 DEF CompWindow, At, OfferOK, Undone
<1>14. BakOK'
  BY <1>1 DEF CompWindow, CompNext, BakOK, Publishing
<1>15. SavedOK'
  <2> SUFFICES ASSUME NEW x \in Files, user[x] = "ext" PROVE Saved(x)'
    BY <1>7 DEF SavedOK
  <2>1. Saved(x)
    BY <1>1 DEF SavedOK
  <2>2. CASE x # op.i
    <3>1. target'[x] = target[x] /\ \A t \in Txs : bak'[t][x] = bak[t][x]
      BY <1>7, <2>2
    <3> QED BY <1>5, <2>1, <3>1 DEF Saved
  <2>3. CASE x = op.i
    <3>1. target'[x] = bak[op.t][x] /\ \A t \in Txs : t # op.t => bak'[t][x] = bak[t][x]
      BY <1>1, <1>7, <2>3 DEF RTypeOK
    <3> QED BY <1>5, <1>7, <2>1, <3>1 DEF Saved
  <2> QED BY <2>2, <2>3
<1>16. (Calm' => Calm) /\ Alone' \subseteq Alone /\ shape' = shape
  BY DEF CompWindow, hist, Calm, Alone
<1>17. Promised' = Promised
  BY <1>5, <1>16, PromisedSame
<1>18. EditsCounted /\ OnePending /\ TempsOK /\ CapturedOK /\ RestOK /\ PendingOK /\ ProgressOK
       /\ RolledOK /\ LeftOK
  BY DEF RewindInv
<1>19. EditsCounted'
  BY <1>18 DEF CompWindow, hist, EditsCounted, Alone
<1>20. OnePending'
  BY <1>18 DEF CompWindow, At, CompNext, hist, OnePending, Pending, Calm
<1>21. TempsOK' /\ CapturedOK' /\ ProgressOK'
  BY <1>2, NotCommitting DEF Publishing
<1>22. RestOK'
  BY <1>6 DEF CompWindow, RestOK, Pending
<1>23. PendingOK'
  <2> SUFFICES ASSUME Calm', NEW t \in Pending', NEW x \in Alone'
               PROVE  man'[t].fwd[x] = Promised'[x] /\ FileOK(t, x)'
    BY DEF PendingOK
  <2>1. Calm /\ x \in Alone /\ x \in Files /\ t \in Txs
    BY <1>16 DEF Alone, Pending
  <2>2. t \in Pending /\ man'[t] = man[t] /\ man[t].fwd[x] = Promised[x] /\ FileOK(t, x)
    BY <1>5, <1>18, <2>1 DEF Pending, PendingOK
  <2>3. t = op.t
    BY <1>2, <1>18, <2>1, <2>2 DEF OnePending, Busy, Compensating
  <2>4. CASE x # op.i
    <3>1. target'[x] = target[x] /\ bak'[t][x] = bak[t][x] /\ tmp'[t][x] = tmp[t][x]
      BY <2>4 DEF CompWindow, NoTemp, file
    <3> QED BY <1>17, <2>2, <2>4, <3>1, FileSame
  <2>5. CASE x = op.i
    <3>1. target'[x] = man'[t].fwd[x]
      BY <1>1, <1>6, <2>3, <2>5 DEF CompWindow, OwnedWindow, file, RTypeOK
    <3> QED BY <1>17, <2>2, <3>1 DEF FileOK
  <2> QED BY <2>4, <2>5
<1>24. RolledOK'
  <2>1. ASSUME Calm', NEW x \in Alone', x > op.i - 1, x \in mem.pub
        PROVE  target'[x] = mem.fwd[x] \/ (op'.err /\ fails' > 0)
    <3>1. Calm /\ x \in Alone /\ x \in Files /\ op.i \in Files
      BY <1>1, <1>2, <1>16, <2>1, Consts DEF Alone, PlaceOK, CompWindow, file
    <3>2. CASE x # op.i
      <4>1. x > op.i /\ target'[x] = target[x]
        BY <2>1, <3>1, <3>2, Consts DEF CompWindow, file
      <4> QED BY <1>2, <1>18, <2>1, <3>1, <4>1 DEF RolledOK, Compensating, CompWindow, hist
    <3>3. CASE x = op.i
      BY <1>1, <1>7, <3>3 DEF CompWindow, OwnedWindow, file, RTypeOK
    <3> QED BY <3>2, <3>3
  <2>2. op'.err /\ odd' = {} => fails' > 0
    BY <1>2, <1>18 DEF RolledOK, CompWindow, hist
  <2> QED BY <1>2, <1>4, <2>1, <2>2 DEF RolledOK
<1>25. LeftOK'
  BY DEF CompWindow, CompNext, LeftOK, Left
<1> QED
  BY <1>8, <1>9, <1>10, <1>11, <1>12, <1>13, <1>14, <1>15, <1>19, <1>20, <1>21, <1>22, <1>23, <1>24, <1>25
  DEF RewindInv, StructureOK

(* A file of the user's stays; only a recovery copy is written.            *)
LEMMA CompForeignKeeps ==
  ASSUME RewindInv, CompForeign
  PROVE  RewindInv'
<1>1. RTypeOK /\ PlaceOK /\ MemOK /\ ManOK /\ OrderOK /\ OfferOK /\ BakOK /\ SavedOK
  BY DEF RewindInv, StructureOK
<1>2. op.pc = "comp" /\ op'.pc = "comp" /\ op'.t = op.t /\ op'.i = op.i - 1 /\ op'.err = TRUE
      /\ op'.startup = op.startup
  BY <1>1, Consts
  DEF CompForeign, At, CompNext, file, cur, hist, RTypeOK, PlaceOK, Busy, Publishing, Compensating
<1>3. man \in [Txs -> Manifests] /\ mem \in Manifests /\ op.pc \in Steps
  BY <1>1 DEF RTypeOK
<1>4. mem' = mem /\ mem' \in Manifests
  BY <1>3 DEF CompForeign
<1>5. man' = man /\ man' \in [Txs -> Manifests]
  BY <1>3 DEF CompForeign
<1>6. /\ op.t \in Txs /\ op.i \in Files /\ op.i \in mem.pub /\ man[op.t] = mem /\ mem.state = "committing"
      /\ op.t \in Pending
  <2>1. op.t \in Txs /\ op.i \in Files /\ mem.state = "committing"
    BY <1>1, Consts DEF CompForeign, At, file, MemOK, PlaceOK, Busy, Compensating
  <2>2. op.i \in mem.pub
    BY DEF CompForeign, file, NothingToCompensate
  <2>3. man[op.t] = mem
    BY <1>1, <1>2, <2>2 DEF MemOK, Busy, Compensating
  <2> QED BY <2>1, <2>2, <2>3 DEF Pending
<1>7. RTypeOK'
  <2>1. op' \in OpSpace
    <3>1. op' = [pc |-> op'.pc, t |-> op'.t, i |-> op'.i, err |-> op'.err, startup |-> op'.startup]
      BY <1>1 DEF CompForeign, At, CompNext, file, cur, hist, RTypeOK
    <3>2. op'.pc \in Steps /\ op'.t \in 0 .. MaxTx + 1 /\ op'.i \in 0 .. NumFiles + 1
      BY <1>6, <1>2, Consts DEF Steps
    <3>3. op'.err \in BOOLEAN /\ op'.startup \in BOOLEAN
      BY <1>1, <1>2 DEF RTypeOK
    <3> QED BY <3>1, <3>2, <3>3, OpMade
  <2>2. /\ target' \in [Files -> Images] /\ bak' \in [Txs -> [Files -> Images]]
        /\ tmp' \in [Txs -> [Files -> Images]] /\ recov' \in [Files -> [Images -> Images]]
    <3>1. "absent" \in Images /\ mem.fwd \in [Files -> Images] /\ mem.rst \in [Files -> Images]
      BY <1>3, ManifestFields DEF Images
    <3>2. file \in Files
      BY <1>1, <1>2, Consts DEF CompForeign, PlaceOK, file, Compensating
    <3>3. recov' \in [Files -> [Images -> Images]]
      <4>1. recov \in [Files -> [Images -> Images]] /\ mem.fwd[file] \in Images /\ mem.rst[file] \in Images
        BY <1>1, <3>1, <3>2 DEF RTypeOK
      <4>2. [recov EXCEPT ![file][mem.rst[file]] = mem.fwd[file]] \in [Files -> [Images -> Images]]
        BY <3>2, <4>1
      <4> QED BY <4>1, <4>2 DEF CompForeign
    <3> QED BY <1>1, <3>3 DEF CompForeign, RTypeOK
  <2>3. /\ shape' \in Shapes /\ user' \in [Files -> Images \cup {"none"}]
        /\ odd' \subseteq {"edit", "split", "overpending"}
    BY <1>1 DEF CompForeign, hist, RTypeOK
  <2>4. lastUndo' \in 0 .. MaxTx /\ edits' \in 0 .. MaxEdits /\ fails' \in 0 .. MaxFails
        /\ crashes' \in 0 .. MaxCrashes
    BY <1>1 DEF CompForeign, hist, RTypeOK
  <2> QED BY <1>4, <1>5, <2>1, <2>2, <2>3, <2>4 DEF RTypeOK, OpSpace
<1>8. PlaceOK'
  BY <1>1, Consts DEF CompForeign, At, CompNext, file, PlaceOK, Compensating
<1>9. MemOK'
  BY <1>6, <1>2, <1>4, <1>5 DEF MemOK, Publishing
<1>10. ManOK'
  <2>1. op'.pc \in Busy => WellMadeIn(mem', man, Before)
    BY <1>1, <1>2, <1>4 DEF ManOK, WellMade
  <2>2. UNCHANGED <<shape, man>>
    BY <1>5 DEF CompForeign
  <2> QED BY <1>1, <2>1, <2>2, ManKept
<1>11. OrderOK'
  BY <1>1, <1>2 DEF CompForeign, OrderOK
<1>12. OfferOK'
  BY <1>1 DEF CompForeign, At, OfferOK, Undone
<1>13. BakOK'
  BY <1>1 DEF CompForeign, CompNext, BakOK, Publishing
<1>14. SavedOK'
  BY <1>1 DEF CompForeign, hist, SavedOK, Saved
<1>15. (Calm' => Calm) /\ Alone' \subseteq Alone /\ shape' = shape
  BY DEF CompForeign, hist, Calm, Alone
<1>16. Promised' = Promised
  BY <1>5, <1>15, PromisedSame
<1>17. EditsCounted /\ OnePending /\ TempsOK /\ CapturedOK /\ RestOK /\ PendingOK /\ ProgressOK
       /\ RolledOK /\ LeftOK
  BY DEF RewindInv
<1>18. EditsCounted'
  BY <1>17 DEF CompForeign, hist, EditsCounted, Alone
<1>19. OnePending'
  BY <1>17 DEF CompForeign, At, CompNext, hist, OnePending, Pending, Calm
<1>20. TempsOK' /\ CapturedOK' /\ ProgressOK'
  BY <1>2, NotCommitting DEF Publishing
<1>21. RestOK'
  BY <1>15, <1>16, <1>17 DEF CompForeign, RestOK, Pending
<1>22. PendingOK'
  <2>1. Calm' => Calm /\ op.pc # "compswap"
    BY <1>15 DEF CompForeign, At
  <2>2. UNCHANGED <<man, target, bak>>
    BY DEF CompForeign
  <2>3. \A t \in Pending : tmp'[t] = tmp[t]
    BY DEF CompForeign
  <2> QED BY <1>15, <1>16, <1>17, <2>1, <2>2, <2>3, PendingPlain
<1>23. RolledOK'
  <2>1. Calm => op.i \notin Alone
    <3> SUFFICES ASSUME Calm, op.i \in Alone PROVE FALSE
      OBVIOUS
    <3>1. FileOK(op.t, op.i)
      BY <1>17, <1>6 DEF PendingOK
    <3> QED BY <1>2, <1>6, <3>1
            DEF CompForeign, NothingToCompensate, OwnedWindow, file, cur, backup, FileOK, InWindow,
                Published, BeingRolledBack
  <2>2. ASSUME Calm', NEW x \in Alone', x > op.i - 1, x \in mem.pub
        PROVE  target'[x] = mem.fwd[x] \/ (op'.err /\ fails' > 0)
    <3>1. Calm /\ x \in Alone /\ x \in Files /\ op.i \in Files
      BY <1>1, <1>2, <1>15, <2>2, Consts DEF Alone, PlaceOK, CompForeign, file
    <3>2. CASE x # op.i
      <4>1. x > op.i /\ target'[x] = target[x]
        BY <2>2, <3>1, <3>2, Consts DEF CompForeign
      <4> QED BY <1>2, <1>17, <2>2, <3>1, <4>1 DEF RolledOK, Compensating, CompForeign, hist
    <3>3. CASE x = op.i
      BY <2>1, <3>1, <3>3
    <3> QED BY <3>2, <3>3
  <2>3. op'.err /\ odd' = {} => fails' > 0
    <3>1. odd' = odd
      BY DEF CompForeign, hist
    <3>2. odd = {} => Calm /\ op.i \in Alone
      BY <1>17, <1>6 DEF EditsCounted, Calm
    <3> QED BY <2>1, <3>1, <3>2
  <2> QED BY <1>2, <1>4, <2>2, <2>3 DEF RolledOK
<1>24. LeftOK'
  BY DEF CompForeign, CompNext, LeftOK, Left
<1> QED
  BY <1>7, <1>8, <1>9, <1>10, <1>11, <1>12, <1>13, <1>14, <1>18, <1>19, <1>20, <1>21, <1>22, <1>23, <1>24
  DEF RewindInv, StructureOK

(* The published image of a file that did not exist before is removed.     *)
LEMMA CompRemoveLastKeeps ==
  ASSUME RewindInv, CompRemove, mem.fwd[op.i] = "absent"
  PROVE  RewindInv'
<1>1. RTypeOK /\ PlaceOK /\ MemOK /\ ManOK /\ OrderOK /\ OfferOK /\ BakOK /\ SavedOK
  BY DEF RewindInv, StructureOK
<1>2. CompNext(FALSE)
  BY DEF CompRemove, file
<1>3. op.pc = "comp" /\ op'.pc = "comp" /\ op'.t = op.t /\ op'.i = op.i - 1 /\ op'.err = op.err
      /\ op'.startup = op.startup
  BY <1>2, <1>1 DEF CompRemove, At, CompNext, RTypeOK
<1>4. man \in [Txs -> Manifests] /\ mem \in Manifests /\ op.pc \in Steps
  BY <1>1 DEF RTypeOK
<1>5. mem' = mem /\ mem' \in Manifests
  BY <1>4 DEF CompRemove
<1>6. man' = man /\ man' \in [Txs -> Manifests]
  BY <1>4 DEF CompRemove
<1>7. /\ op.t \in Txs /\ op.i \in Files /\ op.i \in mem.pub /\ man[op.t] = mem /\ mem.state = "committing"
      /\ op.t \in Pending
  <2>1. op.t \in Txs /\ op.i \in Files /\ mem.state = "committing"
    BY <1>1, Consts DEF CompRemove, At, file, MemOK, PlaceOK, Busy, Compensating
  <2>2. op.i \in mem.pub
    BY DEF CompRemove, file, NothingToCompensate
  <2>3. man[op.t] = mem
    BY <1>1, <1>3, <2>2 DEF MemOK, Busy, Compensating
  <2> QED BY <2>1, <2>2, <2>3 DEF Pending
<1>8. /\ op.i \in Files /\ target[op.i] = mem.rst[op.i] /\ UNCHANGED <<user, bak>>
      /\ target' = [target EXCEPT ![op.i] = "absent"]
  BY <1>1, Consts DEF CompRemove, At, file, cur, hist, PlaceOK
<1>9. RTypeOK'
  <2>1. op' \in OpSpace
    <3>1. op' = [pc |-> op'.pc, t |-> op'.t, i |-> op'.i, err |-> op'.err, startup |-> op'.startup]
      BY <1>1 DEF CompRemove, CompNext, file, RTypeOK
    <3>2. op'.pc \in Steps /\ op'.t \in 0 .. MaxTx + 1 /\ op'.i \in 0 .. NumFiles + 1
      BY <1>7, <1>3, Consts DEF Steps
    <3>3. op'.err \in BOOLEAN /\ op'.startup \in BOOLEAN
      BY <1>1, <1>3 DEF RTypeOK
    <3> QED BY <3>1, <3>2, <3>3, OpMade
  <2>2. /\ target' \in [Files -> Images] /\ bak' \in [Txs -> [Files -> Images]]
        /\ tmp' \in [Txs -> [Files -> Images]] /\ recov' \in [Files -> [Images -> Images]]
    <3>1. "absent" \in Images /\ mem.fwd \in [Files -> Images] /\ mem.rst \in [Files -> Images]
      BY <1>4, ManifestFields DEF Images
    <3> QED BY <1>1, <1>3, <3>1
            DEF CompRemove, At, Goto, CompNext, file, cur, hist, RTypeOK, PlaceOK, Busy, Publishing,
                Compensating
  <2>3. /\ shape' \in Shapes /\ user' \in [Files -> Images \cup {"none"}]
        /\ odd' \subseteq {"edit", "split", "overpending"}
    BY <1>1 DEF CompRemove, hist, RTypeOK
  <2>4. lastUndo' \in 0 .. MaxTx /\ edits' \in 0 .. MaxEdits /\ fails' \in 0 .. MaxFails
        /\ crashes' \in 0 .. MaxCrashes
    BY <1>1 DEF CompRemove, hist, RTypeOK
  <2> QED BY <1>5, <1>6, <2>1, <2>2, <2>3, <2>4 DEF RTypeOK, OpSpace
<1>10. PlaceOK'
  BY <1>7, <1>1, <1>3, Consts DEF PlaceOK
<1>11. MemOK'
  BY <1>1, <1>3, <1>5, <1>6 DEF MemOK, Publishing
<1>12. ManOK'
  <2>1. op'.pc \in Busy => WellMadeIn(mem', man, Before)
    BY <1>1, <1>3, <1>5 DEF ManOK, WellMade
  <2>2. UNCHANGED <<shape, man>>
    BY <1>6 DEF CompRemove
  <2> QED BY <1>1, <2>1, <2>2, ManKept
<1>13. OrderOK'
  BY <1>1, <1>3 DEF CompRemove, OrderOK
<1>14. OfferOK'
  BY <1>1 DEF CompRemove, At, OfferOK, Undone
<1>15. BakOK'
  BY <1>1, <1>3 DEF CompRemove, BakOK, Publishing
<1>16. SavedOK'
  <2> SUFFICES ASSUME NEW x \in Files, user[x] = "ext" PROVE Saved(x)'
    BY <1>8 DEF SavedOK
  <2>1. Saved(x)
    BY <1>1 DEF SavedOK
  <2>2. CASE x # op.i \/ target[x] # "ext"
    <3>1. target[x] = "ext" => target'[x] = "ext"
      BY <1>8, <2>2
    <3> QED BY <1>6, <1>8, <2>1, <3>1 DEF Saved
  <2>3. CASE x = op.i /\ target[x] = "ext"
    <3>1. WellMadeIn(mem, man, Before) /\ mem.rst[x] = "ext"
      BY <1>1, <1>3, <1>8, <2>3 DEF ManOK, WellMade, Busy, Compensating
    <3>2. mem.parent \in Txs /\ man[mem.parent].fwd[x] = "ext"
      BY <3>1, BeforeFacts DEF WellMadeIn
    <3> QED BY <1>6, <3>2 DEF Saved
  <2> QED BY <2>2, <2>3
<1>17. (Calm' => Calm) /\ Alone' \subseteq Alone /\ shape' = shape
  BY DEF CompRemove, hist, Calm, Alone
<1>18. Promised' = Promised
  BY <1>6, <1>17, PromisedSame
<1>19. EditsCounted /\ OnePending /\ TempsOK /\ CapturedOK /\ RestOK /\ PendingOK /\ ProgressOK
       /\ RolledOK /\ LeftOK
  BY DEF RewindInv
<1>20. EditsCounted'
  BY <1>19 DEF CompRemove, hist, EditsCounted, Alone
<1>21. OnePending'
  BY <1>3, <1>19 DEF CompRemove, hist, OnePending, Pending, Calm
<1>22. TempsOK' /\ CapturedOK' /\ ProgressOK'
  BY <1>3, NotCommitting DEF Publishing
<1>23. RestOK'
  BY <1>7 DEF CompRemove, RestOK, Pending
<1>24. PendingOK'
  <2> SUFFICES ASSUME Calm', NEW t \in Pending', NEW x \in Alone'
               PROVE  man'[t].fwd[x] = Promised'[x] /\ FileOK(t, x)'
    BY DEF PendingOK
  <2>1. Calm /\ x \in Alone /\ x \in Files /\ t \in Txs
    BY <1>17 DEF Alone, Pending
  <2>2. t \in Pending /\ man'[t] = man[t] /\ man[t].fwd[x] = Promised[x] /\ FileOK(t, x)
    BY <1>6, <1>19, <2>1 DEF Pending, PendingOK
  <2>3. t = op.t
    BY <1>3, <1>19, <2>1, <2>2 DEF OnePending, Busy, Compensating
  <2>4. CASE x # op.i
    <3>1. target'[x] = target[x] /\ bak'[t][x] = bak[t][x] /\ tmp'[t][x] = tmp[t][x]
      BY <2>4 DEF CompRemove, file
    <3> QED BY <1>18, <2>2, <2>4, <3>1, FileSame
  <2>5. CASE x = op.i
    <3>1. target'[x] = man'[t].fwd[x]
      BY <1>1, <1>8, <1>7, <2>2, <2>3, <2>5 DEF RTypeOK
    <3> QED BY <1>18, <2>2, <3>1 DEF FileOK
  <2> QED BY <2>4, <2>5
<1>25. RolledOK'
  BY <1>1, <1>3, <1>17, <1>19, Consts DEF CompRemove, file, hist, RolledOK, RTypeOK, Alone
<1>26. LeftOK'
  BY <1>3 DEF LeftOK, Left
<1> QED
  BY <1>9, <1>10, <1>11, <1>12, <1>13, <1>14, <1>15, <1>16, <1>20, <1>21, <1>22, <1>23, <1>24, <1>25, <1>26
  DEF RewindInv, StructureOK

(* The published image is removed; its predecessor is still in the backup  *)
(* or the manifest.                                                        *)
LEMMA CompRemoveFirstKeeps ==
  ASSUME RewindInv, CompRemove, mem.fwd[op.i] # "absent"
  PROVE  RewindInv'
<1>1. RTypeOK /\ PlaceOK /\ MemOK /\ ManOK /\ OrderOK /\ OfferOK /\ BakOK /\ SavedOK
  BY DEF RewindInv, StructureOK
<1>2. op.pc = "comp" /\ op'.pc = "compswap" /\ op'.t = op.t /\ op'.i = op.i /\ op'.err = op.err
      /\ op'.startup = op.startup
  BY <1>1, Consts
  DEF CompRemove, At, Goto, CompNext, file, cur, hist, RTypeOK, PlaceOK, Busy, Publishing, Compensating
<1>3. man \in [Txs -> Manifests] /\ mem \in Manifests /\ op.pc \in Steps
  BY <1>1 DEF RTypeOK
<1>4. mem' = mem /\ mem' \in Manifests
  BY <1>3 DEF CompRemove
<1>5. man' = man /\ man' \in [Txs -> Manifests]
  BY <1>3 DEF CompRemove
<1>6. /\ op.t \in Txs /\ op.i \in Files /\ op.i \in mem.pub /\ man[op.t] = mem /\ mem.state = "committing"
      /\ op.t \in Pending
  <2>1. op.t \in Txs /\ op.i \in Files /\ mem.state = "committing"
    BY <1>1, Consts DEF CompRemove, At, file, MemOK, PlaceOK, Busy, Compensating
  <2>2. op.i \in mem.pub
    BY DEF CompRemove, file, NothingToCompensate
  <2>3. man[op.t] = mem
    BY <1>1, <1>2, <2>2 DEF MemOK, Busy, Compensating
  <2> QED BY <2>1, <2>2, <2>3 DEF Pending
<1>7. /\ op.i \in Files /\ target[op.i] = mem.rst[op.i] /\ UNCHANGED <<user, bak>>
      /\ target' = [target EXCEPT ![op.i] = "absent"]
  BY <1>1, Consts DEF CompRemove, At, file, cur, hist, PlaceOK
<1>8. RTypeOK'
  <2>1. op' \in OpSpace
    <3>1. op' = [pc |-> op'.pc, t |-> op'.t, i |-> op'.i, err |-> op'.err, startup |-> op'.startup]
      BY <1>1 DEF CompRemove, Goto, file, RTypeOK
    <3>2. op'.pc \in Steps /\ op'.t \in 0 .. MaxTx + 1 /\ op'.i \in 0 .. NumFiles + 1
      BY <1>6, <1>2, Consts DEF Steps
    <3>3. op'.err \in BOOLEAN /\ op'.startup \in BOOLEAN
      BY <1>1, <1>2 DEF RTypeOK
    <3> QED BY <3>1, <3>2, <3>3, OpMade
  <2>2. /\ target' \in [Files -> Images] /\ bak' \in [Txs -> [Files -> Images]]
        /\ tmp' \in [Txs -> [Files -> Images]] /\ recov' \in [Files -> [Images -> Images]]
    <3>1. "absent" \in Images /\ mem.fwd \in [Files -> Images] /\ mem.rst \in [Files -> Images]
      BY <1>3, ManifestFields DEF Images
    <3> QED BY <1>1, <1>2, <3>1
            DEF CompRemove, At, Goto, CompNext, file, cur, hist, RTypeOK, PlaceOK, Busy, Publishing,
                Compensating
  <2>3. /\ shape' \in Shapes /\ user' \in [Files -> Images \cup {"none"}]
        /\ odd' \subseteq {"edit", "split", "overpending"}
    BY <1>1 DEF CompRemove, hist, RTypeOK
  <2>4. lastUndo' \in 0 .. MaxTx /\ edits' \in 0 .. MaxEdits /\ fails' \in 0 .. MaxFails
        /\ crashes' \in 0 .. MaxCrashes
    BY <1>1 DEF CompRemove, hist, RTypeOK
  <2> QED BY <1>4, <1>5, <2>1, <2>2, <2>3, <2>4 DEF RTypeOK, OpSpace
<1>9. PlaceOK'
  BY <1>6, <1>2 DEF PlaceOK, Compensating
<1>10. MemOK'
  BY <1>6, <1>2, <1>4, <1>5 DEF MemOK, Publishing
<1>11. ManOK'
  <2>1. op'.pc \in Busy => WellMadeIn(mem', man, Before)
    BY <1>6, <1>1, <1>4 DEF ManOK, WellMade
  <2>2. UNCHANGED <<shape, man>>
    BY <1>5 DEF CompRemove
  <2> QED BY <1>1, <2>1, <2>2, ManKept
<1>12. OrderOK'
  BY <1>1, <1>2 DEF CompRemove, OrderOK, Busy, Compensating
<1>13. OfferOK'
  BY <1>1 DEF CompRemove, At, OfferOK, Undone
<1>14. BakOK'
  BY <1>6, <1>1, <1>2 DEF CompRemove, file, BakOK, RTypeOK, Publishing
<1>15. SavedOK'
  <2> SUFFICES ASSUME NEW x \in Files, user[x] = "ext" PROVE Saved(x)'
    BY <1>7 DEF SavedOK
  <2>1. Saved(x)
    BY <1>1 DEF SavedOK
  <2>2. CASE x # op.i \/ target[x] # "ext"
    <3>1. target[x] = "ext" => target'[x] = "ext"
      BY <1>7, <2>2
    <3> QED BY <1>5, <1>7, <2>1, <3>1 DEF Saved
  <2>3. CASE x = op.i /\ target[x] = "ext"
    <3>1. WellMadeIn(mem, man, Before) /\ mem.rst[x] = "ext"
      BY <1>1, <1>2, <1>7, <2>3 DEF ManOK, WellMade, Busy, Compensating
    <3>2. mem.parent \in Txs /\ man[mem.parent].fwd[x] = "ext"
      BY <3>1, BeforeFacts DEF WellMadeIn
    <3> QED BY <1>5, <3>2 DEF Saved
  <2> QED BY <2>2, <2>3
<1>16. (Calm' => Calm) /\ Alone' \subseteq Alone /\ shape' = shape
  BY DEF CompRemove, hist, Calm, Alone
<1>17. Promised' = Promised
  BY <1>5, <1>16, PromisedSame
<1>18. EditsCounted /\ OnePending /\ TempsOK /\ CapturedOK /\ RestOK /\ PendingOK /\ ProgressOK
       /\ RolledOK /\ LeftOK
  BY DEF RewindInv
<1>19. EditsCounted'
  BY <1>18 DEF CompRemove, hist, EditsCounted, Alone
<1>20. OnePending'
  BY <1>6, <1>2, <1>18 DEF CompRemove, hist, OnePending, Pending, Calm
<1>21. TempsOK' /\ CapturedOK' /\ ProgressOK'
  BY <1>2, NotCommitting DEF Publishing
<1>22. RestOK'
  BY <1>6 DEF CompRemove, RestOK, Pending
<1>23. PendingOK'
  <2> SUFFICES ASSUME Calm', NEW t \in Pending', NEW x \in Alone'
               PROVE  man'[t].fwd[x] = Promised'[x] /\ FileOK(t, x)'
    BY DEF PendingOK
  <2>1. Calm /\ x \in Alone /\ x \in Files /\ t \in Txs
    BY <1>16 DEF Alone, Pending
  <2>2. t \in Pending /\ man'[t] = man[t] /\ man[t].fwd[x] = Promised[x] /\ FileOK(t, x)
    BY <1>5, <1>18, <2>1 DEF Pending, PendingOK
  <2>3. t = op.t
    BY <1>2, <1>18, <2>1, <2>2 DEF OnePending, Busy, Compensating
  <2>4. CASE x # op.i
    <3>1. target'[x] = target[x] /\ bak'[t][x] = bak[t][x] /\ tmp'[t][x] = tmp[t][x]
      BY <2>4 DEF CompRemove, file
    <3> QED BY <1>17, <2>2, <2>4, <3>1, FileSame
  <2>5. CASE x = op.i
    <3>1. Published(t, x)
      BY <1>2, <1>6, <2>2, <2>3, <2>5
      DEF CompRemove, NothingToCompensate, OwnedWindow, file, cur, backup, FileOK, InWindow,
          BeingRolledBack
    <3>2. bak'[t][x] = man'[t].fwd[x]
      BY <1>7, <2>2, <3>1 DEF Published
    <3> QED BY <1>2, <1>17, <2>2, <2>3, <2>5, <3>2 DEF FileOK, BeingRolledBack
  <2> QED BY <2>4, <2>5
<1>24. RolledOK'
  BY <1>2, <1>16, <1>18, Consts DEF CompRemove, file, hist, RolledOK, Alone, Publishing, Compensating
<1>25. LeftOK'
  BY <1>2 DEF LeftOK, Left
<1> QED
  BY <1>8, <1>9, <1>10, <1>11, <1>12, <1>13, <1>14, <1>15, <1>19, <1>20, <1>21, <1>22, <1>23, <1>24, <1>25
  DEF RewindInv, StructureOK

(* The backup or the stored forward image takes its place again.           *)
LEMMA CompSwapKeeps ==
  ASSUME RewindInv, CompSwap
  PROVE  RewindInv'
<1>1. RTypeOK /\ PlaceOK /\ MemOK /\ ManOK /\ OrderOK /\ OfferOK /\ BakOK /\ SavedOK
  BY DEF RewindInv, StructureOK
<1>2. op.pc = "compswap" /\ op'.pc = "comp" /\ op'.t = op.t /\ op'.i = op.i - 1 /\ op'.err = op.err
      /\ op'.startup = op.startup
  BY <1>1 DEF CompSwap, At, CompNext, RTypeOK
<1>3. man \in [Txs -> Manifests] /\ mem \in Manifests /\ op.pc \in Steps
  BY <1>1 DEF RTypeOK
<1>4. mem' = mem /\ mem' \in Manifests
  BY <1>3 DEF CompSwap
<1>5. man' = man /\ man' \in [Txs -> Manifests]
  BY <1>3 DEF CompSwap
<1>6. /\ op.t \in Txs /\ op.i \in Files /\ op.i \in mem.pub /\ man[op.t] = mem /\ mem.state = "committing"
      /\ op.t \in Pending
  <2>1. op.t \in Txs /\ op.i \in Files /\ mem.state = "committing"
    BY <1>1, <1>2 DEF MemOK, PlaceOK, Busy, Compensating
  <2>2. op.i \in mem.pub
    BY <1>1, <1>2 DEF MemOK
  <2>3. man[op.t] = mem
    BY <1>1, <1>2 DEF MemOK, Busy, Compensating
  <2> QED BY <2>1, <2>2, <2>3 DEF Pending
<1>7. RTypeOK'
  <2>1. op' \in OpSpace
    <3>1. op' = [pc |-> op'.pc, t |-> op'.t, i |-> op'.i, err |-> op'.err, startup |-> op'.startup]
      BY <1>1 DEF CompSwap, At, CompNext, file, backup, hist, RTypeOK
    <3>2. op'.pc \in Steps /\ op'.t \in 0 .. MaxTx + 1 /\ op'.i \in 0 .. NumFiles + 1
      BY <1>6, <1>2, Consts DEF Steps
    <3>3. op'.err \in BOOLEAN /\ op'.startup \in BOOLEAN
      BY <1>1, <1>2 DEF RTypeOK
    <3> QED BY <3>1, <3>2, <3>3, OpMade
  <2>2. /\ target' \in [Files -> Images] /\ bak' \in [Txs -> [Files -> Images]]
        /\ tmp' \in [Txs -> [Files -> Images]] /\ recov' \in [Files -> [Images -> Images]]
    <3>1. "absent" \in Images /\ mem.fwd \in [Files -> Images] /\ mem.rst \in [Files -> Images]
      BY <1>3, ManifestFields DEF Images
    <3> QED BY <1>1, <1>2, <3>1 DEF CompSwap, file, backup, RTypeOK, PlaceOK, Busy, Compensating
  <2>3. /\ shape' \in Shapes /\ user' \in [Files -> Images \cup {"none"}]
        /\ odd' \subseteq {"edit", "split", "overpending"}
    BY <1>1 DEF CompSwap, hist, RTypeOK
  <2>4. lastUndo' \in 0 .. MaxTx /\ edits' \in 0 .. MaxEdits /\ fails' \in 0 .. MaxFails
        /\ crashes' \in 0 .. MaxCrashes
    BY <1>1 DEF CompSwap, hist, RTypeOK
  <2> QED BY <1>4, <1>5, <2>1, <2>2, <2>3, <2>4 DEF RTypeOK, OpSpace
<1>8. PlaceOK'
  BY <1>6, Consts DEF CompSwap, CompNext, PlaceOK, Compensating
<1>9. MemOK'
  BY <1>6, <1>2, <1>4, <1>5 DEF MemOK, Publishing
<1>10. ManOK'
  <2>1. op'.pc \in Busy => WellMadeIn(mem', man, Before)
    BY <1>6, <1>1, <1>4 DEF ManOK, WellMade
  <2>2. UNCHANGED <<shape, man>>
    BY <1>5 DEF CompSwap
  <2> QED BY <1>1, <2>1, <2>2, ManKept
<1>11. OrderOK'
  BY <1>1, <1>2 DEF CompSwap, OrderOK, Busy, Compensating
<1>12. OfferOK'
  BY <1>1 DEF CompSwap, At, OfferOK, Undone
<1>13. BakOK'
  BY <1>1 DEF CompSwap, CompNext, BakOK, Publishing
<1>14. SavedOK'
  BY <1>1 DEF CompSwap, At, file, backup, hist, SavedOK, Saved, BakOK, RTypeOK
<1>15. (Calm' => Calm) /\ Alone' \subseteq Alone /\ shape' = shape
  BY DEF CompSwap, hist, Calm, Alone
<1>16. Promised' = Promised
  BY <1>5, <1>15, PromisedSame
<1>17. EditsCounted /\ OnePending /\ TempsOK /\ CapturedOK /\ RestOK /\ PendingOK /\ ProgressOK
       /\ RolledOK /\ LeftOK
  BY DEF RewindInv
<1>18. EditsCounted'
  BY <1>17 DEF CompSwap, hist, EditsCounted, Alone
<1>19. OnePending'
  BY <1>17 DEF CompSwap, At, CompNext, hist, OnePending, Pending, Calm, Busy, Compensating
<1>20. TempsOK' /\ CapturedOK' /\ ProgressOK'
  BY <1>2, NotCommitting DEF Publishing
<1>21. RestOK'
  BY <1>6 DEF CompSwap, RestOK, Pending
<1>22. PendingOK'
  <2> SUFFICES ASSUME Calm', NEW t \in Pending', NEW x \in Alone'
               PROVE  man'[t].fwd[x] = Promised'[x] /\ FileOK(t, x)'
    BY DEF PendingOK
  <2>1. Calm /\ x \in Alone /\ x \in Files /\ t \in Txs
    BY <1>15 DEF Alone, Pending
  <2>2. t \in Pending /\ man'[t] = man[t] /\ man[t].fwd[x] = Promised[x] /\ FileOK(t, x)
    BY <1>5, <1>17, <2>1 DEF Pending, PendingOK
  <2>3. t = op.t
    BY <1>2, <1>17, <2>1, <2>2 DEF OnePending, Busy, Compensating
  <2>4. CASE x # op.i
    <3>1. target'[x] = target[x] /\ bak'[t][x] = bak[t][x] /\ tmp'[t][x] = tmp[t][x]
      BY <2>4 DEF CompSwap, file
    <3> QED BY <1>16, <2>2, <2>4, <3>1, FileSame
  <2>5. CASE x = op.i
    <3>1. bak[t][x] \in {"absent", man[t].fwd[x]}
      BY <1>1, <1>2, <1>6, <2>2, <2>3, <2>5 DEF FileOK, InWindow, Published, BeingRolledBack, MemOK, BakOK
    <3>2. target'[x] = man'[t].fwd[x]
      BY <1>1, <1>6, <2>3, <2>5, <3>1 DEF CompSwap, file, backup, RTypeOK
    <3> QED BY <1>16, <2>2, <3>2 DEF FileOK
  <2> QED BY <2>4, <2>5
<1>23. RolledOK'
  <2>1. ASSUME Calm', NEW x \in Alone', x > op.i - 1, x \in mem.pub
        PROVE  target'[x] = mem.fwd[x] \/ (op'.err /\ fails' > 0)
    <3>1. Calm /\ x \in Alone /\ x \in Files /\ op.i \in Files
      BY <1>1, <1>2, <1>15, <2>1 DEF Alone, PlaceOK
    <3>2. CASE x # op.i
      <4>1. x > op.i /\ target'[x] = target[x]
        BY <2>1, <3>1, <3>2, Consts DEF CompSwap, file
      <4> QED BY <1>2, <1>17, <2>1, <3>1, <4>1 DEF RolledOK, Compensating, CompSwap, hist
    <3>3. CASE x = op.i
      <4>1. FileOK(op.t, x)
        BY <1>17, <1>6, <3>1 DEF PendingOK
      <4>2. bak[op.t][x] \in {"absent", mem.fwd[x]}
        BY <1>1, <1>2, <1>6, <3>3, <4>1 DEF FileOK, InWindow, Published, BeingRolledBack, MemOK, BakOK
      <4> QED BY <1>1, <1>6, <3>3, <4>2 DEF CompSwap, file, backup, RTypeOK
    <3> QED BY <3>2, <3>3
  <2>2. op'.err /\ odd' = {} => fails' > 0
    BY <1>2, <1>17 DEF RolledOK, CompSwap, hist
  <2> QED BY <1>2, <1>4, <2>1, <2>2 DEF RolledOK
<1>24. LeftOK'
  BY DEF CompSwap, CompNext, LeftOK, Left
<1> QED
  BY <1>7, <1>8, <1>9, <1>10, <1>11, <1>12, <1>13, <1>14, <1>18, <1>19, <1>20, <1>21, <1>22, <1>23, <1>24
  DEF RewindInv, StructureOK

(* A look, rename or remove of the compensation fails: the error is kept.  *)
LEMMA CompFailsKeeps ==
  ASSUME RewindInv, CompFails
  PROVE  RewindInv'
<1>1. RTypeOK /\ PlaceOK /\ MemOK /\ ManOK /\ OrderOK /\ OfferOK /\ BakOK /\ SavedOK
  BY DEF RewindInv, StructureOK
<1>2. op.pc \in {"comp", "compswap"} /\ op'.pc = "comp" /\ op'.t = op.t /\ op'.i = op.i - 1
      /\ op'.err = TRUE /\ op'.startup = op.startup
  BY <1>1, Consts
  DEF CompFails, At, CompNext, file, cur, disk, RTypeOK, PlaceOK, Busy, Publishing, Compensating
<1>3. man \in [Txs -> Manifests] /\ mem \in Manifests /\ op.pc \in Steps
  BY <1>1 DEF RTypeOK
<1>4. mem' = mem /\ mem' \in Manifests
  BY <1>3 DEF CompFails
<1>5. man' = man /\ man' \in [Txs -> Manifests]
  BY <1>3 DEF CompFails
<1>6. /\ op.t \in Txs /\ op.i \in Files /\ op.i \in mem.pub /\ man[op.t] = mem /\ mem.state = "committing"
      /\ op.t \in Pending
  <2>1. op.t \in Txs /\ op.i \in Files /\ mem.state = "committing"
    BY <1>1, Consts DEF CompFails, file, MemOK, PlaceOK, Busy, Compensating
  <2>2. op.i \in mem.pub
    BY <1>1 DEF CompFails, At, file, NothingToCompensate, MemOK
  <2>3. man[op.t] = mem
    BY <1>1, <1>2, <2>2 DEF MemOK, Busy, Compensating
  <2> QED BY <2>1, <2>2, <2>3 DEF Pending
<1>7. RTypeOK'
  <2>1. op' \in OpSpace
    <3>1. op' = [pc |-> op'.pc, t |-> op'.t, i |-> op'.i, err |-> op'.err, startup |-> op'.startup]
      BY <1>1 DEF CompFails, At, CompNext, file, cur, disk, RTypeOK
    <3>2. op'.pc \in Steps /\ op'.t \in 0 .. MaxTx + 1 /\ op'.i \in 0 .. NumFiles + 1
      BY <1>6, <1>2, Consts DEF Steps
    <3>3. op'.err \in BOOLEAN /\ op'.startup \in BOOLEAN
      BY <1>1, <1>2 DEF RTypeOK
    <3> QED BY <3>1, <3>2, <3>3, OpMade
  <2>2. /\ target' \in [Files -> Images] /\ bak' \in [Txs -> [Files -> Images]]
        /\ tmp' \in [Txs -> [Files -> Images]] /\ recov' \in [Files -> [Images -> Images]]
    <3>1. "absent" \in Images /\ mem.fwd \in [Files -> Images] /\ mem.rst \in [Files -> Images]
      BY <1>3, ManifestFields DEF Images
    <3> QED BY <1>1 DEF CompFails, disk, RTypeOK
  <2>3. /\ shape' \in Shapes /\ user' \in [Files -> Images \cup {"none"}]
        /\ odd' \subseteq {"edit", "split", "overpending"}
    BY <1>1 DEF CompFails, RTypeOK
  <2>4. lastUndo' \in 0 .. MaxTx /\ edits' \in 0 .. MaxEdits /\ fails' \in 0 .. MaxFails
        /\ crashes' \in 0 .. MaxCrashes
    BY <1>1, Consts DEF CompFails, RTypeOK
  <2> QED BY <1>4, <1>5, <2>1, <2>2, <2>3, <2>4 DEF RTypeOK, OpSpace
<1>8. PlaceOK'
  BY <1>6, Consts DEF CompFails, CompNext, PlaceOK, Compensating
<1>9. MemOK'
  BY <1>6, <1>2, <1>4, <1>5 DEF MemOK, Publishing
<1>10. ManOK'
  <2>1. op'.pc \in Busy => WellMadeIn(mem', man, Before)
    BY <1>6, <1>1, <1>4 DEF ManOK, WellMade
  <2>2. UNCHANGED <<shape, man>>
    BY <1>5 DEF CompFails
  <2> QED BY <1>1, <2>1, <2>2, ManKept
<1>11. OrderOK'
  BY <1>1, <1>2 DEF CompFails, OrderOK, Busy, Compensating
<1>12. OfferOK'
  BY <1>1 DEF CompFails, OfferOK, Undone
<1>13. BakOK'
  BY <1>1 DEF CompFails, CompNext, disk, BakOK, Publishing
<1>14. SavedOK'
  BY <1>1 DEF CompFails, disk, SavedOK, Saved
<1>15. (Calm' => Calm) /\ Alone' \subseteq Alone /\ shape' = shape
  BY DEF CompFails, Calm, Alone
<1>16. Promised' = Promised
  BY <1>5, <1>15, PromisedSame
<1>17. EditsCounted /\ OnePending /\ TempsOK /\ CapturedOK /\ RestOK /\ PendingOK /\ ProgressOK
       /\ RolledOK /\ LeftOK
  BY DEF RewindInv
<1>18. EditsCounted'
  BY <1>17 DEF CompFails, EditsCounted, Alone
<1>19. OnePending'
  BY <1>17 DEF CompFails, At, CompNext, OnePending, Pending, Calm
<1>20. TempsOK' /\ CapturedOK' /\ ProgressOK'
  BY <1>2, NotCommitting DEF Publishing
<1>21. RestOK'
  BY <1>15, <1>16, <1>17 DEF CompFails, disk, RestOK, Pending
<1>22. PendingOK'
  <2>1. Calm' => Calm /\ op.pc # "compswap"
    BY DEF CompFails, At, Calm
  <2>2. UNCHANGED <<man, target, bak>>
    BY DEF CompFails, disk
  <2>3. \A t \in Pending : tmp'[t] = tmp[t]
    BY DEF CompFails, disk
  <2> QED BY <1>15, <1>16, <1>17, <2>1, <2>2, <2>3, PendingPlain
<1>23. RolledOK'
  BY <1>1, <1>2 DEF CompFails, RolledOK, RTypeOK
<1>24. LeftOK'
  BY DEF CompFails, CompNext, LeftOK, Left
<1> QED
  BY <1>7, <1>8, <1>9, <1>10, <1>11, <1>12, <1>13, <1>14, <1>18, <1>19, <1>20, <1>21, <1>22, <1>23, <1>24
  DEF RewindInv, StructureOK

(* The compensation is over: aborted if it was complete, and then every    *)
(* file the user left alone is what was promised before; else committing   *)
(* still.                                                                  *)
LEMMA SettleWrittenKeeps ==
  ASSUME RewindInv, Settle, Persist(mem') /\ UNCHANGED hist
  PROVE  RewindInv'
<1>1. RTypeOK /\ PlaceOK /\ MemOK /\ ManOK /\ OrderOK /\ OfferOK /\ BakOK /\ SavedOK
  BY DEF RewindInv, StructureOK
<1>2. op.pc = "comp" /\ op.i = 0 /\ op'.pc = (IF op.startup THEN "recover" ELSE "idle")
      /\ op'.t = (IF op.startup THEN op.t + 1 ELSE op.t) /\ op'.i = 0 /\ op'.err = FALSE
      /\ op'.startup = op.startup
  BY DEF Settle, At, file
<1>3. man \in [Txs -> Manifests] /\ mem \in Manifests /\ op.pc \in Steps
  BY <1>1 DEF RTypeOK
<1>4. mem' \in Manifests /\ mem'.state = (IF op.err THEN "committing" ELSE "aborted")
      /\ mem'.kind = mem.kind /\ mem'.parent = mem.parent /\ mem'.fwd = mem.fwd /\ mem'.rst = mem.rst
      /\ mem'.pub = mem.pub
  BY <1>3, WithState DEF Settle, TxStates
<1>5. op.t \in Txs
  BY <1>1, <1>2 DEF PlaceOK, Busy, Compensating
<1>6. mem' \in Manifests
  BY <1>4, <1>3
<1>7. man' = [man EXCEPT ![op.t] = mem']
  BY DEF Persist
<1>8. man'[op.t] = mem' /\ (\A t \in Txs : t # op.t => man'[t] = man[t]) /\ man' \in [Txs -> Manifests]
  BY <1>1, <1>5, <1>6, <1>7, Written
<1>9. man[op.t].state \in {"prepared", "committing"}
  BY <1>1, <1>3, WithState DEF Settle, At, MemOK, TxStates, Busy, Compensating
<1>10. RTypeOK'
  <2>1. op' \in OpSpace
    <3>1. op' = [pc |-> op'.pc, t |-> op'.t, i |-> op'.i, err |-> op'.err, startup |-> op'.startup]
      BY <1>1 DEF Settle, At, Fail, Persist, file, disk, hist, RTypeOK
    <3>2. op'.pc \in Steps /\ op'.t \in 0 .. MaxTx + 1 /\ op'.i \in 0 .. NumFiles + 1
      BY <1>1, <1>2, Consts DEF RTypeOK, PlaceOK, Steps, Busy
    <3>3. op'.err \in BOOLEAN /\ op'.startup \in BOOLEAN
      BY <1>1, <1>2 DEF RTypeOK
    <3> QED BY <3>1, <3>2, <3>3, OpMade
  <2>2. /\ target' \in [Files -> Images] /\ bak' \in [Txs -> [Files -> Images]]
        /\ tmp' \in [Txs -> [Files -> Images]] /\ recov' \in [Files -> [Images -> Images]]
    <3>1. "absent" \in Images /\ mem.fwd \in [Files -> Images] /\ mem.rst \in [Files -> Images]
      BY <1>3, ManifestFields DEF Images
    <3> QED BY <1>1 DEF Settle, disk, RTypeOK
  <2>3. /\ shape' \in Shapes /\ user' \in [Files -> Images \cup {"none"}]
        /\ odd' \subseteq {"edit", "split", "overpending"}
    BY <1>1 DEF Settle, hist, RTypeOK
  <2>4. lastUndo' \in 0 .. MaxTx /\ edits' \in 0 .. MaxEdits /\ fails' \in 0 .. MaxFails
        /\ crashes' \in 0 .. MaxCrashes
    BY <1>1 DEF Settle, hist, RTypeOK
  <2> QED BY <1>4, <1>8, <2>1, <2>2, <2>3, <2>4 DEF RTypeOK, OpSpace
<1>11. PlaceOK'
  BY <1>5, Consts DEF Settle, PlaceOK, Busy, Publishing, Compensating
<1>12. MemOK'
  BY <1>2 DEF MemOK, Busy, Publishing, Compensating
<1>13. ManOK'
  <2>1. op'.pc \in Busy => WellMadeIn(mem', man, Before)
    BY <1>2 DEF Busy, Publishing, Compensating
  <2>2. WellMadeIn(mem', man, Before)
    BY <1>1 DEF Settle, At, ManOK, WellMade, WellMadeIn, Busy, Compensating
  <2>3. mem'.state # "none" /\ (man[op.t].state \in {"committed", "undone"} =>
            mem'.state \in {"committed", "undone"} /\ mem'.kind = man[op.t].kind /\ mem'.fwd = man[op.t].fwd)
    BY <1>9 DEF Settle
  <2>4. shape' = shape
    BY DEF Settle
  <2> QED BY <1>1, <1>8, <1>5, <2>2, <2>3, <2>4, ManWritten
<1>14. OrderOK'
  <2>1. \A t \in Txs : man'[t].state = "none" <=> man[t].state = "none" /\ t # op.t
    <3>1. mem'.state # "none"
      BY <1>4
    <3> QED BY <1>8, <3>1
  <2> QED BY <1>1, <1>2, <1>9, <2>1 DEF OrderOK, Busy, Compensating
<1>15. OfferOK'
  <2>1. mem'.state # "committed" /\ lastUndo' = lastUndo /\ op.pc # "mark"
    BY <1>2 DEF Settle
  <2> QED BY <1>1, <1>8, <1>5, <1>9, <2>1, OfferWritten
<1>16. BakOK'
  BY <1>1 DEF Settle, Persist, disk, BakOK, Publishing
<1>17. SavedOK'
  <2>1. UNCHANGED <<user, target, bak>>
    BY DEF Settle, disk, hist
  <2>2. \A t \in Txs : man'[t].fwd = man[t].fwd \/ man[t] = NoManifest
    BY <1>1, <1>2, <1>4, <1>8, <1>3, WithState DEF MemOK, TxStates, Busy, Compensating
  <2> QED BY <1>1, <2>1, <2>2, SavedPlain
<1>18. (Calm' => Calm) /\ Alone' \subseteq Alone /\ shape' = shape
  BY DEF Settle, hist, Calm, Alone
<1>19. Promised' = Promised
  <2>1. man[op.t].state \notin Done
    BY <1>9 DEF Done
  <2>2. man'[op.t].state \notin Done
    BY <1>4, <1>8 DEF Done
  <2> QED BY <1>8, <1>5, <1>18, <2>1, <2>2, PromisedWritten
<1>20. EditsCounted /\ OnePending /\ TempsOK /\ CapturedOK /\ RestOK /\ PendingOK /\ ProgressOK
       /\ RolledOK /\ LeftOK
  BY DEF RewindInv
<1>21. EditsCounted'
  BY <1>20 DEF hist, EditsCounted, Alone
<1>22. OnePending'
  BY <1>20 DEF Settle, At, Persist, hist, OnePending, Pending, Calm, Busy, Publishing, Compensating
<1>23. TempsOK' /\ CapturedOK' /\ ProgressOK'
  BY <1>2, NotCommitting DEF Publishing
<1>24. RestOK'
  <2> SUFFICES ASSUME Calm', Pending' = {}, NEW x \in Alone' PROVE target'[x] = Promised'[x]
    BY DEF RestOK
  <2>1. Calm /\ x \in Alone /\ x \in Files
    BY <1>18 DEF Alone
  <2>2. target' = target /\ ~op.err
    <3>1. op.err => op.t \in Pending'
      BY <1>4, <1>8, <1>5 DEF Pending
    <3> QED BY <3>1 DEF Settle, disk
  <2>3. CASE op.t \in Pending
    <3>1. man[op.t].state = "committing" /\ [mem EXCEPT !.state = "prepared"].state = "prepared"
      BY <2>3 DEF Pending
    <3>2. man[op.t] = mem
      BY <1>1, <1>2, <3>1 DEF MemOK, Busy, Compensating
    <3>3. mem.fwd[x] = Promised[x] /\ FileOK(op.t, x)
      BY <1>20, <2>1, <2>3, <3>2 DEF PendingOK
    <3>4. target[x] = mem.fwd[x]
      <4>1. CASE x \in mem.pub
        BY <1>2, <1>20, <2>1, <2>2, <4>1, Consts DEF RolledOK, Compensating
      <4>2. CASE x \notin mem.pub
        BY <1>2, <3>2, <3>3, <4>2 DEF FileOK, InWindow, Published, BeingRolledBack
      <4> QED BY <4>1, <4>2
    <3> QED BY <1>19, <2>2, <3>3, <3>4
  <2>4. CASE op.t \notin Pending
    <3>1. Pending = {}
      BY <1>2, <1>20, <2>1, <2>4 DEF OnePending, Busy, Compensating
    <3> QED BY <1>19, <1>20, <2>1, <2>2, <3>1 DEF RestOK
  <2> QED BY <2>3, <2>4
<1>25. PendingOK'
  <2> SUFFICES ASSUME Calm', NEW t \in Pending', NEW x \in Alone'
               PROVE  man'[t].fwd[x] = Promised'[x] /\ FileOK(t, x)'
    BY DEF PendingOK
  <2>1. Calm /\ x \in Alone /\ x \in Files /\ t \in Txs
    BY <1>18 DEF Alone, Pending
  <2>2. t = op.t /\ op.err
    BY <1>2, <1>4, <1>8, <1>20, <2>1 DEF OnePending, Pending, Busy, Compensating
  <2>3. man[op.t] = mem /\ mem.state = "committing" /\ op.t \in Pending
    BY <1>1, <1>2, <2>2 DEF MemOK, Pending, Busy, Compensating
  <2>4. /\ man[t].fwd[x] = Promised[x] /\ FileOK(t, x)
        /\ man'[t].fwd = man[t].fwd /\ man'[t].rst = man[t].rst /\ man[t].pub \subseteq man'[t].pub
    BY <1>4, <1>8, <1>20, <2>1, <2>2, <2>3 DEF PendingOK
  <2>5. op.pc # "compswap"
    BY <1>2
  <2>6. target'[x] = target[x] /\ bak'[t][x] = bak[t][x]
    BY DEF Settle, disk
  <2>7. tmp'[t][x] = tmp[t][x]
    BY DEF Settle, disk
  <2> QED BY <1>19, <2>4, <2>5, <2>6, <2>7, FileSame
<1>26. RolledOK'
  BY DEF Settle, RolledOK, Compensating
<1>27. LeftOK'
  <2> SUFFICES ASSUME Calm', fails' = 0, NEW t \in Pending' \cap Left'
               PROVE  odd' # {} /\ \A x \in Alone' \cap man'[t].pub : target'[x] = man'[t].fwd[x]
    BY DEF LeftOK
  <2>1. Calm /\ UNCHANGED <<target, fails, odd, user>>
    BY <1>18 DEF Settle, disk, hist
  <2>2. t = op.t /\ op.err
    BY <1>2, <1>4, <1>8, <1>20, <2>1 DEF OnePending, Pending, Busy, Compensating
  <2>3. odd # {}
    BY <1>20, <2>1, <2>2 DEF RolledOK
  <2>4. \A x \in Alone' \cap mem.pub : x \in Alone /\ x > op.i
    BY <1>2, <1>18, Consts DEF Alone
  <2>5. \A x \in Alone' \cap mem.pub : target[x] = mem.fwd[x]
    BY <1>2, <1>20, <2>1, <2>4 DEF RolledOK, Compensating
  <2> QED BY <1>4, <1>8, <2>1, <2>2, <2>3, <2>5
<1> QED
  BY <1>10, <1>11, <1>12, <1>13, <1>14, <1>15, <1>16, <1>17, <1>21, <1>22, <1>23, <1>24, <1>25, <1>26, <1>27
  DEF RewindInv, StructureOK

(* The write of that outcome fails: the transaction stays pending.         *)
LEMMA SettleFailsKeeps ==
  ASSUME RewindInv, Settle, Fail /\ UNCHANGED man
  PROVE  RewindInv'
<1>1. RTypeOK /\ PlaceOK /\ MemOK /\ ManOK /\ OrderOK /\ OfferOK /\ BakOK /\ SavedOK
  BY DEF RewindInv, StructureOK
<1>2. op.pc = "comp" /\ op.i = 0 /\ op'.pc = (IF op.startup THEN "recover" ELSE "idle")
      /\ op'.t = (IF op.startup THEN op.t + 1 ELSE op.t) /\ op'.i = 0 /\ op'.err = FALSE
      /\ op'.startup = op.startup
  BY DEF Settle, At, file
<1>3. man \in [Txs -> Manifests] /\ mem \in Manifests /\ op.pc \in Steps
  BY <1>1 DEF RTypeOK
<1>4. mem' \in Manifests /\ mem'.state = (IF op.err THEN "committing" ELSE "aborted")
      /\ mem'.kind = mem.kind /\ mem'.parent = mem.parent /\ mem'.fwd = mem.fwd /\ mem'.rst = mem.rst
      /\ mem'.pub = mem.pub
  BY <1>3, WithState DEF Settle, TxStates
<1>5. man' = man /\ man' \in [Txs -> Manifests]
  BY <1>3 DEF Settle
<1>6. RTypeOK'
  <2>1. op' \in OpSpace
    <3>1. op' = [pc |-> op'.pc, t |-> op'.t, i |-> op'.i, err |-> op'.err, startup |-> op'.startup]
      BY <1>1 DEF Settle, At, Fail, Persist, file, disk, hist, RTypeOK
    <3>2. op'.pc \in Steps /\ op'.t \in 0 .. MaxTx + 1 /\ op'.i \in 0 .. NumFiles + 1
      BY <1>1, <1>2, Consts DEF RTypeOK, PlaceOK, Steps, Busy
    <3>3. op'.err \in BOOLEAN /\ op'.startup \in BOOLEAN
      BY <1>1, <1>2 DEF RTypeOK
    <3> QED BY <3>1, <3>2, <3>3, OpMade
  <2>2. /\ target' \in [Files -> Images] /\ bak' \in [Txs -> [Files -> Images]]
        /\ tmp' \in [Txs -> [Files -> Images]] /\ recov' \in [Files -> [Images -> Images]]
    <3>1. "absent" \in Images /\ mem.fwd \in [Files -> Images] /\ mem.rst \in [Files -> Images]
      BY <1>3, ManifestFields DEF Images
    <3> QED BY <1>1 DEF Settle, disk, RTypeOK
  <2>3. /\ shape' \in Shapes /\ user' \in [Files -> Images \cup {"none"}]
        /\ odd' \subseteq {"edit", "split", "overpending"}
    BY <1>1 DEF Settle, Fail, RTypeOK
  <2>4. lastUndo' \in 0 .. MaxTx /\ edits' \in 0 .. MaxEdits /\ fails' \in 0 .. MaxFails
        /\ crashes' \in 0 .. MaxCrashes
    BY <1>1, Consts DEF Settle, Fail, RTypeOK
  <2> QED BY <1>4, <1>5, <2>1, <2>2, <2>3, <2>4 DEF RTypeOK, OpSpace
<1>7. PlaceOK'
  BY <1>1, <1>2, Consts DEF PlaceOK, Busy, Publishing, Compensating
<1>8. MemOK'
  BY <1>2 DEF MemOK, Busy, Publishing, Compensating
<1>9. ManOK'
  <2>1. op'.pc \in Busy => WellMadeIn(mem', man, Before)
    BY <1>2 DEF Busy, Publishing, Compensating
  <2>2. UNCHANGED <<shape, man>>
    BY <1>5 DEF Settle
  <2> QED BY <1>1, <2>1, <2>2, ManKept
<1>10. OrderOK'
  BY <1>1, <1>2 DEF OrderOK, Busy, Compensating
<1>11. OfferOK'
  BY <1>1 DEF Settle, At, OfferOK, Undone
<1>12. BakOK'
  BY <1>1 DEF Settle, disk, BakOK, Publishing
<1>13. SavedOK'
  BY <1>1 DEF Settle, Fail, disk, SavedOK, Saved
<1>14. (Calm' => Calm) /\ Alone' \subseteq Alone /\ shape' = shape
  BY DEF Settle, Fail, Calm, Alone
<1>15. Promised' = Promised
  BY <1>14, PromisedSame
<1>16. EditsCounted /\ OnePending /\ TempsOK /\ CapturedOK /\ RestOK /\ PendingOK /\ ProgressOK
       /\ RolledOK /\ LeftOK
  BY DEF RewindInv
<1>17. EditsCounted'
  BY <1>16 DEF Fail, EditsCounted, Alone
<1>18. OnePending'
  BY <1>16 DEF Settle, Fail, OnePending, Pending, Calm, Busy, Publishing, Compensating
<1>19. TempsOK' /\ CapturedOK' /\ ProgressOK'
  BY <1>2, NotCommitting DEF Publishing
<1>20. RestOK'
  BY <1>14, <1>15, <1>16 DEF Settle, disk, RestOK, Pending
<1>21. PendingOK'
  <2>1. Calm' => Calm /\ op.pc # "compswap"
    BY <1>14 DEF Settle, At
  <2>2. UNCHANGED <<man, target, bak>>
    BY DEF Settle, disk
  <2>3. \A t \in Pending : tmp'[t] = tmp[t]
    BY DEF Settle, disk
  <2> QED BY <1>14, <1>15, <1>16, <2>1, <2>2, <2>3, PendingPlain
<1>22. RolledOK'
  BY DEF Settle, RolledOK, Compensating
<1>23. LeftOK'
  <2> SUFFICES ASSUME Calm', fails' = 0, NEW t \in Pending' \cap Left'
               PROVE  odd' # {} /\ \A x \in Alone' \cap man'[t].pub : target'[x] = man'[t].fwd[x]
    BY DEF LeftOK
  <2>1. fails' = fails + 1 /\ fails \in Nat
    BY <1>1 DEF Fail, RTypeOK
  <2> QED BY <2>1
<1> QED
  BY <1>6, <1>7, <1>8, <1>9, <1>10, <1>11, <1>12, <1>13, <1>17, <1>18, <1>19, <1>20, <1>21, <1>22, <1>23
  DEF RewindInv, StructureOK

(* The process dies: a compensation between its two renames is counted as  *)
(* split.                                                                  *)
LEMMA CrashKeeps ==
  ASSUME RewindInv, Crash
  PROVE  RewindInv'
<1>1. RTypeOK /\ PlaceOK /\ MemOK /\ ManOK /\ OrderOK /\ OfferOK /\ BakOK /\ SavedOK
  BY DEF RewindInv, StructureOK
<1>2. op.pc # "down" /\ op'.pc = "down" /\ op'.t = 0 /\ op'.i = 0 /\ op'.err = FALSE /\ op'.startup = FALSE
  BY DEF Crash, At
<1>3. man \in [Txs -> Manifests] /\ mem \in Manifests /\ op.pc \in Steps
  BY <1>1 DEF RTypeOK
<1>4. mem' = NoManifest /\ mem' \in Manifests
  BY NoManifestFacts DEF Crash
<1>5. man' = man /\ man' \in [Txs -> Manifests]
  BY <1>3 DEF Crash
<1>6. RTypeOK'
  <2>1. op' \in OpSpace
    <3>1. op' = [pc |-> op'.pc, t |-> op'.t, i |-> op'.i, err |-> op'.err, startup |-> op'.startup]
      BY <1>1 DEF Crash, At, disk, RTypeOK
    <3>2. op'.pc \in Steps /\ op'.t \in 0 .. MaxTx + 1 /\ op'.i \in 0 .. NumFiles + 1
      BY Consts DEF Crash, Steps
    <3>3. op'.err \in BOOLEAN /\ op'.startup \in BOOLEAN
      BY <1>1, <1>2 DEF RTypeOK
    <3> QED BY <3>1, <3>2, <3>3, OpMade
  <2>2. /\ target' \in [Files -> Images] /\ bak' \in [Txs -> [Files -> Images]]
        /\ tmp' \in [Txs -> [Files -> Images]] /\ recov' \in [Files -> [Images -> Images]]
    <3>1. "absent" \in Images /\ mem.fwd \in [Files -> Images] /\ mem.rst \in [Files -> Images]
      BY <1>3, ManifestFields DEF Images
    <3> QED BY <1>1 DEF Crash, disk, RTypeOK
  <2>3. /\ shape' \in Shapes /\ user' \in [Files -> Images \cup {"none"}]
        /\ odd' \subseteq {"edit", "split", "overpending"}
    BY <1>1 DEF Crash, RTypeOK
  <2>4. lastUndo' \in 0 .. MaxTx /\ edits' \in 0 .. MaxEdits /\ fails' \in 0 .. MaxFails
        /\ crashes' \in 0 .. MaxCrashes
    BY <1>1, Consts DEF Crash, RTypeOK
  <2> QED BY <1>4, <1>5, <2>1, <2>2, <2>3, <2>4 DEF RTypeOK, OpSpace
<1>7. PlaceOK'
  BY DEF Crash, PlaceOK, Busy, Publishing, Compensating
<1>8. MemOK'
  BY <1>2 DEF MemOK, Busy, Publishing, Compensating
<1>9. ManOK'
  <2>1. op'.pc \in Busy => WellMadeIn(mem', man, Before)
    BY <1>2 DEF Busy, Publishing, Compensating
  <2>2. UNCHANGED <<shape, man>>
    BY <1>5 DEF Crash
  <2> QED BY <1>1, <2>1, <2>2, ManKept
<1>10. OrderOK'
  BY <1>1 DEF Crash, OrderOK, Busy, Publishing, Compensating
<1>11. OfferOK'
  BY DEF Crash, OfferOK
<1>12. BakOK'
  BY <1>1 DEF Crash, disk, BakOK, Publishing
<1>13. SavedOK'
  BY <1>1 DEF Crash, disk, SavedOK, Saved
<1>14. (Calm' => Calm) /\ Alone' \subseteq Alone /\ shape' = shape
  BY DEF Crash, Calm, Alone
<1>15. Promised' = Promised
  BY <1>5, <1>14, PromisedSame
<1>16. EditsCounted /\ OnePending /\ TempsOK /\ CapturedOK /\ RestOK /\ PendingOK /\ ProgressOK
       /\ RolledOK /\ LeftOK
  BY DEF RewindInv
<1>17. EditsCounted'
  BY <1>16 DEF Crash, EditsCounted, Alone
<1>18. OnePending'
  BY <1>16 DEF Crash, OnePending, Pending, Calm, Busy, Publishing, Compensating
<1>19. TempsOK' /\ CapturedOK' /\ ProgressOK'
  BY <1>2, NotCommitting DEF Publishing
<1>20. RestOK'
  BY <1>14, <1>15, <1>16 DEF Crash, disk, RestOK, Pending
<1>21. PendingOK'
  <2>1. Calm' => Calm /\ op.pc # "compswap"
    BY DEF Crash, At, Calm
  <2>2. UNCHANGED <<man, target, bak>>
    BY DEF Crash, disk
  <2>3. \A t \in Pending : tmp'[t] = tmp[t]
    BY DEF Crash, disk
  <2> QED BY <1>14, <1>15, <1>16, <2>1, <2>2, <2>3, PendingPlain
<1>22. RolledOK'
  BY DEF Crash, RolledOK, Compensating
<1>23. LeftOK'
  BY DEF Crash, LeftOK, Left
<1> QED
  BY <1>6, <1>7, <1>8, <1>9, <1>10, <1>11, <1>12, <1>13, <1>17, <1>18, <1>19, <1>20, <1>21, <1>22, <1>23
  DEF RewindInv, StructureOK

(* recoverTransactions begins with the first manifest.                     *)
LEMMA OpenKeeps ==
  ASSUME RewindInv, Open
  PROVE  RewindInv'
<1>1. RTypeOK /\ PlaceOK /\ MemOK /\ ManOK /\ OrderOK /\ OfferOK /\ BakOK /\ SavedOK
  BY DEF RewindInv, StructureOK
<1>2. op.pc = "down" /\ op'.pc = "recover" /\ op'.t = 1 /\ op'.i = op.i /\ op'.err = op.err
      /\ op'.startup = TRUE
  BY DEF Open, At
<1>3. man \in [Txs -> Manifests] /\ mem \in Manifests /\ op.pc \in Steps
  BY <1>1 DEF RTypeOK
<1>4. mem' = mem /\ mem' \in Manifests
  BY <1>3 DEF Open
<1>5. man' = man /\ man' \in [Txs -> Manifests]
  BY <1>3 DEF Open
<1>6. RTypeOK'
  <2>1. op' \in OpSpace
    <3>1. op' = [pc |-> op'.pc, t |-> op'.t, i |-> op'.i, err |-> op'.err, startup |-> op'.startup]
      BY <1>1 DEF Open, At, disk, hist, RTypeOK
    <3>2. op'.pc \in Steps /\ op'.t \in 0 .. MaxTx + 1 /\ op'.i \in 0 .. NumFiles + 1
      BY <1>1, Consts DEF Open, RTypeOK, Steps
    <3>3. op'.err \in BOOLEAN /\ op'.startup \in BOOLEAN
      BY <1>1, <1>2 DEF RTypeOK
    <3> QED BY <3>1, <3>2, <3>3, OpMade
  <2>2. /\ target' \in [Files -> Images] /\ bak' \in [Txs -> [Files -> Images]]
        /\ tmp' \in [Txs -> [Files -> Images]] /\ recov' \in [Files -> [Images -> Images]]
    <3>1. "absent" \in Images /\ mem.fwd \in [Files -> Images] /\ mem.rst \in [Files -> Images]
      BY <1>3, ManifestFields DEF Images
    <3> QED BY <1>1 DEF Open, disk, RTypeOK
  <2>3. /\ shape' \in Shapes /\ user' \in [Files -> Images \cup {"none"}]
        /\ odd' \subseteq {"edit", "split", "overpending"}
    BY <1>1 DEF Open, hist, RTypeOK
  <2>4. lastUndo' \in 0 .. MaxTx /\ edits' \in 0 .. MaxEdits /\ fails' \in 0 .. MaxFails
        /\ crashes' \in 0 .. MaxCrashes
    BY <1>1 DEF Open, hist, RTypeOK
  <2> QED BY <1>4, <1>5, <2>1, <2>2, <2>3, <2>4 DEF RTypeOK, OpSpace
<1>7. PlaceOK'
  BY <1>1, <1>2, Consts DEF PlaceOK, Busy, Publishing, Compensating
<1>8. MemOK'
  BY <1>2 DEF MemOK, Busy, Publishing, Compensating
<1>9. ManOK'
  <2>1. op'.pc \in Busy => WellMadeIn(mem', man, Before)
    BY <1>2 DEF Busy, Publishing, Compensating
  <2>2. UNCHANGED <<shape, man>>
    BY <1>5 DEF Open
  <2> QED BY <1>1, <2>1, <2>2, ManKept
<1>10. OrderOK'
  BY <1>1 DEF Open, OrderOK
<1>11. OfferOK'
  BY <1>1 DEF Open, At, OfferOK, Undone
<1>12. BakOK'
  BY <1>1 DEF Open, disk, BakOK, Publishing
<1>13. SavedOK'
  BY <1>1 DEF Open, disk, hist, SavedOK, Saved
<1>14. (Calm' => Calm) /\ Alone' \subseteq Alone /\ shape' = shape
  BY DEF Open, hist, Calm, Alone
<1>15. Promised' = Promised
  BY <1>5, <1>14, PromisedSame
<1>16. EditsCounted /\ OnePending /\ TempsOK /\ CapturedOK /\ RestOK /\ PendingOK /\ ProgressOK
       /\ RolledOK /\ LeftOK
  BY DEF RewindInv
<1>17. EditsCounted'
  BY <1>16 DEF Open, hist, EditsCounted, Alone
<1>18. OnePending'
  BY <1>16 DEF Open, hist, OnePending, Pending, Calm, Busy, Publishing, Compensating
<1>19. TempsOK' /\ CapturedOK' /\ ProgressOK'
  BY <1>2, NotCommitting DEF Publishing
<1>20. RestOK'
  BY <1>14, <1>15, <1>16 DEF Open, disk, RestOK, Pending
<1>21. PendingOK'
  <2>1. Calm' => Calm /\ op.pc # "compswap"
    BY <1>14 DEF Open, At
  <2>2. UNCHANGED <<man, target, bak>>
    BY DEF Open, disk
  <2>3. \A t \in Pending : tmp'[t] = tmp[t]
    BY DEF Open, disk
  <2> QED BY <1>14, <1>15, <1>16, <2>1, <2>2, <2>3, PendingPlain
<1>22. RolledOK'
  BY <1>16 DEF Open, hist, RolledOK, Compensating
<1>23. LeftOK'
  BY Consts DEF Open, LeftOK, Left
<1> QED
  BY <1>6, <1>7, <1>8, <1>9, <1>10, <1>11, <1>12, <1>13, <1>17, <1>18, <1>19, <1>20, <1>21, <1>22, <1>23
  DEF RewindInv, StructureOK

(* A prepared manifest published nothing, so it is aborted.                *)
LEMMA RecoverAbortsKeeps ==
  ASSUME RewindInv, RecoverPrepared,
         Persist([man[op.t] EXCEPT !.state = "aborted"]) /\ UNCHANGED hist
  PROVE  RewindInv'
<1>1. RTypeOK /\ PlaceOK /\ MemOK /\ ManOK /\ OrderOK /\ OfferOK /\ BakOK /\ SavedOK
  BY DEF RewindInv, StructureOK
<1>2. op.pc = "recover" /\ op'.pc = "recover" /\ op'.t = op.t + 1 /\ op'.i = op.i /\ op'.err = op.err
      /\ op'.startup = op.startup
  BY DEF RecoverPrepared, At, Skip
<1>3. man \in [Txs -> Manifests] /\ mem \in Manifests /\ op.pc \in Steps
  BY <1>1 DEF RTypeOK
<1>4. mem' = mem /\ mem' \in Manifests
  BY <1>3 DEF RecoverPrepared
<1>5. op.t \in Txs
  BY DEF RecoverPrepared
<1> DEFINE m == [man[op.t] EXCEPT !.state = "aborted"]
<1>6. m \in Manifests /\ m.state = "aborted" /\ m.kind = man[op.t].kind /\ m.parent = man[op.t].parent
      /\ m.fwd = man[op.t].fwd /\ m.rst = man[op.t].rst /\ m.pub = man[op.t].pub
  <2>1. "aborted" \in TxStates /\ man[op.t] \in Manifests
    BY <1>3, <1>5 DEF TxStates
  <2> QED BY <2>1, WithState
<1>7. man' = [man EXCEPT ![op.t] = m]
  BY DEF RecoverPrepared, Persist
<1> HIDE DEF m
<1>8. man'[op.t] = m /\ (\A t \in Txs : t # op.t => man'[t] = man[t]) /\ man' \in [Txs -> Manifests]
  BY <1>1, <1>5, <1>6, <1>7, Written
<1>9. man[op.t].state \in {"prepared"}
  BY DEF RecoverPrepared
<1>10. RTypeOK'
  <2>1. op' \in OpSpace
    <3>1. op' = [pc |-> op'.pc, t |-> op'.t, i |-> op'.i, err |-> op'.err, startup |-> op'.startup]
      BY <1>1 DEF RecoverPrepared, Skip, hist, RTypeOK
    <3>2. op'.pc \in Steps /\ op'.t \in 0 .. MaxTx + 1 /\ op'.i \in 0 .. NumFiles + 1
      BY <1>1, <1>2, Consts DEF RecoverPrepared, RTypeOK
    <3>3. op'.err \in BOOLEAN /\ op'.startup \in BOOLEAN
      BY <1>1, <1>2 DEF RTypeOK
    <3> QED BY <3>1, <3>2, <3>3, OpMade
  <2>2. /\ target' \in [Files -> Images] /\ bak' \in [Txs -> [Files -> Images]]
        /\ tmp' \in [Txs -> [Files -> Images]] /\ recov' \in [Files -> [Images -> Images]]
    <3>1. "absent" \in Images /\ mem.fwd \in [Files -> Images] /\ mem.rst \in [Files -> Images]
      BY <1>3, ManifestFields DEF Images
    <3> QED BY <1>1, <3>1 DEF RecoverPrepared, RTypeOK
  <2>3. /\ shape' \in Shapes /\ user' \in [Files -> Images \cup {"none"}]
        /\ odd' \subseteq {"edit", "split", "overpending"}
    BY <1>1 DEF RecoverPrepared, hist, RTypeOK
  <2>4. lastUndo' \in 0 .. MaxTx /\ edits' \in 0 .. MaxEdits /\ fails' \in 0 .. MaxFails
        /\ crashes' \in 0 .. MaxCrashes
    BY <1>1 DEF RecoverPrepared, hist, RTypeOK
  <2> QED BY <1>4, <1>8, <2>1, <2>2, <2>3, <2>4 DEF RTypeOK, OpSpace
<1>11. PlaceOK'
  BY <1>1, <1>2, Consts DEF RecoverPrepared, PlaceOK, Busy, Publishing, Compensating
<1>12. MemOK'
  BY <1>2 DEF MemOK, Busy, Publishing, Compensating
<1>13. ManOK'
  <2>1. op'.pc \in Busy => WellMadeIn(mem', man, Before)
    BY <1>1, <1>2, <1>4 DEF ManOK, WellMade
  <2>2. WellMadeIn(m, man, Before)
    BY <1>1, <1>6 DEF RecoverPrepared, ManOK, WellMade, WellMadeIn
  <2>3. m.state # "none" /\ (man[op.t].state \in {"committed", "undone"} =>
            m.state \in {"committed", "undone"} /\ m.kind = man[op.t].kind /\ m.fwd = man[op.t].fwd)
    BY <1>6, <1>9
  <2>4. shape' = shape
    BY DEF RecoverPrepared
  <2> QED BY <1>1, <1>8, <1>5, <2>1, <2>2, <2>3, <2>4, ManWritten
<1>14. OrderOK'
  <2>1. \A t \in Txs : man'[t].state = "none" <=> man[t].state = "none" /\ t # op.t
    <3>1. m.state # "none"
      BY <1>6
    <3> QED BY <1>8, <3>1
  <2> QED BY <1>1, <1>2, <1>9, <2>1 DEF OrderOK, PlaceOK, Busy
<1>15. OfferOK'
  <2>1. m.state # "committed" /\ lastUndo' = lastUndo /\ op.pc # "mark"
    BY <1>2, <1>6 DEF RecoverPrepared
  <2> QED BY <1>1, <1>8, <1>5, <1>9, <2>1, OfferWritten
<1>16. BakOK'
  BY <1>1 DEF RecoverPrepared, At, Persist, Skip, BakOK, Publishing
<1>17. SavedOK'
  <2>1. UNCHANGED <<user, target, bak>>
    BY DEF RecoverPrepared, hist
  <2>2. \A t \in Txs : man'[t].fwd = man[t].fwd \/ man[t] = NoManifest
    BY <1>8, <1>6
  <2> QED BY <1>1, <2>1, <2>2, SavedPlain
<1>18. (Calm' => Calm) /\ Alone' \subseteq Alone /\ shape' = shape
  BY DEF RecoverPrepared, hist, Calm, Alone
<1>19. Promised' = Promised
  <2>1. man[op.t].state \notin Done
    BY <1>9 DEF Done
  <2>2. man'[op.t].state \notin Done
    BY <1>8, <1>6 DEF Done
  <2> QED BY <1>8, <1>5, <1>18, <2>1, <2>2, PromisedWritten
<1>20. EditsCounted /\ OnePending /\ TempsOK /\ CapturedOK /\ RestOK /\ PendingOK /\ ProgressOK
       /\ RolledOK /\ LeftOK
  BY DEF RewindInv
<1>21. EditsCounted'
  BY <1>20 DEF RecoverPrepared, hist, EditsCounted, Alone
<1>22. OnePending'
  BY <1>20 DEF RecoverPrepared, Persist, Skip, hist, OnePending, Pending, Calm
<1>23. TempsOK' /\ CapturedOK' /\ ProgressOK'
  BY <1>2, NotCommitting DEF Publishing
<1>24. RestOK'
  BY <1>18, <1>19, <1>20 DEF RecoverPrepared, Persist, RestOK, Pending
<1>25. PendingOK'
  <2> SUFFICES ASSUME Calm', NEW t \in Pending', NEW x \in Alone'
               PROVE  man'[t].fwd[x] = Promised'[x] /\ FileOK(t, x)'
    BY DEF PendingOK
  <2>1. Calm /\ x \in Alone /\ x \in Files /\ t \in Txs
    BY <1>18 DEF Alone, Pending
  <2>2. t # op.t /\ man'[t] = man[t] /\ t \in Pending
    BY <1>8, <1>6 DEF Pending
  <2>3. /\ t # op.t /\ man[t].fwd[x] = Promised[x] /\ FileOK(t, x)
        /\ man'[t].fwd = man[t].fwd /\ man'[t].rst = man[t].rst /\ man[t].pub \subseteq man'[t].pub
    BY <1>20, <2>1, <2>2 DEF PendingOK
  <2>4. op.pc # "compswap"
    BY <1>2
  <2>5. target'[x] = target[x] /\ bak'[t][x] = bak[t][x]
    BY DEF RecoverPrepared, disk
  <2>6. tmp'[t][x] = tmp[t][x]
    BY <2>3 DEF RecoverPrepared
  <2> QED BY <1>19, <2>3, <2>5, <2>6, FileSame
<1>26. RolledOK'
  BY <1>18, <1>20 DEF RecoverPrepared, Skip, hist, RolledOK
<1>27. LeftOK'
  <2> SUFFICES ASSUME Calm', fails' = 0, NEW t \in Pending' \cap Left'
               PROVE  odd' # {} /\ \A x \in Alone' \cap man'[t].pub : target'[x] = man'[t].fwd[x]
    BY DEF LeftOK
  <2>1. t \in Txs /\ t # op.t /\ t < op.t + 1 /\ op.t \in Txs
    BY <1>2, <1>8, <1>6 DEF RecoverPrepared, Pending, Left
  <2>2. Calm /\ t \in Pending /\ t \in Left /\ fails = 0 /\ man'[t] = man[t]
        /\ UNCHANGED <<target, odd, user>>
    BY <1>8, <1>18, <2>1, Consts DEF RecoverPrepared, At, hist, Pending, Left
  <2> QED BY <1>18, <1>20, <2>2 DEF LeftOK
<1> QED
  BY <1>10, <1>11, <1>12, <1>13, <1>14, <1>15, <1>16, <1>17, <1>21, <1>22, <1>23, <1>24, <1>25, <1>26, <1>27
  DEF RewindInv, StructureOK

(* When the write that aborts it fails, only its temps are gone.           *)
LEMMA RecoverUnwrittenKeeps ==
  ASSUME RewindInv, RecoverPrepared, Fail /\ UNCHANGED man
  PROVE  RewindInv'
<1>1. RTypeOK /\ PlaceOK /\ MemOK /\ ManOK /\ OrderOK /\ OfferOK /\ BakOK /\ SavedOK
  BY DEF RewindInv, StructureOK
<1>2. op.pc = "recover" /\ op'.pc = "recover" /\ op'.t = op.t + 1 /\ op'.i = op.i /\ op'.err = op.err
      /\ op'.startup = op.startup
  BY DEF RecoverPrepared, At, Skip
<1>3. man \in [Txs -> Manifests] /\ mem \in Manifests /\ op.pc \in Steps
  BY <1>1 DEF RTypeOK
<1>4. mem' = mem /\ mem' \in Manifests
  BY <1>3 DEF RecoverPrepared
<1>5. man' = man /\ man' \in [Txs -> Manifests]
  BY <1>3
<1>6. op.t \in Txs /\ man[op.t].state = "prepared" /\ op.t \notin Pending
  BY DEF RecoverPrepared, Pending
<1>7. RTypeOK'
  <2>1. op' \in OpSpace
    <3>1. op' = [pc |-> op'.pc, t |-> op'.t, i |-> op'.i, err |-> op'.err, startup |-> op'.startup]
      BY <1>1 DEF RecoverPrepared, Skip, RTypeOK
    <3>2. op'.pc \in Steps /\ op'.t \in 0 .. MaxTx + 1 /\ op'.i \in 0 .. NumFiles + 1
      BY <1>1, <1>2, <1>6, Consts DEF RTypeOK
    <3>3. op'.err \in BOOLEAN /\ op'.startup \in BOOLEAN
      BY <1>1, <1>2 DEF RTypeOK
    <3> QED BY <3>1, <3>2, <3>3, OpMade
  <2>2. /\ target' \in [Files -> Images] /\ bak' \in [Txs -> [Files -> Images]]
        /\ tmp' \in [Txs -> [Files -> Images]] /\ recov' \in [Files -> [Images -> Images]]
    <3>1. "absent" \in Images
      BY DEF Images
    <3> QED BY <1>1, <3>1 DEF RecoverPrepared, RTypeOK
  <2>3. /\ shape' \in Shapes /\ user' \in [Files -> Images \cup {"none"}]
        /\ odd' \subseteq {"edit", "split", "overpending"}
    BY <1>1 DEF RecoverPrepared, Fail, RTypeOK
  <2>4. lastUndo' \in 0 .. MaxTx /\ edits' \in 0 .. MaxEdits /\ fails' \in 0 .. MaxFails
        /\ crashes' \in 0 .. MaxCrashes
    BY <1>1, Consts DEF RecoverPrepared, Fail, RTypeOK
  <2> QED BY <1>4, <1>5, <2>1, <2>2, <2>3, <2>4 DEF RTypeOK, OpSpace
<1>8. PlaceOK'
  BY <1>1, <1>2, <1>6, Consts DEF PlaceOK, Busy, Publishing, Compensating
<1>9. MemOK'
  BY <1>2 DEF MemOK, Busy, Publishing, Compensating
<1>10. ManOK'
  <2>1. op'.pc \in Busy => WellMadeIn(mem', man, Before)
    BY <1>1, <1>2, <1>4 DEF ManOK, WellMade
  <2>2. UNCHANGED <<shape, man>>
    BY <1>5 DEF RecoverPrepared
  <2> QED BY <1>1, <2>1, <2>2, ManKept
<1>11. OrderOK'
  BY <1>1, <1>2, <1>5 DEF OrderOK, PlaceOK, Busy, Publishing, Compensating
<1>12. OfferOK'
  BY <1>1, <1>2, <1>5 DEF RecoverPrepared, OfferOK, Undone
<1>13. BakOK'
  BY <1>1 DEF RecoverPrepared, At, Skip, BakOK, Publishing
<1>14. SavedOK'
  BY <1>1, <1>5 DEF RecoverPrepared, Fail, SavedOK, Saved
<1>15. (Calm' => Calm) /\ Alone' \subseteq Alone /\ shape' = shape
  BY DEF RecoverPrepared, Fail, Calm, Alone
<1>16. Promised' = Promised
  BY <1>5, <1>15, PromisedSame
<1>17. EditsCounted /\ OnePending /\ TempsOK /\ CapturedOK /\ RestOK /\ PendingOK /\ ProgressOK
       /\ RolledOK /\ LeftOK
  BY DEF RewindInv
<1>18. EditsCounted'
  BY <1>17 DEF Fail, EditsCounted, Alone
<1>19. OnePending'
  BY <1>17, <1>5 DEF RecoverPrepared, Fail, Skip, OnePending, Pending, Calm
<1>20. TempsOK' /\ CapturedOK' /\ ProgressOK'
  BY <1>2, NotCommitting DEF Publishing
<1>21. RestOK'
  BY <1>15, <1>16, <1>17, <1>5 DEF RecoverPrepared, RestOK, Pending
<1>22. PendingOK'
  <2>1. Calm' => Calm /\ op.pc # "compswap"
    BY <1>2, <1>15
  <2>2. UNCHANGED <<man, target, bak>>
    BY <1>5 DEF RecoverPrepared
  <2>3. \A t \in Pending : tmp'[t] = tmp[t]
    BY <1>6 DEF RecoverPrepared, Pending
  <2> QED BY <1>15, <1>16, <1>17, <2>1, <2>2, <2>3, PendingPlain
<1>23. fails' \in Nat /\ fails' > 0
  BY <1>1, Consts DEF Fail, RTypeOK
<1>24. RolledOK'
  BY <1>2, <1>23 DEF RolledOK, Compensating
<1>25. LeftOK'
  BY <1>23 DEF LeftOK
<1> QED
  BY <1>7, <1>8, <1>9, <1>10, <1>11, <1>12, <1>13, <1>14, <1>18, <1>19, <1>20, <1>21, <1>22, <1>24, <1>25
  DEF RewindInv, StructureOK

(* Either way the invariant is kept.                                       *)
LEMMA RecoverPreparedKeeps ==
  ASSUME RewindInv, RecoverPrepared
  PROVE  RewindInv'
<1>1. CASE Persist([man[op.t] EXCEPT !.state = "aborted"]) /\ UNCHANGED hist
  BY <1>1, RecoverAbortsKeeps
<1>2. CASE Fail /\ UNCHANGED man
  BY <1>2, RecoverUnwrittenKeeps
<1> QED BY <1>1, <1>2 DEF RecoverPrepared

(* A committing manifest is compensated as a failing commit is.            *)
LEMMA RecoverCommittingKeeps ==
  ASSUME RewindInv, RecoverCommitting
  PROVE  RewindInv'
<1>1. RTypeOK /\ PlaceOK /\ MemOK /\ ManOK /\ OrderOK /\ OfferOK /\ BakOK /\ SavedOK
  BY DEF RewindInv, StructureOK
<1>2. op.pc = "recover" /\ op'.pc = "comp" /\ op'.t = op.t /\ op'.i = NumFiles /\ op'.err = op.err
      /\ op'.startup = op.startup
  BY DEF RecoverCommitting, At, Goto
<1>3. man \in [Txs -> Manifests] /\ mem \in Manifests /\ op.pc \in Steps
  BY <1>1 DEF RTypeOK
<1>4. mem' = man[op.t] /\ mem' \in Manifests /\ op.t \in Txs /\ man[op.t].state = "committing"
  BY <1>3 DEF RecoverCommitting
<1>5. man' = man /\ man' \in [Txs -> Manifests]
  BY <1>3 DEF RecoverCommitting
<1>6. RTypeOK'
  <2>1. op' \in OpSpace
    <3>1. op' = [pc |-> op'.pc, t |-> op'.t, i |-> op'.i, err |-> op'.err, startup |-> op'.startup]
      BY <1>1 DEF RecoverCommitting, At, Goto, disk, hist, RTypeOK
    <3>2. op'.pc \in Steps /\ op'.t \in 0 .. MaxTx + 1 /\ op'.i \in 0 .. NumFiles + 1
      BY <1>2, Consts DEF RecoverCommitting, Steps
    <3>3. op'.err \in BOOLEAN /\ op'.startup \in BOOLEAN
      BY <1>1, <1>2 DEF RTypeOK
    <3> QED BY <3>1, <3>2, <3>3, OpMade
  <2>2. /\ target' \in [Files -> Images] /\ bak' \in [Txs -> [Files -> Images]]
        /\ tmp' \in [Txs -> [Files -> Images]] /\ recov' \in [Files -> [Images -> Images]]
    <3>1. "absent" \in Images /\ mem.fwd \in [Files -> Images] /\ mem.rst \in [Files -> Images]
      BY <1>3, ManifestFields DEF Images
    <3> QED BY <1>1 DEF RecoverCommitting, disk, RTypeOK
  <2>3. /\ shape' \in Shapes /\ user' \in [Files -> Images \cup {"none"}]
        /\ odd' \subseteq {"edit", "split", "overpending"}
    BY <1>1 DEF RecoverCommitting, hist, RTypeOK
  <2>4. lastUndo' \in 0 .. MaxTx /\ edits' \in 0 .. MaxEdits /\ fails' \in 0 .. MaxFails
        /\ crashes' \in 0 .. MaxCrashes
    BY <1>1 DEF RecoverCommitting, hist, RTypeOK
  <2> QED BY <1>4, <1>5, <2>1, <2>2, <2>3, <2>4 DEF RTypeOK, OpSpace
<1>7. PlaceOK'
  BY Consts DEF RecoverCommitting, Goto, PlaceOK, Compensating
<1>8. MemOK'
  BY <1>2, <1>4, <1>5 DEF MemOK, Publishing
<1>9. ManOK'
  <2>1. op'.pc \in Busy => WellMadeIn(mem', man, Before)
    BY <1>1, <1>4 DEF ManOK, WellMade
  <2>2. UNCHANGED <<shape, man>>
    BY <1>5 DEF RecoverCommitting
  <2> QED BY <1>1, <2>1, <2>2, ManKept
<1>10. OrderOK'
  BY <1>1, <1>2 DEF RecoverCommitting, OrderOK, PlaceOK
<1>11. OfferOK'
  BY <1>1 DEF RecoverCommitting, At, OfferOK, Undone
<1>12. BakOK'
  BY <1>1, <1>2, Consts DEF RecoverCommitting, disk, BakOK
<1>13. SavedOK'
  BY <1>1 DEF RecoverCommitting, disk, hist, SavedOK, Saved
<1>14. (Calm' => Calm) /\ Alone' \subseteq Alone /\ shape' = shape
  BY DEF RecoverCommitting, hist, Calm, Alone
<1>15. Promised' = Promised
  BY <1>5, <1>14, PromisedSame
<1>16. EditsCounted /\ OnePending /\ TempsOK /\ CapturedOK /\ RestOK /\ PendingOK /\ ProgressOK
       /\ RolledOK /\ LeftOK
  BY DEF RewindInv
<1>17. EditsCounted'
  BY <1>16 DEF RecoverCommitting, hist, EditsCounted, Alone
<1>18. OnePending'
  BY <1>16 DEF RecoverCommitting, Goto, hist, OnePending, Pending, Calm
<1>19. TempsOK' /\ CapturedOK' /\ ProgressOK'
  BY <1>2, NotCommitting DEF Publishing
<1>20. RestOK'
  BY DEF RecoverCommitting, RestOK, Pending
<1>21. PendingOK'
  <2>1. Calm' => Calm /\ op.pc # "compswap"
    BY <1>14 DEF RecoverCommitting, At
  <2>2. UNCHANGED <<man, target, bak>>
    BY DEF RecoverCommitting, disk
  <2>3. \A t \in Pending : tmp'[t] = tmp[t]
    BY DEF RecoverCommitting, disk
  <2> QED BY <1>14, <1>15, <1>16, <2>1, <2>2, <2>3, PendingPlain
<1>22. RolledOK'
  BY <1>16, Consts DEF RecoverCommitting, Goto, hist, RolledOK, Alone
<1>23. LeftOK'
  BY DEF RecoverCommitting, Goto, LeftOK, Left
<1> QED
  BY <1>6, <1>7, <1>8, <1>9, <1>10, <1>11, <1>12, <1>13, <1>17, <1>18, <1>19, <1>20, <1>21, <1>22, <1>23
  DEF RewindInv, StructureOK

(* A settled manifest decides what is offered for undo.                    *)
LEMMA RecoverSettledKeeps ==
  ASSUME RewindInv, RecoverSettled
  PROVE  RewindInv'
<1>1. RTypeOK /\ PlaceOK /\ MemOK /\ ManOK /\ OrderOK /\ OfferOK /\ BakOK /\ SavedOK
  BY DEF RewindInv, StructureOK
<1>2. op.pc = "recover" /\ op'.pc = "recover" /\ op'.t = op.t + 1 /\ op'.i = op.i /\ op'.err = op.err
      /\ op'.startup = op.startup
  BY DEF RecoverSettled, At, Skip
<1>3. man \in [Txs -> Manifests] /\ mem \in Manifests /\ op.pc \in Steps
  BY <1>1 DEF RTypeOK
<1>4. mem' = mem /\ mem' \in Manifests
  BY <1>3 DEF RecoverSettled
<1>5. man' = man /\ man' \in [Txs -> Manifests]
  BY <1>3 DEF RecoverSettled
<1>6. RTypeOK'
  <2>1. op' \in OpSpace
    <3>1. op' = [pc |-> op'.pc, t |-> op'.t, i |-> op'.i, err |-> op'.err, startup |-> op'.startup]
      BY <1>1 DEF RecoverSettled, Skip, RTypeOK
    <3>2. op'.pc \in Steps /\ op'.t \in 0 .. MaxTx + 1 /\ op'.i \in 0 .. NumFiles + 1
      BY <1>1, <1>2, Consts DEF RecoverSettled, RTypeOK
    <3>3. op'.err \in BOOLEAN /\ op'.startup \in BOOLEAN
      BY <1>1, <1>2 DEF RTypeOK
    <3> QED BY <3>1, <3>2, <3>3, OpMade
  <2>2. /\ target' \in [Files -> Images] /\ bak' \in [Txs -> [Files -> Images]]
        /\ tmp' \in [Txs -> [Files -> Images]] /\ recov' \in [Files -> [Images -> Images]]
    <3>1. "absent" \in Images /\ mem.fwd \in [Files -> Images] /\ mem.rst \in [Files -> Images]
      BY <1>3, ManifestFields DEF Images
    <3> QED BY <1>1 DEF RecoverSettled, disk, RTypeOK
  <2>3. /\ shape' \in Shapes /\ user' \in [Files -> Images \cup {"none"}]
        /\ odd' \subseteq {"edit", "split", "overpending"}
    BY <1>1 DEF RecoverSettled, hist, RTypeOK
  <2>4. lastUndo' \in 0 .. MaxTx /\ edits' \in 0 .. MaxEdits /\ fails' \in 0 .. MaxFails
        /\ crashes' \in 0 .. MaxCrashes
    BY <1>1, Consts DEF RecoverSettled, hist, RTypeOK
  <2> QED BY <1>4, <1>5, <2>1, <2>2, <2>3, <2>4 DEF RTypeOK, OpSpace
<1>7. PlaceOK'
  BY <1>1, <1>2, Consts DEF RecoverSettled, PlaceOK, Busy, Publishing, Compensating
<1>8. MemOK'
  BY <1>2 DEF MemOK, Busy, Publishing, Compensating
<1>9. ManOK'
  <2>1. op'.pc \in Busy => WellMadeIn(mem', man, Before)
    BY <1>1, <1>2, <1>4 DEF ManOK, WellMade
  <2>2. UNCHANGED <<shape, man>>
    BY <1>5 DEF RecoverSettled
  <2> QED BY <1>1, <2>1, <2>2, ManKept
<1>10. OrderOK'
  BY <1>1, <1>2 DEF RecoverSettled, OrderOK, PlaceOK
<1>11. OfferOK'
  BY <1>1 DEF RecoverSettled, At, OfferOK, Undone
<1>12. BakOK'
  BY <1>1, <1>2 DEF RecoverSettled, disk, BakOK, Publishing
<1>13. SavedOK'
  BY <1>1 DEF RecoverSettled, disk, hist, SavedOK, Saved
<1>14. (Calm' => Calm) /\ Alone' \subseteq Alone /\ shape' = shape
  BY DEF RecoverSettled, hist, Calm, Alone
<1>15. Promised' = Promised
  BY <1>5, <1>14, PromisedSame
<1>16. EditsCounted /\ OnePending /\ TempsOK /\ CapturedOK /\ RestOK /\ PendingOK /\ ProgressOK
       /\ RolledOK /\ LeftOK
  BY DEF RewindInv
<1>17. EditsCounted'
  BY <1>16 DEF RecoverSettled, hist, EditsCounted, Alone
<1>18. OnePending'
  BY <1>16 DEF RecoverSettled, Skip, hist, OnePending, Pending, Calm
<1>19. TempsOK' /\ CapturedOK' /\ ProgressOK'
  BY <1>2, NotCommitting DEF Publishing
<1>20. RestOK'
  BY <1>14, <1>15, <1>16 DEF RecoverSettled, disk, RestOK, Pending
<1>21. PendingOK'
  <2>1. Calm' => Calm /\ op.pc # "compswap"
    BY <1>14 DEF RecoverSettled, At
  <2>2. UNCHANGED <<man, target, bak>>
    BY DEF RecoverSettled, disk
  <2>3. \A t \in Pending : tmp'[t] = tmp[t]
    BY DEF RecoverSettled, disk
  <2> QED BY <1>14, <1>15, <1>16, <2>1, <2>2, <2>3, PendingPlain
<1>22. RolledOK'
  BY <1>14, <1>16 DEF RecoverSettled, Skip, disk, hist, RolledOK
<1>23. LeftOK'
  <2> SUFFICES ASSUME Calm', fails' = 0, NEW t \in Pending' \cap Left'
               PROVE  odd' # {} /\ \A x \in Alone' \cap man'[t].pub : target'[x] = man'[t].fwd[x]
    BY DEF LeftOK
  <2>1. t \in Txs /\ t # op.t /\ t < op.t + 1 /\ op.t \in Txs
    BY <1>2 DEF RecoverSettled, Pending, Left
  <2>2. Calm /\ t \in Pending /\ t \in Left /\ fails = 0 /\ man'[t] = man[t]
        /\ UNCHANGED <<target, odd, user>>
    BY <1>14, <2>1, Consts DEF RecoverSettled, At, disk, hist, Pending, Left
  <2> QED BY <1>14, <1>16, <2>2 DEF LeftOK
<1> QED
  BY <1>6, <1>7, <1>8, <1>9, <1>10, <1>11, <1>12, <1>13, <1>17, <1>18, <1>19, <1>20, <1>21, <1>22, <1>23
  DEF RewindInv, StructureOK

(* The recovery of every manifest is over.                                 *)
LEMMA RecoveredKeeps ==
  ASSUME RewindInv, Recovered
  PROVE  RewindInv'
<1>1. RTypeOK /\ PlaceOK /\ MemOK /\ ManOK /\ OrderOK /\ OfferOK /\ BakOK /\ SavedOK
  BY DEF RewindInv, StructureOK
<1>2. op.pc = "recover" /\ op'.pc = "idle" /\ op'.t = 0 /\ op'.i = op.i /\ op'.err = op.err
      /\ op'.startup = FALSE
  BY DEF Recovered, At
<1>3. man \in [Txs -> Manifests] /\ mem \in Manifests /\ op.pc \in Steps
  BY <1>1 DEF RTypeOK
<1>4. mem' = mem /\ mem' \in Manifests
  BY <1>3 DEF Recovered
<1>5. man' = man /\ man' \in [Txs -> Manifests]
  BY <1>3 DEF Recovered
<1>6. RTypeOK'
  <2>1. op' \in OpSpace
    <3>1. op' = [pc |-> op'.pc, t |-> op'.t, i |-> op'.i, err |-> op'.err, startup |-> op'.startup]
      BY <1>1 DEF Recovered, At, disk, hist, RTypeOK
    <3>2. op'.pc \in Steps /\ op'.t \in 0 .. MaxTx + 1 /\ op'.i \in 0 .. NumFiles + 1
      BY <1>1 DEF Recovered, RTypeOK, Steps
    <3>3. op'.err \in BOOLEAN /\ op'.startup \in BOOLEAN
      BY <1>1, <1>2 DEF RTypeOK
    <3> QED BY <3>1, <3>2, <3>3, OpMade
  <2>2. /\ target' \in [Files -> Images] /\ bak' \in [Txs -> [Files -> Images]]
        /\ tmp' \in [Txs -> [Files -> Images]] /\ recov' \in [Files -> [Images -> Images]]
    <3>1. "absent" \in Images /\ mem.fwd \in [Files -> Images] /\ mem.rst \in [Files -> Images]
      BY <1>3, ManifestFields DEF Images
    <3> QED BY <1>1 DEF Recovered, disk, RTypeOK
  <2>3. /\ shape' \in Shapes /\ user' \in [Files -> Images \cup {"none"}]
        /\ odd' \subseteq {"edit", "split", "overpending"}
    BY <1>1 DEF Recovered, hist, RTypeOK
  <2>4. lastUndo' \in 0 .. MaxTx /\ edits' \in 0 .. MaxEdits /\ fails' \in 0 .. MaxFails
        /\ crashes' \in 0 .. MaxCrashes
    BY <1>1 DEF Recovered, hist, RTypeOK
  <2> QED BY <1>4, <1>5, <2>1, <2>2, <2>3, <2>4 DEF RTypeOK, OpSpace
<1>7. PlaceOK'
  BY <1>1, <1>2 DEF PlaceOK, Busy, Publishing, Compensating
<1>8. MemOK'
  BY <1>2 DEF MemOK, Busy, Publishing, Compensating
<1>9. ManOK'
  <2>1. op'.pc \in Busy => WellMadeIn(mem', man, Before)
    BY <1>2 DEF Busy, Publishing, Compensating
  <2>2. UNCHANGED <<shape, man>>
    BY <1>5 DEF Recovered
  <2> QED BY <1>1, <2>1, <2>2, ManKept
<1>10. OrderOK'
  BY <1>1 DEF Recovered, OrderOK, Busy, Publishing, Compensating
<1>11. OfferOK'
  BY <1>1 DEF Recovered, At, OfferOK, Undone
<1>12. BakOK'
  BY <1>1 DEF Recovered, disk, BakOK, Publishing
<1>13. SavedOK'
  BY <1>1 DEF Recovered, disk, hist, SavedOK, Saved
<1>14. (Calm' => Calm) /\ Alone' \subseteq Alone /\ shape' = shape
  BY DEF Recovered, hist, Calm, Alone
<1>15. Promised' = Promised
  BY <1>5, <1>14, PromisedSame
<1>16. EditsCounted /\ OnePending /\ TempsOK /\ CapturedOK /\ RestOK /\ PendingOK /\ ProgressOK
       /\ RolledOK /\ LeftOK
  BY DEF RewindInv
<1>17. EditsCounted'
  BY <1>16 DEF Recovered, hist, EditsCounted, Alone
<1>18. OnePending'
  BY <1>16 DEF Recovered, hist, OnePending, Pending, Calm, Busy, Publishing, Compensating
<1>19. TempsOK' /\ CapturedOK' /\ ProgressOK'
  BY <1>2, NotCommitting DEF Publishing
<1>20. RestOK'
  BY <1>14, <1>15, <1>16 DEF Recovered, disk, RestOK, Pending
<1>21. PendingOK'
  <2>1. Calm' => Calm /\ op.pc # "compswap"
    BY <1>14 DEF Recovered, At
  <2>2. UNCHANGED <<man, target, bak>>
    BY DEF Recovered, disk
  <2>3. \A t \in Pending : tmp'[t] = tmp[t]
    BY DEF Recovered, disk
  <2> QED BY <1>14, <1>15, <1>16, <2>1, <2>2, <2>3, PendingPlain
<1>22. RolledOK'
  BY <1>16 DEF Recovered, hist, RolledOK, Compensating
<1>23. LeftOK'
  <2> SUFFICES ASSUME Calm', fails' = 0, NEW t \in Pending' \cap Left'
               PROVE  odd' # {} /\ \A x \in Alone' \cap man'[t].pub : target'[x] = man'[t].fwd[x]
    BY DEF LeftOK
  <2>1. t \in Txs
    BY DEF Pending
  <2>2. Calm /\ t \in Pending /\ t \in Left /\ fails = 0 /\ man'[t] = man[t]
        /\ UNCHANGED <<target, odd, user>>
    BY <1>14, Consts DEF Recovered, At, disk, hist, Pending, Left
  <2> QED BY <1>14, <1>16, <2>2 DEF LeftOK
<1> QED
  BY <1>6, <1>7, <1>8, <1>9, <1>10, <1>11, <1>12, <1>13, <1>17, <1>18, <1>19, <1>20, <1>21, <1>22, <1>23
  DEF RewindInv, StructureOK

(* The user edits a file.                                                  *)
LEMMA EditKeeps ==
  ASSUME RewindInv, NEW f \in Files, NEW image \in {"ext", "absent", "old"}, Edit(f, image)
  PROVE  RewindInv'
<1>1. RTypeOK /\ PlaceOK /\ MemOK /\ ManOK /\ OrderOK /\ OfferOK /\ BakOK /\ SavedOK
  BY DEF RewindInv, StructureOK
<1>2. EditsCounted /\ OnePending /\ TempsOK /\ CapturedOK /\ RestOK /\ PendingOK /\ ProgressOK /\ RolledOK
      /\ LeftOK
  BY DEF RewindInv
<1>3. /\ op.pc \notin {"swap", "compswap"} /\ odd' = odd \cup {"edit"} /\ edits' = edits + 1
      /\ edits < MaxEdits
      /\ UNCHANGED <<shape, bak, tmp, recov, man, mem, op, lastUndo, fails, crashes>>
      /\ target'[f] = image /\ user'[f] = image
      /\ \A x \in Files : x # f => target'[x] = target[x] /\ user'[x] = user[x]
      /\ target' \in [Files -> Images] /\ user' \in [Files -> Images \cup {"none"}]
  BY <1>1 DEF Edit, RTypeOK, Images
<1>4. Alone' \subseteq Alone /\ \A x \in Alone' : x \in Files /\ target'[x] = target[x]
  <2> SUFFICES ASSUME NEW x \in Alone' PROVE x \in Alone /\ x \in Files /\ target'[x] = target[x]
    OBVIOUS
  <2>1. x \in Files /\ user'[x] = "none" /\ x # f
    BY <1>3 DEF Alone
  <2> QED BY <1>3 DEF Alone
<1>5. (Calm' => Calm) /\ Promised' = Promised /\ odd' # {}
  BY <1>3, PromisedSame DEF Calm
<1>6. RTypeOK'
  <2>1. edits' \in 0 .. MaxEdits
    BY <1>1, <1>3, Consts DEF RTypeOK
  <2> QED BY <1>1, <1>3, <2>1 DEF RTypeOK
<1>7. PlaceOK' /\ MemOK' /\ OrderOK'
  BY <1>1, <1>3 DEF PlaceOK, MemOK, OrderOK, Announced
<1>8. ManOK'
  BY <1>1, <1>3, ManKept DEF ManOK, WellMade
<1>9. OfferOK' /\ BakOK'
  BY <1>1, <1>3 DEF OfferOK, Undone, BakOK
<1>10. SavedOK'
  BY <1>1, <1>3 DEF SavedOK, Saved
<1>11. EditsCounted' /\ TempsOK'
  BY <1>3, <1>2 DEF EditsCounted, TempsOK
<1>12. OnePending'
  BY <1>3, <1>5, <1>2 DEF OnePending, Pending
<1>13. CapturedOK'
  BY <1>3, <1>4, <1>5, <1>2 DEF CapturedOK
<1>14. RestOK'
  BY <1>3, <1>4, <1>5, <1>2 DEF RestOK, Pending
<1>15. PendingOK'
  BY <1>3, <1>4, <1>5, <1>2, FileSame DEF PendingOK, Pending
<1>16. ProgressOK'
  BY <1>3, <1>4, <1>5, <1>2 DEF ProgressOK
<1>17. RolledOK' /\ LeftOK'
  BY <1>3, <1>4, <1>5, <1>2 DEF RolledOK, LeftOK, Left, Pending
<1> QED
  BY <1>6, <1>7, <1>8, <1>9, <1>10, <1>11, <1>12, <1>13, <1>14, <1>15, <1>16, <1>17 DEF RewindInv, StructureOK

(* A step that changes nothing.                                            *)
LEMMA StutterKeeps ==
  ASSUME RewindInv, UNCHANGED rvars
  PROVE  RewindInv'
<1>1. UNCHANGED <<shape, target, bak, tmp, recov, man, mem, op, lastUndo, edits, fails, crashes, user, odd>>
  BY DEF rvars, disk, hist
<1>2. Promised' = Promised
  BY <1>1, PromisedSame
<1>3. RTypeOK' /\ PlaceOK' /\ MemOK' /\ OrderOK'
  BY <1>1 DEF RewindInv, StructureOK, RTypeOK, PlaceOK, MemOK, OrderOK, Announced
<1>4. ManOK'
  BY <1>1, ManKept DEF RewindInv, StructureOK, ManOK, WellMade
<1>5. OfferOK' /\ BakOK' /\ SavedOK'
  BY <1>1 DEF RewindInv, StructureOK, OfferOK, BakOK, SavedOK, Saved, Undone
<1>6. EditsCounted' /\ TempsOK' /\ OnePending' /\ CapturedOK'
  BY <1>1 DEF RewindInv, EditsCounted, TempsOK, OnePending, CapturedOK, Calm, Alone, Pending
<1>7. RestOK' /\ PendingOK'
  BY <1>1, <1>2
  DEF RewindInv, RestOK, PendingOK, FileOK, InWindow, Published, BeingRolledBack, Calm, Alone, Pending
<1>8. ProgressOK' /\ RolledOK' /\ LeftOK'
  BY <1>1 DEF RewindInv, ProgressOK, RolledOK, LeftOK, Left, Calm, Alone, Pending
<1> QED
  BY <1>3, <1>4, <1>5, <1>6, <1>7, <1>8 DEF RewindInv, StructureOK

(* The invariant holds when the agent's changes are in the workspace and   *)
(* no rewind has begun.                                                    *)
LEMMA InitInv == RInit => RewindInv
<1> SUFFICES ASSUME RInit PROVE RewindInv
  OBVIOUS
<1>1. Images = {"absent", "old", "new", "ext"} /\ After \in [Files -> Images]
      /\ Blank \in [Txs -> [Files -> Images]]
  BY DEF Images, After, Blank
<1>2. \A t \in Txs : man[t] = NoManifest /\ man[t].state = "none"
  BY NoManifestFacts DEF RInit
<1>3. op.pc = "idle" /\ op.t = 0 /\ op.i = 0 /\ op.err = FALSE /\ op.startup = FALSE
  BY DEF RInit
<1>4. RTypeOK
  <2>1. man \in [Txs -> Manifests] /\ mem \in Manifests
    BY NoManifestFacts DEF RInit
  <2>2. op \in OpSpace
    <3>1. "idle" \in Steps /\ 0 \in 0 .. MaxTx + 1 /\ 0 \in 0 .. NumFiles + 1 /\ FALSE \in BOOLEAN
      BY Consts DEF Steps
    <3> QED BY <3>1, OpMade DEF RInit
  <2>3. /\ shape \in Shapes /\ target \in [Files -> Images] /\ bak \in [Txs -> [Files -> Images]]
        /\ tmp \in [Txs -> [Files -> Images]] /\ recov \in [Files -> [Images -> Images]]
    BY <1>1 DEF RInit
  <2>4. user \in [Files -> Images \cup {"none"}] /\ odd \subseteq {"edit", "split", "overpending"}
    BY DEF RInit
  <2>5. lastUndo \in 0 .. MaxTx /\ edits \in 0 .. MaxEdits /\ fails \in 0 .. MaxFails
        /\ crashes \in 0 .. MaxCrashes
    BY Consts DEF RInit
  <2> QED BY <2>1, <2>2, <2>3, <2>4, <2>5 DEF RTypeOK, OpSpace
<1>5. PlaceOK /\ MemOK /\ TempsOK /\ ProgressOK
  BY <1>3 DEF PlaceOK, MemOK, TempsOK, ProgressOK, Busy, Publishing, Compensating
<1>6. ManOK /\ OrderOK /\ OfferOK
  BY <1>2 DEF ManOK, OrderOK, OfferOK, Busy, Publishing, Compensating, RInit
<1>7. BakOK /\ SavedOK
  BY DEF BakOK, SavedOK, RInit, Blank, Publishing
<1>8. Pending = {} /\ Alone = Files
  BY <1>2 DEF Pending, Alone, RInit
<1>9. Promised = After
  BY <1>2 DEF Promised
<1>10. EditsCounted /\ OnePending /\ CapturedOK /\ PendingOK /\ RolledOK /\ LeftOK
  BY <1>3, <1>8 DEF EditsCounted, OnePending, CapturedOK, PendingOK, RolledOK, LeftOK, Compensating
<1>11. RestOK
  BY <1>9 DEF RestOK, RInit
<1> QED BY <1>4, <1>5, <1>6, <1>7, <1>10, <1>11 DEF RewindInv, StructureOK

(* Every step keeps the invariant.                                         *)
LEMMA NextInv == RewindInv /\ [RNext]_rvars => RewindInv'
<1> SUFFICES ASSUME RewindInv, [RNext]_rvars PROVE RewindInv'
  OBVIOUS
<1>1. CASE StageFails
  BY <1>1, StageAbortsKeeps, StageDropsKeeps DEF StageFails
<1>2. CASE SwapFails
  BY <1>2, SwapPutsBackKeeps, SwapStaysOpenKeeps DEF SwapFails
<1>3. CASE Finalize
  <2>1. mem.kind \in {"rewind", "undo"}
    BY ManifestFields DEF RewindInv, StructureOK, RTypeOK
  <2> QED BY <1>3, <2>1, FinalizeRewindKeeps, FinalizeUndoKeeps
<1>4. CASE MarkUndone
  BY <1>4, ParentMarkedKeeps, ParentUnmarkedKeeps DEF MarkUndone
<1>5. CASE CompRemove
  BY <1>5, CompRemoveLastKeeps, CompRemoveFirstKeeps
<1>6. CASE Settle
  BY <1>6, SettleWrittenKeeps, SettleFailsKeeps DEF Settle
<1>7. CASE \/ CommitRewind \/ UndoRewind \/ Stage \/ Prepare \/ PrepareFails \/ Commit \/ CommitFails
           \/ Intent \/ Backup \/ Swap \/ Progress
  BY <1>7, CommitRewindKeeps, UndoRewindKeeps, StageKeeps, PrepareKeeps, PrepareFailsKeeps, CommitKeeps,
     CommitFailsKeeps, IntentKeeps, BackupKeeps, SwapKeeps, ProgressKeeps
<1>8. CASE PublishFails \/ CompSkip \/ CompWindow \/ CompForeign \/ CompSwap \/ CompFails
  BY <1>8, PublishFailsKeeps, CompSkipKeeps, CompWindowKeeps, CompForeignKeeps, CompSwapKeeps, CompFailsKeeps
<1>9. CASE Crash \/ Open \/ RecoverPrepared \/ RecoverCommitting \/ RecoverSettled \/ Recovered
  BY <1>9, CrashKeeps, OpenKeeps, RecoverPreparedKeeps, RecoverCommittingKeeps, RecoverSettledKeeps,
     RecoveredKeeps
<1>10. CASE \E x \in Files, image \in {"ext", "absent", "old"} : Edit(x, image)
  BY <1>10, EditKeeps
<1>11. CASE UNCHANGED rvars
  BY <1>11, StutterKeeps
<1> QED
  BY <1>1, <1>2, <1>3, <1>4, <1>5, <1>6, <1>7, <1>8, <1>9, <1>10, <1>11 DEF RNext

(* RewindInv holds throughout, for any number of files and transactions,   *)
(* wherever the process dies, whatever fails and whatever the user edits.  *)
THEOREM RewindIsInductive == RSpec => []RewindInv
  BY InitInv, NextInv, PTL DEF RSpec

(* The manifests on disk are sound whatever happened: an undo always has a *)
(* settled rewind for its parent, and recoverTransactions never offers a   *)
(* rewind again whose undo committed.                                      *)
THEOREM ManifestsAreSound == RSpec => []ManifestsSound
<1>1. RewindInv => ManifestsSound
  <2> SUFFICES ASSUME RewindInv PROVE ManifestsSound
    OBVIOUS
  <2>1. RTypeOK /\ ManOK /\ OfferOK
    BY DEF RewindInv, StructureOK
  <2> QED BY <2>1 DEF ManifestsSound, UndoneNotOffered, At, ManOK, WellMade, WellMadeIn, OfferOK
<1> QED BY <1>1, RewindIsInductive, PTL

(* No step of a commit, a compensation or a recovery destroys what the     *)
(* user wrote into a file: publishTarget and compensatePublished leave it  *)
(* at its path, in a backup, or in a durable manifest.                     *)
THEOREM EditsAreKept == RSpec => []EditsSurvive
<1>1. RewindInv => EditsSurvive
  BY DEF RewindInv, StructureOK, SavedOK, Saved, EditsSurvive
<1> QED BY <1>1, RewindIsInductive, PTL

(* A rewind publishes every file or none: at rest with nothing pending the *)
(* workspace is exactly what the settled manifests promise, and only a     *)
(* failing file operation leaves one pending.                              *)
THEOREM RewindIsAllOrNothing == RSpec => []AllOrNothing
<1>1. RewindInv => AllOrNothing
  <2> SUFFICES ASSUME RewindInv, At("idle"), odd = {}
               PROVE  (Pending = {} => target = Promised) /\ (fails = 0 => Pending = {})
    BY DEF AllOrNothing
  <2>1. op.pc = "idle" /\ Calm /\ Alone = Files
    BY DEF RewindInv, EditsCounted, At, Calm
  <2>2. ASSUME Pending = {} PROVE target = Promised
    <3>1. \A x \in Files : target[x] = Promised[x]
      BY <2>1, <2>2 DEF RewindInv, RestOK
    <3>2. target \in [Files -> Images] /\ Promised \in [Files -> Images]
      <4>1. After \in [Files -> Images]
        BY DEF After, Images
      <4> DEFINE D == {t \in Txs : man[t].state \in Done}
      <4>2. Promised = IF D = {} THEN After ELSE man[Max(D)].rst
        BY DEF Promised, Done
      <4>3. D \in SUBSET (0 .. MaxTx) /\ D \subseteq Txs
        BY Consts
      <4> HIDE DEF D
      <4>4. D # {} => Max(D) \in Txs
        BY <4>3, MaxIn, Consts
      <4>5. \A t \in Txs : man[t].rst \in [Files -> Images]
        BY ManifestFields DEF RewindInv, StructureOK, RTypeOK
      <4> QED BY <4>1, <4>2, <4>4, <4>5 DEF RewindInv, StructureOK, RTypeOK
    <3> QED BY <3>1, <3>2
  <2>3. ASSUME fails = 0 PROVE Pending = {}
    <3>1. Left = Txs /\ Pending \subseteq Txs
      BY <2>1 DEF Left, Pending
    <3> QED BY <2>1, <2>3, <3>1 DEF RewindInv, LeftOK
  <2> QED BY <2>2, <2>3
<1> QED BY <1>1, RewindIsInductive, PTL

(* A file the user edited keeps its rewind pending, but                    *)
(* compensatePublished rolls back every other file all the same.           *)
THEOREM OthersAreRolledBack == RSpec => []OthersRolledBack
<1>1. RewindInv => OthersRolledBack
  <2> SUFFICES ASSUME RewindInv, At("idle"), fails = 0, odd \subseteq {"edit"}, NEW t \in Pending,
                      NEW x \in man[t].pub, user[x] = "none"
               PROVE  target[x] = man[t].fwd[x]
    BY DEF OthersRolledBack
  <2>1. t \in Txs /\ man[t] \in Manifests
    BY DEF RewindInv, StructureOK, RTypeOK, Pending
  <2>2. x \in Files
    BY <2>1, ManifestFields
  <2>3. x \in Alone /\ t \in Left /\ Calm
    BY <2>1, <2>2 DEF Alone, Left, At, Calm
  <2> QED BY <2>3 DEF RewindInv, LeftOK
<1> QED BY <1>1, RewindIsInductive, PTL
=============================================================================
