------------------------------- MODULE HostProofs -------------------------------
(***************************************************************************)
(* Proofs about what the host keeps on its disk.  Of the artifact store, for  *)
(* any number of processes, references and slots: while a commit names only   *)
(* what was published for it, no prune deletes a file that a publication       *)
(* counts on, or that the database names where a prune reads it.  Of the       *)
(* skill library, for any patches: one is approved where it stands on all it   *)
(* depends on.  Of the journal of a learning job, for any number of effects:   *)
(* clean means restored, but for dispatches that were reported failed, and     *)
(* resume rebuilds what there was.  And of MCHost as a whole: these, and what   *)
(* DesktopUpdateProofs says of an installed program, hold of every behaviour   *)
(* of the host.                                                              *)
(***************************************************************************)
EXTENDS MCHost, FiniteSetTheorems, SequenceTheorems, TLAPS

SlotsAreFinite == IsFiniteSet(Slot) /\ KeptAreSlots

(* Who publishes or prunes has the lock, and is up. *)
LockIsHeld ==
  /\ lock \subseteq Process
  /\ \A p \in Process :
       /\ pc[p] \in {"publishing", "pruning"} => lock = {p}
       /\ pc[p] # "idle" => phase[p] = "up"

(* The pin file is what the memory says until the memory is gone, and a       *)
(* process that is not up has no work.                                       *)
FileIsMemory ==
  \A p \in Process :
    /\ phase[p] # "dead" => pinned[p] = {r \in Ref : pending[p][r] > 0}
    /\ phase[p] # "up" => work[p] = NoWork

Uses(p, r) == {s \in Slot : r \in work[p][s]}
Owed(p, r) == Cardinality(Uses(p, r))
              + (IF pc[p] \in {"publishing", "releasing"} /\ r \in reg[p] THEN 1 ELSE 0)

(* The pins of a process cover its work and what it is about to publish or to *)
(* release.                                                                  *)
PinsCover == \A p \in Process, r \in Ref : Owed(p, r) <= pending[p][r]

(* What a prune should have read from the database and has not is pinned. *)
PruneIsSafe ==
  \A p \in Process :
    pc[p] = "pruning" =>
      \A s \in Kept : named[s] \subseteq (reg[p] \union UNION {pinned[q] : q \in Process})

StoreInv ==
  /\ TypeOK /\ LockIsHeld /\ FileIsMemory /\ PinsCover
  /\ PublishedIsThere /\ NamedIsThere /\ PruneIsSafe

-----------------------------------------------------------------------------
LEMMA UsesAreCounted ==
  ASSUME SlotsAreFinite, NEW p, NEW r
  PROVE  /\ IsFiniteSet(Uses(p, r)) /\ Cardinality(Uses(p, r)) \in Nat
         /\ Cardinality(Uses(p, r)) = 0 <=> Uses(p, r) = {}
<1>1. Uses(p, r) \in SUBSET Slot
  BY DEF Uses
<1>2. IsFiniteSet(Uses(p, r))
  BY <1>1, FS_Subset DEF SlotsAreFinite
<1> QED BY <1>2, FS_CardinalityType, FS_EmptySet

LEMMA WorkIsPinned ==
  ASSUME SlotsAreFinite, StoreInv, NEW p \in Process, NEW s \in Slot
  PROVE  work[p][s] \subseteq pinned[p]
<1> SUFFICES ASSUME NEW r \in work[p][s] PROVE r \in pinned[p]
  OBVIOUS
<1>1. r \in Ref /\ phase[p] = "up"
  BY DEF StoreInv, TypeOK, FileIsMemory, NoWork
<1>2. Cardinality(Uses(p, r)) # 0 /\ Cardinality(Uses(p, r)) \in Nat
  BY UsesAreCounted DEF Uses
<1>3. Owed(p, r) <= pending[p][r] /\ pending[p][r] \in Nat
  BY <1>1 DEF StoreInv, PinsCover, TypeOK
<1>4. pending[p][r] > 0
  BY <1>2, <1>3 DEF Owed
<1> QED BY <1>1, <1>4 DEF StoreInv, FileIsMemory

(* The counts of the processes a step leaves alone are as before. *)
LEMMA CoverOfOthers ==
  ASSUME PinsCover, NEW p \in Process,
         \A q \in Process \ {p} : /\ pending'[q] = pending[q] /\ work'[q] = work[q]
                                  /\ pc'[q] = pc[q] /\ reg'[q] = reg[q],
         \A r \in Ref : Owed(p, r)' <= pending'[p][r]
  PROVE  PinsCover'
<1> SUFFICES ASSUME NEW q \in Process, NEW r \in Ref PROVE Owed(q, r)' <= pending'[q][r]
  BY DEF PinsCover
<1>1. CASE q = p
  BY <1>1
<1>2. CASE q # p
  <2>1. Owed(q, r)' = Owed(q, r)
    BY <1>2 DEF Owed, Uses
  <2> QED BY <1>2, <2>1 DEF PinsCover
<1> QED BY <1>1, <1>2

LEMMA StoreInitHolds == ASSUME SlotsAreFinite, MaxPinsIsNumber PROVE Init => StoreInv
<1> SUFFICES ASSUME Init PROVE StoreInv
  OBVIOUS
<1>1. TypeOK
  BY DEF Init, TypeOK, NoPins, NoWork, MaxPinsIsNumber
<1>2. LockIsHeld /\ FileIsMemory /\ PublishedIsThere /\ NamedIsThere /\ PruneIsSafe
  <2>1. FileIsMemory
    <3>1. \A p \in Process : pinned[p] = {} /\ {r \in Ref : pending[p][r] > 0} = {}
      BY DEF Init, NoPins
    <3> QED BY <3>1 DEF Init, FileIsMemory
  <2>2. LockIsHeld /\ PublishedIsThere /\ NamedIsThere /\ PruneIsSafe
    BY DEF Init, LockIsHeld, PublishedIsThere, NamedIsThere, PruneIsSafe, NoWork,
           SlotsAreFinite, KeptAreSlots
  <2> QED BY <2>1, <2>2
<1>3. PinsCover
  <2> SUFFICES ASSUME NEW p \in Process, NEW r \in Ref PROVE Owed(p, r) <= pending[p][r]
    BY DEF PinsCover
  <2>1. Uses(p, r) = {}
    BY DEF Init, Uses, NoWork
  <2>2. Cardinality(Uses(p, r)) = 0
    BY <2>1, UsesAreCounted
  <2>3. Owed(p, r) = 0 /\ pending[p][r] = 0
    BY <2>2 DEF Owed, Init, NoPins
  <2> QED BY <2>3
<1> QED BY <1>1, <1>2, <1>3 DEF StoreInv

LEMMA StartKeeps ==
  ASSUME SlotsAreFinite, StoreInv, NEW p \in Process, Start(p)
  PROVE  StoreInv'
<1> USE DEF StoreInv, disk
<1>1. TypeOK'
  BY DEF Start, TypeOK
<1>2. (LockIsHeld /\ PublishedIsThere /\ NamedIsThere /\ PruneIsSafe)'
  BY DEF Start, TypeOK, LockIsHeld, PublishedIsThere, NamedIsThere, PruneIsSafe
<1>3. FileIsMemory'
  BY DEF Start, TypeOK, FileIsMemory
<1>4. PinsCover'
  <2> SUFFICES ASSUME NEW q \in Process, NEW r \in Ref PROVE Owed(q, r)' <= pending'[q][r]
    BY DEF PinsCover
  <2>1. Owed(q, r)' = Owed(q, r)
    BY DEF Owed, Uses, Start
  <2> QED BY <2>1 DEF PinsCover, Start
<1> QED BY <1>1, <1>2, <1>3, <1>4

LEMMA CrashKeeps ==
  ASSUME SlotsAreFinite, MaxPinsIsNumber, StoreInv, NEW p \in Process, Crash(p)
  PROVE  StoreInv'
<1> USE DEF StoreInv, disk, Turn
<1>0. /\ phase' = [phase EXCEPT ![p] = "dead"] /\ lock' = lock \ {p}
      /\ pending' = [pending EXCEPT ![p] = NoPins] /\ work' = [work EXCEPT ![p] = NoWork]
      /\ pc' = [pc EXCEPT ![p] = "idle"] /\ reg' = [reg EXCEPT ![p] = {}]
      /\ UNCHANGED <<files, named, pinned>>
  BY DEF Crash
<1>1. TypeOK'
  <2>1. NoPins \in [Ref -> 0..MaxPins] /\ NoWork \in [Slot -> SUBSET Ref]
    BY DEF NoPins, NoWork, MaxPinsIsNumber
  <2> QED BY <1>0, <2>1 DEF TypeOK
<1>2. (LockIsHeld /\ FileIsMemory)'
  BY <1>0 DEF TypeOK, LockIsHeld, FileIsMemory
<1>3. (PublishedIsThere /\ NamedIsThere)'
  BY <1>0 DEF TypeOK, PublishedIsThere, NamedIsThere, NoWork
<1>4. PruneIsSafe'
  BY <1>0 DEF TypeOK, PruneIsSafe
<1>5. PinsCover'
  <2>1. ASSUME NEW r \in Ref PROVE Owed(p, r)' <= pending'[p][r]
    <3>1. Uses(p, r)' = {}
      BY <1>0 DEF Uses, NoWork, TypeOK
    <3>2. Cardinality(Uses(p, r)') = 0
      BY <3>1, FS_EmptySet
    <3>3. Owed(p, r)' = 0 /\ pending'[p][r] = 0
      BY <1>0, <3>2 DEF Owed, NoPins, TypeOK
    <3> QED BY <3>3
  <2> QED BY <1>0, <2>1, CoverOfOthers DEF TypeOK
<1> QED BY <1>1, <1>2, <1>3, <1>4, <1>5

LEMMA ReconcileKeeps ==
  ASSUME SlotsAreFinite, StoreInv, NEW p \in Process, Reconcile(p)
  PROVE  StoreInv'
<1> USE DEF StoreInv, disk
<1>0. /\ lock = {} /\ UNCHANGED <<files, named, lock, phase, pending, work, pc, reg>>
      /\ pinned' = [q \in Process |-> IF phase[q] = "dead" THEN {} ELSE pinned[q]]
  BY DEF Reconcile
<1>1. TypeOK'
  BY <1>0 DEF TypeOK
<1>2. (LockIsHeld /\ FileIsMemory /\ PublishedIsThere /\ NamedIsThere)'
  BY <1>0 DEF TypeOK, LockIsHeld, FileIsMemory, PublishedIsThere, NamedIsThere
<1>3. PruneIsSafe'
  BY <1>0 DEF LockIsHeld, PruneIsSafe
<1>4. PinsCover'
  BY <1>0 DEF PinsCover, Owed, Uses
<1> QED BY <1>1, <1>2, <1>3, <1>4

LEMMA PublishBeginKeeps ==
  ASSUME SlotsAreFinite, MaxPinsIsNumber, StoreInv, NEW p \in Process, NEW r \in Ref,
         PublishBegins(p, r)
  PROVE  StoreInv'
<1> USE DEF StoreInv, disk, Turn, Pins
<1> DEFINE counts == [pending[p] EXCEPT ![r] = @ + 1]
<1>0. /\ phase[p] = "up" /\ pc[p] = "idle" /\ lock = {} /\ pending[p][r] < MaxPins
      /\ lock' = {p} /\ UNCHANGED <<files, named, phase, work>>
      /\ pending' = [pending EXCEPT ![p] = counts]
      /\ pinned' = [pinned EXCEPT ![p] = {x \in Ref : counts[x] > 0}]
      /\ pc' = [pc EXCEPT ![p] = "publishing"] /\ reg' = [reg EXCEPT ![p] = {r}]
  BY DEF PublishBegins, Does
<1>a. counts \in [Ref -> 0..MaxPins] /\ counts[r] = pending[p][r] + 1
      /\ \A x \in Ref \ {r} : counts[x] = pending[p][x]
  BY <1>0 DEF TypeOK, MaxPinsIsNumber
<1> HIDE DEF counts
<1>1. TypeOK'
  BY <1>0, <1>a DEF TypeOK
<1>2. (LockIsHeld /\ FileIsMemory)'
  BY <1>0 DEF TypeOK, LockIsHeld, FileIsMemory
<1>3. (PublishedIsThere /\ NamedIsThere)'
  BY <1>0 DEF PublishedIsThere, NamedIsThere
<1>4. PruneIsSafe'
  BY <1>0 DEF TypeOK, LockIsHeld, PruneIsSafe
<1>5. PinsCover'
  <2>1. ASSUME NEW x \in Ref PROVE Owed(p, x)' <= pending'[p][x]
    <3>1. Uses(p, x)' = Uses(p, x) /\ Cardinality(Uses(p, x)) \in Nat
      BY <1>0, UsesAreCounted DEF Uses
    <3>2. Owed(p, x) = Cardinality(Uses(p, x)) /\ Owed(p, x) <= pending[p][x]
      BY <1>0, <3>1 DEF Owed, PinsCover
    <3>3. pending'[p][x] = counts[x]
      BY <1>0 DEF TypeOK
    <3>4. Owed(p, x)' = Owed(p, x) + (IF x = r THEN 1 ELSE 0)
      BY <1>0, <3>1, <3>2 DEF Owed, TypeOK
    <3> QED BY <1>a, <3>1, <3>2, <3>3, <3>4 DEF TypeOK
  <2> QED BY <1>0, <2>1, CoverOfOthers DEF TypeOK
<1> QED BY <1>1, <1>2, <1>3, <1>4, <1>5

LEMMA PublishEndKeeps ==
  ASSUME SlotsAreFinite, StoreInv, NEW p \in Process, NEW s \in Slot, PublishEnds(p, s)
  PROVE  StoreInv'
<1> USE DEF StoreInv, disk, Turn
<1>0. /\ phase[p] = "up" /\ pc[p] = "publishing" /\ work[p][s] = {}
      /\ files' = files \union reg[p] /\ lock' = {}
      /\ work' = [work EXCEPT ![p][s] = reg[p]]
      /\ pc' = [pc EXCEPT ![p] = "idle"] /\ reg' = [reg EXCEPT ![p] = {}]
      /\ UNCHANGED <<named, phase, pending, pinned>>
  BY DEF PublishEnds, Does
<1>1. TypeOK'
  BY <1>0 DEF TypeOK
<1>2. (LockIsHeld /\ FileIsMemory)'
  BY <1>0 DEF TypeOK, LockIsHeld, FileIsMemory
<1>3. (PublishedIsThere /\ NamedIsThere)'
  BY <1>0 DEF TypeOK, PublishedIsThere, NamedIsThere
<1>4. PruneIsSafe'
  BY <1>0 DEF TypeOK, PruneIsSafe
<1>5. PinsCover'
  <2>1. ASSUME NEW x \in Ref PROVE Owed(p, x)' <= pending'[p][x]
    <3>1. Uses(p, x)' = IF x \in reg[p] THEN Uses(p, x) \union {s} ELSE Uses(p, x)
      BY <1>0 DEF Uses, TypeOK
    <3>2. s \notin Uses(p, x)
      BY <1>0 DEF Uses
    <3>3. /\ IsFiniteSet(Uses(p, x)) /\ Cardinality(Uses(p, x)) \in Nat
          /\ Cardinality(Uses(p, x) \union {s}) = Cardinality(Uses(p, x)) + 1
      BY <3>2, UsesAreCounted, FS_AddElement
    <3>4. Cardinality(Uses(p, x)') = Cardinality(Uses(p, x)) + (IF x \in reg[p] THEN 1 ELSE 0)
      BY <3>1, <3>3
    <3>5. Owed(p, x) = Cardinality(Uses(p, x)) + (IF x \in reg[p] THEN 1 ELSE 0)
      BY <1>0 DEF Owed
    <3>6. Owed(p, x)' = Cardinality(Uses(p, x)')
      BY <1>0, <3>4, <3>3 DEF Owed, TypeOK
    <3> QED BY <1>0, <3>4, <3>5, <3>6 DEF PinsCover
  <2> QED BY <1>0, <2>1, CoverOfOthers DEF TypeOK
<1> QED BY <1>1, <1>2, <1>3, <1>4, <1>5

LEMMA CommitKeeps ==
  ASSUME SlotsAreFinite, StoreInv, NEW p \in Process, NEW s \in Slot, Commit(p, s)
  PROVE  StoreInv'
<1> USE DEF StoreInv, disk, Turn
<1>0. /\ phase[p] = "up" /\ pc[p] = "idle"
      /\ named' = [named EXCEPT ![s] = work[p][s]]
      /\ work' = [work EXCEPT ![p][s] = {}]
      /\ pc' = [pc EXCEPT ![p] = "releasing"] /\ reg' = [reg EXCEPT ![p] = work[p][s]]
      /\ UNCHANGED <<files, lock, phase, pending, pinned>>
  BY DEF Commit, Does
<1>1. TypeOK'
  BY <1>0 DEF TypeOK, LockIsHeld
<1>2. (LockIsHeld /\ FileIsMemory)'
  BY <1>0 DEF TypeOK, LockIsHeld, FileIsMemory
<1>3. (PublishedIsThere /\ NamedIsThere)'
  BY <1>0 DEF TypeOK, PublishedIsThere, NamedIsThere
<1>4. PruneIsSafe'
  <2>1. work[p][s] \subseteq pinned[p]
    BY WorkIsPinned
  <2> SUFFICES ASSUME NEW q \in Process, pc'[q] = "pruning", NEW t \in Kept
               PROVE  named'[t] \subseteq (reg'[q] \union UNION {pinned[x] : x \in Process})
    BY <1>0 DEF PruneIsSafe
  <2>2. q # p /\ pc[q] = "pruning" /\ reg'[q] = reg[q]
    BY <1>0 DEF TypeOK
  <2>3. CASE t = s
    BY <1>0, <2>1, <2>3 DEF TypeOK
  <2>4. CASE t # s
    BY <1>0, <2>2, <2>4 DEF TypeOK, PruneIsSafe
  <2> QED BY <2>3, <2>4
<1>5. PinsCover'
  <2>1. ASSUME NEW x \in Ref PROVE Owed(p, x)' <= pending'[p][x]
    <3>1. Uses(p, x)' = Uses(p, x) \ {s}
      BY <1>0 DEF Uses, TypeOK
    <3>2. /\ Cardinality(Uses(p, x)) \in Nat
          /\ Cardinality(Uses(p, x) \ {s}) =
               IF s \in Uses(p, x) THEN Cardinality(Uses(p, x)) - 1 ELSE Cardinality(Uses(p, x))
      BY UsesAreCounted, FS_RemoveElement
    <3>3. s \in Uses(p, x) <=> x \in work[p][s]
      BY DEF Uses
    <3>4. Owed(p, x) = Cardinality(Uses(p, x))
      BY <1>0, <3>2 DEF Owed
    <3>5. Owed(p, x)' = Cardinality(Uses(p, x)') + (IF x \in work[p][s] THEN 1 ELSE 0)
      BY <1>0 DEF Owed, TypeOK
    <3>6. Owed(p, x)' = Owed(p, x)
      BY <3>1, <3>2, <3>3, <3>4, <3>5
    <3> QED BY <1>0, <3>6 DEF PinsCover
  <2> QED BY <1>0, <2>1, CoverOfOthers DEF TypeOK
<1> QED BY <1>1, <1>2, <1>3, <1>4, <1>5

LEMMA RollbackKeeps ==
  ASSUME SlotsAreFinite, StoreInv, NEW p \in Process, NEW s \in Slot, Rollback(p, s)
  PROVE  StoreInv'
<1> USE DEF StoreInv, disk
<1>0. /\ phase[p] = "up" /\ work' = [work EXCEPT ![p][s] = {}]
      /\ UNCHANGED <<files, named, lock, phase, pending, pinned, pc, reg>>
  BY DEF Rollback, Does
<1>1. TypeOK'
  BY <1>0 DEF TypeOK
<1>2. (LockIsHeld /\ FileIsMemory /\ PublishedIsThere /\ NamedIsThere /\ PruneIsSafe)'
  BY <1>0 DEF TypeOK, LockIsHeld, FileIsMemory, PublishedIsThere, NamedIsThere, PruneIsSafe
<1>3. PinsCover'
  <2>1. ASSUME NEW x \in Ref PROVE Owed(p, x)' <= pending'[p][x]
    <3>1. Uses(p, x)' = Uses(p, x) \ {s}
      BY <1>0 DEF Uses, TypeOK
    <3>2. /\ Cardinality(Uses(p, x)) \in Nat /\ Cardinality(Uses(p, x) \ {s}) \in Nat
          /\ Cardinality(Uses(p, x) \ {s}) <= Cardinality(Uses(p, x))
      <4>1. IsFiniteSet(Uses(p, x))
        BY UsesAreCounted
      <4>2. IsFiniteSet(Uses(p, x) \ {s})
        BY <4>1, FS_RemoveElement
      <4> QED BY <4>1, <4>2, FS_CardinalityType, FS_Subset
    <3>3. Owed(p, x)' <= Owed(p, x) /\ Owed(p, x)' \in Nat /\ Owed(p, x) \in Nat
      BY <1>0, <3>1, <3>2 DEF Owed
    <3> QED BY <1>0, <3>3 DEF PinsCover, TypeOK
  <2> QED BY <1>0, <2>1, CoverOfOthers DEF TypeOK
<1> QED BY <1>1, <1>2, <1>3

LEMMA ForgetKeeps ==
  ASSUME StoreInv, NEW p \in Process, NEW s \in Slot, Forget(p, s)
  PROVE  StoreInv'
<1> USE DEF StoreInv, disk
<1>0. /\ named' = [named EXCEPT ![s] = {}]
      /\ UNCHANGED <<files, lock, phase, pending, pinned, work, pc, reg>>
  BY DEF Forget
<1>1. TypeOK'
  BY <1>0 DEF TypeOK
<1>2. (LockIsHeld /\ FileIsMemory /\ PublishedIsThere)'
  BY <1>0 DEF TypeOK, LockIsHeld, FileIsMemory, PublishedIsThere
<1>3. (NamedIsThere /\ PruneIsSafe)'
  BY <1>0 DEF TypeOK, NamedIsThere, PruneIsSafe
<1>4. PinsCover'
  BY <1>0 DEF PinsCover, Owed, Uses
<1> QED BY <1>1, <1>2, <1>3, <1>4

LEMMA ReleaseKeeps ==
  ASSUME SlotsAreFinite, MaxPinsIsNumber, StoreInv, NEW p \in Process, Release(p)
  PROVE  StoreInv'
<1> USE DEF StoreInv, disk, Turn, Pins
<1> DEFINE counts == [r \in Ref |-> IF r \in reg[p] /\ pending[p][r] > 0 THEN pending[p][r] - 1
                                    ELSE pending[p][r]]
<1>0. /\ phase[p] = "up" /\ pc[p] = "releasing" /\ lock = {}
      /\ UNCHANGED <<files, named, lock, phase, work>>
      /\ pending' = [pending EXCEPT ![p] = counts]
      /\ pinned' = [pinned EXCEPT ![p] = {x \in Ref : counts[x] > 0}]
      /\ pc' = [pc EXCEPT ![p] = "idle"] /\ reg' = [reg EXCEPT ![p] = {}]
  BY DEF Release, Does
<1>a. /\ counts \in [Ref -> 0..MaxPins]
      /\ \A x \in Ref : counts[x] >= pending[p][x] - (IF x \in reg[p] THEN 1 ELSE 0)
  <2>1. ASSUME NEW x \in Ref
        PROVE  /\ counts[x] \in 0..MaxPins
               /\ counts[x] >= pending[p][x] - (IF x \in reg[p] THEN 1 ELSE 0)
    <3>1. /\ pending[p][x] \in 0..MaxPins
          /\ counts[x] = IF x \in reg[p] /\ pending[p][x] > 0 THEN pending[p][x] - 1
                         ELSE pending[p][x]
      BY DEF TypeOK
    <3> HIDE DEF counts
    <3> QED BY <3>1 DEF MaxPinsIsNumber
  <2>2. counts = [x \in Ref |-> counts[x]]
    OBVIOUS
  <2> HIDE DEF counts
  <2> QED BY <2>1, <2>2
<1> HIDE DEF counts
<1>1. TypeOK'
  BY <1>0, <1>a DEF TypeOK
<1>2. (LockIsHeld /\ FileIsMemory)'
  BY <1>0 DEF TypeOK, LockIsHeld, FileIsMemory
<1>3. (PublishedIsThere /\ NamedIsThere)'
  BY <1>0 DEF PublishedIsThere, NamedIsThere
<1>4. PruneIsSafe'
  BY <1>0 DEF TypeOK, LockIsHeld, PruneIsSafe
<1>5. PinsCover'
  <2>1. ASSUME NEW x \in Ref PROVE Owed(p, x)' <= pending'[p][x]
    <3>1. Uses(p, x)' = Uses(p, x) /\ Cardinality(Uses(p, x)) \in Nat
      BY <1>0, UsesAreCounted DEF Uses
    <3>2. /\ Owed(p, x) = Cardinality(Uses(p, x)) + (IF x \in reg[p] THEN 1 ELSE 0)
          /\ Owed(p, x) <= pending[p][x]
      BY <1>0 DEF Owed, PinsCover
    <3>3. pending'[p][x] = counts[x]
      BY <1>0 DEF TypeOK
    <3>4. Owed(p, x)' = Cardinality(Uses(p, x))
      BY <1>0, <3>1 DEF Owed, TypeOK
    <3> QED BY <1>a, <3>1, <3>2, <3>3, <3>4 DEF TypeOK
  <2> QED BY <1>0, <2>1, CoverOfOthers DEF TypeOK
<1> QED BY <1>1, <1>2, <1>3, <1>4, <1>5

(* Steps that change only what a process does. *)
LEMMA TurnKeeps ==
  ASSUME SlotsAreFinite, StoreInv, NEW p \in Process,
         PublishFails(p) \/ ReleaseFails(p) \/ PruneBegins(p) \/ PruneEnds(p)
  PROVE  StoreInv'
<1> USE DEF StoreInv, disk, Turn, Does
<1> DEFINE to == IF PruneBegins(p) THEN "pruning" ELSE "idle"
           refs == IF PruneBegins(p) THEN UNION {named[s] : s \in Kept} ELSE {}
<1>0. /\ phase[p] = "up" /\ UNCHANGED <<named, phase, pending, pinned, work>>
      /\ pc' = [pc EXCEPT ![p] = to] /\ reg' = [reg EXCEPT ![p] = refs]
  BY DEF PublishFails, ReleaseFails, PruneBegins, PruneEnds
<1>a. refs \subseteq Ref /\ to \in {"idle", "pruning"}
  BY DEF TypeOK, SlotsAreFinite, KeptAreSlots
<1>b. files' \subseteq files
  BY DEF PublishFails, ReleaseFails, PruneBegins, PruneEnds
<1>c. \/ to = "idle" /\ lock' = {} /\ lock = {p}
      \/ to = "idle" /\ lock' = lock /\ pc[p] = "releasing"
      \/ to = "pruning" /\ lock' = {p} /\ lock = {}
  BY DEF PublishFails, ReleaseFails, PruneBegins, PruneEnds, LockIsHeld
<1>d. to = "pruning" => \A s \in Kept : named[s] \subseteq refs
  BY DEF PruneBegins
<1> HIDE DEF to, refs
<1>e. ASSUME PruneEnds(p) PROVE (PublishedIsThere /\ NamedIsThere)'
  <2>1. PICK targets \in SUBSET (files \ Protected(p)) : files' = files \ targets
    BY <1>e DEF PruneEnds
  <2>2. \A q \in Process : pinned[q] \subseteq Protected(p)
    BY DEF Protected
  <2>3. ASSUME NEW q \in Process, NEW s \in Slot PROVE work[q][s] \subseteq files'
    <3>1. work[q][s] \subseteq pinned[q]
      BY WorkIsPinned
    <3> QED BY <2>1, <2>2, <3>1 DEF PublishedIsThere
  <2>4. ASSUME NEW s \in Kept PROVE named[s] \subseteq files'
    <3>1. named[s] \subseteq Protected(p)
      BY <1>e DEF PruneEnds, PruneIsSafe, Protected
    <3> QED BY <2>1, <3>1 DEF NamedIsThere
  <2>5. UNCHANGED <<named, work>>
    BY <1>0
  <2> QED BY <2>3, <2>4, <2>5 DEF PublishedIsThere, NamedIsThere
<1>f. ASSUME UNCHANGED files PROVE (PublishedIsThere /\ NamedIsThere)'
  <2>1. UNCHANGED <<named, work>>
    BY <1>0
  <2> QED BY <1>f, <2>1 DEF PublishedIsThere, NamedIsThere
<1>g. (PublishedIsThere /\ NamedIsThere)'
  BY <1>e, <1>f DEF PublishFails, ReleaseFails, PruneBegins
<1>1. TypeOK'
  <2>1. \A q \in lock' : phase'[q] = "up" /\ lock' = {q} /\ pc'[q] \in {"publishing", "pruning"}
    BY <1>0, <1>c DEF TypeOK
  <2>2. pc' \in [Process -> {"idle", "publishing", "releasing", "pruning"}]
        /\ reg' \in [Process -> SUBSET Ref] /\ files' \subseteq Ref
    BY <1>0, <1>a, <1>b DEF TypeOK
  <2>3. UNCHANGED <<named, phase, pending, pinned, work>>
    BY <1>0
  <2> QED BY <2>1, <2>2, <2>3 DEF TypeOK
<1>2. (LockIsHeld /\ FileIsMemory)'
  <2>1. LockIsHeld'
    BY <1>0, <1>a, <1>c DEF TypeOK, LockIsHeld
  <2>2. FileIsMemory'
    <3>1. UNCHANGED <<phase, pending, pinned, work>>
      BY <1>0
    <3> QED BY <3>1 DEF FileIsMemory
  <2> QED BY <2>1, <2>2
<1>3. PruneIsSafe'
  BY <1>0, <1>a, <1>d DEF TypeOK, PruneIsSafe
<1>4. PinsCover'
  <2>1. ASSUME NEW x \in Ref PROVE Owed(p, x)' <= pending'[p][x]
    <3>1. Uses(p, x)' = Uses(p, x) /\ Cardinality(Uses(p, x)) \in Nat
      BY <1>0, UsesAreCounted DEF Uses
    <3>2. Owed(p, x)' = Cardinality(Uses(p, x))
      BY <1>0, <1>a, <3>1 DEF Owed, TypeOK
    <3>3. Owed(p, x)' <= Owed(p, x) /\ Owed(p, x) \in Nat
      BY <3>1, <3>2 DEF Owed
    <3> QED BY <1>0, <3>1, <3>2, <3>3 DEF PinsCover, TypeOK
  <2> QED BY <1>0, <2>1, CoverOfOthers DEF TypeOK
<1> QED BY <1>1, <1>2, <1>3, <1>4, <1>g

LEMMA StoreNextKeeps ==
  ASSUME SlotsAreFinite, MaxPinsIsNumber, ~Again, StoreInv, [Next]_vars PROVE StoreInv'
<1>1. CASE UNCHANGED vars
  BY <1>1 DEF StoreInv, TypeOK, LockIsHeld, FileIsMemory, PinsCover, PublishedIsThere,
       NamedIsThere,
     PruneIsSafe, Owed, Uses, vars, disk
<1>2. CASE Next
  <2>1. PICK p \in Process :
          \/ Start(p) \/ Crash(p) \/ Reconcile(p) \/ PublishFails(p) \/ Release(p)
          \/ ReleaseFails(p) \/ PruneBegins(p) \/ PruneEnds(p)
          \/ \E r \in Ref : PublishBegins(p, r)
          \/ \E s \in Slot : \/ PublishEnds(p, s) \/ Commit(p, s) \/ Rollback(p, s)
                             \/ Forget(p, s)
    BY <1>2 DEF Next, NameAgain
  <2> QED BY <2>1, StartKeeps, CrashKeeps, ReconcileKeeps, PublishBeginKeeps, PublishEndKeeps,
             CommitKeeps, RollbackKeeps, ForgetKeeps, ReleaseKeeps, TurnKeeps
<1> QED BY <1>1, <1>2

LEMMA StoreHolds ==
  ASSUME SlotsAreFinite, MaxPinsIsNumber, ~Again PROVE Spec => []StoreInv
<1>1. Init => StoreInv
  BY StoreInitHolds
<1>2. StoreInv /\ [Next]_vars => StoreInv'
  BY StoreNextKeeps
<1> QED BY <1>1, <1>2, PTL DEF Spec

-----------------------------------------------------------------------------
(* The store's variables have their types: a process never has more pins than *)
(* publications, and who has the lock is up and publishes or prunes.          *)
THEOREM StoreTypeCorrect ==
  ASSUME SlotsAreFinite, MaxPinsIsNumber, ~Again PROVE Spec => []TypeOK
<1>1. StoreInv => TypeOK
  BY DEF StoreInv
<1> QED BY <1>1, StoreHolds, PTL

(* Every file the database names in a place that protected_refs reads exists,  *)
(* whatever was pruned, committed (there or in a trace) or crashed beside it,   *)
(* as long as a commit names what was published for it.                       *)
THEOREM NamedSurvives ==
  ASSUME SlotsAreFinite, MaxPinsIsNumber, ~Again PROVE Spec => []NamedIsThere
<1>1. StoreInv => NamedIsThere
  BY DEF StoreInv
<1> QED BY <1>1, StoreHolds, PTL

(* What was published and not committed yet exists: no commit names a file    *)
(* that a prune has deleted.                                                 *)
THEOREM PublishedSurvives ==
  ASSUME SlotsAreFinite, MaxPinsIsNumber, ~Again PROVE Spec => []PublishedIsThere
<1>1. StoreInv => PublishedIsThere
  BY DEF StoreInv
<1> QED BY <1>1, StoreHolds, PTL

-----------------------------------------------------------------------------
(* A behaviour of the host is, of the store, one of ArtifactPins.             *)
LEMMA HostIsStore == HostSpec => Spec
<1>1. HostInit => Init
  BY DEF HostInit
<1>2. [HostNext]_hostVars => [Next]_vars
  BY DEF HostNext, hostVars, storeVars, vars, disk
<1> QED BY <1>1, <1>2, PTL DEF HostSpec, Spec

(* Whatever else the host does, the files its database names in a place that    *)
(* protected_refs reads are there.                                           *)
THEOREM HostKeepsNamed ==
  ASSUME SlotsAreFinite, MaxPinsIsNumber, ~Again PROVE HostSpec => []NamedIsThere
  BY HostIsStore, NamedSurvives, PTL

-----------------------------------------------------------------------------
(* What is proved of an update holds of each of the three users of MCHost: of  *)
(* one update beside everything else, of two, and of the launcher's commands.  *)
UpdateFacts == INSTANCE DesktopUpdateProofs
  WITH Offered <- 2, Payload <- 3, Used <- {"manual", "tray"}, MaxJob <- 1, lock <- held,
       pc <- doing
TwiceFacts == INSTANCE DesktopUpdateProofs
  WITH Offered <- 2, Payload <- 3, Used <- {"manual"}, MaxJob <- 2, lock <- held, pc <- doing
LauncherFacts == INSTANCE DesktopUpdateProofs
  WITH Offered <- 2, Payload <- 3, Used <- {"manual", "tray", "command"}, MaxJob <- 0,
       lock <- held, pc <- doing

(* The program with one update, or left alone.  The actions are those of        *)
(* DesktopUpdate, so that each agrees with itself once it is expanded.          *)
LEMMA HostUpdates == HostSpec /\ part \notin {"twice", "launcher"} => UpdateFacts!Spec
<1>1. HostInit => UpdateFacts!Init
  <2>1. Updates!Init => UpdateFacts!Init
    BY DEF Updates!Init, UpdateFacts!Init, Updates!Installer, UpdateFacts!Installer,
        Updates!Restorer, UpdateFacts!Restorer, Updates!Proc, UpdateFacts!Proc,
        Updates!Lock, UpdateFacts!Lock
  <2> QED BY <2>1 DEF HostInit
<1>2. part \notin {"twice", "launcher"} /\ [HostNext]_hostVars
      => (part \notin {"twice", "launcher"})' /\ [UpdateFacts!Next]_(UpdateFacts!vars)
  <2>1. Updates!Next => UpdateFacts!Next
    BY DEF Updates!Next, UpdateFacts!Next, Updates!Dies, UpdateFacts!Dies, Updates!jobs,
        UpdateFacts!jobs, Updates!record, UpdateFacts!record, Updates!backend,
        UpdateFacts!backend, Updates!Ends, UpdateFacts!Ends, Updates!Installer,
        UpdateFacts!Installer, Updates!Restorer, UpdateFacts!Restorer, Updates!Unlocks,
        UpdateFacts!Unlocks, Updates!Lock, UpdateFacts!Lock, Updates!Proc, UpdateFacts!Proc,
        Updates!Expires, UpdateFacts!Expires, Updates!memory, UpdateFacts!memory,
        Updates!CommandStarts, UpdateFacts!CommandStarts, Updates!Goes, UpdateFacts!Goes,
        Updates!NativeStart, UpdateFacts!NativeStart, Updates!CommandStops,
        UpdateFacts!CommandStops, Updates!NativeStop, UpdateFacts!NativeStop, Updates!Idle,
        UpdateFacts!Idle, Updates!CommandChecks, UpdateFacts!CommandChecks,
        Updates!Identified, UpdateFacts!Identified, Updates!TrayReturns,
        UpdateFacts!TrayReturns, Updates!TrayLeaves, UpdateFacts!TrayLeaves,
        Updates!ReleaseLease, UpdateFacts!ReleaseLease, Updates!TrayStopsNow,
        UpdateFacts!TrayStopsNow, Updates!TrayConfirms, UpdateFacts!TrayConfirms,
        Updates!TrayWaits, UpdateFacts!TrayWaits, Updates!TrayChooses,
        UpdateFacts!TrayChooses, Updates!TrayLists, UpdateFacts!TrayLists,
        Updates!TrayFindsRest, UpdateFacts!TrayFindsRest, Updates!Locks, UpdateFacts!Locks,
        Updates!FreeAll, UpdateFacts!FreeAll, Updates!TrayStops, UpdateFacts!TrayStops,
        Updates!TrayStarts, UpdateFacts!TrayStarts, Updates!Restore, UpdateFacts!Restore,
        Updates!RestoreEnds, UpdateFacts!RestoreEnds, Updates!Restoring,
        UpdateFacts!Restoring, Updates!RestoreStarts, UpdateFacts!RestoreStarts,
        Updates!RestorePoints, UpdateFacts!RestorePoints, Updates!RestoreStops,
        UpdateFacts!RestoreStops, Updates!RestoreChecks, UpdateFacts!RestoreChecks,
        Updates!Install, UpdateFacts!Install, Updates!InstallFails,
        UpdateFacts!InstallFails, Updates!LeavesGate, UpdateFacts!LeavesGate,
        Updates!Finishes, UpdateFacts!Finishes, Updates!IsReady, UpdateFacts!IsReady,
        Updates!Starts, UpdateFacts!Starts, Updates!Activates, UpdateFacts!Activates,
        Updates!Brings, UpdateFacts!Brings, Updates!Stops, UpdateFacts!Stops,
        Updates!ChecksIdle, UpdateFacts!ChecksIdle, Updates!Gates, UpdateFacts!Gates,
        Updates!InstallBegins, UpdateFacts!InstallBegins, Updates!RecoverRecords,
        UpdateFacts!RecoverRecords, Updates!RecoverClears, UpdateFacts!RecoverClears,
        Updates!ClearGate, UpdateFacts!ClearGate, Updates!WorkerClears,
        UpdateFacts!WorkerClears, Updates!WorkerRecords, UpdateFacts!WorkerRecords,
        Updates!WorkerFails, UpdateFacts!WorkerFails, Updates!StopsWaiting,
        UpdateFacts!StopsWaiting, Updates!WorkerSucceeds, UpdateFacts!WorkerSucceeds,
        Updates!WorkerInstalls, UpdateFacts!WorkerInstalls, Updates!WorkerAsks,
        UpdateFacts!WorkerAsks, Updates!WorkerDownloads, UpdateFacts!WorkerDownloads,
        Updates!PrepareFails, UpdateFacts!PrepareFails, Updates!Prepare,
        UpdateFacts!Prepare, Updates!WorkerIsLate, UpdateFacts!WorkerIsLate,
        Updates!WorkerStarts, UpdateFacts!WorkerStarts, Updates!Job, UpdateFacts!Job,
        Updates!RequestFails, UpdateFacts!RequestFails, Updates!RequestSchedules,
        UpdateFacts!RequestSchedules, Updates!RequestWrites, UpdateFacts!RequestWrites,
        Updates!RequestChecks, UpdateFacts!RequestChecks, Updates!ACTIVE,
        UpdateFacts!ACTIVE, Updates!TaskRests, UpdateFacts!TaskRests, Updates!TaskOnly,
        UpdateFacts!TaskOnly, Updates!Wakes, UpdateFacts!Wakes, Updates!Admit,
        UpdateFacts!Admit, Updates!BackendCrashes, UpdateFacts!BackendCrashes,
        Updates!Launch, UpdateFacts!Launch,
        Updates!Answers, UpdateFacts!Answers, Updates!StopsIfAnswered,
        UpdateFacts!StopsIfAnswered
  <2>2. UNCHANGED programVars => UNCHANGED UpdateFacts!vars
    BY DEF programVars, UpdateFacts!vars, UpdateFacts!memory, UpdateFacts!jobs,
        UpdateFacts!record, UpdateFacts!backend
  <2> QED BY <2>1, <2>2 DEF HostNext, hostVars
<1> QED BY <1>1, <1>2, PTL DEF HostSpec, UpdateFacts!Spec

(* The program with two updates. *)
LEMMA HostUpdatesTwice == HostSpec /\ part = "twice" => TwiceFacts!Spec
<1>1. HostInit => TwiceFacts!Init
  <2>1. Updates!Init => TwiceFacts!Init
    BY DEF Updates!Init, TwiceFacts!Init, Updates!Installer, TwiceFacts!Installer,
        Updates!Restorer, TwiceFacts!Restorer, Updates!Proc, TwiceFacts!Proc, Updates!Lock,
        TwiceFacts!Lock
  <2> QED BY <2>1 DEF HostInit
<1>2. part = "twice" /\ [HostNext]_hostVars
      => (part = "twice")' /\ [TwiceFacts!Next]_(TwiceFacts!vars)
  <2>1. Twice!Next => TwiceFacts!Next
    BY DEF Twice!Next, TwiceFacts!Next, Twice!Dies, TwiceFacts!Dies, Twice!jobs,
        TwiceFacts!jobs, Twice!record, TwiceFacts!record, Twice!backend, TwiceFacts!backend,
        Twice!Ends, TwiceFacts!Ends, Twice!Installer, TwiceFacts!Installer, Twice!Restorer,
        TwiceFacts!Restorer, Twice!Unlocks, TwiceFacts!Unlocks, Twice!Lock, TwiceFacts!Lock,
        Twice!Proc, TwiceFacts!Proc, Twice!Expires, TwiceFacts!Expires, Twice!memory,
        TwiceFacts!memory, Twice!CommandStarts, TwiceFacts!CommandStarts, Twice!Goes,
        TwiceFacts!Goes, Twice!NativeStart, TwiceFacts!NativeStart, Twice!CommandStops,
        TwiceFacts!CommandStops, Twice!NativeStop, TwiceFacts!NativeStop, Twice!Idle,
        TwiceFacts!Idle, Twice!CommandChecks, TwiceFacts!CommandChecks, Twice!Identified,
        TwiceFacts!Identified, Twice!TrayReturns, TwiceFacts!TrayReturns, Twice!TrayLeaves,
        TwiceFacts!TrayLeaves, Twice!ReleaseLease, TwiceFacts!ReleaseLease,
        Twice!TrayStopsNow, TwiceFacts!TrayStopsNow, Twice!TrayConfirms,
        TwiceFacts!TrayConfirms, Twice!TrayWaits, TwiceFacts!TrayWaits, Twice!TrayChooses,
        TwiceFacts!TrayChooses, Twice!TrayLists, TwiceFacts!TrayLists, Twice!TrayFindsRest,
        TwiceFacts!TrayFindsRest, Twice!Locks, TwiceFacts!Locks, Twice!FreeAll,
        TwiceFacts!FreeAll, Twice!TrayStops, TwiceFacts!TrayStops, Twice!TrayStarts,
        TwiceFacts!TrayStarts, Twice!Restore, TwiceFacts!Restore, Twice!RestoreEnds,
        TwiceFacts!RestoreEnds, Twice!Restoring, TwiceFacts!Restoring, Twice!RestoreStarts,
        TwiceFacts!RestoreStarts, Twice!RestorePoints, TwiceFacts!RestorePoints,
        Twice!RestoreStops, TwiceFacts!RestoreStops, Twice!RestoreChecks,
        TwiceFacts!RestoreChecks, Twice!Install, TwiceFacts!Install, Twice!InstallFails,
        TwiceFacts!InstallFails, Twice!LeavesGate, TwiceFacts!LeavesGate, Twice!Finishes,
        TwiceFacts!Finishes, Twice!IsReady, TwiceFacts!IsReady, Twice!Starts,
        TwiceFacts!Starts, Twice!Activates, TwiceFacts!Activates, Twice!Brings,
        TwiceFacts!Brings, Twice!Stops, TwiceFacts!Stops, Twice!ChecksIdle,
        TwiceFacts!ChecksIdle, Twice!Gates, TwiceFacts!Gates, Twice!InstallBegins,
        TwiceFacts!InstallBegins, Twice!RecoverRecords, TwiceFacts!RecoverRecords,
        Twice!RecoverClears, TwiceFacts!RecoverClears, Twice!ClearGate,
        TwiceFacts!ClearGate, Twice!WorkerClears, TwiceFacts!WorkerClears,
        Twice!WorkerRecords, TwiceFacts!WorkerRecords, Twice!WorkerFails,
        TwiceFacts!WorkerFails, Twice!StopsWaiting, TwiceFacts!StopsWaiting,
        Twice!WorkerSucceeds, TwiceFacts!WorkerSucceeds, Twice!WorkerInstalls,
        TwiceFacts!WorkerInstalls, Twice!WorkerAsks, TwiceFacts!WorkerAsks,
        Twice!WorkerDownloads, TwiceFacts!WorkerDownloads, Twice!PrepareFails,
        TwiceFacts!PrepareFails, Twice!Prepare, TwiceFacts!Prepare, Twice!WorkerIsLate,
        TwiceFacts!WorkerIsLate, Twice!WorkerStarts, TwiceFacts!WorkerStarts, Twice!Job,
        TwiceFacts!Job, Twice!RequestFails, TwiceFacts!RequestFails, Twice!RequestSchedules,
        TwiceFacts!RequestSchedules, Twice!RequestWrites, TwiceFacts!RequestWrites,
        Twice!RequestChecks, TwiceFacts!RequestChecks, Twice!ACTIVE, TwiceFacts!ACTIVE,
        Twice!TaskRests, TwiceFacts!TaskRests, Twice!TaskOnly, TwiceFacts!TaskOnly,
        Twice!Wakes, TwiceFacts!Wakes, Twice!Admit, TwiceFacts!Admit, Twice!BackendCrashes,
        TwiceFacts!BackendCrashes, Twice!Launch, TwiceFacts!Launch,
        Twice!Answers, TwiceFacts!Answers, Twice!StopsIfAnswered,
        TwiceFacts!StopsIfAnswered
  <2>2. UNCHANGED programVars => UNCHANGED TwiceFacts!vars
    BY DEF programVars, TwiceFacts!vars, TwiceFacts!memory, TwiceFacts!jobs,
        TwiceFacts!record, TwiceFacts!backend
  <2> QED BY <2>1, <2>2 DEF HostNext, hostVars
<1> QED BY <1>1, <1>2, PTL DEF HostSpec, TwiceFacts!Spec

(* The program and the launcher. *)
LEMMA HostLaunches == HostSpec /\ part = "launcher" => LauncherFacts!Spec
<1>1. HostInit => LauncherFacts!Init
  <2>1. Updates!Init => LauncherFacts!Init
    BY DEF Updates!Init, LauncherFacts!Init, Updates!Installer, LauncherFacts!Installer,
        Updates!Restorer, LauncherFacts!Restorer, Updates!Proc, LauncherFacts!Proc,
        Updates!Lock, LauncherFacts!Lock
  <2> QED BY <2>1 DEF HostInit
<1>2. part = "launcher" /\ [HostNext]_hostVars
      => (part = "launcher")' /\ [LauncherFacts!Next]_(LauncherFacts!vars)
  <2>1. Launcher!Next => LauncherFacts!Next
    BY DEF Launcher!Next, LauncherFacts!Next, Launcher!Dies, LauncherFacts!Dies,
        Launcher!jobs, LauncherFacts!jobs, Launcher!record, LauncherFacts!record,
        Launcher!backend, LauncherFacts!backend, Launcher!Ends, LauncherFacts!Ends,
        Launcher!Installer, LauncherFacts!Installer, Launcher!Restorer,
        LauncherFacts!Restorer, Launcher!Unlocks, LauncherFacts!Unlocks, Launcher!Lock,
        LauncherFacts!Lock, Launcher!Proc, LauncherFacts!Proc, Launcher!Expires,
        LauncherFacts!Expires, Launcher!memory, LauncherFacts!memory,
        Launcher!CommandStarts, LauncherFacts!CommandStarts, Launcher!Goes,
        LauncherFacts!Goes, Launcher!NativeStart, LauncherFacts!NativeStart,
        Launcher!CommandStops, LauncherFacts!CommandStops, Launcher!NativeStop,
        LauncherFacts!NativeStop, Launcher!Idle, LauncherFacts!Idle, Launcher!CommandChecks,
        LauncherFacts!CommandChecks, Launcher!Identified, LauncherFacts!Identified,
        Launcher!TrayReturns, LauncherFacts!TrayReturns, Launcher!TrayLeaves,
        LauncherFacts!TrayLeaves, Launcher!ReleaseLease, LauncherFacts!ReleaseLease,
        Launcher!TrayStopsNow, LauncherFacts!TrayStopsNow, Launcher!TrayConfirms,
        LauncherFacts!TrayConfirms, Launcher!TrayWaits, LauncherFacts!TrayWaits,
        Launcher!TrayChooses, LauncherFacts!TrayChooses, Launcher!TrayLists,
        LauncherFacts!TrayLists, Launcher!TrayFindsRest, LauncherFacts!TrayFindsRest,
        Launcher!Locks, LauncherFacts!Locks, Launcher!FreeAll, LauncherFacts!FreeAll,
        Launcher!TrayStops, LauncherFacts!TrayStops, Launcher!TrayStarts,
        LauncherFacts!TrayStarts, Launcher!Restore, LauncherFacts!Restore,
        Launcher!RestoreEnds, LauncherFacts!RestoreEnds, Launcher!Restoring,
        LauncherFacts!Restoring, Launcher!RestoreStarts, LauncherFacts!RestoreStarts,
        Launcher!RestorePoints, LauncherFacts!RestorePoints, Launcher!RestoreStops,
        LauncherFacts!RestoreStops, Launcher!RestoreChecks, LauncherFacts!RestoreChecks,
        Launcher!Install, LauncherFacts!Install, Launcher!InstallFails,
        LauncherFacts!InstallFails, Launcher!LeavesGate, LauncherFacts!LeavesGate,
        Launcher!Finishes, LauncherFacts!Finishes, Launcher!IsReady, LauncherFacts!IsReady,
        Launcher!Starts, LauncherFacts!Starts, Launcher!Activates, LauncherFacts!Activates,
        Launcher!Brings, LauncherFacts!Brings, Launcher!Stops, LauncherFacts!Stops,
        Launcher!ChecksIdle, LauncherFacts!ChecksIdle, Launcher!Gates, LauncherFacts!Gates,
        Launcher!InstallBegins, LauncherFacts!InstallBegins, Launcher!RecoverRecords,
        LauncherFacts!RecoverRecords, Launcher!RecoverClears, LauncherFacts!RecoverClears,
        Launcher!ClearGate, LauncherFacts!ClearGate, Launcher!WorkerClears,
        LauncherFacts!WorkerClears, Launcher!WorkerRecords, LauncherFacts!WorkerRecords,
        Launcher!WorkerFails, LauncherFacts!WorkerFails, Launcher!StopsWaiting,
        LauncherFacts!StopsWaiting, Launcher!WorkerSucceeds, LauncherFacts!WorkerSucceeds,
        Launcher!WorkerInstalls, LauncherFacts!WorkerInstalls, Launcher!WorkerAsks,
        LauncherFacts!WorkerAsks, Launcher!WorkerDownloads, LauncherFacts!WorkerDownloads,
        Launcher!PrepareFails, LauncherFacts!PrepareFails, Launcher!Prepare,
        LauncherFacts!Prepare, Launcher!WorkerIsLate, LauncherFacts!WorkerIsLate,
        Launcher!WorkerStarts, LauncherFacts!WorkerStarts, Launcher!Job, LauncherFacts!Job,
        Launcher!RequestFails, LauncherFacts!RequestFails, Launcher!RequestSchedules,
        LauncherFacts!RequestSchedules, Launcher!RequestWrites, LauncherFacts!RequestWrites,
        Launcher!RequestChecks, LauncherFacts!RequestChecks, Launcher!ACTIVE,
        LauncherFacts!ACTIVE, Launcher!TaskRests, LauncherFacts!TaskRests,
        Launcher!TaskOnly, LauncherFacts!TaskOnly, Launcher!Wakes, LauncherFacts!Wakes,
        Launcher!Admit, LauncherFacts!Admit, Launcher!BackendCrashes,
        LauncherFacts!BackendCrashes, Launcher!Launch, LauncherFacts!Launch,
        Launcher!Answers, LauncherFacts!Answers, Launcher!StopsIfAnswered,
        LauncherFacts!StopsIfAnswered
  <2>2. UNCHANGED programVars => UNCHANGED LauncherFacts!vars
    BY DEF programVars, LauncherFacts!vars, LauncherFacts!memory, LauncherFacts!jobs,
        LauncherFacts!record, LauncherFacts!backend
  <2> QED BY <2>1, <2>2 DEF HostNext, hostVars
<1> QED BY <1>1, <1>2, PTL DEF HostSpec, LauncherFacts!Spec

(* The users of MCHost that run the program, and the rest. *)
LEMMA PartsAre ==
  /\ part \notin {"twice", "launcher"} \/ part = "twice" \/ part = "launcher"
  /\ ~(part = "launcher") => part \notin {"twice", "launcher"} \/ part = "twice"
  OBVIOUS

(* A closed gate can be opened, whatever the host is used for.               *)
THEOREM HostGateOpens == HostSpec => []GateIsReleasable
<1>1. UpdateFacts!MaxJobIsNumber /\ TwiceFacts!MaxJobIsNumber /\ LauncherFacts!MaxJobIsNumber
  BY DEF UpdateFacts!MaxJobIsNumber, TwiceFacts!MaxJobIsNumber, LauncherFacts!MaxJobIsNumber
<1>2. /\ UpdateFacts!GateIsReleasable => GateIsReleasable
      /\ TwiceFacts!GateIsReleasable => GateIsReleasable
      /\ LauncherFacts!GateIsReleasable => GateIsReleasable
  BY DEF GateIsReleasable, Updates!GateIsReleasable, UpdateFacts!GateIsReleasable,
         TwiceFacts!GateIsReleasable, LauncherFacts!GateIsReleasable
<1>3. UpdateFacts!Spec => []UpdateFacts!GateIsReleasable
  BY <1>1, UpdateFacts!GateOpens
<1>4. TwiceFacts!Spec => []TwiceFacts!GateIsReleasable
  BY <1>1, TwiceFacts!GateOpens
<1>5. LauncherFacts!Spec => []LauncherFacts!GateIsReleasable
  BY <1>1, LauncherFacts!GateOpens
<1> QED BY <1>2, <1>3, <1>4, <1>5, HostUpdates, HostUpdatesTwice,
           HostLaunches, PartsAre, PTL

(* No admitted task is killed by a stop that closed the admission.            *)
THEOREM HostStopSpares == HostSpec => StopSparesAdmitted
<1>1. UpdateFacts!Spec => [][UpdateFacts!SparesAdmitted]_(UpdateFacts!vars)
  BY UpdateFacts!AdmittedAreSpared
  DEF UpdateFacts!MaxJobIsNumber, UpdateFacts!StopSparesAdmitted
<1>2. TwiceFacts!Spec => [][TwiceFacts!SparesAdmitted]_(TwiceFacts!vars)
  BY TwiceFacts!AdmittedAreSpared
  DEF TwiceFacts!MaxJobIsNumber, TwiceFacts!StopSparesAdmitted
<1>3. LauncherFacts!Spec => [][LauncherFacts!SparesAdmitted]_(LauncherFacts!vars)
  BY LauncherFacts!AdmittedAreSpared
  DEF LauncherFacts!MaxJobIsNumber, LauncherFacts!StopSparesAdmitted
<1>4. [UpdateFacts!SparesAdmitted]_(UpdateFacts!vars) => [Updates!SparesAdmitted]_(Updates!vars)
  BY DEF Updates!vars, UpdateFacts!vars, Updates!memory, UpdateFacts!memory, Updates!jobs,
      UpdateFacts!jobs, Updates!record, UpdateFacts!record, Updates!backend,
      UpdateFacts!backend, Updates!SparesAdmitted, UpdateFacts!SparesAdmitted, Updates!Proc,
      UpdateFacts!Proc, Updates!Restorer, UpdateFacts!Restorer, Updates!Installer,
      UpdateFacts!Installer
<1>5. [TwiceFacts!SparesAdmitted]_(TwiceFacts!vars) => [Updates!SparesAdmitted]_(Updates!vars)
  BY DEF Updates!vars, TwiceFacts!vars, Updates!memory, TwiceFacts!memory, Updates!jobs,
      TwiceFacts!jobs, Updates!record, TwiceFacts!record, Updates!backend,
      TwiceFacts!backend, Updates!SparesAdmitted, TwiceFacts!SparesAdmitted, Updates!Proc,
      TwiceFacts!Proc, Updates!Restorer, TwiceFacts!Restorer, Updates!Installer,
      TwiceFacts!Installer
<1>6. [LauncherFacts!SparesAdmitted]_(LauncherFacts!vars)
        => [Updates!SparesAdmitted]_(Updates!vars)
  BY DEF Updates!vars, LauncherFacts!vars, Updates!memory, LauncherFacts!memory,
      Updates!jobs, LauncherFacts!jobs, Updates!record, LauncherFacts!record,
      Updates!backend, LauncherFacts!backend, Updates!SparesAdmitted,
      LauncherFacts!SparesAdmitted, Updates!Proc, LauncherFacts!Proc, Updates!Restorer,
      LauncherFacts!Restorer, Updates!Installer, LauncherFacts!Installer
<1>7. HostSpec => [][Updates!SparesAdmitted]_(Updates!vars)
  BY <1>1, <1>2, <1>3, <1>4, <1>5, <1>6, HostUpdates, HostUpdatesTwice,
     HostLaunches, PartsAre, PTL
<1> QED BY <1>7 DEF StopSparesAdmitted, Updates!StopSparesAdmitted

(* As long as nobody uses the launcher's commands, the program is switched      *)
(* while it is down, if the installer has stopped it or found it stopped.       *)
THEOREM HostSwitchIsSafe == HostSpec => SwitchedWhileDown
<1>1. UpdateFacts!Spec => []UpdateFacts!IInv
  BY UpdateFacts!InvariantHolds DEF UpdateFacts!MaxJobIsNumber
<1>2. TwiceFacts!Spec => []TwiceFacts!IInv
  BY TwiceFacts!InvariantHolds DEF TwiceFacts!MaxJobIsNumber
<1>3. UpdateFacts!IInv => Updates!SwitchIsDown
  <2>1. UpdateFacts!IInv => UpdateFacts!SwitchIsDown
    BY UpdateFacts!SwitchesDown DEF UpdateFacts!NoCommands
  <2> QED BY <2>1
          DEF Updates!SwitchIsDown, UpdateFacts!SwitchIsDown, Updates!Activates,
              UpdateFacts!Activates, Updates!memory, UpdateFacts!memory, Updates!jobs,
              UpdateFacts!jobs, Updates!record, UpdateFacts!record, Updates!backend,
              UpdateFacts!backend, Updates!Goes, UpdateFacts!Goes, Updates!Brings,
              UpdateFacts!Brings, Updates!Installer, UpdateFacts!Installer
<1>4. TwiceFacts!IInv => Updates!SwitchIsDown
  <2>1. TwiceFacts!IInv => TwiceFacts!SwitchIsDown
    BY TwiceFacts!SwitchesDown DEF TwiceFacts!NoCommands
  <2> QED BY <2>1
          DEF Updates!SwitchIsDown, TwiceFacts!SwitchIsDown, Updates!Activates,
              TwiceFacts!Activates, Updates!memory, TwiceFacts!memory, Updates!jobs,
              TwiceFacts!jobs, Updates!record, TwiceFacts!record, Updates!backend,
              TwiceFacts!backend, Updates!Goes, TwiceFacts!Goes, Updates!Brings,
              TwiceFacts!Brings, Updates!Installer, TwiceFacts!Installer
<1>5. [HostNext]_hostVars => (part = "launcher" => (part = "launcher")')
  BY DEF HostNext, hostVars
<1>6. HostSpec /\ ~(part = "launcher") => [](UpdateFacts!IInv \/ TwiceFacts!IInv)
  BY <1>1, <1>2, HostUpdates, HostUpdatesTwice, PartsAre, PTL
<1> DEFINE Safe == part # "launcher" => Updates!SwitchIsDown
<1>7. UpdateFacts!IInv \/ TwiceFacts!IInv => Safe
  BY <1>3, <1>4
<1>8. part = "launcher" => Safe
  OBVIOUS
<1> HIDE DEF Safe
<1>9. HostSpec => [][Safe]_hostVars
  BY <1>5, <1>6, <1>7, <1>8, PTL DEF HostSpec
<1> QED BY <1>9 DEF SwitchedWhileDown, Safe

-----------------------------------------------------------------------------
(* What the library's theorems assume of the constants. *)
PatchesAreKnown == Skills!DependsIsAcyclic /\ Skills!MaxEditIsNumber

(* While a request is under way, every approved file and every file it has     *)
(* written is patched, and what its targets depend on is among them or done.   *)
RequestIsSound ==
  asked # {} =>
    /\ \A t \in Skills!Approved \cup written : library[t] = Skills!Patch
    /\ \A t \in asked : Depends[t] \subseteq asked \cup Skills!Approved
    /\ marking => written = asked

SkillsInv == Skills!TypeOK /\ RequestIsSound

LEMMA SkillsInit == ASSUME PatchesAreKnown, Skills!Init PROVE SkillsInv
<1>1. Skills!TypeOK
  <2>1. 0 \in Skills!Text
    BY DEF PatchesAreKnown, Skills!MaxEditIsNumber, Skills!Text
  <2>2. library \in [Target -> Skills!Text] /\ originals = library
    BY <2>1 DEF Skills!Init
  <2>3. {library, originals} \cup frozen \subseteq [Target -> Skills!Text]
    BY <2>2 DEF Skills!Init
  <2>4. status \in [Target -> {"none", "pending", "approved", "rejected"}]
    BY DEF Skills!Init
  <2>5. edits \in 0..MaxEdit
    BY DEF PatchesAreKnown, Skills!MaxEditIsNumber, Skills!Init
  <2> QED BY <2>3, <2>4, <2>5 DEF Skills!Init, Skills!TypeOK
<1> QED BY <1>1 DEF Skills!Init, SkillsInv, RequestIsSound

LEMMA SkillsNextKeeps ==
  ASSUME PatchesAreKnown, SkillsInv, [Skills!Next]_(Skills!vars) PROVE SkillsInv'
<1> USE DEF PatchesAreKnown, Skills!MaxEditIsNumber, Skills!DependsIsAcyclic, SkillsInv,
    Skills!TypeOK, RequestIsSound, Skills!Approved, Skills!request, Skills!Free
<1>1. CASE Skills!Freeze
  BY <1>1 DEF Skills!Freeze
<1>2. CASE Skills!Stage
  <2>1. accepted' \subseteq Target
    BY <1>2 DEF Skills!Stage, Skills!Admitted
  <2> QED BY <1>2, <2>1 DEF Skills!Stage
<1>3. CASE Skills!Edit
  <2>1. library' \in [Target -> Skills!Text]
    BY <1>3 DEF Skills!Edit, Skills!Text
  <2> QED BY <1>3, <2>1 DEF Skills!Edit
<1>4. CASE Skills!WriteFails
  <2>1. library' \in [Target -> Skills!Text]
    BY <1>4 DEF Skills!WriteFails
  <2> QED BY <1>4, <2>1 DEF Skills!WriteFails
<1>5. CASE Skills!Crash
  BY <1>5 DEF Skills!Crash
<1>6. CASE \E some \in SUBSET Target : Skills!Approve(some)
  BY <1>6 DEF Skills!Approve, Skills!Expected
<1>7. CASE \E t \in Target : Skills!WriteFile(t)
  BY <1>7 DEF Skills!WriteFile, Skills!Text, Skills!Patch
<1>8. CASE \E t \in Target : Skills!MarkApproved(t)
  BY <1>8 DEF Skills!MarkApproved
<1>9. CASE \E t \in Target : Skills!Reject(t)
  BY <1>9 DEF Skills!Reject
<1>10. CASE UNCHANGED Skills!vars
  BY <1>10 DEF Skills!vars
<1> QED BY <1>1, <1>2, <1>3, <1>4, <1>5, <1>6, <1>7, <1>8, <1>9, <1>10 DEF Skills!Next

LEMMA SkillsHold == ASSUME PatchesAreKnown PROVE Skills!Spec => []SkillsInv
<1>1. Skills!Init => SkillsInv
  BY SkillsInit
<1>2. SkillsInv /\ [Skills!Next]_(Skills!vars) => SkillsInv'
  BY SkillsNextKeeps
<1> QED BY <1>1, <1>2, PTL DEF Skills!Spec

(* A patch is approved where it stands, on all it depends on, whatever was       *)
(* edited, rejected, rolled back or left half done (approve_pending_group).     *)
THEOREM PatchesStandOnTheirs ==
  ASSUME PatchesAreKnown PROVE Skills!Spec => Skills!DependenciesInPlace
<1> DEFINE InPlace ==
      \A t \in Target : (status[t] # "approved" /\ status'[t] = "approved")
                         => (\A d \in Depends[t] \cup {t} : library[d] = Skills!Patch)
<1>1. SkillsInv /\ [Skills!Next]_(Skills!vars) => [InPlace]_(Skills!vars)
  <2> SUFFICES ASSUME SkillsInv, Skills!Next, NEW t \in Target,
                      status[t] # "approved", status'[t] = "approved",
                      NEW d \in Depends[t] \cup {t}
               PROVE  library[d] = Skills!Patch
    OBVIOUS
  <2>1. Skills!MarkApproved(t)
    BY DEF Skills!Next, SkillsInv, Skills!TypeOK, Skills!Freeze, Skills!Stage, Skills!Edit,
        Skills!WriteFails, Skills!Crash, Skills!Approve, Skills!WriteFile, Skills!MarkApproved,
        Skills!Reject, Skills!request
  <2>2. marking /\ t \in asked /\ d \in asked \cup Skills!Approved
    BY <2>1 DEF Skills!MarkApproved, SkillsInv, RequestIsSound
  <2> QED BY <2>2 DEF SkillsInv, RequestIsSound
<1>2. Skills!DependenciesInPlace <=> [][InPlace]_(Skills!vars)
  BY DEF Skills!DependenciesInPlace
<1> HIDE DEF InPlace
<1> QED BY <1>1, <1>2, SkillsHold, PTL DEF Skills!Spec

(* A behaviour of the host is, of the library, one of SkillPublication.        *)
LEMMA HostIsLibrary == HostSpec => Skills!Spec
<1>1. HostInit => Skills!Init
  BY DEF HostInit
<1>2. [HostNext]_hostVars => [Skills!Next]_(Skills!vars)
  BY DEF HostNext, hostVars, libraryVars, Skills!vars, Skills!request
<1> QED BY <1>1, <1>2, PTL DEF HostSpec, Skills!Spec

(* Whatever else the host does, what is approved stands on what it needs.      *)
THEOREM HostPatchesStand == ASSUME PatchesAreKnown PROVE HostSpec => DependenciesInPlace
<1>1. Skills!DependenciesInPlace <=> DependenciesInPlace
  BY DEF DependenciesInPlace
<1> QED BY <1>1, HostIsLibrary, PatchesStandOnTheirs, PTL

-----------------------------------------------------------------------------
(* The journal of a learning job. *)
Result == {"intent", "known", "verified"}
Captured == {"none", "found", "halfway"}
Fact == [mutates : BOOLEAN, state : Result]

(* Two journals with the same parts are the same. *)
LEMMA SameJournal ==
  ASSUME NEW d \in Learn!Environment, NEW e \in Learn!Environment, d.stage = e.stage,
         d.status = e.status, d.plan = e.plan, d.effects = e.effects,
         d.checkpoint = e.checkpoint
  PROVE  d = e
BY DEF Learn!Environment

(* What an intent, a result and a resolution do to a journal. *)
LEMMA WhatIsAdded ==
  ASSUME NEW e \in Learn!Environment, NEW m \in BOOLEAN
  PROVE  LET f == Learn!Adds(e, m) IN
         /\ f \in Learn!Environment /\ f.stage = e.stage /\ f.status = e.status
              /\ f.plan = e.plan
         /\ f.checkpoint = e.checkpoint
         /\ Len(f.effects) = Len(e.effects) + 1
         /\ \A i \in 1..Len(e.effects) : f.effects[i] = e.effects[i]
         /\ f.effects[Len(f.effects)] = [mutates |-> m, state |-> "intent"]
<1>1. e.effects \in Seq(Fact) /\ [mutates |-> m, state |-> "intent"] \in Fact
  BY DEF Learn!Environment, Fact, Result
<1> DEFINE list == Append(e.effects, [mutates |-> m, state |-> "intent"])
<1>2. /\ list \in Seq(Fact) /\ Len(list) = Len(e.effects) + 1
      /\ \A i \in 1..Len(e.effects) : list[i] = e.effects[i]
      /\ list[Len(list)] = [mutates |-> m, state |-> "intent"]
  BY <1>1, AppendProperties
<1>3. Learn!Adds(e, m) = [e EXCEPT !.effects = list]
  BY DEF Learn!Adds
<1> HIDE DEF list
<1> QED BY <1>2, <1>3 DEF Learn!Environment, Fact, Result

LEMMA WhatItGets ==
  ASSUME NEW e \in Learn!Environment, NEW i \in 1..Len(e.effects), NEW state \in Result
  PROVE  LET f == Learn!Gets(e, i, state) IN
         /\ f \in Learn!Environment /\ f.stage = e.stage /\ f.status = e.status
              /\ f.plan = e.plan
         /\ f.checkpoint = e.checkpoint
         /\ Len(f.effects) = Len(e.effects)
         /\ \A j \in 1..Len(e.effects) : j # i => f.effects[j] = e.effects[j]
         /\ f.effects[i].state = state /\ f.effects[i].mutates = e.effects[i].mutates
<1> DEFINE fact == [e.effects[i] EXCEPT !.state = state]
           list == [e.effects EXCEPT ![i] = fact]
<1>0. e.effects \in Seq(Fact)
  BY DEF Learn!Environment, Fact, Result
<1>1. e.effects \in Seq(Fact) /\ e.effects[i] \in Fact
  BY <1>0, ElementOfSeq
<1>2. fact \in Fact /\ fact.state = state /\ fact.mutates = e.effects[i].mutates
  BY <1>1 DEF Fact, Result
<1>3. /\ list \in Seq(Fact) /\ Len(list) = Len(e.effects) /\ list[i] = fact
      /\ \A j \in 1..Len(e.effects) : j # i => list[j] = e.effects[j]
  BY <1>1, <1>2
<1>4. Learn!Gets(e, i, state) = [e EXCEPT !.effects = list]
  BY DEF Learn!Gets
<1> HIDE DEF list, fact
<1> QED BY <1>2, <1>3, <1>4 DEF Learn!Environment, Fact, Result

LEMMA WhatIsResolved ==
  ASSUME NEW e \in Learn!Environment
  PROVE  LET f == Learn!Resolves(e) IN
         /\ f \in Learn!Environment /\ f.stage = e.stage /\ f.status = e.status
              /\ f.plan = e.plan
         /\ f.checkpoint = e.checkpoint
         /\ Len(f.effects) = Len(e.effects)
         /\ \A i \in 1..Len(e.effects) :
              f.effects[i].state = IF e.effects[i].state = "known" THEN "verified"
                                   ELSE e.effects[i].state
<1> DEFINE list == [i \in DOMAIN e.effects |->
                      IF e.effects[i].state = "known"
                      THEN [e.effects[i] EXCEPT !.state = "verified"]
                      ELSE e.effects[i]]
<1>1. e.effects \in Seq(Fact) /\ DOMAIN e.effects = 1..Len(e.effects) /\ Len(e.effects) \in Nat
  BY DEF Learn!Environment, Fact, Result
<1>2. \A i \in 1..Len(e.effects) : e.effects[i] \in Fact
  BY <1>1, ElementOfSeq
<1>6. \A i \in 1..Len(e.effects) : list[i] \in Fact
  BY <1>1, <1>2 DEF Fact, Result
<1>7. list \in [1..Len(e.effects) -> Fact]
  BY <1>1, <1>6
<1>3. list \in Seq(Fact) /\ Len(list) = Len(e.effects)
  BY <1>1, <1>7, SeqDef, LenProperties
<1>4. \A i \in 1..Len(e.effects) :
        list[i].state = IF e.effects[i].state = "known" THEN "verified" ELSE e.effects[i].state
  BY <1>1 DEF Fact, Result
<1>5. Learn!Resolves(e) = [e EXCEPT !.effects = list]
  BY DEF Learn!Resolves
<1> HIDE DEF list
<1> QED BY <1>3, <1>4, <1>5 DEF Learn!Environment, Fact, Result

(* An event brings the rebuilt journal where the process is: one that only    *)
(* carries the stage and the status, and each that says more.                 *)
LEMMA WhatIsStamped ==
  ASSUME NEW s \in Learn!Environment, NEW e \in Learn!Environment
  PROVE  LET t == Learn!Stamped(s, e) IN
         /\ t \in Learn!Environment /\ t.stage = e.stage /\ t.status = e.status
              /\ t.plan = s.plan
         /\ t.effects = s.effects /\ t.checkpoint = s.checkpoint
BY DEF Learn!Environment, Learn!Stamped

LEMMA OtherReplays ==
  ASSUME NEW s \in Learn!Environment, NEW e \in Learn!Environment, e.plan = s.plan,
         e.effects = s.effects, e.checkpoint = s.checkpoint
  PROVE  Learn!Replayed(s, e, Learn!Other) = e
<1>1. Learn!Replayed(s, e, Learn!Other) = Learn!Stamped(s, e)
  BY DEF Learn!Replayed, Learn!Other
<1>2. Learn!Stamped(s, e) = e
  BY WhatIsStamped, SameJournal
<1> QED BY <1>1, <1>2

LEMMA IntentReplays ==
  ASSUME NEW s \in Learn!Environment, NEW d \in Learn!Environment, d.plan = s.plan,
         d.effects = s.effects, d.checkpoint = s.checkpoint, NEW m \in BOOLEAN
  PROVE  Learn!Replayed(s, Learn!Adds(d, m), [kind |-> "intent", mutates |-> m])
         = Learn!Adds(d, m)
<1>1. Learn!Replayed(s, Learn!Adds(d, m), [kind |-> "intent", mutates |-> m])
      = Learn!Adds(Learn!Stamped(s, Learn!Adds(d, m)), m)
  BY DEF Learn!Replayed
<1>2. /\ Learn!Adds(d, m) \in Learn!Environment /\ Learn!Adds(d, m).stage = d.stage
      /\ Learn!Adds(d, m).status = d.status
  BY WhatIsAdded
<1>3. Learn!Stamped(s, Learn!Adds(d, m)) = d
  BY <1>2, WhatIsStamped, SameJournal
<1> QED BY <1>1, <1>3

LEMMA EffectReplays ==
  ASSUME NEW s \in Learn!Environment, NEW i \in 1..Len(s.effects), NEW state \in Result
  PROVE  Learn!Replayed(s, Learn!Gets(s, i, state), Learn!Effect(i, state))
         = Learn!Gets(s, i, state)
<1>1. Learn!Replayed(s, Learn!Gets(s, i, state), Learn!Effect(i, state))
      = Learn!Gets(Learn!Stamped(s, Learn!Gets(s, i, state)), i, state)
  BY DEF Learn!Replayed, Learn!Effect
<1>2. /\ Learn!Gets(s, i, state) \in Learn!Environment
      /\ Learn!Gets(s, i, state).stage = s.stage
      /\ Learn!Gets(s, i, state).status = s.status
  BY WhatItGets
<1>3. Learn!Stamped(s, Learn!Gets(s, i, state)) = s
  BY <1>2, WhatIsStamped, SameJournal
<1> QED BY <1>1, <1>3

LEMMA VerifyReplays ==
  ASSUME NEW s \in Learn!Environment
  PROVE  Learn!Replayed(s, Learn!Resolves(s), [kind |-> "verify"]) = Learn!Resolves(s)
<1>1. Learn!Replayed(s, Learn!Resolves(s), [kind |-> "verify"])
      = Learn!Resolves(Learn!Stamped(s, Learn!Resolves(s)))
  BY DEF Learn!Replayed
<1>2. Learn!Resolves(s) \in Learn!Environment /\ Learn!Resolves(s).stage = s.stage
        /\ Learn!Resolves(s).status = s.status
  BY WhatIsResolved
<1>3. Learn!Stamped(s, Learn!Resolves(s)) = s
  BY <1>2, WhatIsStamped, SameJournal
<1> QED BY <1>1, <1>3

LEMMA ResetReplays ==
  ASSUME NEW s \in Learn!Environment, NEW e \in Learn!Environment, e.plan = s.plan,
         e.effects = Learn!Resolves(s).effects, e.checkpoint = "none"
  PROVE  Learn!Replayed(Learn!Replayed(s, e, [kind |-> "fixture_reset"]), e, Learn!Other) = e
<1> DEFINE t == Learn!Stamped(s, e)
           r == [Learn!Resolves(t) EXCEPT !.checkpoint = "none"]
<1>1. Learn!Replayed(s, e, [kind |-> "fixture_reset"]) = r
  BY DEF Learn!Replayed
<1>2. t \in Learn!Environment /\ t.plan = s.plan /\ t.effects = s.effects
  BY WhatIsStamped
<1>3. Learn!Resolves(t).effects = Learn!Resolves(s).effects
  BY <1>2 DEF Learn!Resolves, Learn!Environment
<1>4. Learn!Resolves(t) \in Learn!Environment /\ Learn!Resolves(t).plan = s.plan
  BY <1>2, WhatIsResolved
<1> HIDE DEF t
<1>5. /\ r \in Learn!Environment /\ r.plan = s.plan /\ r.effects = Learn!Resolves(s).effects
      /\ r.checkpoint = "none"
  BY <1>3, <1>4 DEF Learn!Environment
<1> HIDE DEF r
<1>6. Learn!Replayed(r, e, Learn!Other) = e
  BY <1>5, OtherReplays
<1> QED BY <1>1, <1>6

LEMMA PlanReplays ==
  ASSUME NEW s \in Learn!Environment, NEW e \in Learn!Environment, e.effects = s.effects,
         NEW captured \in Captured, NEW verifier \in BOOLEAN,
         e.checkpoint = IF verifier THEN captured ELSE s.checkpoint
  PROVE  LET planned == [kind |-> "plan", plan |-> e.plan]
             captures == IF verifier THEN [kind |-> "checkpoint",
               value |-> captured] ELSE Learn!Other
         IN  Learn!Replayed(Learn!Replayed(s, e, planned), e, captures) = e
<1> DEFINE r == [Learn!Stamped(s, e) EXCEPT !.plan = e.plan]
<1>1. Learn!Replayed(s, e, [kind |-> "plan", plan |-> e.plan]) = r
  BY DEF Learn!Replayed
<1>2. /\ r \in Learn!Environment /\ r.plan = e.plan /\ r.effects = s.effects
      /\ r.checkpoint = s.checkpoint
  BY WhatIsStamped DEF Learn!Environment
<1> HIDE DEF r
<1>3. CASE ~verifier
  BY <1>1, <1>2, <1>3, OtherReplays
<1>4. CASE verifier
  <2>1. Learn!Replayed(r, e, [kind |-> "checkpoint", value |-> captured])
        = [Learn!Stamped(r, e) EXCEPT !.checkpoint = captured]
    BY DEF Learn!Replayed
  <2>2. [Learn!Stamped(r, e) EXCEPT !.checkpoint = captured] = e
    <3>1. /\ Learn!Stamped(r, e) \in Learn!Environment
          /\ Learn!Stamped(r, e).stage = e.stage
          /\ Learn!Stamped(r, e).status = e.status /\ Learn!Stamped(r, e).plan = e.plan
          /\ Learn!Stamped(r, e).effects = e.effects
      BY <1>2, WhatIsStamped
    <3> QED BY <3>1, <1>4, SameJournal DEF Learn!Environment, Captured
  <2> QED BY <2>1, <2>2, <1>1, <1>4
<1> QED BY <1>3, <1>4

-----------------------------------------------------------------------------
(* An action under way has its intent, and so has a reset until it returns.     *)
ActingIsOpen ==
  jobPc = "acting" => intent \in 1..Learn!Last /\ env.effects[intent].state = "intent"

ResetIsLast ==
  /\ reset = "running" => Learn!Last >= 1 /\ env.effects[Learn!Last].state = "intent"
  /\ reset = "marking" => content = "found" /\ flying = {}

(* What may still land is an intent without a result, which nothing resolves:   *)
(* neither a later action, for none begins any more, nor a reset, whose own    *)
(* intent is another one.                                                     *)
FlyingIsOpen ==
  "sent" \in flying =>
    /\ \E i \in 1..Learn!Last : env.effects[i].state = "intent"
         /\ (reset = "running" => i # Learn!Last)
    /\ jobPc \notin {"planReset", "prepareReset", "configures", "fresh", "probe", "acting"}
    /\ jobPc \in {"reported", "host", "probeReset", "candidateReset", "proposed"} => late

(* A device that was changed by more than failed dispatches has an effect that  *)
(* is not resolved, beside the action under way.                              *)
ChangedIsUnresolved ==
  content = "changed" =>
    \E i \in 1..Learn!Last : env.effects[i].state # "verified"
      /\ (jobPc = "acting" => i # intent)

EnvInv ==
  /\ Learn!TypeOK /\ Learn!ReplayAgrees
  /\ ActingIsOpen /\ ResetIsLast /\ FlyingIsOpen /\ ChangedIsUnresolved

(* The ways a step leaves the journal: with the same effects, with one more,    *)
(* with a result of one, or with the known ones resolved.                      *)
Journals == env' \in Learn!Environment /\ saved' = env'
SameEffects == Journals /\ env'.effects = env.effects
MoreEffects ==
  /\ Journals /\ Len(env'.effects) = Len(env.effects) + 1
  /\ \A i \in 1..Len(env.effects) : env'.effects[i] = env.effects[i]
  /\ env'.effects[Len(env'.effects)].state = "intent"
HasResult(i, state) ==
  /\ Journals /\ Len(env'.effects) = Len(env.effects) /\ env'.effects[i].state = state
  /\ \A j \in 1..Len(env.effects) : j # i => env'.effects[j] = env.effects[j]
AllResolved ==
  /\ Journals /\ Len(env'.effects) = Len(env.effects)
  /\ \A i \in 1..Len(env.effects) :
       env'.effects[i].state = IF env.effects[i].state = "known" THEN "verified"
                               ELSE env.effects[i].state

LEMMA JournalTyped ==
  ASSUME EnvInv
  PROVE  /\ env \in Learn!Environment /\ saved = env /\ harness \in Learn!Harness
         /\ harness.verifier \in BOOLEAN /\ harness.fixture \in BOOLEAN
         /\ harness.retain \in BOOLEAN
         /\ Learn!Last \in Nat /\ DOMAIN env.effects = 1..Learn!Last
         /\ \A i \in 1..Learn!Last : /\ env.effects[i].state \in Result
                                     /\ env.effects[i].mutates \in BOOLEAN
         /\ env.stage \in {"prepare", "probe", "cleanup"} /\ env.plan \in Learn!Plan
         /\ env.status \in {"open", "interrupted", "unresolved", "closed"}
         /\ env.checkpoint \in Captured
<1>1. env \in Learn!Environment /\ saved = env /\ harness \in Learn!Harness
  BY DEF EnvInv, Learn!TypeOK, Learn!ReplayAgrees
<1>2. env.effects \in Seq(Fact)
  BY <1>1 DEF Learn!Environment, Fact, Result
<1>3. \A i \in 1..Learn!Last : env.effects[i] \in Fact
  BY <1>2, ElementOfSeq DEF Learn!Last
<1>4. Learn!Last \in Nat /\ DOMAIN env.effects = 1..Learn!Last
  BY <1>2, LenProperties DEF Learn!Last
<1>5. \A i \in 1..Learn!Last : /\ env.effects[i].state \in Result
                               /\ env.effects[i].mutates \in BOOLEAN
  BY <1>3 DEF Fact
<1>6. /\ harness.verifier \in BOOLEAN /\ harness.fixture \in BOOLEAN
      /\ harness.retain \in BOOLEAN
  BY <1>1 DEF Learn!Harness
<1> QED BY <1>1, <1>4, <1>5, <1>6 DEF Learn!Environment, Captured

(* What is written, and what it leaves. *)
LEMMA OtherLeaves ==
  ASSUME EnvInv, NEW e \in Learn!Environment, e.plan = env.plan, e.effects = env.effects,
         e.checkpoint = env.checkpoint, Learn!Persists(e, Learn!Other)
  PROVE  SameEffects
<1>1. env' = e /\ saved' = Learn!Replayed(saved, e, Learn!Other)
  BY DEF Learn!Persists
<1>2. Learn!Replayed(env, e, Learn!Other) = e
  BY JournalTyped, OtherReplays
<1>3. saved = env
  BY JournalTyped
<1> QED BY <1>1, <1>2, <1>3 DEF SameEffects, Journals

LEMMA StayLeaves == ASSUME EnvInv, Learn!Stays PROVE SameEffects
BY JournalTyped DEF Learn!Stays, SameEffects, Journals

LEMMA IntentLeaves ==
  ASSUME EnvInv, NEW m \in BOOLEAN,
         Learn!Persists(Learn!Adds(env, m), [kind |-> "intent", mutates |-> m])
  PROVE  MoreEffects
<1>1. /\ env' = Learn!Adds(env, m)
      /\ saved' = Learn!Replayed(saved, Learn!Adds(env, m), [kind |-> "intent", mutates |-> m])
  BY DEF Learn!Persists
<1>2. env \in Learn!Environment /\ saved = env
  BY JournalTyped
<1>3. Learn!Replayed(env, Learn!Adds(env, m), [kind |-> "intent", mutates |-> m])
      = Learn!Adds(env, m)
  BY <1>2, IntentReplays
<1>4. /\ Learn!Adds(env, m) \in Learn!Environment
      /\ Len(Learn!Adds(env, m).effects) = Len(env.effects) + 1
      /\ \A i \in 1..Len(env.effects) : Learn!Adds(env, m).effects[i] = env.effects[i]
      /\ Learn!Adds(env, m).effects[Len(Learn!Adds(env, m).effects)] = [mutates |-> m,
           state |-> "intent"]
  BY <1>2, WhatIsAdded
<1> QED BY <1>1, <1>2, <1>3, <1>4 DEF MoreEffects, Journals

LEMMA EffectLeaves ==
  ASSUME EnvInv, NEW i \in 1..Learn!Last, NEW state \in Result,
         Learn!Persists(Learn!Gets(env, i, state), Learn!Effect(i, state))
  PROVE  HasResult(i, state)
<1>1. /\ env' = Learn!Gets(env, i, state)
      /\ saved' = Learn!Replayed(saved, Learn!Gets(env, i, state), Learn!Effect(i, state))
  BY DEF Learn!Persists
<1>2. env \in Learn!Environment /\ saved = env /\ i \in 1..Len(env.effects)
  BY JournalTyped DEF Learn!Last
<1>3. Learn!Replayed(env, Learn!Gets(env, i, state), Learn!Effect(i, state))
      = Learn!Gets(env, i, state)
  BY <1>2, EffectReplays
<1>4. /\ Learn!Gets(env, i, state) \in Learn!Environment
      /\ Len(Learn!Gets(env, i, state).effects) = Len(env.effects)
      /\ \A j \in 1..Len(env.effects) : j # i
           => Learn!Gets(env, i, state).effects[j] = env.effects[j]
      /\ Learn!Gets(env, i, state).effects[i].state = state
  BY <1>2, WhatItGets
<1> QED BY <1>1, <1>2, <1>3, <1>4 DEF HasResult, Journals

LEMMA VerifyLeaves ==
  ASSUME EnvInv, Learn!Persists(Learn!Resolves(env), [kind |-> "verify"]) PROVE AllResolved
<1>1. env' = Learn!Resolves(env)
        /\ saved' = Learn!Replayed(saved, Learn!Resolves(env), [kind |-> "verify"])
  BY DEF Learn!Persists
<1>2. env \in Learn!Environment /\ saved = env
  BY JournalTyped
<1>3. Learn!Replayed(env, Learn!Resolves(env), [kind |-> "verify"]) = Learn!Resolves(env)
  BY <1>2, VerifyReplays
<1>4. /\ Learn!Resolves(env) \in Learn!Environment
      /\ Len(Learn!Resolves(env).effects) = Len(env.effects)
      /\ \A i \in 1..Len(env.effects) :
           Learn!Resolves(env).effects[i].state
           = IF env.effects[i].state = "known" THEN "verified" ELSE env.effects[i].state
  BY <1>2, WhatIsResolved
<1> QED BY <1>1, <1>2, <1>3, <1>4 DEF AllResolved, Journals

LEMMA PlanLeaves ==
  ASSUME EnvInv, NEW e \in Learn!Environment, e.effects = env.effects,
           NEW captured \in Captured,
         e.checkpoint = IF harness.verifier THEN captured ELSE env.checkpoint,
         Learn!PersistsTwo(e, [kind |-> "plan", plan |-> e.plan],
                     IF harness.verifier THEN [kind |-> "checkpoint", value |-> captured]
                     ELSE Learn!Other)
  PROVE  SameEffects
<1> DEFINE planned == [kind |-> "plan", plan |-> e.plan]
           captures == IF harness.verifier THEN [kind |-> "checkpoint", value |-> captured]
                       ELSE Learn!Other
<1>1. env' = e /\ saved' = Learn!Replayed(Learn!Replayed(saved, e, planned), e, captures)
  BY DEF Learn!PersistsTwo
<1>2. env \in Learn!Environment /\ saved = env /\ harness.verifier \in BOOLEAN
  BY JournalTyped
<1>3. Learn!Replayed(Learn!Replayed(env, e, planned), e, captures) = e
  BY <1>2, PlanReplays
<1> QED BY <1>1, <1>2, <1>3 DEF SameEffects, Journals

LEMMA ResetIntentLeaves ==
  ASSUME EnvInv, NEW stage \in {"prepare", "cleanup"},
         Learn!PersistsTwo(Learn!Adds([env EXCEPT !.stage = stage], TRUE), Learn!Other,
                     [kind |-> "intent", mutates |-> TRUE])
  PROVE  MoreEffects
<1> DEFINE d == [env EXCEPT !.stage = stage]
           e == Learn!Adds(d, TRUE)
<1>1. /\ env' = e
      /\ saved' = Learn!Replayed(Learn!Replayed(saved, e, Learn!Other), e,
                                 [kind |-> "intent", mutates |-> TRUE])
  BY DEF Learn!PersistsTwo
<1>2. env \in Learn!Environment /\ saved = env
  BY JournalTyped
<1>3. /\ d \in Learn!Environment /\ d.plan = env.plan /\ d.effects = env.effects
      /\ d.checkpoint = env.checkpoint
  BY <1>2 DEF Learn!Environment
<1> HIDE DEF d
<1>0. TRUE \in BOOLEAN
  OBVIOUS
<1>4. /\ e \in Learn!Environment
      /\ Len(e.effects) = Len(env.effects) + 1
      /\ \A i \in 1..Len(env.effects) : e.effects[i] = env.effects[i]
      /\ e.effects[Len(e.effects)] = [mutates |-> TRUE, state |-> "intent"]
  <2>1. /\ Len(e.effects) = Len(d.effects) + 1 /\ e \in Learn!Environment
        /\ \A i \in 1..Len(d.effects) : e.effects[i] = d.effects[i]
        /\ e.effects[Len(e.effects)] = [mutates |-> TRUE, state |-> "intent"]
    BY <1>0, <1>3, WhatIsAdded
  <2> QED BY <2>1, <1>3
<1>5. Learn!Replayed(env, e, Learn!Other) = Learn!Stamped(env, e)
  BY DEF Learn!Replayed, Learn!Other
<1>6. /\ Learn!Stamped(env, e) \in Learn!Environment
      /\ d.plan = Learn!Stamped(env, e).plan
      /\ d.effects = Learn!Stamped(env, e).effects
           /\ d.checkpoint = Learn!Stamped(env, e).checkpoint
  BY <1>2, <1>3, <1>4, WhatIsStamped
<1>7. Learn!Replayed(Learn!Stamped(env, e), e, [kind |-> "intent", mutates |-> TRUE]) = e
  BY <1>0, <1>3, <1>6, IntentReplays
<1> HIDE DEF e
<1> QED BY <1>1, <1>2, <1>4, <1>5, <1>7 DEF MoreEffects, Journals

LEMMA ResetEffectLeaves ==
  ASSUME EnvInv, Learn!Last >= 1,
         Learn!PersistsTwo(Learn!Gets(env, Learn!Last, "known"),
                           Learn!Effect(Learn!Last, "known"), Learn!Other)
  PROVE  HasResult(Learn!Last, "known")
<1> DEFINE e == Learn!Gets(env, Learn!Last, "known")
<1>1. /\ env' = e
      /\ saved' = Learn!Replayed(Learn!Replayed(saved, e, Learn!Effect(Learn!Last, "known")), e,
                                 Learn!Other)
  BY DEF Learn!PersistsTwo
<1>2. env \in Learn!Environment /\ saved = env /\ Learn!Last \in 1..Len(env.effects)
        /\ "known" \in Result
  BY JournalTyped DEF Learn!Last, Result
<1>3. Learn!Replayed(env, e, Learn!Effect(Learn!Last, "known")) = e
  BY <1>2, EffectReplays
<1>4. /\ e \in Learn!Environment /\ Len(e.effects) = Len(env.effects)
      /\ \A j \in 1..Len(env.effects) : j # Learn!Last => e.effects[j] = env.effects[j]
      /\ e.effects[Learn!Last].state = "known"
  BY <1>2, WhatItGets
<1> HIDE DEF e
<1>5. Learn!Replayed(e, e, Learn!Other) = e
  BY <1>4, OtherReplays
<1> QED BY <1>1, <1>2, <1>3, <1>4, <1>5 DEF HasResult, Journals

LEMMA ResetLeaves ==
  ASSUME EnvInv, NEW e \in Learn!Environment, e.plan = env.plan,
         e.effects = Learn!Resolves(env).effects, e.checkpoint = "none",
         Learn!PersistsTwo(e, [kind |-> "fixture_reset"], Learn!Other)
  PROVE  AllResolved
<1>1. /\ env' = e
      /\ saved' = Learn!Replayed(Learn!Replayed(saved, e, [kind |-> "fixture_reset"]), e,
                                 Learn!Other)
  BY DEF Learn!PersistsTwo
<1>2. env \in Learn!Environment /\ saved = env
  BY JournalTyped
<1>3. Learn!Replayed(Learn!Replayed(env, e, [kind |-> "fixture_reset"]), e, Learn!Other) = e
  BY <1>2, ResetReplays
<1>4. /\ Len(Learn!Resolves(env).effects) = Len(env.effects)
      /\ \A i \in 1..Len(env.effects) :
           Learn!Resolves(env).effects[i].state
           = IF env.effects[i].state = "known" THEN "verified" ELSE env.effects[i].state
  BY <1>2, WhatIsResolved
<1> QED BY <1>1, <1>2, <1>3, <1>4 DEF AllResolved, Journals

-----------------------------------------------------------------------------
LEMMA EnvInit == ASSUME Learn!MaxEffectsIsNumber, Learn!Init PROVE EnvInv
<1>1. <<>> \in Seq([mutates : BOOLEAN, state : {"intent", "known", "verified"}])
      /\ Len(<<>>) = 0
  BY EmptySeq
<1>2. Learn!Begun \in Learn!Environment /\ Learn!Begun.effects = <<>>
  BY <1>1 DEF Learn!Begun, Learn!Environment, Learn!Plan
<1>3. env = Learn!Begun /\ saved = Learn!Begun /\ Learn!Last = 0
  BY <1>1, <1>2 DEF Learn!Init, Learn!Last
<1>4. late \in BOOLEAN /\ flying = {} /\ content = "found"
  BY DEF Learn!Init
<1>5. {env, saved} \subseteq Learn!Environment
  BY <1>2, <1>3
<1>6. /\ harness \in Learn!Harness
      /\ intent \in 0..Learn!Last
      /\ wanted \in Learn!Plan /\ reset = "none" /\ jobPc = "host"
           /\ Learn!Last <= MaxEffects
  BY <1>3 DEF Learn!Init, Learn!Plan, Learn!MaxEffectsIsNumber
<1>7. Learn!TypeOK
  BY <1>4, <1>5, <1>6 DEF Learn!TypeOK
<1> QED BY <1>3, <1>4, <1>6, <1>7
    DEF EnvInv, Learn!ReplayAgrees, ActingIsOpen, ResetIsLast, FlyingIsOpen,
          ChangedIsUnresolved

(* The actions that leave the effects as they are. *)
LEMMA QuietKeeps ==
  ASSUME EnvInv, UNCHANGED harness,
         \/ Learn!Stops \/ Learn!ActTimesOut \/ Learn!Lands \/ Learn!TimeIsUp
              \/ Learn!ProbeEnds \/ Learn!Propose \/ Learn!Reviewed
         \/ Learn!Ends \/ Learn!Crash \/ Learn!CleansResumed
  PROVE  EnvInv'
<1>1. SameEffects
  <2>1. UNCHANGED <<env, saved>>
    BY DEF Learn!Stops, Learn!ActTimesOut, Learn!Lands, Learn!TimeIsUp,
         Learn!ProbeEnds, Learn!Propose, Learn!Reviewed, Learn!Ends, Learn!Crash,
       Learn!CleansResumed
  <2> QED BY <2>1, JournalTyped DEF SameEffects, Journals
<1> USE <1>1, JournalTyped
    DEF EnvInv, Learn!TypeOK, Learn!ReplayAgrees, ActingIsOpen, ResetIsLast, FlyingIsOpen,
        ChangedIsUnresolved, SameEffects, Journals, Learn!Last, Learn!Goes,
          Learn!Device, Learn!After, Result, Learn!Mutates, Learn!MayFly, Learn!MayChange
<1>2. CASE Learn!Stops
  BY <1>2 DEF Learn!Stops
<1>3. CASE Learn!ActTimesOut
  BY <1>3 DEF Learn!ActTimesOut
<1>4. CASE Learn!Lands
  BY <1>4 DEF Learn!Lands
<1>5. CASE Learn!TimeIsUp
  BY <1>5 DEF Learn!TimeIsUp
<1>6. CASE Learn!ProbeEnds
  BY <1>6 DEF Learn!ProbeEnds
<1>7. CASE Learn!Propose
  BY <1>7 DEF Learn!Propose
<1>8. CASE Learn!Reviewed
  BY <1>8 DEF Learn!Reviewed
<1>9. CASE Learn!Ends
  BY <1>9 DEF Learn!Ends
<1>10. CASE Learn!Crash
  <2>1. /\ flying' \in {flying} \cup (IF jobPc = "acting" THEN Learn!MayFly("sent") ELSE {})
        /\ content' \in {content, IF reset = "running" THEN "changed" ELSE content}
        /\ jobPc' = "crashed" /\ reset' = "none"
        /\ UNCHANGED <<env, saved, intent, wanted, late>>
    BY <1>10 DEF Learn!Crash
  <2>2. /\ "sent" \in flying' => "sent" \in flying \/ jobPc = "acting"
        /\ flying' \subseteq {"sent", "failed"}
    BY <2>1
  <2>3. content' = "changed" => content = "changed" \/ reset = "running"
    BY <2>1
  <2>4. content' \in {"found", "halfway", "changed"}
    BY <2>1
  <2> QED BY <2>1, <2>2, <2>3, <2>4
<1>11. CASE Learn!CleansResumed
  BY <1>11 DEF Learn!CleansResumed
<1> QED BY <1>2, <1>3, <1>4, <1>5, <1>6, <1>7, <1>8, <1>9, <1>10, <1>11

(* A stage or a status of its own leaves the effects as they are. *)
LEMMA ToProbeIsTyped ==
  ASSUME NEW e \in Learn!Environment
  PROVE  LET f == Learn!ToProbe(e) IN
         /\ f \in Learn!Environment /\ f.plan = e.plan /\ f.effects = e.effects
         /\ f.checkpoint = e.checkpoint /\ f.status = e.status
BY DEF Learn!ToProbe, Learn!Environment

LEMMA StageIsTyped ==
  ASSUME NEW e \in Learn!Environment, NEW stage \in {"prepare", "probe", "cleanup"}
  PROVE  LET f == [e EXCEPT !.stage = stage] IN
         /\ f \in Learn!Environment /\ f.plan = e.plan /\ f.effects = e.effects
         /\ f.checkpoint = e.checkpoint /\ f.status = e.status
BY DEF Learn!Environment

LEMMA StatusIsTyped ==
  ASSUME NEW e \in Learn!Environment,
         NEW ended \in {"open", "interrupted", "unresolved", "closed"}
  PROVE  LET f == [e EXCEPT !.status = ended] IN
         /\ f \in Learn!Environment /\ f.plan = e.plan /\ f.effects = e.effects
         /\ f.checkpoint = e.checkpoint /\ f.stage = e.stage
BY DEF Learn!Environment

LEMMA ExploreKeeps ==
  ASSUME EnvInv, UNCHANGED harness, NEW plan \in Learn!Plan, Learn!Explore(plan)
  PROVE  EnvInv'
<1>1. SameEffects
  <2>1. CASE plan \in {"none", env.plan}
    <3>1. Learn!Persists(Learn!ToProbe(env), Learn!Other)
      BY <2>1 DEF Learn!Explore
    <3> QED BY <3>1, JournalTyped, ToProbeIsTyped, OtherLeaves
  <2>2. CASE plan \notin {"none", env.plan}
    BY <2>2, StayLeaves DEF Learn!Explore
  <2> QED BY <2>1, <2>2
<1>2. /\ jobPc = "host" /\ ~late /\ wanted' = plan /\ reset' = "none"
      /\ jobPc' \in {"probe", "planReset", "configures"}
      /\ UNCHANGED <<content, flying, intent, late>>
  BY DEF Learn!Explore, Learn!Goes, Learn!Device
<1> QED BY <1>1, <1>2, JournalTyped
    DEF EnvInv, Learn!TypeOK, Learn!ReplayAgrees, ActingIsOpen, ResetIsLast, FlyingIsOpen,
        ChangedIsUnresolved, SameEffects, Journals, Learn!Last, Learn!After

LEMMA ConfigureKeeps ==
  ASSUME EnvInv, UNCHANGED harness, NEW fresh \in BOOLEAN, Learn!Configure(fresh)
  PROVE  EnvInv'
<1> PICK captured \in {"none", content} :
      LET e == [env EXCEPT !.plan = wanted, !.stage = "prepare",
                           !.checkpoint = IF harness.verifier THEN captured ELSE @]
          planned == [kind |-> "plan", plan |-> wanted]
          captures == IF harness.verifier THEN [kind |-> "checkpoint", value |-> captured]
                      ELSE Learn!Other
      IN IF harness.fixture /\ ~fresh
         THEN Learn!PersistsTwo(e, planned, captures) /\ Learn!Goes("prepareReset")
         ELSE Learn!PersistsTwo(Learn!ToProbe(e), planned, captures)
           /\ Learn!Goes("probe")
  BY DEF Learn!Configure
<1> DEFINE e == [env EXCEPT !.plan = wanted, !.stage = "prepare",
                            !.checkpoint = IF harness.verifier THEN captured ELSE @]
           planned == [kind |-> "plan", plan |-> wanted]
           captures == IF harness.verifier THEN [kind |-> "checkpoint", value |-> captured]
                       ELSE Learn!Other
<1>1. captured \in Captured /\ wanted \in Learn!Plan
  <2>1. content # "changed"
    BY JournalTyped DEF Learn!Configure, Learn!Unresolved, EnvInv, ChangedIsUnresolved
  <2> QED BY <2>1 DEF EnvInv, Learn!TypeOK, Captured
<1>2. /\ e \in Learn!Environment /\ e.plan = wanted /\ e.effects = env.effects
      /\ e.checkpoint = IF harness.verifier THEN captured ELSE env.checkpoint
  BY <1>1, JournalTyped DEF Learn!Environment, Captured
<1>3. Learn!PersistsTwo(e, planned, captures)
        \/ Learn!PersistsTwo(Learn!ToProbe(e), planned, captures)
  OBVIOUS
<1>4. jobPc' \in {"prepareReset", "probe"} /\ reset' = "none"
  BY DEF Learn!Goes
<1> HIDE DEF e
<1>5. SameEffects
  <2>1. CASE Learn!PersistsTwo(e, planned, captures)
    BY <1>1, <1>2, <2>1, PlanLeaves
  <2>2. CASE Learn!PersistsTwo(Learn!ToProbe(e), planned, captures)
    <3>1. /\ Learn!ToProbe(e) \in Learn!Environment /\ Learn!ToProbe(e).plan = wanted
          /\ Learn!ToProbe(e).effects = env.effects
          /\ Learn!ToProbe(e).checkpoint = IF harness.verifier THEN captured ELSE env.checkpoint
      BY <1>2, ToProbeIsTyped
    <3> QED BY <1>1, <2>2, <3>1, PlanLeaves
  <2> QED BY <1>3, <2>1, <2>2
<1>6. /\ jobPc \in {"fresh", "configures"} /\ UNCHANGED <<content, flying, intent, wanted, late>>
  BY DEF Learn!Configure, Learn!Device
<1> QED BY <1>1, <1>4, <1>5, <1>6, JournalTyped
    DEF EnvInv, Learn!TypeOK, Learn!ReplayAgrees, ActingIsOpen, ResetIsLast, FlyingIsOpen,
        ChangedIsUnresolved, SameEffects, Journals, Learn!Last, Learn!After

LEMMA ActKeeps ==
  ASSUME EnvInv, Learn!MaxEffectsIsNumber, UNCHANGED harness, NEW action \in Learn!Action,
           Learn!Act(action)
  PROVE  EnvInv'
<1> DEFINE mutates == action # "navigate"
<1>1. mutates \in BOOLEAN
  OBVIOUS
<1>2. /\ Learn!Persists(Learn!Adds(env, mutates), [kind |-> "intent", mutates |-> mutates])
      /\ jobPc = "probe" /\ Learn!Last < MaxEffects /\ intent' = Learn!Last + 1
      /\ jobPc' = "acting" /\ reset' = "none" /\ UNCHANGED <<content, flying, wanted, late>>
  BY DEF Learn!Act, Learn!Goes, Learn!Device, Learn!Last
<1> HIDE DEF mutates
<1>3. MoreEffects
  BY <1>1, <1>2, IntentLeaves
<1>4. /\ Learn!Last' = Learn!Last + 1 /\ env'.effects[Learn!Last'].state = "intent"
      /\ Learn!Last \in Nat
      /\ env' \in Learn!Environment /\ saved' = env'
      /\ \A i \in 1..Learn!Last : i \in 1..Learn!Last' /\ i # Learn!Last'
           /\ env'.effects[i] = env.effects[i]
  BY <1>3, JournalTyped DEF MoreEffects, Journals, Learn!Last
<1>5. Learn!TypeOK'
  BY <1>2, <1>4 DEF EnvInv, Learn!TypeOK, Learn!MaxEffectsIsNumber
<1>6. ActingIsOpen' /\ ResetIsLast'
  BY <1>2, <1>4 DEF EnvInv, ActingIsOpen, ResetIsLast
<1>7. FlyingIsOpen'
  BY <1>2, <1>4 DEF EnvInv, FlyingIsOpen
<1>8. ChangedIsUnresolved'
  BY <1>2, <1>4 DEF EnvInv, ChangedIsUnresolved
<1> QED BY <1>4, <1>5, <1>6, <1>7, <1>8 DEF EnvInv, Learn!ReplayAgrees

LEMMA ActedKeeps ==
  ASSUME EnvInv, UNCHANGED harness, Learn!Acted
  PROVE  EnvInv'
<1>1. /\ jobPc = "acting" /\ intent \in 1..Learn!Last /\ intent' = 0 /\ reset' = "none"
      /\ jobPc' \in {"probe", "reported"} /\ UNCHANGED <<wanted, late>>
  BY DEF Learn!Acted, EnvInv, ActingIsOpen, Learn!Goes
<1>2. "sent" \notin flying
  BY <1>1 DEF EnvInv, FlyingIsOpen
<1>3. CASE /\ Learn!Persists(Learn!Gets(env, intent, "verified"),
                             Learn!Effect(intent, "verified"))
           /\ content' \in Learn!MayBeHalfway /\ flying' \in Learn!MayFly("failed")
  <2>1. HasResult(intent, "verified")
    BY <1>1, <1>3, EffectLeaves DEF Result
  <2>2. /\ flying' \subseteq {"sent", "failed"} /\ "sent" \notin flying'
        /\ content' \in {"found", "halfway", "changed"}
        /\ content' = "changed" => content = "changed"
    BY <1>2, <1>3 DEF Learn!MayFly, Learn!MayBeHalfway, EnvInv, Learn!TypeOK
  <2> QED BY <1>1, <2>1, <2>2, JournalTyped
      DEF EnvInv, Learn!TypeOK, Learn!ReplayAgrees, ActingIsOpen, ResetIsLast, FlyingIsOpen,
          ChangedIsUnresolved, HasResult, Journals, Learn!Last, Learn!After
<1>4. ASSUME NEW success \in BOOLEAN,
             LET state == IF success /\ ~Learn!Mutates THEN "verified" ELSE "known"
             IN /\ Learn!Persists(Learn!Gets(env, intent, state), Learn!Effect(intent, state))
                /\ content' \in Learn!MayChange /\ UNCHANGED flying
      PROVE  EnvInv'
  <2> DEFINE state == IF success /\ ~Learn!Mutates THEN "verified" ELSE "known"
  <2>1. /\ Learn!Persists(Learn!Gets(env, intent, state), Learn!Effect(intent, state))
        /\ state \in Result /\ UNCHANGED flying /\ content' \in Learn!MayChange
    BY <1>4 DEF Result
  <2>2. content' = "changed" => content = "changed" \/ state = "known"
    BY <2>1 DEF Learn!MayChange
  <2>3. content' \in {"found", "halfway", "changed"}
    BY <2>1 DEF EnvInv, Learn!TypeOK, Learn!MayChange
  <2> HIDE DEF state
  <2>4. HasResult(intent, state)
    BY <1>1, <2>1, EffectLeaves
  <2> QED BY <1>1, <1>2, <2>1, <2>2, <2>3, <2>4, JournalTyped
      DEF EnvInv, Learn!TypeOK, Learn!ReplayAgrees, ActingIsOpen, ResetIsLast, FlyingIsOpen,
          ChangedIsUnresolved, HasResult, Journals, Learn!Last, Learn!After
<1> QED BY <1>3, <1>4 DEF Learn!Acted

LEMMA ReportKeeps ==
  ASSUME EnvInv, UNCHANGED harness, Learn!Report
  PROVE  EnvInv'
<1>1. /\ jobPc = "probe" /\ jobPc' = "reported" /\ reset' = "none" /\ intent' = 0
      /\ UNCHANGED <<content, flying, wanted, late>>
  BY DEF Learn!Report, Learn!Goes, Learn!Device
<1>2. CASE intent = 0
  <2>1. SameEffects
    BY <1>2, StayLeaves DEF Learn!Report
  <2> QED BY <1>1, <2>1, JournalTyped
      DEF EnvInv, Learn!TypeOK, Learn!ReplayAgrees, ActingIsOpen, ResetIsLast, FlyingIsOpen,
          ChangedIsUnresolved, SameEffects, Journals, Learn!Last, Learn!After
<1>3. CASE intent # 0
  <2>1. intent \in 1..Learn!Last
    BY <1>3, JournalTyped DEF EnvInv, Learn!TypeOK
  <2>2. HasResult(intent, "known")
    BY <1>3, <2>1, EffectLeaves DEF Learn!Report, Result
  <2> QED BY <1>1, <2>1, <2>2, JournalTyped
      DEF EnvInv, Learn!TypeOK, Learn!ReplayAgrees, ActingIsOpen, ResetIsLast, FlyingIsOpen,
          ChangedIsUnresolved, HasResult, Journals, Learn!Last, Learn!After
<1> QED BY <1>2, <1>3

(* The tool that the model calls. *)
LEMMA ToolKeeps ==
  ASSUME EnvInv, UNCHANGED harness, Learn!SetStage \/ Learn!CloseTool
  PROVE  EnvInv'
<1>1. UNCHANGED <<content, flying, intent, jobPc, wanted, reset, late>>
  BY DEF Learn!SetStage, Learn!CloseTool, Learn!Device
<1>2. SameEffects
  <2>1. CASE Learn!SetStage
    <3>1. PICK stage \in {"prepare", "probe",
            "cleanup"} : Learn!Persists([env EXCEPT !.stage = stage], Learn!Other)
      BY <2>1 DEF Learn!SetStage
    <3> DEFINE e == [env EXCEPT !.stage = stage]
    <3>2. /\ e \in Learn!Environment /\ e.plan = env.plan /\ e.effects = env.effects
          /\ e.checkpoint = env.checkpoint
      BY JournalTyped, StageIsTyped
    <3> HIDE DEF e
    <3> QED BY <3>1, <3>2, OtherLeaves DEF e
  <2>2. CASE Learn!CloseTool
    <3> DEFINE e == [env EXCEPT !.status = "closed"]
    <3>1. Learn!Persists(e, Learn!Other)
      BY <2>2 DEF Learn!CloseTool
    <3>2. /\ e \in Learn!Environment /\ e.plan = env.plan /\ e.effects = env.effects
          /\ e.checkpoint = env.checkpoint
      BY JournalTyped, StatusIsTyped
    <3> HIDE DEF e
    <3> QED BY <3>1, <3>2, OtherLeaves
  <2> QED BY <2>1, <2>2
<1> QED BY <1>1, <1>2, JournalTyped
    DEF EnvInv, Learn!TypeOK, Learn!ReplayAgrees, ActingIsOpen, ResetIsLast, FlyingIsOpen,
        ChangedIsUnresolved, SameEffects, Journals, Learn!Last, Learn!After

LEMMA VerifyKeeps ==
  ASSUME EnvInv, UNCHANGED harness, Learn!Verify
  PROVE  EnvInv'
<1>1. /\ jobPc \in {"probe", "resumed"} /\ content # "changed"
      /\ UNCHANGED <<content, flying, intent, jobPc, wanted, reset, late>>
  BY JournalTyped DEF Learn!Verify, Learn!Device, Captured
<1>2. AllResolved
  BY VerifyLeaves DEF Learn!Verify
<1> QED BY <1>1, <1>2, JournalTyped
    DEF EnvInv, Learn!TypeOK, Learn!ReplayAgrees, ActingIsOpen, ResetIsLast, FlyingIsOpen,
        ChangedIsUnresolved, AllResolved, Journals, Learn!Last, Learn!After

(* A reset: its intent, what it returns, what it marks, and how it fails. *)
LEMMA ResetBeginsKeeps ==
  ASSUME EnvInv, Learn!MaxEffectsIsNumber, UNCHANGED harness, Learn!ResetBegins
  PROVE  EnvInv'
<1>1. /\ jobPc \in DOMAIN Learn!After /\ reset = "none" /\ reset' = "running"
      /\ Learn!Last < MaxEffects
      /\ UNCHANGED <<content, flying, intent, jobPc, wanted, late>>
  BY DEF Learn!ResetBegins, Learn!Device, Learn!Last
<1> DEFINE stage == IF jobPc = "prepareReset" THEN "prepare" ELSE "cleanup"
<1>2. stage \in {"prepare", "cleanup"}
  OBVIOUS
<1>3. Learn!PersistsTwo(Learn!Adds([env EXCEPT !.stage = stage], TRUE), Learn!Other,
                  [kind |-> "intent", mutates |-> TRUE])
  BY DEF Learn!ResetBegins
<1> HIDE DEF stage
<1>4. MoreEffects
  BY <1>2, <1>3, ResetIntentLeaves
<1>5. /\ Learn!Last' = Learn!Last + 1 /\ env'.effects[Learn!Last'].state = "intent"
      /\ Learn!Last \in Nat
      /\ env' \in Learn!Environment /\ saved' = env'
      /\ \A i \in 1..Learn!Last : i \in 1..Learn!Last' /\ i # Learn!Last'
           /\ env'.effects[i] = env.effects[i]
  BY <1>4, JournalTyped DEF MoreEffects, Journals, Learn!Last
<1>6. Learn!TypeOK'
  BY <1>1, <1>5 DEF EnvInv, Learn!TypeOK, Learn!MaxEffectsIsNumber
<1>7. ActingIsOpen' /\ ResetIsLast'
  BY <1>1, <1>5 DEF EnvInv, ActingIsOpen, ResetIsLast, Learn!After
<1>8. FlyingIsOpen'
  BY <1>1, <1>5 DEF EnvInv, FlyingIsOpen
<1>9. ChangedIsUnresolved'
  BY <1>1, <1>5 DEF EnvInv, ChangedIsUnresolved, Learn!After
<1> QED BY <1>5, <1>6, <1>7, <1>8, <1>9 DEF EnvInv, Learn!ReplayAgrees

LEMMA ResetReturnsKeeps ==
  ASSUME EnvInv, UNCHANGED harness, Learn!ResetReturns
  PROVE  EnvInv'
<1>1. /\ reset = "running" /\ UNCHANGED <<intent, wanted, late>> /\ Learn!Last >= 1
      /\ Learn!Last \in 1..Learn!Last /\ jobPc \in DOMAIN Learn!After
  BY JournalTyped DEF Learn!ResetReturns, EnvInv, ResetIsLast, Learn!TypeOK
<1>2. CASE /\ content' = "found" /\ flying' = {} /\ reset' = "marking" /\ UNCHANGED jobPc
           /\ Learn!Persists(Learn!Gets(env, Learn!Last, "known"),
                             Learn!Effect(Learn!Last, "known"))
  <2>1. HasResult(Learn!Last, "known")
    BY <1>1, <1>2, EffectLeaves DEF Result
  <2> QED BY <1>1, <1>2, <2>1, JournalTyped
      DEF EnvInv, Learn!TypeOK, Learn!ReplayAgrees, ActingIsOpen, ResetIsLast, FlyingIsOpen,
          ChangedIsUnresolved, HasResult, Journals, Learn!Last, Learn!After
<1>3. CASE /\ content' \in {"found", "halfway", "changed"} /\ UNCHANGED flying
           /\ Learn!PersistsTwo(Learn!Gets(env, Learn!Last, "known"),
                                Learn!Effect(Learn!Last, "known"), Learn!Other)
           /\ Learn!Goes(IF jobPc \in {"exitReset", "resumeReset"} THEN "closing" ELSE "ending")
  <2>1. HasResult(Learn!Last, "known")
    BY <1>1, <1>3, ResetEffectLeaves
  <2>2. jobPc' \in {"closing", "ending"} /\ reset' = "none"
    BY <1>3 DEF Learn!Goes
  <2> QED BY <1>1, <1>3, <2>1, <2>2, JournalTyped
      DEF EnvInv, Learn!TypeOK, Learn!ReplayAgrees, ActingIsOpen, ResetIsLast, FlyingIsOpen,
          ChangedIsUnresolved, HasResult, Journals, Learn!Last, Learn!After
<1> QED BY <1>2, <1>3 DEF Learn!ResetReturns

LEMMA ResetMarksKeeps ==
  ASSUME EnvInv, UNCHANGED harness, Learn!ResetMarks
  PROVE  EnvInv'
<1> DEFINE e == [Learn!Resolves(env) EXCEPT !.checkpoint = "none"]
           done == IF Learn!Clean(e) THEN [e EXCEPT !.stage = "probe"] ELSE e
<1>1. /\ reset = "marking" /\ UNCHANGED <<content, flying, intent, wanted, late>>
      /\ Learn!PersistsTwo(done, [kind |-> "fixture_reset"], Learn!Other)
      /\ Learn!Goes(IF Learn!Clean(e) THEN Learn!After[jobPc]
              ELSE IF jobPc \in {"exitReset", "resumeReset"} THEN "closing" ELSE "ending")
  BY DEF Learn!ResetMarks, Learn!Device
<1>2. jobPc \in DOMAIN Learn!After /\ content = "found" /\ flying = {}
  BY <1>1 DEF EnvInv, Learn!TypeOK, ResetIsLast
<1>3. /\ jobPc' \in {"probe", "fresh", "host", "proposed", "closing", "resumed", "ending"}
      /\ reset' = "none"
  BY <1>1, <1>2 DEF Learn!Goes, Learn!After
<1>4. /\ Learn!Resolves(env) \in Learn!Environment /\ Learn!Resolves(env).plan = env.plan
  BY JournalTyped, WhatIsResolved
<1>5. /\ e \in Learn!Environment /\ e.plan = env.plan
      /\ e.effects = Learn!Resolves(env).effects
      /\ e.checkpoint = "none"
  BY <1>4 DEF Learn!Environment
<1> HIDE DEF e
<1>6. /\ done \in Learn!Environment /\ done.plan = env.plan
      /\ done.effects = Learn!Resolves(env).effects
      /\ done.checkpoint = "none"
  BY <1>5, StageIsTyped
<1> HIDE DEF done
<1>7. AllResolved
  BY <1>1, <1>6, ResetLeaves
<1> QED BY <1>1, <1>2, <1>3, <1>7, JournalTyped
    DEF EnvInv, Learn!TypeOK, Learn!ReplayAgrees, ActingIsOpen, ResetIsLast, FlyingIsOpen,
        ChangedIsUnresolved, AllResolved, Journals, Learn!Last, Learn!After

LEMMA ResetFailsKeeps ==
  ASSUME EnvInv, UNCHANGED harness, Learn!ResetFails
  PROVE  EnvInv'
<1>1. /\ reset = "running" /\ content' \in {"found", "halfway", "changed"}
      /\ jobPc \in DOMAIN Learn!After
      /\ UNCHANGED <<flying, intent, wanted, late>> /\ reset' = "none"
      /\ jobPc' \in {"closing", "ending"}
  BY DEF Learn!ResetFails, Learn!Goes, EnvInv, Learn!TypeOK
<1>2. PICK ended \in {"open", "interrupted"} :
        Learn!Persists([env EXCEPT !.status = ended], Learn!Other)
  BY DEF Learn!ResetFails
<1> DEFINE e == [env EXCEPT !.status = ended]
<1>3. Learn!Persists(e, Learn!Other)
  BY <1>2
<1>4. /\ e \in Learn!Environment /\ e.plan = env.plan /\ e.effects = env.effects
      /\ e.checkpoint = env.checkpoint
  BY JournalTyped, StatusIsTyped
<1> HIDE DEF e
<1>5. SameEffects
  BY <1>3, <1>4, OtherLeaves
<1> QED BY <1>1, <1>5, JournalTyped
    DEF EnvInv, Learn!TypeOK, Learn!ReplayAgrees, ActingIsOpen, ResetIsLast, FlyingIsOpen,
        ChangedIsUnresolved, SameEffects, Journals, Learn!Last, Learn!After

LEMMA CancelledKeeps ==
  ASSUME EnvInv, UNCHANGED harness, Learn!Cancelled
  PROVE  EnvInv'
<1> DEFINE e == [env EXCEPT !.status = "interrupted"]
<1>1. /\ Learn!Persists(e, Learn!Other) /\ jobPc' = "closing" /\ reset' = "none"
      /\ UNCHANGED <<intent, wanted, late>>
  BY DEF Learn!Cancelled, Learn!Goes
<1>2. /\ e \in Learn!Environment /\ e.plan = env.plan /\ e.effects = env.effects
      /\ e.checkpoint = env.checkpoint
  BY JournalTyped, StatusIsTyped
<1> HIDE DEF e
<1>3. SameEffects
  BY <1>1, <1>2, OtherLeaves
<1>4. CASE jobPc = "acting"
  <2>1. flying' \in Learn!MayFly("sent") /\ UNCHANGED content
    BY <1>4 DEF Learn!Cancelled
  <2>3. flying' \subseteq {"sent", "failed"}
    BY <2>1 DEF Learn!MayFly, EnvInv, Learn!TypeOK
  <2> QED BY <1>1, <1>3, <1>4, <2>1, <2>3, JournalTyped
      DEF EnvInv, Learn!TypeOK, Learn!ReplayAgrees, ActingIsOpen, ResetIsLast, FlyingIsOpen,
          ChangedIsUnresolved, SameEffects, Journals, Learn!Last, Learn!After
<1>5. CASE jobPc # "acting"
  <2>1. /\ content' \in {content, IF reset = "running" THEN "changed" ELSE content}
        /\ UNCHANGED flying
    BY <1>5 DEF Learn!Cancelled
  <2> QED BY <1>1, <1>3, <1>5, <2>1, JournalTyped
      DEF EnvInv, Learn!TypeOK, Learn!ReplayAgrees, ActingIsOpen, ResetIsLast, FlyingIsOpen,
          ChangedIsUnresolved, SameEffects, Journals, Learn!Last, Learn!After
<1> QED BY <1>4, <1>5

LEMMA CloseKeeps ==
  ASSUME EnvInv, UNCHANGED harness, Learn!Close
  PROVE  EnvInv'
<1> DEFINE ended == IF env.status \in {"closed", "interrupted"} THEN env.status
                     ELSE IF Learn!Unresolved(env) THEN "unresolved" ELSE "closed"
           e == [env EXCEPT !.status = ended]
<1>1. ended \in {"open", "interrupted", "unresolved", "closed"}
  OBVIOUS
<1>2. /\ Learn!Persists(e, Learn!Other) /\ jobPc' = "over" /\ reset' = "none"
      /\ UNCHANGED <<content, flying, intent, wanted, late>>
      /\ jobPc \in {"closing", "resumed", "exitReset"}
  BY DEF Learn!Close, Learn!Goes, Learn!Device
<1> HIDE DEF ended
<1>3. /\ e \in Learn!Environment /\ e.plan = env.plan /\ e.effects = env.effects
      /\ e.checkpoint = env.checkpoint
  BY <1>1, JournalTyped, StatusIsTyped
<1> HIDE DEF e
<1>4. SameEffects
  BY <1>2, <1>3, OtherLeaves
<1> QED BY <1>2, <1>4, JournalTyped
    DEF EnvInv, Learn!TypeOK, Learn!ReplayAgrees, ActingIsOpen, ResetIsLast, FlyingIsOpen,
        ChangedIsUnresolved, SameEffects, Journals, Learn!Last, Learn!After

LEMMA ResumeKeeps ==
  ASSUME EnvInv, UNCHANGED harness, Learn!Resume
  PROVE  EnvInv'
<1>1. /\ jobPc' = "resumed" /\ reset' = "none" /\ intent' = 0 /\ saved' = env'
      /\ UNCHANGED <<content, flying, wanted, late>> /\ jobPc \in {"crashed", "over"}
  BY DEF Learn!Resume, Learn!Goes, Learn!Device
<1>2. env' \in Learn!Environment /\ env'.effects = env.effects
  <2>1. saved = env /\ env \in Learn!Environment
    BY JournalTyped
  <2>2. env' = IF env.status = "unresolved"
               THEN [env EXCEPT !.status = "open", !.stage = "cleanup"] ELSE env
    BY <2>1 DEF Learn!Resume
  <2>3. /\ [env EXCEPT !.status = "open", !.stage = "cleanup"] \in Learn!Environment
        /\ [env EXCEPT !.status = "open", !.stage = "cleanup"].effects = env.effects
    BY <2>1 DEF Learn!Environment
  <2> QED BY <2>1, <2>2, <2>3
<1>3. SameEffects
  BY <1>1, <1>2 DEF SameEffects, Journals
<1> QED BY <1>1, <1>3, JournalTyped
    DEF EnvInv, Learn!TypeOK, Learn!ReplayAgrees, ActingIsOpen, ResetIsLast, FlyingIsOpen,
        ChangedIsUnresolved, SameEffects, Journals, Learn!Last, Learn!After

LEMMA EnvNextKeeps ==
  ASSUME Learn!MaxEffectsIsNumber, EnvInv, [Learn!Next]_(Learn!vars) PROVE EnvInv'
<1>1. CASE UNCHANGED Learn!vars
  <2>1. UNCHANGED <<harness, env, saved, content, flying, intent, jobPc, wanted, reset, late>>
    BY <1>1 DEF Learn!vars
  <2> QED BY <2>1
      DEF EnvInv, Learn!TypeOK, Learn!ReplayAgrees, ActingIsOpen, ResetIsLast, FlyingIsOpen,
          ChangedIsUnresolved, Learn!Last
<1>2. CASE Learn!Next
  <2>1. UNCHANGED harness /\ Learn!JobActs
    BY <1>2 DEF Learn!Next
  <2> QED BY <2>1, QuietKeeps, ExploreKeeps, ConfigureKeeps, ActKeeps, ActedKeeps, ReportKeeps,
          ToolKeeps, VerifyKeeps, ResetBeginsKeeps, ResetReturnsKeeps, ResetMarksKeeps,
          ResetFailsKeeps, CancelledKeeps, CloseKeeps, ResumeKeeps DEF Learn!JobActs
<1> QED BY <1>1, <1>2

LEMMA EnvHolds == ASSUME Learn!MaxEffectsIsNumber PROVE Learn!Spec => []EnvInv
<1>1. Learn!Init => EnvInv
  BY EnvInit
<1>2. EnvInv /\ [Learn!Next]_(Learn!vars) => EnvInv'
  BY EnvNextKeeps
<1> QED BY <1>1, <1>2, PTL DEF Learn!Spec

(* A journal that says clean is of a device without a change, and with nothing *)
(* that may still change it, whatever timed out, was cancelled or crashed: but *)
(* for dispatches that were reported failed (verified_clean).                  *)
THEOREM CleanDeviceIsRestored ==
  ASSUME Learn!MaxEffectsIsNumber PROVE Learn!Spec => []Learn!CleanIsRestored
<1>1. EnvInv => Learn!CleanIsRestored
  <2> SUFFICES ASSUME EnvInv, Learn!Clean(env) \/ Learn!Clean(saved)
               PROVE  content # "changed" /\ "sent" \notin flying
    BY DEF Learn!CleanIsRestored
  <2>1. Learn!Clean(env)
    BY JournalTyped
  <2>2. \A i \in 1..Learn!Last : env.effects[i].state = "verified"
    BY <2>1, JournalTyped DEF Learn!Clean, Learn!Unresolved
  <2>3. "sent" \notin flying
    BY <2>2 DEF EnvInv, FlyingIsOpen
  <2>4. content # "changed"
    BY <2>2 DEF EnvInv, ChangedIsUnresolved
  <2> QED BY <2>3, <2>4
<1> QED BY <1>1, EnvHolds, PTL

(* What resume rebuilds from the events is what the process that wrote them    *)
(* had, effect by effect (ResearchEnvironment.resume).                         *)
THEOREM ReplayIsExact ==
  ASSUME Learn!MaxEffectsIsNumber PROVE Learn!Spec => []Learn!ReplayAgrees
<1>1. EnvInv => Learn!ReplayAgrees
  BY DEF EnvInv
<1> QED BY <1>1, EnvHolds, PTL

(* A behaviour of the host is, of the job, one of ResearchEnvironment.         *)
LEMMA HostIsResearch == HostSpec => Learn!Spec
<1>1. HostInit => Learn!Init
  BY DEF HostInit
<1>2. [HostNext]_hostVars => [Learn!Next]_(Learn!vars)
  BY DEF HostNext, hostVars, jobVars, Learn!vars
<1> QED BY <1>1, <1>2, PTL DEF HostSpec, Learn!Spec

(* Whatever else the host does, a clean environment is a restored device, but   *)
(* for what failed dispatches did.                                             *)
THEOREM HostCleanIsRestored ==
  ASSUME Learn!MaxEffectsIsNumber PROVE HostSpec => []CleanIsRestored
<1>1. Learn!CleanIsRestored => CleanIsRestored
  BY DEF CleanIsRestored
<1> QED BY <1>1, HostIsResearch, CleanDeviceIsRestored, PTL

(* Whatever else the host does, its journal is rebuilt as it was.              *)
THEOREM HostReplayAgrees ==
  ASSUME Learn!MaxEffectsIsNumber PROVE HostSpec => []ReplayAgrees
<1>1. Learn!ReplayAgrees => ReplayAgrees
  BY DEF ReplayAgrees
<1> QED BY <1>1, HostIsResearch, ReplayIsExact, PTL
=============================================================================
