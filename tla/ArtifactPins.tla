----------------------------- MODULE ArtifactPins -----------------------------
(***************************************************************************)
(* How a stored file outlives its retention (shared/artifacts.py, with the   *)
(* commits of shared/db.py and the reachability scan of                     *)
(* shared/recovery_store.py).  A file is named by its content, so two        *)
(* publications of one body share it.  A publication pins the file until a   *)
(* commit names it, in whatever place; from then on the database keeps it,   *)
(* if the place is one that the scan reads.  A prune deletes what neither     *)
(* the scan finds nor a pin of any process keeps.                           *)
(*                                                                         *)
(* A process is one run of a program: it starts once and may crash at any     *)
(* step.  The publication lock is a file lock, which a crash gives back; the  *)
(* database is committed to without it.                                     *)
(***************************************************************************)
EXTENDS Integers, FiniteSets

CONSTANTS Process, Ref,
          Slot,      \* places of the database that name a reference
          Kept,      \* those protected_refs reads: the manifest and the state of a task,
                     \* its operations, and agent records of five kinds.  A trace and a
                     \* record of another kind are places that it does not read
          Again,     \* a commit may name what is published or committed for another
          MaxPins    \* bound: publications of one reference a process has pinned

KeptAreSlots == Kept \subseteq Slot
AgainIsBoolean == Again \in BOOLEAN
MaxPinsIsNumber == MaxPins \in Nat \ {0}

VARIABLES
  files,    \* the references whose file exists
  named,    \* what each slot of the database names: a set of at most one
  lock,     \* who has the publication lock: a set of at most one
  phase,    \* of a process: "new", "up", "dead"
  pending,  \* _pending_refs, in the memory of a process
  pinned,   \* its pin file; none is {}
  work,     \* published by a process for a slot, and not committed yet
  pc, reg   \* what a process does, and the references it does it with

disk == <<files, named>>
vars == <<disk, lock, phase, pending, pinned, work, pc, reg>>

NoPins == [r \in Ref |-> 0]
NoWork == [s \in Slot |-> {}]

Init ==
  /\ files = {} /\ named = NoWork /\ lock = {}
  /\ phase = [p \in Process |-> "new"]
  /\ pending = [p \in Process |-> NoPins] /\ pinned = [p \in Process |-> {}]
  /\ work = [p \in Process |-> NoWork]
  /\ pc = [p \in Process |-> "idle"] /\ reg = [p \in Process |-> {}]

Does(p, here) == phase[p] = "up" /\ pc[p] = here
Turn(p, to, refs) == pc' = [pc EXCEPT ![p] = to] /\ reg' = [reg EXCEPT ![p] = refs]

(* _write_pins writes what the memory holds. *)
Pins(p, counts) ==
  /\ pending' = [pending EXCEPT ![p] = counts]
  /\ pinned' = [pinned EXCEPT ![p] = {r \in Ref : counts[r] > 0}]

Start(p) ==
  /\ phase[p] = "new" /\ phase' = [phase EXCEPT ![p] = "up"]
  /\ UNCHANGED <<disk, lock, pending, pinned, work, pc, reg>>

Crash(p) ==
  /\ phase[p] = "up" /\ phase' = [phase EXCEPT ![p] = "dead"]
  /\ lock' = lock \ {p}
  /\ pending' = [pending EXCEPT ![p] = NoPins] /\ work' = [work EXCEPT ![p] = NoWork]
  /\ Turn(p, "idle", {})
  /\ UNCHANGED <<disk, pinned>>

(* The pins of processes that are gone are deleted. *)
Reconcile(p) ==
  /\ Does(p, "idle") /\ lock = {}
  /\ pinned' = [q \in Process |-> IF phase[q] = "dead" THEN {} ELSE pinned[q]]
  /\ UNCHANGED <<disk, lock, phase, pending, work, pc, reg>>

-----------------------------------------------------------------------------
(* _publish: the pin is on disk before the file is, and stays if the file     *)
(* cannot be written; a file that is there is used as it is.                 *)
PublishBegins(p, r) ==
  /\ Does(p, "idle") /\ lock = {} /\ pending[p][r] < MaxPins
  /\ \E s \in Slot : work[p][s] = {}
  /\ lock' = {p}
  /\ Pins(p, [pending[p] EXCEPT ![r] = @ + 1])
  /\ Turn(p, "publishing", {r})
  /\ UNCHANGED <<disk, phase, work>>

PublishEnds(p, s) ==
  /\ Does(p, "publishing") /\ work[p][s] = {}
  /\ files' = files \union reg[p] /\ lock' = {}
  /\ work' = [work EXCEPT ![p][s] = reg[p]]
  /\ Turn(p, "idle", {})
  /\ UNCHANGED <<named, phase, pending, pinned>>

PublishFails(p) ==
  /\ Does(p, "publishing") /\ lock' = {}
  /\ Turn(p, "idle", {})
  /\ UNCHANGED <<disk, phase, pending, pinned, work>>

-----------------------------------------------------------------------------
(* A commit: what it names is released after it, also where it names it in a  *)
(* place that no prune reads.  A rollback releases nothing.                   *)
Commit(p, s) ==
  /\ Does(p, "idle") /\ work[p][s] # {}
  /\ named' = [named EXCEPT ![s] = work[p][s]]
  /\ work' = [work EXCEPT ![p][s] = {}]
  /\ Turn(p, "releasing", work[p][s])
  /\ UNCHANGED <<files, lock, phase, pending, pinned>>

Rollback(p, s) ==
  /\ Does(p, "idle") /\ work[p][s] # {}
  /\ work' = [work EXCEPT ![p][s] = {}]
  /\ UNCHANGED <<disk, lock, phase, pending, pinned, pc, reg>>

(* A slot is given another value that names nothing. *)
Forget(p, s) ==
  /\ Does(p, "idle") /\ named[s] # {}
  /\ named' = [named EXCEPT ![s] = {}]
  /\ UNCHANGED <<files, lock, phase, pending, pinned, work, pc, reg>>

(* A trace event or a record that names what the database names already, or    *)
(* what was published for a commit that has not come.                        *)
NameAgain(p, s) ==
  /\ Again /\ Does(p, "idle")
  /\ \E refs \in {named[s], work[p][s]} \ {{}} : Turn(p, "releasing", refs)
  /\ UNCHANGED <<disk, lock, phase, pending, pinned, work>>

(* Mutant: the pins are released beside a prune. *)
ReleaseUnlocked(p) ==
  /\ Does(p, "releasing")
  /\ Pins(p, [r \in Ref |-> IF r \in reg[p] /\ pending[p][r] > 0 THEN pending[p][r] - 1
                            ELSE pending[p][r]])
  /\ Turn(p, "idle", {})
  /\ UNCHANGED <<disk, lock, phase, work>>

(* release_pins, or the lock is not had in time and the pins stay. *)
Release(p) ==
  /\ Does(p, "releasing") /\ lock = {}
  /\ Pins(p, [r \in Ref |-> IF r \in reg[p] /\ pending[p][r] > 0 THEN pending[p][r] - 1
                            ELSE pending[p][r]])
  /\ Turn(p, "idle", {})
  /\ UNCHANGED <<disk, lock, phase, work>>

ReleaseFails(p) ==
  /\ Does(p, "releasing") /\ lock # {}
  /\ Turn(p, "idle", {})
  /\ UNCHANGED <<disk, lock, phase, pending, pinned, work>>

-----------------------------------------------------------------------------
(* prune: what protected_refs reads of the database comes first, then the pins *)
(* of everybody.                                                             *)
PruneBegins(p) ==
  /\ Does(p, "idle") /\ lock = {} /\ lock' = {p}
  /\ Turn(p, "pruning", UNION {named[s] : s \in Kept})
  /\ UNCHANGED <<disk, phase, pending, pinned, work>>

Protected(p) == reg[p] \union {r \in Ref : pending[p][r] > 0} \union UNION {pinned[q] : q \in Process}

PruneEnds(p) ==
  /\ Does(p, "pruning") /\ lock' = {}
  /\ \E targets \in SUBSET (files \ Protected(p)) : files' = files \ targets
  /\ Turn(p, "idle", {})
  /\ UNCHANGED <<named, phase, pending, pinned, work>>

Next ==
  \E p \in Process :
    \/ Start(p) \/ Crash(p) \/ Reconcile(p) \/ PublishFails(p) \/ Release(p) \/ ReleaseFails(p)
    \/ PruneBegins(p) \/ PruneEnds(p)
    \/ \E r \in Ref : PublishBegins(p, r)
    \/ \E s \in Slot :
         \/ PublishEnds(p, s) \/ Commit(p, s) \/ Rollback(p, s)
         \/ Forget(p, s) \/ NameAgain(p, s)

Spec == Init /\ [][Next]_vars

-----------------------------------------------------------------------------
TypeOK ==
  /\ files \subseteq Ref /\ named \in [Slot -> SUBSET Ref]
  /\ \A p \in lock : phase[p] = "up" /\ lock = {p} /\ pc[p] \in {"publishing", "pruning"}
  /\ phase \in [Process -> {"new", "up", "dead"}]
  /\ pending \in [Process -> [Ref -> 0..MaxPins]]
  /\ pinned \in [Process -> SUBSET Ref] /\ work \in [Process -> [Slot -> SUBSET Ref]]
  /\ pc \in [Process -> {"idle", "publishing", "releasing", "pruning"}]
  /\ reg \in [Process -> SUBSET Ref]

(* A file the database names in a place that protected_refs reads exists,      *)
(* whoever published it, crashed since or deleted beside it, and whatever else *)
(* named it too.                                                             *)
NamedIsThere == \A s \in Kept : named[s] \subseteq files

(* A file the database names exists, in whatever place: "Committed refs remain *)
(* protected by the store callback."  A prune deletes the one of a trace.      *)
AllNamedAreThere == \A s \in Slot : named[s] \subseteq files

(* What a process has published and not committed yet exists until it does:  *)
(* the commit that comes names a file.                                       *)
PublishedIsThere == \A p \in Process, s \in Slot : work[p][s] \subseteq files

===============================================================================
