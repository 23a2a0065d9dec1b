---------------------------- MODULE SkillPublication ----------------------------
(***************************************************************************)
(* How the patches of one learning job come into the skill library            *)
(* (skills/candidate_group.py, skills/pending.py).  The job freezes the        *)
(* library, its group of patches is reviewed and staged with a receipt, and    *)
(* the user approves or rejects them, one or several at a time.  Meanwhile the *)
(* user edits the library and approves patches that belong to no group.        *)
(*                                                                         *)
(* A request runs alone in the backend; it may fail or crash between any two   *)
(* of its writes.                                                            *)
(***************************************************************************)
EXTENDS Integers

CONSTANTS Target,    \* files of the library that the group patches
          Depends,   \* CandidateGroup.dependencies
          MaxEdit    \* bound: changes that are not of the group

(* check_dependencies refuses a cycle. *)
DependsIsAcyclic ==
  /\ Depends \in [Target -> SUBSET Target]
  /\ \A some \in SUBSET Target \ {{}} : \E t \in some : Depends[t] \cap some = {}
MaxEditIsNumber == MaxEdit \in Nat

VARIABLES
  library,   \* the text of each file: 0 as it was, n of the n-th edit, or Patch
  frozen,    \* the texts the job has frozen: a set of at most one
  status,    \* of the item of each target
  accepted,  \* the targets admitted by the receipt
  asked, written,   \* of the request under way: its targets, {} without one
  marking,   \* its files are written
  originals, \* what it puts back
  edits

vars == <<library, frozen, status, accepted, asked, written, marking, originals, edits>>
request == <<asked, written, marking, originals>>

Patch == -1
Text == {Patch} \cup 0..MaxEdit

Init ==
  /\ library = [t \in Target |-> 0] /\ frozen = {}
  /\ status = [t \in Target |-> "none"] /\ accepted = {}
  /\ asked = {} /\ written = {} /\ marking = FALSE /\ originals = library /\ edits = 0

Free == asked = {}

-----------------------------------------------------------------------------
(* LibrarySnapshot.freeze *)
Freeze ==
  /\ frozen = {} /\ frozen' = {library}
  /\ UNCHANGED <<library, status, accepted, request, edits>>

(* dependency_admission: what the review supports, as far as it can stand     *)
(* without the rest.                                                         *)
ClosedUnder(some) == \A t \in some : Depends[t] \subseteq some
Admitted(supported) == UNION {some \in SUBSET supported : ClosedUnder(some)}

(* run_candidate_group stages every patch, with one receipt. *)
Stage ==
  /\ frozen # {} /\ \A t \in Target : status[t] = "none"
  /\ \E supported \in SUBSET Target : accepted' = Admitted(supported)
  /\ status' = [t \in Target |-> "pending"]
  /\ UNCHANGED <<library, frozen, request, edits>>

(* The console saves a file; approve_pending of an item of no group, which    *)
(* checks nothing of the file it replaces.                                   *)
Edit ==
  /\ Free /\ edits < MaxEdit /\ edits' = edits + 1
  /\ \E t \in Target, text \in {0, edits'} : library' = [library EXCEPT ![t] = text]
  /\ UNCHANGED <<frozen, status, accepted, request>>

-----------------------------------------------------------------------------
(* approve_pending_group.  Everything is checked before the first write: the   *)
(* library is the frozen one with the siblings that were approved, and the     *)
(* dependencies come along or are there.                                      *)
Approved == {t \in Target : status[t] = "approved"}

Expected(manifest) == [t \in Target |-> IF t \in Approved THEN Patch ELSE manifest[t]]

(* Mutant: a dependency only has to be admitted. *)
ApproveAdmitted(some) ==
  /\ Free /\ some # {} /\ \A t \in some : status[t] = "pending"
  /\ some \subseteq accepted
  /\ \E manifest \in frozen :
       library = Expected(manifest) /\ \A t \in some : library[t] = manifest[t]
  /\ \A t \in some : Depends[t] \subseteq accepted
  /\ asked' = some /\ written' = {} /\ marking' = FALSE /\ originals' = library
  /\ UNCHANGED <<library, frozen, status, accepted, edits>>

Approve(some) ==
  /\ Free /\ some # {} /\ \A t \in some : status[t] = "pending"
  /\ some \subseteq accepted
  /\ \E manifest \in frozen :
       library = Expected(manifest) /\ \A t \in some : library[t] = manifest[t]
  /\ \A t \in some : Depends[t] \subseteq some \cup Approved
  /\ asked' = some /\ written' = {} /\ marking' = FALSE /\ originals' = library
  /\ UNCHANGED <<library, frozen, status, accepted, edits>>

WriteFile(t) ==
  /\ t \in asked \ written /\ ~marking
  /\ library' = [library EXCEPT ![t] = Patch] /\ written' = written \cup {t}
  /\ marking' = (written' = asked)
  /\ UNCHANGED <<frozen, status, accepted, asked, originals, edits>>

(* OSError: what was there is put back. *)
WriteFails ==
  /\ ~Free /\ ~marking
  /\ library' = [t \in Target |-> IF t \in asked THEN originals[t] ELSE library[t]]
  /\ asked' = {} /\ written' = {}
  /\ UNCHANGED <<frozen, status, accepted, marking, originals, edits>>

MarkApproved(t) ==
  /\ marking /\ t \in asked /\ status' = [status EXCEPT ![t] = "approved"]
  /\ asked' = asked \ {t} /\ written' = asked' /\ marking' = (asked' # {})
  /\ UNCHANGED <<library, frozen, accepted, originals, edits>>

Crash ==
  /\ ~Free /\ asked' = {} /\ written' = {} /\ marking' = FALSE
  /\ UNCHANGED <<library, frozen, status, accepted, originals, edits>>

(* reject_pending asks for no status. *)
Reject(t) ==
  /\ Free /\ status[t] # "none" /\ status' = [status EXCEPT ![t] = "rejected"]
  /\ UNCHANGED <<library, frozen, accepted, request, edits>>

Next ==
  \/ Freeze \/ Stage \/ Edit \/ WriteFails \/ Crash
  \/ \E some \in SUBSET Target : Approve(some)
  \/ \E t \in Target : WriteFile(t) \/ MarkApproved(t) \/ Reject(t)

Spec == Init /\ [][Next]_vars

-----------------------------------------------------------------------------
TypeOK ==
  /\ {library, originals} \cup frozen \subseteq [Target -> Text]
  /\ \A manifest, other \in frozen : manifest = other
  /\ status \in [Target -> {"none", "pending", "approved", "rejected"}]
  /\ accepted \subseteq Target /\ asked \subseteq Target /\ written \subseteq asked
  /\ marking \in BOOLEAN /\ edits \in 0..MaxEdit

(* A patch becomes approved only in a library that has it, and has everything  *)
(* it depends on as it was reviewed, whatever was edited, approved, rejected   *)
(* or left half done since.                                                   *)
DependenciesInPlace ==
  [][\A t \in Target : (status[t] # "approved" /\ status'[t] = "approved")
                       => (\A d \in Depends[t] \cup {t} : library[d] = Patch)]_vars
===============================================================================
