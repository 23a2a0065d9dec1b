-------------------------------- MODULE ToolLoop --------------------------------
(***************************************************************************)
(* One invocation of a role (AgentSession.run in agent/session.py): rounds of *)
(* a request to the model and of the tool calls it answers with, until a      *)
(* submission is accepted.  What a request carries is put together from the   *)
(* dialogue before the screen, the screen, and the dialogue after it; a tool  *)
(* that looks at the screen again replaces it.  A question to the user        *)
(* suspends the invocation: a later run continues it from what was saved, as  *)
(* often as it is interrupted before it ends.                               *)
(*                                                                         *)
(* The content of messages, the prefix and the final bucket are left out.     *)
(* context["evidence_saturated"] is never set in the repository, so           *)
(* submission begins by the number of the round alone.                       *)
(***************************************************************************)
EXTENDS Integers, Sequences, SequencesExt

CONSTANTS MaxRounds,   \* max_total_rounds
          MaxCalls     \* bound: calls of one answer

BoundsArePositive == {MaxRounds, MaxCalls} \subseteq Nat \ {0}

(* Whether the role may ask the user; reserve_terminal_round; and what only    *)
(* the executor has, retain_observations and allow_note_before_submit.        *)
Planners == [human : BOOLEAN, reserve : {TRUE}, executes : {FALSE}]
Executors == [human : BOOLEAN, reserve : {TRUE}, executes : {TRUE}]
Others == [human : {FALSE}, reserve : BOOLEAN, executes : {FALSE}]

VARIABLES
  role,                      \* what it may do, for the whole invocation
  pc, round,
  before, bucket, after,     \* the transcript around the screen, and the screen
  wire,                      \* the messages of the last request
  withImages,                \* it carried its images
  calls, answered,           \* the calls of the answer; how many have a reply
  appended, attached, next,  \* replies; messages to follow them; the new screen
  observed, degraded,        \* observe_screen_succeeded; content_safety_degraded
  imageless,                 \* context.state["content_safety_degraded"]
  broad,                     \* image_region_scope_rejections, 2 for more
  noteFailed, decision,      \* write_failed; the submission accepted
  ran,                       \* the calls of this answer that were carried out
  saved                      \* the checkpoint of the question, of an earlier run

transcript == <<before, bucket, after>>
reply == <<calls, answered, appended, attached, next, noteFailed, ran>>
flags == <<observed, degraded, imageless, broad>>
vars == <<role, pc, round, transcript, wire, withImages, reply, flags, decision, saved>>

(* "broad" is an inspection of more of the picture than is allowed. *)
Kind == {"read", "broad", "note", "observe", "submit"}
        \union (IF role.human THEN {"ask"} ELSE {})

Screen(n) == [kind |-> "screen", n |-> n]
Nudge == [kind |-> "nudge", n |-> 0]
Image == [kind |-> "image", n |-> 0]
Calls(n) == [kind |-> "calls", n |-> n]
Reply(n) == [kind |-> "reply", n |-> n]

None == [kind |-> "none"]

Init ==
  /\ role \in Planners \union Executors \union Others
  /\ pc = "request" /\ round = 1
  /\ before = <<>> /\ bucket = <<Screen(1)>> /\ after = <<>>
  /\ wire = <<>> /\ withImages = FALSE
  /\ calls = <<>> /\ answered = 0 /\ appended = <<>> /\ attached = <<>> /\ next = <<>>
  /\ observed = FALSE /\ degraded = FALSE /\ imageless = FALSE /\ broad = 0
  /\ noteFailed = FALSE
  /\ decision = None /\ ran = {} /\ saved = None

-----------------------------------------------------------------------------
Submitting == role.reserve /\ round >= (IF MaxRounds < 3 THEN MaxRounds ELSE MaxRounds - 1)

(* A request that the provider refuses for its images is made once more        *)
(* without them, and so are all that follow.                                  *)
Request ==
  /\ pc = "request" /\ wire' = before \o bucket \o after
  /\ degraded' \in {degraded, TRUE} /\ withImages' = ~degraded'
  /\ pc' = "answer"
  /\ imageless' = (imageless \/ degraded' # degraded)
  /\ UNCHANGED <<round, transcript, reply, observed, broad, decision, saved>>

(* Mutant: one round too many. *)
NextRoundLate ==
  IF round <= MaxRounds THEN pc' = "request" /\ round' = round + 1
                       ELSE pc' = "failed" /\ UNCHANGED round

NextRound ==
  IF round < MaxRounds THEN pc' = "request" /\ round' = round + 1
                       ELSE pc' = "failed" /\ UNCHANGED round

AnswersWithText ==
  /\ pc = "answer" /\ NextRound
  /\ after' = IF round < MaxRounds THEN after \o <<Nudge, Nudge>> ELSE after
  /\ UNCHANGED <<before, bucket, wire, withImages, reply, flags, decision, saved>>

AnswersWithCalls ==
  /\ pc = "answer" /\ pc' = "tools"
  /\ \E n \in 1..MaxCalls : calls' \in [1..n -> Kind]
  /\ answered' = 0 /\ appended' = <<Calls(Len(calls'))>> /\ attached' = <<>> /\ next' = <<>>
  /\ noteFailed' = FALSE /\ ran' = {}
  /\ broad' = IF Contains(calls', "broad") /\ broad < 2 THEN broad + 1 ELSE broad
  /\ UNCHANGED <<round, transcript, wire, withImages, observed, degraded, imageless, decision,
                 saved>>

RequestFails ==
  /\ pc = "request" /\ pc' = "failed"
  /\ UNCHANGED <<round, transcript, wire, withImages, reply, flags, decision, saved>>

-----------------------------------------------------------------------------
(* _execute_tool_calls *)
Call == calls[answered + 1]
Alone == Len(calls) = 1
NotesThenSubmit ==
  role.executes /\ Last(calls) = "submit" /\ \A i \in 1..Len(calls) - 1 : calls[i] = "note"

(* terminal_submission_only *)
OnlySubmission == Submitting \/ (broad = 2 /\ Contains(calls, "broad"))

Rejected ==
  \/ Call = "broad"
  \/ ~Alone /\ Contains(calls, "ask")
  \/ role.human /\ MaxRounds - round < 1 /\ Call # "submit"
  \/ OnlySubmission /\ Call \notin {"submit"} \union (IF round < MaxRounds THEN {"ask"} ELSE {})
  \/ Call = "submit" /\ NotesThenSubmit /\ noteFailed
  \/ Call = "submit" /\ ~Alone /\ ~NotesThenSubmit
  \/ Call = "observe" /\ observed

Replies ==
  /\ answered' = answered + 1 /\ appended' = Append(appended, Reply(answered'))
  /\ UNCHANGED <<pc, round, transcript, wire, withImages, calls, saved>>

Pending == pc = "tools" /\ answered < Len(calls)

Rejects ==
  /\ Pending /\ Rejected /\ Replies
  /\ noteFailed' = (noteFailed \/ Call = "note")
  /\ UNCHANGED <<attached, next, flags, decision, ran>>

Runs(c) == Pending /\ ~Rejected /\ Call = c /\ ran' = ran \union {c} /\ Replies

Fails ==
  /\ \E c \in Kind : Runs(c)
  /\ noteFailed' = (noteFailed \/ Call = "note")
  /\ UNCHANGED <<attached, next, flags, decision>>

Reads ==
  /\ Runs("read") /\ attached' \in {attached, Append(attached, Image)}
  /\ UNCHANGED <<next, flags, noteFailed, decision>>

WritesNote ==
  /\ Runs("note") /\ UNCHANGED <<attached, next, flags, noteFailed, decision>>

Observes ==
  /\ Runs("observe") /\ observed' = TRUE
  /\ next' = <<Screen(bucket[1].n + 1)>> /\ attached' = attached \o next'
  /\ UNCHANGED <<degraded, imageless, broad, noteFailed, decision>>

(* An action at a place of the picture needs the picture. *)
Submits ==
  /\ Runs("submit")
  /\ \E byImage \in IF imageless THEN {FALSE} ELSE BOOLEAN :
       decision' = [kind |-> "decision", byImage |-> byImage]
  /\ UNCHANGED <<attached, next, flags, noteFailed>>

(* The replies come first, then what is attached to them.  A new screen takes  *)
(* the place of the one before, and the dialogue so far goes before it.       *)
Finishes ==
  /\ pc = "tools" /\ answered = Len(calls)
  /\ LET added == appended \o attached IN
     IF next # <<>>
     THEN /\ before' = (IF role.executes THEN before \o bucket ELSE before) \o after
                       \o RemoveAt(added, CHOOSE i \in 1..Len(added) : added[i] = next[1])
          /\ bucket' = next /\ after' = <<>>
     ELSE after' = after \o added /\ UNCHANGED <<before, bucket>>
  /\ IF decision # None THEN pc' = "done" /\ UNCHANGED round ELSE NextRound
  /\ calls' = <<>> /\ answered' = 0 /\ appended' = <<>> /\ attached' = <<>> /\ next' = <<>>
  /\ noteFailed' = FALSE /\ ran' = {}
  /\ UNCHANGED <<wire, withImages, flags, decision, saved>>

-----------------------------------------------------------------------------
(* The question is put, with what is needed to go on after its answer. *)
Asks ==
  /\ Pending /\ ~Rejected /\ Call = "ask" /\ pc' = "suspended"
  /\ saved' = [kind |-> "saved", round |-> round, dialogue |-> wire \o appended,
               screen |-> bucket[1].n, observed |-> observed, degraded |-> degraded,
               imageless |-> imageless, broad |-> broad]
  /\ ran' = ran \union {"ask"}
  /\ UNCHANGED <<round, transcript, wire, withImages, calls, answered, appended, attached,
                 next, noteFailed, flags, decision>>

(* The process of a continued invocation ends before the invocation does. *)
Interrupted ==
  /\ saved # None /\ pc \in {"request", "answer", "tools"} /\ pc' = "suspended"
  /\ UNCHANGED <<round, transcript, wire, withImages, reply, flags, decision, saved>>

(* Mutant: the question stays without its reply. *)
ResumeUnanswered ==
  /\ pc = "suspended" /\ pc' = "request" /\ round' = saved.round + 1
  /\ before' = saved.dialogue
  /\ bucket' = <<Screen(saved.screen + 1)>> /\ after' = <<>>
  /\ observed' = saved.observed /\ degraded' = saved.degraded
  /\ imageless' = saved.imageless /\ broad' = saved.broad
  /\ calls' = <<>> /\ answered' = 0 /\ appended' = <<>> /\ attached' = <<>> /\ next' = <<>>
  /\ noteFailed' = FALSE /\ ran' = {} /\ decision' = None
  /\ UNCHANGED <<wire, withImages, saved>>

(* The answer is there: the run begins with a screen of its own.              *)
Resume ==
  /\ pc = "suspended" /\ pc' = "request" /\ round' = saved.round + 1
  /\ before' = Append(saved.dialogue, Reply(1))
  /\ bucket' = <<Screen(saved.screen + 1)>> /\ after' = <<>>
  /\ observed' = saved.observed /\ degraded' = saved.degraded
  /\ imageless' = saved.imageless /\ broad' = saved.broad
  /\ calls' = <<>> /\ answered' = 0 /\ appended' = <<>> /\ attached' = <<>> /\ next' = <<>>
  /\ noteFailed' = FALSE /\ ran' = {} /\ decision' = None
  /\ UNCHANGED <<wire, withImages, saved>>

Next ==
  /\ \/ Request \/ AnswersWithText \/ AnswersWithCalls \/ RequestFails
     \/ Rejects \/ Fails \/ Reads \/ WritesNote \/ Observes \/ Submits \/ Finishes
     \/ Asks \/ Interrupted \/ Resume
  /\ UNCHANGED role

Spec == Init /\ [][Next]_vars

(* The model answers, and tools come to an end. *)
Fairness == WF_vars(Next)
-----------------------------------------------------------------------------
Message == [kind : {"screen", "nudge", "image", "calls", "reply"}, n : 0..MaxRounds + MaxCalls]

TypeOK ==
  /\ role \in Planners \union Executors \union Others
  /\ pc \in {"request", "answer", "tools", "suspended", "done", "failed"}
  /\ round \in 1..MaxRounds /\ answered \in 0..MaxCalls
  /\ \A s \in {before, bucket, after, wire, appended, attached, next} :
       \A i \in 1..Len(s) : s[i] \in Message
  /\ Len(bucket) = 1 /\ bucket[1].kind = "screen" /\ Len(calls) <= MaxCalls
  /\ \A i \in 1..Len(calls) : calls[i] \in Kind
  /\ broad \in 0..2 /\ {withImages, observed, degraded, imageless, noteFailed} \subseteq BOOLEAN
  /\ ran \subseteq Kind
  /\ decision = None \/ decision.byImage \in BOOLEAN
  /\ saved = None \/ saved.round \in 1..MaxRounds - 1

(* session.py: "Every tool call needs its reply before any user/image message *)
(* can follow."  In a request the calls of an answer are followed by their    *)
(* replies at once, in their order, and no reply is without its call.         *)
IsAnswered(s, i) ==
  \A k \in 1..s[i].n : i + k <= Len(s) /\ s[i + k] = Reply(k)
IsReplyTo(s, i) ==
  \E k \in 1..i - 1 : s[k].kind = "calls" /\ i - k <= s[k].n

WireIsWellFormed ==
  \A i \in 1..Len(wire) :
    /\ wire[i].kind = "calls" => IsAnswered(wire, i)
    /\ wire[i].kind = "reply" => IsReplyTo(wire, i)

(* "Repeated broad image inspection rejected; evidence gathering is closed.     *)
(* Submit a terminal decision using current evidence".                       *)
ClosedStaysClosed == broad = 2 => ran \subseteq {"submit", "ask"}

===============================================================================
