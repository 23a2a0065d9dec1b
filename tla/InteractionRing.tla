---------------------------- MODULE InteractionRing ----------------------------
(***************************************************************************)
(* What the collector remembers of the interactions on the phone             *)
(* (InteractionEventRing.kt, CollectorService.kt), and what the host makes    *)
(* of it: an action takes a cursor, is dispatched, and reads what came        *)
(* after the cursor (driver/accessibility.py, agent/action_observation.py).  *)
(* The collector may be started again meanwhile; the channel of the host      *)
(* connects to the new one by itself.                                        *)
(***************************************************************************)
EXTENDS Integers, Sequences

CONSTANTS Restarts,   \* the collector may be started again
          MaxCount, MaxAge,   \* of the ring
          ReadLimit,  \* events of one read
          MaxEvents,  \* bound: events of one life of the collector
          MaxTime     \* bound: ticks

RestartsIsBoolean == Restarts \in BOOLEAN
LimitsAreNumbers == {MaxCount, MaxAge, ReadLimit, MaxEvents, MaxTime} \subseteq Nat \ {0}

VARIABLES
  now, life,   \* the clock; which life of the collector it is
  ring, sequence,   \* the events kept; currentSequence
  happened,    \* the events since the cursor, of every life
  pc, cursor,  \* of the action; the cursor is a set of at most one [life, seq]
  batch, ack   \* the read: a set of at most one; interaction_ack

phone == <<now, life, ring, sequence>>
host == <<pc, cursor, batch, ack>>
vars == <<phone, happened, host>>

Init ==
  /\ now = 0 /\ life = 1 /\ ring = <<>> /\ sequence = 0 /\ happened = {}
  /\ pc = "idle" /\ cursor = {} /\ batch = {} /\ ack = "none"

Young(e) == now - e.at <= MaxAge

(* How many are too old before the first that is not. *)
Aged(events) ==
  CHOOSE n \in 0..Len(events) : /\ \A i \in 1..n : ~Young(events[i])
                                /\ n < Len(events) => Young(events[n + 1])

(* evictLocked: the oldest go while there are too many, and while the first   *)
(* is too old.                                                               *)
Evicted(events) ==
  LET few == SubSeq(events, IF Len(events) > MaxCount THEN Len(events) - MaxCount + 1 ELSE 1,
                    Len(events))
  IN SubSeq(few, Aged(few) + 1, Len(few))

(* onAccessibilityEvent; a hit is one that matches the target of the action. *)
Record(hit) ==
  /\ sequence < MaxEvents
  /\ LET event == [life |-> life, seq |-> sequence + 1, at |-> now, hit |-> hit]
     IN /\ sequence' = sequence + 1
        /\ ring' = Evicted(Append(ring, event))
        /\ happened' = IF pc = "idle" THEN happened ELSE happened \union {event}
  /\ UNCHANGED <<now, life, host>>

Tick == now < MaxTime /\ now' = now + 1 /\ UNCHANGED <<life, ring, sequence, happened, host>>

Restart ==
  /\ Restarts /\ life = 1 /\ life' = 2
  /\ ring' = <<>> /\ sequence' = 0
  /\ UNCHANGED <<now, happened, host>>

-----------------------------------------------------------------------------
(* The cursor is taken before the dispatch, or cannot be had. *)
TakeCursor ==
  /\ pc = "idle" /\ pc' = "cursor"
  /\ cursor' \in {{}, {[life |-> life, seq |-> sequence]}}
  /\ happened' = {} /\ batch' = {} /\ ack' = "none"
  /\ UNCHANGED phone

(* An action that fails is not looked for. *)
Dispatch ==
  /\ pc = "cursor"
  /\ \/ pc' = "dispatched" /\ UNCHANGED ack
     \/ pc' = "idle" /\ ack' = "unavailable"
  /\ UNCHANGED <<phone, happened, cursor, batch>>

(* readAfter: the numbers ascend, so what is filtered out is in front. *)
Seen(events, after) ==
  CHOOSE n \in 0..Len(events) : /\ \A i \in 1..n : events[i].seq <= after
                                /\ n < Len(events) => events[n + 1].seq > after

Rows(events, after) ==
  LET seen == Seen(events, after)
  IN SubSeq(events, seen + 1,
            IF Len(events) - seen > ReadLimit THEN seen + ReadLimit ELSE Len(events))

Oldest(events) == IF events = <<>> THEN sequence + 1 ELSE events[1].seq

(* Mutant: one missing event is overlooked. *)
ReadAfterLoose(events, after) ==
  [rows |-> Rows(events, after), complete |-> after >= Oldest(events) - 2]

ReadAfter(events, after) ==
  [rows |-> Rows(events, after), complete |-> after >= Oldest(events) - 1]

(* interaction_ack_for_batch *)
Acknowledged(b) ==
  IF ~b.complete THEN "unavailable"
  ELSE IF \E i \in 1..Len(b.rows) : b.rows[i].hit THEN "confirmed" ELSE "unobserved"

Read ==
  /\ pc = "dispatched" /\ pc' = "idle"
  /\ \/ /\ ring' = Evicted(ring)
        /\ \E c \in cursor : LET read == ReadAfter(ring', c.seq)
                             IN batch' = {read} /\ ack' = Acknowledged(read)
     \/ ack' = "unavailable" /\ UNCHANGED <<ring, batch>>
  /\ UNCHANGED <<now, life, sequence, happened, cursor>>

Next ==
  \/ \E hit \in BOOLEAN : Record(hit)
  \/ Tick \/ Restart \/ TakeCursor \/ Dispatch \/ Read

Spec == Init /\ [][Next]_vars

-----------------------------------------------------------------------------
Event == [life : {1, 2}, seq : 1..MaxEvents, at : 0..MaxTime, hit : BOOLEAN]

TypeOK ==
  /\ now \in 0..MaxTime /\ life \in {1, 2} /\ sequence \in 0..MaxEvents
  /\ Len(ring) <= MaxCount
  /\ \A i \in 1..Len(ring) : ring[i] \in Event /\ ring[i].seq = sequence - Len(ring) + i
  /\ happened \subseteq Event
  /\ pc \in {"idle", "cursor", "dispatched"} /\ \A c, d \in cursor : c = d
  /\ \A b, d \in batch : b = d
  /\ ack \in {"none", "confirmed", "unobserved", "unavailable"}

(* What is known to have happened when the batch was read. *)
After(c) == {e \in happened : e.life = c.life /\ e.seq > c.seq}

JustRead == pc = "idle" /\ batch # {}

(* A read that says it is complete, and is not cut off, has every event since *)
(* the cursor, though the ring dropped older ones and was empty in between.   *)
CompleteMissesNone ==
  JustRead => \A b \in batch, c \in cursor :
    b.complete /\ Len(b.rows) < ReadLimit /\ life = c.life
      => \A e \in After(c) : e.seq <= sequence =>
           (\E i \in 1..Len(b.rows) : b.rows[i] = e)

(* docs/interaction-grounding.md: "unobserved" says that the coverage was     *)
(* complete and has no match.                                               *)
UnobservedMeansNone == JustRead /\ ack = "unobserved" => \A e \in happened : ~e.hit
===============================================================================
