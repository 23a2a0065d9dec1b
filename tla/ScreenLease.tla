------------------------------ MODULE ScreenLease ------------------------------
(***************************************************************************)
(* The lease that keeps the screen of a phone bright for a task: the session *)
(* of the host that begins, renews and ends it (CollectorPowerLeaseSession   *)
(* in driver/accessibility.py), and the controller on the phone that holds a *)
(* wake lock for it until it is released or runs out                         *)
(* (ScreenBrightLease.kt).                                                  *)
(*                                                                         *)
(* A request the host gave up on may still be on its way: it is lost, or      *)
(* comes to the controller before the next one, or, with Late, also after    *)
(* it.  The collector may be started again at any time.  Time is what is left *)
(* of each period; sessions are numbered in the order they begin.            *)
(***************************************************************************)
EXTENDS Integers, Sequences, FiniteSets

CONSTANTS Late,        \* a request of a closed connection may be overtaken
          TTL, Margin, \* of a lease; what its wake lock lasts longer by itself
          MaxSession, MaxWire   \* bounds: sessions, requests on their way

LateIsBoolean == Late \in BOOLEAN
PeriodsAreNumbers == {TTL, Margin, MaxSession, MaxWire} \subseteq Nat \ {0}

VARIABLES
  lease, left,   \* activeLeaseId, 0 without one; what is left of it
  mine, locks,   \* the wake lock of the lease, and those held: [lock, left]
  replaced,      \* the locks a renewal in its monitor has yet to release
  timers,        \* scheduled expirations: [id, left]
  wire,          \* requests on their way: [op, id, awaited]
  reply,         \* the reply the host has not read: a set of at most one
  session, pc,   \* of the host
  released       \* the last session has been told that its lease is released

phone == <<lease, left, mine, locks, replaced, timers>>
host == <<session, pc, released>>
vars == <<phone, wire, reply, host>>

Session == 1..MaxSession

Init ==
  /\ lease = 0 /\ left = 0 /\ mine = 0 /\ locks = {} /\ replaced = {} /\ timers = {}
  /\ wire = <<>> /\ reply = {}
  /\ session = 0 /\ pc = "idle" /\ released = TRUE

-----------------------------------------------------------------------------
Less(n) == IF n = 0 THEN 0 ELSE n - 1

(* The platform ends a wake lock by itself when its own time is over. *)
Tick ==
  /\ left > 0 \/ locks # {} \/ (\E t \in timers : t.left > 0)
  /\ left' = Less(left)
  /\ locks' = {[l EXCEPT !.left = Less(l.left)] : l \in {k \in locks : k.left > 1}}
  /\ timers' = {[t EXCEPT !.left = Less(t.left)] : t \in timers}
  /\ UNCHANGED <<lease, mine, replaced, wire, reply, host>>

(* cancel(false) cannot stop an expiration that runs already. *)
Cancelled(rest) == rest \subseteq timers /\ \A t \in rest : t.left = 0

Expire(t) ==
  /\ t \in timers /\ t.left = 0 /\ replaced = {}
  /\ IF lease = t.id /\ left = t.left
     THEN /\ lease' = 0 /\ left' = 0 /\ locks' = {}
          /\ timers' = timers \ {t}
     ELSE timers' = timers \ {t} /\ UNCHANGED <<lease, left, locks>>
  /\ UNCHANGED <<mine, replaced, wire, reply, host>>

(* A new process of the collector; the platform frees the locks of the old. *)
PhoneRestarts ==
  /\ lease' = 0 /\ left' = 0 /\ locks' = {} /\ replaced' = {} /\ timers' = {}
  /\ wire' = <<>>
  /\ UNCHANGED <<mine, reply, host>>

-----------------------------------------------------------------------------
(* The controller takes a request off the wire. *)
Without(i) == SubSeq(wire, 1, i - 1) \o SubSeq(wire, i + 1, Len(wire))

Takes(i, state, holder) ==
  /\ i \in 1..Len(wire) /\ (Late \/ i = 1) /\ replaced = {}
  /\ wire' = Without(i)
  /\ reply' = IF wire[i].awaited THEN {[state |-> state, holder |-> holder]} ELSE reply

(* Mutant: no expiration is scheduled. *)
AcquiredUntimed(i) ==
  /\ Takes(i, "active", wire[i].id)
  /\ wire[i].op \in {"acquire", "again"} \/ (wire[i].op = "renew" /\ lease = wire[i].id)
  /\ lease' = wire[i].id /\ left' = TTL /\ mine' = 1 - mine
  /\ locks' = locks \union {[lock |-> mine', left |-> TTL + Margin]}
  /\ replaced' = {l.lock : l \in locks}
  /\ \E rest \in SUBSET timers :
       Cancelled(rest) /\ timers' = rest
  /\ UNCHANGED host

(* The new wake lock is had before the one it replaces is given back. *)
Acquired(i) ==
  /\ Takes(i, "active", wire[i].id)
  /\ wire[i].op \in {"acquire", "again"} \/ (wire[i].op = "renew" /\ lease = wire[i].id)
  /\ lease' = wire[i].id /\ left' = TTL /\ mine' = 1 - mine
  /\ locks' = locks \union {[lock |-> mine', left |-> TTL + Margin]}
  /\ replaced' = {l.lock : l \in locks}
  /\ \E rest \in SUBSET timers :
       Cancelled(rest) /\ timers' = rest \union {[id |-> lease', left |-> TTL]}
  /\ UNCHANGED host

ReleasesReplaced ==
  /\ replaced # {} /\ replaced' = {}
  /\ locks' = {l \in locks : l.lock \notin replaced}
  /\ UNCHANGED <<lease, left, mine, timers, wire, reply, host>>

AcquireFails(i) ==
  /\ Takes(i, "error", lease) /\ wire[i].op # "release"
  /\ UNCHANGED <<phone, host>>

RenewIsStale(i) ==
  /\ Takes(i, "stale", lease) /\ wire[i].op = "renew" /\ lease # wire[i].id
  /\ UNCHANGED <<phone, host>>

Released(i) ==
  /\ Takes(i, IF lease \in {0, wire[i].id} THEN "released" ELSE "stale", lease)
  /\ wire[i].op = "release"
  /\ IF lease = wire[i].id
     THEN /\ lease' = 0 /\ left' = 0 /\ locks' = {}
          /\ \E rest \in SUBSET timers : Cancelled(rest) /\ timers' = rest
     ELSE UNCHANGED <<lease, left, locks, timers>>
  /\ UNCHANGED <<mine, replaced, host>>

Lost(i) ==
  /\ i \in 1..Len(wire) /\ wire' = Without(i)
  /\ UNCHANGED <<phone, reply, host>>

-----------------------------------------------------------------------------
(* What was sent before is not waited for any more. *)
Abandoned == [i \in 1..Len(wire) |-> [wire[i] EXCEPT !.awaited = FALSE]]

Send(op, id) ==
  /\ Len(wire) < MaxWire
  /\ wire' = Append(Abandoned, [op |-> op, id |-> id, awaited |-> TRUE])
  /\ reply' = {}

Goes(to) == pc' = to /\ UNCHANGED <<session, released>>

Begin ==
  /\ pc = "idle" /\ session < MaxSession
  /\ session' = session + 1 /\ pc' = "beginning" /\ released' = FALSE
  /\ Send("acquire", session')
  /\ UNCHANGED phone

Asks == [beginning |-> "acquire", renewing |-> "renew", reacquiring |-> "again",
         ending |-> "release"]

(* power_lease connects again and asks once more: the request or its answer   *)
(* was lost, or is late.                                                    *)
Retry ==
  /\ pc \in DOMAIN Asks /\ Send(Asks[pc], session)
  /\ UNCHANGED <<phone, host>>

Begun ==
  /\ pc = "beginning"
  /\ \E r \in reply : Goes(IF r.state = "active" THEN "active" ELSE "failed")
  /\ reply' = {} /\ UNCHANGED <<phone, wire>>

(* _renew_loop *)
Renew ==
  /\ pc = "active" /\ Send("renew", session) /\ Goes("renewing")
  /\ UNCHANGED phone

Renewed ==
  /\ pc \in {"renewing", "reacquiring"}
  /\ \E r \in reply :
       IF pc = "renewing" /\ r.state = "stale" /\ r.holder = 0
       THEN Send("again", session) /\ Goes("reacquiring")
       ELSE reply' = {} /\ Goes("active") /\ UNCHANGED wire
  /\ UNCHANGED phone

(* No answer in time: the renewal is tried again later, or no more. *)
GivesUp ==
  /\ pc \in DOMAIN Asks
  /\ Goes(CASE pc = "beginning" -> "failed" [] pc = "ending" -> "idle" [] OTHER -> "active")
  /\ wire' = Abandoned /\ reply' = {}
  /\ UNCHANGED phone

StopsRenewing ==
  /\ pc = "active" /\ Goes("failed")
  /\ UNCHANGED <<phone, wire, reply>>

(* end: the renewal is cancelled wherever it is. *)
End ==
  /\ pc \in {"active", "renewing", "reacquiring", "failed"}
  /\ Send("release", session) /\ Goes("ending")
  /\ UNCHANGED phone

Ended ==
  /\ pc = "ending" /\ pc' = "idle"
  /\ \E r \in reply : released' = (r.state = "released")
  /\ reply' = {} /\ UNCHANGED <<phone, wire, session>>

HostCrashes ==
  /\ pc # "idle" /\ Goes("idle") /\ wire' = Abandoned /\ reply' = {}
  /\ UNCHANGED phone

Controller(i) == Acquired(i) \/ AcquireFails(i) \/ RenewIsStale(i) \/ Released(i)

Next ==
  \/ Tick \/ PhoneRestarts \/ ReleasesReplaced
  \/ \E t \in timers : Expire(t)
  \/ \E i \in 1..Len(wire) : Controller(i) \/ Lost(i)
  \/ Begin \/ Retry \/ Begun \/ Renew \/ Renewed \/ GivesUp \/ StopsRenewing \/ End \/ Ended
  \/ HostCrashes

Spec == Init /\ [][Next]_vars

(* Time passes, the scheduler of the controller runs what is due, and its     *)
(* threads go on; nothing is assumed of the host or of the connection.       *)
Fairness ==
  /\ WF_vars(Tick) /\ WF_vars(\E t \in timers : Expire(t)) /\ WF_vars(ReleasesReplaced)
  /\ WF_vars(\E i \in 1..Len(wire) : Controller(i))

FairSpec == Spec /\ Fairness

-----------------------------------------------------------------------------
TypeOK ==
  /\ lease \in {0} \union Session /\ left \in 0..TTL /\ mine \in {0, 1}
  /\ locks \subseteq [lock : {0, 1}, left : 1..TTL + Margin] /\ Cardinality(locks) <= 2
  /\ replaced \subseteq {0, 1} \ {mine}
  /\ timers \subseteq [id : Session, left : 0..TTL]
  /\ Len(wire) <= MaxWire
  /\ \A i \in 1..Len(wire) :
       wire[i] \in [op : {"acquire", "again", "renew", "release"}, id : Session, awaited : BOOLEAN]
  /\ reply \subseteq [state : {"active", "error", "stale", "released"},
                      holder : {0} \union Session]
  /\ session \in {0} \union Session /\ released \in BOOLEAN
  /\ pc \in {"idle", "beginning", "active", "renewing", "reacquiring", "failed", "ending"}

(* While a lease has time left a wake lock is held for it, also in the middle *)
(* of a renewal and while an expiration of before runs late.                 *)
LeasedIsBright == lease # 0 /\ left > 0 => \E l \in locks : l.lock = mine

(* Only a lease that has run out is taken away by a timer, not one that was   *)
(* renewed while the timer was already running.                              *)
ExpiryIsItsOwn ==
  [][((\E t \in timers : Expire(t)) /\ left > 0)
       => UNCHANGED <<lease, left, locks>>]_vars

(* Once the host is told that its lease is released nothing is held for it.   *)
ReleasedIsDark == pc = "idle" /\ released => lease = 0 /\ locks = {}

(* accessibility.py: "Re-acquire only in that empty state; never steal a     *)
(* different task's lock".  A renewal that found no lease does not take one   *)
(* that has begun meanwhile.                                                *)
NeverSteals ==
  [][(\A i \in 1..Len(wire) : (Acquired(i) /\ wire[i].op = "again")
                              => (lease \in {0, wire[i].id}))]_vars

(* A phone whose host is gone or has ended its task keeps neither the lease    *)
(* nor a wake lock, whatever was lost, unless another session begins.        *)
GetsDark == pc = "idle" ~> ((lease = 0 /\ locks = {}) \/ pc # "idle")
===============================================================================
