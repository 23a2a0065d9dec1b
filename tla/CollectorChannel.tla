---------------------------- MODULE CollectorChannel ----------------------------
(***************************************************************************)
(* The persistent connection of the host to the collector of one phone        *)
(* (AccessibilitySnapshotChannel in driver/accessibility.py): a TCP socket to *)
(* a port that the ADB server forwards to the phone.  One request at a time   *)
(* holds the channel lock, opens the connection when there is none, and       *)
(* closes it when it fails, is cancelled or runs out of time.  Closing is two *)
(* tasks, one for the socket and one for the forward, which may outlive the   *)
(* request; the next one harvests them.                                      *)
(*                                                                         *)
(* The ADB server forwards ports for others too, and may be started again.    *)
(* Its answers may be lost: a command that failed may have been carried out.  *)
(***************************************************************************)
EXTENDS Integers, FiniteSets

CONSTANTS Port,         \* ports that the ADB server may allocate
          AdbRestarts   \* the ADB server may be started again

RestartsIsBoolean == AdbRestarts \in BOOLEAN

None == "none"

VARIABLES
  table,      \* the ADB server: the target of each port, "mine" or "other"
  strays,     \* ports forwarded by a command whose answer was lost
  live,       \* sockets of the host that are not closed
  port,       \* _port, None without one
  sock,       \* "open" is _writer, "closing" is _closing_writer
  sockTask, fwdTask,      \* the cleanup tasks
  sockFailed, fwdFailed,  \* _socket_cleanup_failed, _forward_cleanup_failed
  owed,       \* the connection owes the answer of an earlier request
  pc,         \* of the request that holds the lock
  spent,      \* its deadline is over
  closed      \* close() has returned without an error, and nothing since

adb == <<table, strays>>
flags == <<sockFailed, fwdFailed>>
cleanup == <<port, sock, sockTask, fwdTask, flags>>
request == <<pc, spent, closed>>
vars == <<adb, live, cleanup, owed, request>>

Init ==
  /\ table = [p \in Port |-> None] /\ strays = {} /\ live = 0
  /\ port = None /\ sock = "none" /\ sockTask = "none" /\ fwdTask = "none"
  /\ sockFailed = FALSE /\ fwdFailed = FALSE
  /\ owed = FALSE /\ pc = "free" /\ spent = FALSE /\ closed = TRUE

-----------------------------------------------------------------------------
(* The ADB server and the cleanup tasks go on beside the request. *)
OtherForwards ==
  /\ \E p \in Port : table[p] = None /\ table' = [table EXCEPT ![p] = "other"]
  /\ UNCHANGED <<strays, live, cleanup, owed, request>>

AdbRestart ==
  /\ AdbRestarts /\ table' = [p \in Port |-> None] /\ strays' = {}
  /\ UNCHANGED <<live, cleanup, owed, request>>

SocketCleanup ==
  /\ sockTask = "running"
  /\ \/ sockTask' = "done" /\ live' = live - 1
     \/ sockTask' = "failed" /\ UNCHANGED live
  /\ UNCHANGED <<adb, port, sock, fwdTask, flags, owed, request>>

(* forward --remove: of whatever has the port. *)
RemovesForward ==
  /\ fwdTask = "removing"
  /\ \/ /\ table[port] # None
        /\ table' = [table EXCEPT ![port] = None] /\ strays' = strays \ {port}
        /\ fwdTask' \in {"done", "failed"}
     \/ fwdTask' = "failed" /\ UNCHANGED adb
  /\ UNCHANGED <<live, port, sock, sockTask, flags, owed, request>>

(* _remove_owned_forward *)
ListsForwards ==
  /\ fwdTask = "listing"
  /\ fwdTask' \in {IF table[port] = "mine" THEN "removing" ELSE "done", "failed"}
  /\ UNCHANGED <<adb, live, port, sock, sockTask, flags, owed, request>>

DeadlinePasses ==
  /\ pc # "free" /\ ~spent /\ spent' = TRUE
  /\ UNCHANGED <<adb, live, cleanup, owed, pc, closed>>

-----------------------------------------------------------------------------
Ended == {"done", "failed"}
Running(task) == task \notin Ended \union {"none"}
Failed(task, before) == task = "failed" \/ (task # "done" /\ before)

(* What _refresh_cleanup_state makes of the tasks that are over. *)
Refreshed ==
  [sock |-> IF sockTask = "done" THEN "none" ELSE sock,
   port |-> IF fwdTask = "done" THEN None ELSE port,
   sockTask |-> IF sockTask \in Ended THEN "none" ELSE sockTask,
   fwdTask |-> IF fwdTask \in Ended THEN "none" ELSE fwdTask,
   sockFailed |-> Failed(sockTask, sockFailed),
   fwdFailed |-> Failed(fwdTask, fwdFailed)]

Become(s) ==
  /\ sock' = s.sock /\ port' = s.port /\ sockTask' = s.sockTask /\ fwdTask' = s.fwdTask
  /\ sockFailed' = s.sockFailed /\ fwdFailed' = s.fwdFailed

(* The beginning of _close_locked: what has failed is tried again only by     *)
(* those that ask for it, and in time.                                       *)
Closing(s, retry) ==
  LET again == retry /\ ~spent'
      closes == s.sock # "none" /\ s.sockTask = "none" /\ (~s.sockFailed \/ again)
      removes == s.port # None /\ s.fwdTask = "none" /\ (~s.fwdFailed \/ again)
  IN  [s EXCEPT !.sock = IF @ = "none" THEN @ ELSE "closing",
                !.sockTask = IF closes THEN "running" ELSE @,
                !.sockFailed = @ /\ ~closes,
                !.fwdTask = IF ~removes THEN @
                            ELSE IF s.fwdFailed THEN "listing" ELSE "removing",
                !.fwdFailed = @ /\ ~removes]

(* Its end, once the tasks are over or the deadline is. *)
Waited == spent \/ ~(Running(sockTask) \/ Running(fwdTask))
Pending(s) == s.sockTask # "none" \/ s.fwdTask # "none"
(* Mutant: a cleanup that failed counts as done. *)
SettledUnlessPending(s) == ~Pending(s)

Settled(s) == ~Pending(s) /\ ~s.sockFailed /\ ~s.fwdFailed

-----------------------------------------------------------------------------
Unmoved == UNCHANGED <<adb, live>>

(* _ensure_connected *)
(* The other side may have closed a connection that is open for the channel. *)
Connected(s) == s.sock = "open"

Begins ==
  /\ pc = "free" /\ spent' = FALSE /\ closed' = FALSE
  /\ LET s == Refreshed IN
     \/ Connected(s) /\ Become(s) /\ pc' = "exchange"
     \/ s.port = None /\ Settled(s) /\ ~Connected(s) /\ Become(s) /\ pc' = "forward"
     \/ (s.port # None \/ ~Settled(s)) /\ Become(Closing(s, TRUE)) /\ pc' = "cleaning"
  /\ Unmoved /\ UNCHANGED owed

Fails ==
  /\ UNCHANGED <<spent, closed>>
  /\ pc' = "failing" /\ Become(Closing(Refreshed, FALSE))

Cleaned ==
  /\ pc = "cleaning" /\ Waited
  /\ IF Settled(Refreshed) /\ ~spent
     THEN Become(Refreshed) /\ pc' = "forward" /\ UNCHANGED <<spent, closed>>
     ELSE Fails
  /\ Unmoved /\ UNCHANGED owed

(* The forward is made; its port is known unless the answer is lost. *)
Forwards ==
  /\ pc = "forward" /\ UNCHANGED <<live, owed, spent, closed>>
  /\ \E p \in Port :
       /\ table[p] = None /\ table' = [table EXCEPT ![p] = "mine"]
       /\ port' = p /\ pc' = "connect" /\ UNCHANGED strays
  /\ UNCHANGED <<sock, sockTask, fwdTask, flags>>

ForwardIsLost ==
  /\ pc = "forward" /\ Fails /\ UNCHANGED <<live, owed>>
  /\ \E p \in Port :
       /\ table[p] = None /\ table' = [table EXCEPT ![p] = "mine"]
       /\ strays' = strays \union {p}

(* The connection is made and asked for its health first. *)
Connects ==
  /\ pc = "connect" /\ sock' = "open" /\ live' = live + 1 /\ owed' = TRUE
  /\ pc' = "greeting"
  /\ UNCHANGED <<adb, port, sockTask, fwdTask, flags, spent, closed>>

Greeted ==
  /\ pc = "greeting" /\ pc' = "exchange" /\ owed' = FALSE
  /\ Unmoved /\ UNCHANGED <<cleanup, spent, closed>>

(* _exchange: the answer that is read is the first the connection has. *)
Sends ==
  /\ pc = "exchange" /\ pc' = "awaiting" /\ owed' = TRUE
  /\ Unmoved /\ UNCHANGED <<cleanup, spent, closed>>

Answers ==
  /\ pc = "awaiting" /\ pc' = "free" /\ owed' = FALSE
  /\ Unmoved /\ UNCHANGED <<cleanup, spent, closed>>

(* Any step may fail, be cancelled or come to the deadline. *)
StepFails ==
  /\ pc \in {"cleaning", "forward", "connect", "greeting", "exchange", "awaiting"}
  /\ Fails
  /\ Unmoved /\ UNCHANGED owed

CleanupWaited ==
  /\ pc = "failing" /\ Waited /\ Become(Refreshed) /\ pc' = "free"
  /\ Unmoved /\ UNCHANGED <<owed, spent, closed>>

(* close(), of the idle timer or of the registry at shutdown. *)
Close ==
  /\ pc = "free" /\ pc' = "closing" /\ spent' = FALSE /\ UNCHANGED closed
  /\ Become(Closing(Refreshed, TRUE))
  /\ Unmoved /\ UNCHANGED owed

Abort(task) == IF Running(task) THEN "failed" ELSE task

CloseWaited ==
  /\ pc = "closing" /\ Waited
  /\ IF Pending([sockTask |-> Refreshed.sockTask, fwdTask |-> Refreshed.fwdTask])
     THEN /\ pc' = "aborting" /\ spent' = TRUE /\ UNCHANGED closed
          /\ sockTask' = Abort(sockTask) /\ fwdTask' = Abort(fwdTask)
          /\ UNCHANGED <<port, sock, flags>>
     ELSE /\ Become(Refreshed) /\ pc' = "free" /\ closed' = Settled(Refreshed)
          /\ UNCHANGED spent
  /\ Unmoved /\ UNCHANGED owed

CloseAborted ==
  /\ pc = "aborting" /\ pc' = "free" /\ UNCHANGED spent
  /\ LET s == Closing(Refreshed, FALSE) IN Become(s) /\ closed' = Settled(s)
  /\ Unmoved /\ UNCHANGED owed

Step == Cleaned \/ Forwards \/ ForwardIsLost \/ Connects \/ Greeted \/ Sends \/ Answers \/ StepFails
        \/ CleanupWaited \/ CloseWaited \/ CloseAborted

Next ==
  \/ Begins \/ Close \/ Step \/ DeadlinePasses
  \/ SocketCleanup \/ ListsForwards \/ RemovesForward \/ OtherForwards \/ AdbRestart

Spec == Init /\ [][Next]_vars

-----------------------------------------------------------------------------
Task == {"none", "running", "listing", "removing", "done", "failed"}

TypeOK ==
  /\ table \in [Port -> {None, "mine", "other"}] /\ strays \subseteq Port
  /\ live \in 0..1 /\ port \in {None} \union Port /\ sock \in {"none", "open", "closing"}
  /\ sockTask \in Task \ {"listing", "removing"} /\ fwdTask \in Task \ {"running"}
  /\ sockFailed \in BOOLEAN /\ fwdFailed \in BOOLEAN
  /\ owed \in BOOLEAN /\ spent \in BOOLEAN /\ closed \in BOOLEAN
  /\ pc \in {"free", "cleaning", "forward", "connect", "greeting", "exchange",
             "awaiting", "failing", "closing", "aborting"}

(* No forward of the channel is forgotten, however its removals failed, came  *)
(* late or were harvested, and no connection is made beside one that is open. *)
NothingIsForgotten ==
  /\ \A p \in Port : table[p] = "mine" => p = port \/ p \in strays
  /\ live = 1 => sock # "none"

(* close() that returns without an error leaves no socket and no forward.     *)
ClosedIsClosed == closed /\ pc = "free" => live = 0 /\ port = None /\ sockTask = "none"

(* A connection that is kept owes no answer of an abandoned request: the next *)
(* request cannot read the snapshot that an earlier one asked for.           *)
KeptConnectionIsClean == pc \in {"free", "exchange"} /\ sock = "open" => ~owed

(* accessibility.py: "A failed removal may actually have succeeded, or the ADB *)
(* server may have restarted. Never remove a reused port belonging to another *)
(* target."                                                                 *)
NeverRemovesOthers ==
  [][\A p \in Port : (table[p] = "other" /\ fwdTask' # fwdTask) => table'[p] = "other"]_vars

===============================================================================
