------------------------------- MODULE Server -------------------------------
(***************************************************************************)
(* One server process from boot to exit, around its sockets: the backstop   *)
(* sweep of Rounds (at startup, on a timer, after a Redis reconnect), the   *)
(* subscription to expired keys, and the drain that closes everything in    *)
(* order before the process exits.                                          *)
(*                                                                         *)
(* What a sweep or an expiry handler does to a Round is RoundLifecycle's    *)
(* business.  Here an expiry is a deadline that lapses once; it has been    *)
(* handled, by its own handler or by a sweep that read it, or it is due.    *)
(***************************************************************************)
EXTENDS Sockets

CONSTANTS
  Expiries,    \* deadlines that lapse while the model watches
  MaxDrops     \* bound: times the expiry subscriber loses its connection

ASSUME ServerAssumption ==
  /\ MaxDrops \in Nat
  /\ None \notin {0, 1}   \* no exit code yet is no exit code

VARIABLES
  boot,        \* the onReady hook: the step it is at
  notify,      \* Redis sends expired-key events
  link,        \* the connection of the expiry subscriber
  expiry,      \* of each deadline
  handlers,    \* pending: deadlines whose expiry handler runs
  running,     \* the sweep in flight
  covered,     \* the deadlines it found lapsed when it read
  timer,       \* the interval is set
  awaited,     \* stop() waits for the sweep in flight
  stopping,    \* of buildShutdown
  deadline,    \* its timeout is armed
  clean,       \* successful && !failed
  drain,       \* the resource being closed
  code,        \* exit code
  drops,
  rerun        \* history: a reconnect began a sweep that stop() does not await

bootVars   == <<boot, notify>>
linkVars   == <<link, drops>>
expiryVars == <<expiry, handlers>>
sweepVars  == <<running, covered, awaited>>
stopVars   == <<stopping, deadline, clean, code>>
serverVars == <<bootVars, linkVars, expiryVars, sweepVars, timer, stopVars, drain, rerun>>
vars == <<socketVars, serverVars>>

Alive    == drain # "exited"
DbOpen   == drain \notin {"redis", "exited"}
Lapsed   == {e \in Expiries : expiry[e] = "due"}
IdleHere == UNCHANGED socketVars

-----------------------------------------------------------------------------
\* ensureExpiryNotifications: a Redis that forbids CONFIG is only warned of.
\* The startup sweep begins.
Configure ==
  /\ boot = "config"
  /\ boot' = "sweep" /\ running' = "begun"
  /\ notify' \in BOOLEAN
  /\ UNCHANGED <<linkVars, expiryVars, stopVars, covered, timer, awaited, drain, rerun>>
  /\ IdleHere

\* The interval is never set.
ListenMutant ==
  /\ boot = "subscribe"
  /\ boot' = "up" /\ link' = "on"
  /\ UNCHANGED <<expiryVars, sweepVars, stopVars, notify, timer, drain, drops, rerun>>
  /\ IdleHere

\* Subscribed to expired keys, the interval starts and the server listens.
Listen ==
  /\ boot = "subscribe"
  /\ boot' = "up" /\ link' = "on" /\ timer' = TRUE
  /\ UNCHANGED <<expiryVars, sweepVars, stopVars, notify, drain, drops, rerun>>
  /\ IdleHere

\* The subscription fails: what was opened is closed, with no deadline.
ListenFails ==
  /\ boot = "subscribe"
  /\ FailOnce
  /\ boot' = "failed" /\ clean' = FALSE /\ drain' = "sockets"
  /\ UNCHANGED <<linkVars, expiryVars, sweepVars, notify, timer, stopping, deadline, code, rerun>>
  /\ UNCHANGED <<sessions, inbox, pubsub, rows, orderly>>

-----------------------------------------------------------------------------
\* runNow: a trigger while a sweep runs joins it.
Begin == running' = IF running = "none" THEN "begun" ELSE running

Tick ==
  /\ Alive /\ timer
  /\ Begin
  /\ UNCHANGED <<bootVars, linkVars, expiryVars, stopVars, covered, timer, awaited, drain, rerun>>
  /\ IdleHere

SweepReads ==
  /\ Alive /\ DbOpen /\ running = "begun"
  /\ running' = "read" /\ covered' = Lapsed
  /\ UNCHANGED <<bootVars, linkVars, expiryVars, stopVars, timer, awaited, drain, rerun>>
  /\ IdleHere

\* eachIsolated: a Round that fails is logged and stays due, the sweep goes on,
\* and so does the boot.
SweepEnds ==
  /\ Alive /\ DbOpen /\ running = "read"
  /\ running' = "none" /\ covered' = {} /\ awaited' = FALSE
  /\ \E failed \in SUBSET covered :
       /\ IF failed = {} THEN UNCHANGED faults ELSE FailOnce
       /\ expiry' = [e \in Expiries |->
                       IF e \in covered \ failed THEN "handled" ELSE expiry[e]]
  /\ boot' = IF boot = "sweep" THEN "subscribe" ELSE boot
  /\ UNCHANGED <<linkVars, stopVars, notify, handlers, timer, drain, rerun>>
  /\ UNCHANGED <<sessions, inbox, pubsub, rows, orderly>>

\* A failed sweep stays in flight for ever.
SweepFailsMutant ==
  /\ Alive /\ running # "none" /\ running # "stuck" /\ DbOpen /\ FailOnce
  /\ running' = "stuck" /\ covered' = {}
  /\ UNCHANGED <<bootVars, linkVars, expiryVars, stopVars, drain, awaited, timer, rerun>>
  /\ UNCHANGED <<sessions, inbox, pubsub, rows, orderly>>

\* A sweep that fails is logged, or it is the startup sweep and the boot fails.
SweepFails ==
  /\ Alive /\ running # "none"
  /\ IF DbOpen THEN FailOnce ELSE UNCHANGED faults
  /\ running' = "none" /\ covered' = {} /\ awaited' = FALSE
  /\ \/ boot # "sweep" /\ UNCHANGED <<boot, clean, drain>>
     \/ boot = "sweep" /\ boot' = "failed" /\ clean' = FALSE /\ drain' = "sockets"
  /\ UNCHANGED <<linkVars, expiryVars, notify, timer, stopping, deadline, code, rerun>>
  /\ UNCHANGED <<sessions, inbox, pubsub, rows, orderly>>

-----------------------------------------------------------------------------
\* A deadline lapses.  Its event is heard or lost.
Expire(e) ==
  /\ Alive /\ expiry[e] = "future"
  /\ expiry' = Set(expiry, e, "due")
  /\ handlers' = IF notify /\ link = "on" THEN handlers \cup {e} ELSE handlers
  /\ UNCHANGED <<bootVars, linkVars, sweepVars, stopVars, timer, drain, rerun>>
  /\ IdleHere

Handled(e) ==
  /\ Alive /\ DbOpen /\ e \in handlers
  /\ handlers' = handlers \ {e} /\ expiry' = Set(expiry, e, "handled")
  /\ UNCHANGED <<bootVars, linkVars, sweepVars, stopVars, timer, drain, rerun>>
  /\ IdleHere

\* A handler that fails is logged; nothing retries it.
HandlerFails(e) ==
  /\ Alive /\ e \in handlers
  /\ FailOnce
  /\ handlers' = handlers \ {e}
  /\ UNCHANGED <<bootVars, linkVars, sweepVars, stopVars, expiry, timer, drain, rerun>>
  /\ UNCHANGED <<sessions, inbox, pubsub, rows, orderly>>

Drop ==
  /\ Alive /\ link \in {"on", "ready"} /\ drops < MaxDrops
  /\ link' = "dropped" /\ drops' = drops + 1
  /\ UNCHANGED <<bootVars, expiryVars, sweepVars, stopVars, timer, drain, rerun>>
  /\ IdleHere

\* watchReconnects: a ready after a drop asks for a sweep.  ioredis subscribes
\* again once it is ready; until then events are lost.
Reconnect ==
  /\ Alive /\ link = "dropped"
  /\ link' = "ready" /\ Begin
  /\ rerun' = (rerun \/ (running = "none" /\ drain \in {"sweep", "expiry"}))
  /\ UNCHANGED <<bootVars, expiryVars, stopVars, covered, timer, awaited, drain, drops>>
  /\ IdleHere

Resubscribed ==
  /\ Alive /\ link = "ready"
  /\ link' = "on"
  /\ UNCHANGED <<bootVars, expiryVars, sweepVars, stopVars, timer, drain, drops, rerun>>
  /\ IdleHere

-----------------------------------------------------------------------------
\* No deadline is armed.
StopMutant ==
  /\ Alive /\ boot = "up" /\ ~stopping
  /\ stopping' = TRUE /\ drain' = "sockets"
  /\ clean' \in BOOLEAN
  /\ conn' = [s \in SocketIds |-> IF conn[s] = "open" THEN "closing" ELSE conn[s]]
  /\ UNCHANGED <<bootVars, linkVars, expiryVars, sweepVars, timer, deadline, code, rerun>>
  /\ UNCHANGED <<owner, channel, pc, sub, presence, inbox, pubsub, rows, faults, orderly>>

\* A signal, or a crash: once.  The deadline is armed and closeApp begins; its
\* first hook closes every socket.
Stop ==
  /\ Alive /\ boot = "up" /\ ~stopping
  /\ stopping' = TRUE /\ deadline' = TRUE /\ drain' = "sockets"
  /\ clean' \in BOOLEAN
  /\ conn' = [s \in SocketIds |-> IF conn[s] = "open" THEN "closing" ELSE conn[s]]
  /\ UNCHANGED <<bootVars, linkVars, expiryVars, sweepVars, timer, code, rerun>>
  /\ UNCHANGED <<owner, channel, pc, sub, presence, inbox, pubsub, rows, faults, orderly>>

\* The sockets are closed, their cleanup is not awaited.
SocketsDrainedMutant ==
  /\ drain = "sockets" /\ \A s \in SocketIds : conn[s] \in {"none", "closed"}
  /\ drain' = "sweep" /\ timer' = FALSE /\ awaited' = (running # "none")
  /\ UNCHANGED <<bootVars, linkVars, expiryVars, stopVars, running, covered, rerun>>
  /\ IdleHere

\* SocketSessions.close has awaited every session; reconcile.stop clears the
\* interval and awaits the sweep in flight.
SocketsDrained ==
  /\ drain = "sockets" /\ \A s \in SocketIds : ~Live(s)
  /\ drain' = "sweep" /\ timer' = FALSE /\ awaited' = (running # "none")
  /\ UNCHANGED <<bootVars, linkVars, expiryVars, stopVars, running, covered, rerun>>
  /\ IdleHere

SweepDrained ==
  /\ drain = "sweep" /\ ~awaited
  /\ drain' = "expiry"
  /\ UNCHANGED <<bootVars, linkVars, expiryVars, sweepVars, stopVars, timer, rerun>>
  /\ IdleHere

\* The cleanup of subscribeRoundExpiry: unsubscribe, quit, await the handlers.
Unsubscribe ==
  /\ drain = "expiry" /\ link # "off"
  /\ link' = "off"
  /\ \/ UNCHANGED <<clean, faults>>
     \/ FailOnce /\ clean' = FALSE
  /\ UNCHANGED <<bootVars, expiryVars, sweepVars, timer, stopping, deadline, drain, code,
                 drops, rerun>>
  /\ UNCHANGED <<sessions, inbox, pubsub, rows, orderly>>

\* The handlers that still run are not awaited.
ExpiryDrainedMutant ==
  /\ drain = "expiry" /\ link = "off"
  /\ drain' = "pubsub"
  /\ UNCHANGED <<bootVars, linkVars, expiryVars, sweepVars, stopVars, timer, rerun>>
  /\ IdleHere

ExpiryDrained ==
  /\ drain = "expiry" /\ link = "off" /\ handlers = {}
  /\ drain' = "pubsub"
  /\ UNCHANGED <<bootVars, linkVars, expiryVars, sweepVars, stopVars, timer, rerun>>
  /\ IdleHere

\* Pubsub.close: the map is cleared and the shared connection quits.  A quit
\* that fails finds the connection gone.
PubsubClosed ==
  /\ drain = "pubsub"
  /\ drain' = "database"
  /\ channels' = [c \in Channels |-> None] /\ subscribed' = {} /\ wire' = <<>>
  /\ \/ UNCHANGED <<clean, faults>>
     \/ FailOnce /\ clean' = FALSE
  /\ UNCHANGED <<bootVars, linkVars, expiryVars, sweepVars, timer, stopping, deadline, code, rerun>>
  /\ UNCHANGED <<sessions, inbox, receivers, ready, rows, orderly>>

\* postgresPool.end; a step that fails does not stop the next.
DatabaseClosed ==
  /\ drain = "database"
  /\ drain' = "redis"
  /\ \/ UNCHANGED <<clean, faults>>
     \/ FailOnce /\ clean' = FALSE
  /\ UNCHANGED <<bootVars, linkVars, expiryVars, sweepVars, timer, stopping, deadline, code, rerun>>
  /\ UNCHANGED <<sessions, inbox, pubsub, rows, orderly>>

\* redis.quit, then telemetry and logs, and the process exits.
Exit ==
  /\ drain = "redis"
  /\ drain' = "exited" /\ deadline' = FALSE
  /\ \/ code' = (IF clean THEN 0 ELSE 1) /\ UNCHANGED faults
     \/ FailOnce /\ code' = 1
  /\ UNCHANGED <<bootVars, linkVars, expiryVars, sweepVars, timer, stopping, clean, rerun>>
  /\ UNCHANGED <<sessions, inbox, pubsub, rows, orderly>>

DeadlineExit ==
  /\ Alive /\ deadline
  /\ drain' = "exited" /\ deadline' = FALSE /\ code' = 1
  /\ UNCHANGED <<bootVars, linkVars, expiryVars, sweepVars, timer, stopping, clean, rerun>>
  /\ IdleHere

-----------------------------------------------------------------------------
Init ==
  /\ SocketsInit
  /\ boot = "config" /\ notify = FALSE /\ link = "off"
  /\ expiry \in [Expiries -> {"future", "due"}]
  /\ handlers = {} /\ running = "none" /\ covered = {}
  /\ timer = FALSE /\ awaited = FALSE
  /\ stopping = FALSE /\ deadline = FALSE /\ clean = TRUE
  /\ drain = "no" /\ code = None /\ drops = 0 /\ rerun = FALSE

\* A socket opens while the server listens; once it stops, upgrades are refused.
SocketStep ==
  /\ Alive
  /\ (boot = "up" /\ drain = "no" /\ Opens) \/ SocketsRun
  /\ UNCHANGED serverVars

Sweeping == SweepReads \/ SweepEnds
Booting  == Configure \/ Listen
Draining ==
  \/ SocketsDrained \/ SweepDrained \/ Unsubscribe \/ ExpiryDrained
  \/ PubsubClosed \/ DatabaseClosed \/ Exit

Next ==
  \/ SocketStep
  \/ Booting \/ ListenFails \/ Sweeping \/ SweepFails \/ Tick
  \/ Drop \/ Reconnect \/ Resubscribed
  \/ Stop \/ DeadlineExit \/ Draining
  \/ \E e \in Expiries : Expire(e) \/ Handled(e) \/ HandlerFails(e)

Spec == Init /\ [][Next]_vars

\* The event loop runs the interval and the deadline; Postgres answers.
FairSpec ==
  /\ Spec
  /\ WF_vars(Booting) /\ WF_vars(Sweeping) /\ WF_vars(Tick) /\ WF_vars(DeadlineExit)
  /\ \A e \in Expiries : WF_vars(Handled(e))

-----------------------------------------------------------------------------
\* Types; a server that listens has its interval, and a drain past the sweep
\* has none.
ServerTypeOK ==
  /\ TypeOK
  /\ boot \in {"config", "sweep", "subscribe", "up", "failed"}
  /\ notify \in BOOLEAN
  /\ link \in {"off", "on", "dropped", "ready"}
  /\ expiry \in [Expiries -> {"future", "due", "handled"}]
  /\ handlers \subseteq Expiries /\ covered \subseteq Expiries
  /\ running \in {"none", "begun", "read"}
  /\ {timer, awaited, stopping, deadline, clean, rerun} \subseteq BOOLEAN
  /\ drain \in {"no", "sockets", "sweep", "expiry", "pubsub", "database", "redis", "exited"}
  /\ code \in {None, 0, 1}
  /\ boot = "up" /\ drain = "no" => timer
  /\ drain \notin {"no", "sockets", "exited"} => ~timer
  /\ drops \in 0..MaxDrops

\* closeDatabase finds nobody left who needs the database: no session that has
\* presence to write, no expiry handler, no sweep, but one that a Redis
\* reconnect began while stop() or the unsubscribe was under way.
DrainedBeforeDatabase ==
  drain \in {"database", "redis"} =>
    /\ \A s \in SocketIds : ~Live(s)
    /\ handlers = {}
    /\ running = "none" \/ rerun

\* A process that exits with 0, with no call failed before (faults = 0), took with
\* it all its sockets wrote: no Player is left active, no cursor shown.  (Rows
\* that a join or a create wrote without a socket are outside this module.)
CleanExit == code = 0 /\ faults = 0 => active = {} /\ \A r \in Rooms : cursors[r] = {}

\* A deadline that lapsed is handled although its event was lost, its handler
\* failed, or the sweep a reconnect asked for joined one that had read before:
\* as long as the process runs, and Redis need never come back.
LapsedIsHandled ==
  \A e \in Expiries :
    expiry[e] = "due" ~> (expiry[e] = "handled" \/ stopping \/ boot = "failed")

\* A process that stops exits, even if a socket, a sweep or a store hangs.
AlwaysExits == stopping ~> ~Alive

=============================================================================
