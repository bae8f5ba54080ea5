---------------------------- MODULE ServerProofs ----------------------------
(***************************************************************************)
(* What a server process keeps from boot to exit, for every number of       *)
(* sockets, deadlines, failed calls and dropped connections.                *)
(***************************************************************************)
EXTENDS Server, SocketsProofs

Idle == \A s \in SocketIds : ~Live(s)

\* Where the drain stands: what is closed stays closed.
DrainGood ==
  /\ boot \notin {"up", "failed"} => drain = "no"
  /\ drain = "no" => boot # "failed"
  /\ boot = "up" => (stopping <=> drain # "no")
  /\ boot # "up" => ~timer /\ Idle /\ ~stopping /\ ~deadline
  /\ deadline => stopping
  /\ drain \notin {"no", "sockets", "exited"} => ~timer /\ Idle
  /\ drain \in {"pubsub", "database", "redis"} => link = "off" /\ handlers = {}
  /\ awaited => drain \in {"sweep", "exited"}
  /\ drain = "sweep" => running = "none" \/ awaited \/ rerun
  /\ drain \in {"expiry", "pubsub", "database", "redis"} => running = "none" \/ rerun
  /\ drain # "exited" => code = None
  /\ code = 0 => Idle

ServerInv == SocketsInv /\ ServerTypeOK /\ DrainGood

-----------------------------------------------------------------------------
\* The sockets, under the steps of the process that are not theirs.
LEMMA FaultOnly ==
  ASSUME SocketsInv, faults' \in {faults, faults + 1}, faults' <= MaxFaults,
         UNCHANGED <<sessions, inbox, pubsub, rows, orderly>>
  PROVE  SocketsInv'
  <1> USE SocketsAssumption DEF sessions, inbox, pubsub, rows
  <1> TypeOK
    BY DEF SocketsInv
  <1>0. faults \in Nat /\ faults' \in 0..MaxFaults /\ (faults' = 0 => faults = 0)
    BY DEF TypeOK
  <1>1. TypeOK'
    BY <1>0 DEF TypeOK
  <1>2. \A s \in SocketIds : SessionGood(s)' /\ SubGood(s)'
    BY DEF SocketsInv, SessionGood, SubGood, At
  <1>3. \A c \in Channels : MapGood(c)' /\ HeardGood(c)'
    BY <1>0 DEF SocketsInv, MapGood, HeardGood, WillHear
  <1>4. WireGood'
    BY DEF SocketsInv, WireGood, CommandGood, At
  <1>5. \A p \in Players : SeenGood(p)'
    BY <1>0 DEF SocketsInv, SeenGood
  <1>6. AloneGood' /\ PresenceFollowsSockets'
    BY <1>0 DEF SocketsInv, AloneGood, PresenceFollowsSockets, Live, At, IsUser
  <1> QED
    BY <1>1, <1>2, <1>3, <1>4, <1>5, <1>6 DEF SocketsInv, Channels

LEMMA StopKeepsSockets ==
  ASSUME SocketsInv, Stop
  PROVE  SocketsInv'
  <1> USE SocketsAssumption DEF Stop, inbox, pubsub, rows
  <1> TypeOK
    BY DEF SocketsInv
  <1>1. TypeOK'
    BY DEF TypeOK
  <1>2. \A s \in SocketIds : SessionGood(s)' /\ SubGood(s)'
    BY DEF SocketsInv, SessionGood, SubGood, At, Shut
  <1>3. \A c \in Channels : MapGood(c)' /\ HeardGood(c)'
    BY DEF SocketsInv, MapGood, HeardGood, WillHear
  <1>4. WireGood'
    BY DEF SocketsInv, WireGood, CommandGood, At
  <1>5. \A p \in Players : SeenGood(p)'
    BY DEF SocketsInv, SeenGood
  <1>6. AloneGood' /\ PresenceFollowsSockets'
    BY DEF SocketsInv, AloneGood, PresenceFollowsSockets, Live, At, IsUser
  <1> QED
    BY <1>1, <1>2, <1>3, <1>4, <1>5, <1>6 DEF SocketsInv, Channels

LEMMA PubsubKeepsSockets ==
  ASSUME SocketsInv, PubsubClosed, Idle
  PROVE  SocketsInv'
  <1> USE SocketsAssumption DEF inbox, sessions, rows
  <1> TypeOK
    BY DEF SocketsInv
  <1>0. \A s \in SocketIds : pc[s] \in {"new", "done"}
    BY DEF Idle, Live
  <1>a. faults' \in 0..MaxFaults /\ (faults' = 0 => faults = 0)
    BY DEF PubsubClosed, FailOnce, TypeOK
  <1>b. /\ channels' = [c \in Channels |-> None] /\ subscribed' = {} /\ wire' = <<>>
        /\ UNCHANGED <<sessions, inbox, receivers, ready, rows, orderly>>
    BY DEF PubsubClosed
  <1> USE <1>a, <1>b
  <1>1. TypeOK'
    BY DEF TypeOK
  <1>2. \A s \in SocketIds : SessionGood(s)' /\ SubGood(s)'
    BY <1>0 DEF SocketsInv, SessionGood, SubGood, At, Opening
  <1>3. \A c \in Channels : MapGood(c)' /\ HeardGood(c)'
    BY DEF MapGood, HeardGood, WillHear
  <1>4. WireGood'
    BY DEF WireGood
  <1>5. \A p \in Players : SeenGood(p)'
    BY DEF SocketsInv, SeenGood
  <1>6. AloneGood' /\ PresenceFollowsSockets'
    BY DEF SocketsInv, AloneGood, PresenceFollowsSockets, Live, At, IsUser
  <1> QED
    BY <1>1, <1>2, <1>3, <1>4, <1>5, <1>6 DEF SocketsInv, Channels

\* A step of the process leaves a session where it is, and so does a step of the
\* sockets but for an upgrade and the last step of a session.
LEMMA IdleStays ==
  ASSUME SocketsInv, Idle, SocketsRun
  PROVE  Idle'
  <1> TypeOK
    BY DEF SocketsInv
  <1>0. \A s \in SocketIds : pc[s] \in {"new", "done"}
    BY DEF Idle, Live
  <1>1. ~Answers
    BY <1>0, Answered DEF Answers, Subscribed, SubscribeFails, Unsubscribed, UnsubscribeFails
  <1> QED
    BY <1>0, <1>1 DEF TypeOK, SocketsRun, Answers, Connected, ConnectedFails, Close, Release, Leaving,
       LeavingFails, Move, Hide, sessions, Idle, Live, At

-----------------------------------------------------------------------------
LEMMA ServerInit == Init => ServerInv
  <1> SUFFICES ASSUME Init
               PROVE  ServerInv
    OBVIOUS
  <1>1. SocketsInv
    BY InitInv DEF Init
  <1>2. ServerTypeOK
    <2>1. /\ expiry \in [Expiries -> {"future", "due", "handled"}] /\ drops \in 0..MaxDrops
          /\ {timer, awaited, stopping, deadline, clean, rerun} \subseteq BOOLEAN
      <3>1. expiry \in [Expiries -> {"future", "due", "handled"}]
        BY DEF Init
      <3>2. drops \in 0..MaxDrops
        BY ServerAssumption DEF Init
      <3> QED
        BY <3>1, <3>2 DEF Init
    <2> QED
      BY <1>1, <2>1 DEF Init, ServerTypeOK, SocketsInv
  <1>3. DrainGood
    BY ServerAssumption DEF Init, SocketsInit, DrainGood, Idle, Live
  <1> QED
    BY <1>1, <1>2, <1>3 DEF ServerInv

\* The sockets' part of the invariant.
LEMMA SocketsPart ==
  ASSUME ServerInv, Next
  PROVE  SocketsInv' /\ (Idle /\ ~(boot = "up" /\ drain = "no") => Idle')
  <1> SocketsInv /\ ServerTypeOK /\ DrainGood /\ TypeOK
    BY DEF ServerInv, SocketsInv
  <1>1. CASE UNCHANGED socketVars
    <2>1. pc' = pc
      BY <1>1 DEF socketVars, sessions
    <2> QED
      BY <1>1, <2>1, SocketsStutter DEF Idle, Live
  <1>2. CASE SocketStep
    <2>1. SocketsInv'
      BY <1>2, SocketsStep DEF SocketStep, SocketsNext
    <2>2. (boot = "up" /\ drain = "no") \/ SocketsRun
      BY <1>2 DEF SocketStep
    <2> QED
      BY <2>1, <2>2, IdleStays
  <1>3. CASE UNCHANGED <<sessions, inbox, pubsub, rows, orderly>>
             /\ (faults' = faults \/ FailOnce)
    <2>1. faults' \in {faults, faults + 1} /\ faults' <= MaxFaults
      BY <1>3, SocketsAssumption DEF FailOnce, TypeOK
    <2>2. SocketsInv'
      BY <1>3, <2>1, FaultOnly
    <2>3. pc' = pc
      BY <1>3 DEF sessions
    <2> QED
      BY <2>2, <2>3 DEF Idle, Live
  <1>4. CASE Stop
    <2>1. pc' = pc
      BY <1>4 DEF Stop
    <2> QED
      BY <1>4, <2>1, StopKeepsSockets DEF Idle, Live
  <1>5. CASE PubsubClosed
    <2>1. pc' = pc
      BY <1>5 DEF PubsubClosed, sessions
    <2>2. Idle
      BY <1>5 DEF PubsubClosed, DrainGood
    <2> QED
      BY <1>5, <2>1, <2>2, PubsubKeepsSockets DEF Idle, Live
  <1>6. Booting \/ SweepReads \/ Tick \/ Drop \/ Reconnect \/ Resubscribed \/ DeadlineExit
          \/ SocketsDrained \/ SweepDrained \/ ExpiryDrained
          \/ (\E e \in Expiries : Expire(e) \/ Handled(e)) => UNCHANGED socketVars
    BY DEF IdleHere, Booting, Configure, Listen, SweepReads, Tick, Drop, Reconnect, Resubscribed,
       DeadlineExit, SocketsDrained, SweepDrained, ExpiryDrained, Expire, Handled
  <1>7. ListenFails \/ SweepEnds \/ SweepFails \/ Unsubscribe \/ DatabaseClosed \/ Exit
          \/ (\E e \in Expiries : HandlerFails(e)) =>
             UNCHANGED <<sessions, inbox, pubsub, rows, orderly>>
             /\ (faults' = faults \/ FailOnce)
    BY DEF ListenFails, SweepEnds, SweepFails, Unsubscribe, DatabaseClosed, Exit, HandlerFails
  <1> QED
    BY <1>1, <1>2, <1>3, <1>4, <1>5, <1>6, <1>7 DEF Next, Draining, Sweeping

\* Types of the process.
LEMMA ServerTypes ==
  ASSUME ServerInv, Next
  PROVE  ServerTypeOK'
  <1> USE DEF bootVars, linkVars, expiryVars, sweepVars, stopVars, serverVars, Set
  <1> ServerTypeOK /\ DrainGood
    BY DEF ServerInv
  <1>0. TypeOK'
    BY SocketsPart DEF SocketsInv
  <1>b. /\ timer \in BOOLEAN /\ awaited \in BOOLEAN /\ stopping \in BOOLEAN
        /\ deadline \in BOOLEAN /\ clean \in BOOLEAN /\ rerun \in BOOLEAN
    BY DEF ServerTypeOK
  <1> USE <1>0, <1>b DEF ServerTypeOK
  <1>1. CASE SocketStep
    BY <1>1 DEF SocketStep
  <1>2. CASE Booting \/ ListenFails
    BY <1>2 DEF Booting, Configure, Listen, ListenFails, DrainGood
  <1>3. CASE Sweeping \/ SweepFails
    <2>1. CASE SweepReads
      BY <2>1 DEF SweepReads, Lapsed
    <2>2. CASE SweepEnds
      BY <2>2 DEF SweepEnds, DrainGood
    <2>3. CASE SweepFails
      BY <2>3 DEF SweepFails, DrainGood
    <2> QED
      BY <1>3, <2>1, <2>2, <2>3 DEF Sweeping
  <1>4. CASE Tick \/ Reconnect \/ Resubscribed
    <2>1. CASE Tick \/ Resubscribed
      BY <2>1 DEF Tick, Begin, Resubscribed
    <2>2. CASE Reconnect
      <3>1. rerun' \in BOOLEAN
        BY <2>2, Zenon DEF Reconnect
      <3> QED
        BY <2>2, <3>1 DEF Reconnect, Begin
    <2> QED
      BY <1>4, <2>1, <2>2
  <1>5. CASE Drop
    BY <1>5, ServerAssumption DEF Drop
  <1>6. CASE Stop \/ DeadlineExit
    BY <1>6 DEF Stop, DeadlineExit
  <1>7. CASE SocketsDrained \/ SweepDrained \/ Unsubscribe \/ ExpiryDrained
    <2>1. CASE SocketsDrained
      <3>1. awaited' \in BOOLEAN
        BY <2>1, Zenon DEF SocketsDrained
      <3> QED
        BY <2>1, <3>1 DEF SocketsDrained
    <2>2. CASE SweepDrained \/ ExpiryDrained
      BY <2>2 DEF SweepDrained, ExpiryDrained
    <2>3. CASE Unsubscribe
      BY <2>3 DEF Unsubscribe
    <2> QED
      BY <1>7, <2>1, <2>2, <2>3
  <1>8. CASE PubsubClosed \/ DatabaseClosed \/ Exit
    <2>1. CASE PubsubClosed
      <3>1. clean' \in BOOLEAN
        BY <2>1 DEF PubsubClosed
      <3>2. /\ drain' = "database" /\ drain = "pubsub"
            /\ UNCHANGED <<bootVars, linkVars, expiryVars, sweepVars, timer, stopping, deadline,
                           code, rerun>>
        BY <2>1 DEF PubsubClosed
      <3> QED
        BY <3>1, <3>2
    <2>2. CASE DatabaseClosed
      <3>1. clean' \in BOOLEAN
        BY <2>2 DEF DatabaseClosed
      <3>2. /\ drain' = "redis" /\ drain = "database"
            /\ UNCHANGED <<bootVars, linkVars, expiryVars, sweepVars, timer, stopping, deadline,
                           code, rerun>>
        BY <2>2 DEF DatabaseClosed
      <3> QED
        BY <3>1, <3>2
    <2>3. CASE Exit
      BY <2>3 DEF Exit
    <2> QED
      BY <1>8, <2>1, <2>2, <2>3
  <1>9. ASSUME NEW e \in Expiries, Expire(e) \/ Handled(e) \/ HandlerFails(e)
        PROVE  ServerTypeOK'
    BY <1>9 DEF Expire, Handled, HandlerFails
  <1> QED
    BY <1>1, <1>2, <1>3, <1>4, <1>5, <1>6, <1>7, <1>8, <1>9 DEF Next, Draining

\* The drain goes in its order.
LEMMA DrainStep ==
  ASSUME ServerInv, Next
  PROVE  DrainGood'
  <1> USE ServerAssumption DEF bootVars, linkVars, expiryVars, sweepVars, stopVars, serverVars, Set
  <1> ServerTypeOK /\ DrainGood
    BY DEF ServerInv
  <1>0. Idle /\ ~(boot = "up" /\ drain = "no") => Idle'
    BY SocketsPart
  <1> USE <1>0 DEF DrainGood, ServerTypeOK, Alive, DbOpen
  <1>1. CASE SocketStep
    BY <1>1 DEF SocketStep
  <1>2. CASE Booting \/ ListenFails
    BY <1>2 DEF Booting, Configure, Listen, ListenFails
  <1>3. CASE Sweeping \/ SweepFails
    BY <1>3 DEF Sweeping, SweepReads, SweepEnds, SweepFails
  <1>4. CASE Tick \/ Resubscribed
    BY <1>4 DEF Tick, Begin, Resubscribed
  <1>5. CASE Reconnect \/ Drop
    <2>1. CASE Drop
      BY <2>1 DEF Drop
    <2>2. CASE Reconnect
      <3>1. rerun' \in BOOLEAN
        BY <2>2, Zenon DEF Reconnect
      <3>2. rerun => rerun'
        BY <2>2 DEF Reconnect
      <3>3. running' = running \/ (running = "none" /\ (drain \in {"sweep", "expiry"} => rerun'))
        BY <2>2 DEF Reconnect, Begin
      <3>4. drain \in {"pubsub", "database", "redis"} => FALSE
        BY <2>2 DEF Reconnect
      <3>5. UNCHANGED <<boot, drain, stopping, deadline, timer, awaited, handlers, code>>
        BY <2>2 DEF Reconnect
      <3>6. drain' # "exited"
        BY <2>2 DEF Reconnect
      <3> QED
        BY <3>2, <3>3, <3>4, <3>5, <3>6
    <2> QED
      BY <1>5, <2>1, <2>2
  <1>6. CASE Stop \/ DeadlineExit
    BY <1>6 DEF Stop, DeadlineExit
  <1>7. CASE SocketsDrained
    BY <1>7 DEF SocketsDrained, Idle
  <1>8. CASE SweepDrained \/ Unsubscribe \/ ExpiryDrained
    BY <1>8 DEF SweepDrained, Unsubscribe, ExpiryDrained
  <1>9. CASE PubsubClosed \/ DatabaseClosed \/ Exit
    BY <1>9 DEF PubsubClosed, DatabaseClosed, Exit
  <1>10. ASSUME NEW e \in Expiries, Expire(e) \/ Handled(e) \/ HandlerFails(e)
         PROVE  DrainGood'
    BY <1>10 DEF Expire, Handled, HandlerFails
  <1> QED
    BY <1>1, <1>2, <1>3, <1>4, <1>5, <1>6, <1>7, <1>8, <1>9, <1>10 DEF Next, Draining

LEMMA ServerStutter ==
  ASSUME ServerInv, UNCHANGED vars
  PROVE  ServerInv'
  <1>1. SocketsInv'
    BY SocketsStutter DEF ServerInv, vars
  <1>2. ServerTypeOK' /\ DrainGood'
    BY <1>1 DEF ServerInv, SocketsInv, vars, serverVars, bootVars, linkVars, expiryVars, sweepVars,
       stopVars, socketVars, sessions, ServerTypeOK, DrainGood, Idle, Live
  <1> QED
    BY <1>1, <1>2 DEF ServerInv

\* A process keeps the invariant.
LEMMA ServerInvariance == Spec => []ServerInv
  <1>1. ServerInv /\ [Next]_vars => ServerInv'
    BY SocketsPart, ServerTypes, DrainStep, ServerStutter DEF ServerInv
  <1> QED
    BY <1>1, ServerInit, PTL DEF Spec

-----------------------------------------------------------------------------
\* Types of the whole process; a server that listens has its interval.
THEOREM ServerTypeCorrect == Spec => []ServerTypeOK
  <1>1. ServerInv => ServerTypeOK
    BY DEF ServerInv
  <1> QED
    BY <1>1, ServerInvariance, PTL

\* closeDatabase finds nobody left who needs the database (buildShutdown, the
\* onClose hooks), but a sweep that a reconnect began while stopping.
THEOREM DrainedBeforeDatabaseHolds == Spec => []DrainedBeforeDatabase
  <1>1. ServerInv => DrainedBeforeDatabase
    BY DEF ServerInv, DrainGood, DrainedBeforeDatabase, Idle
  <1> QED
    BY <1>1, ServerInvariance, PTL

\* A process that exits with 0 leaves none of its sockets' Players active and no
\* cursor of theirs shown, if no call failed on the way (faults = 0).  It speaks of
\* what sockets write: a join or a create sets isActive without one.
THEOREM CleanExitHolds == Spec => []CleanExit
  <1>1. ServerInv => CleanExit
    BY DEF ServerInv, DrainGood, SocketsInv, TypeOK, SeenGood, CleanExit, Idle, Live, Shown
  <1> QED
    BY <1>1, ServerInvariance, PTL

\* The sockets of a process that boots, stops and drains keep what they keep on
\* their own (DeliveryHolds and its neighbours): SocketSessions.close and
\* Pubsub.close break none of it.
THEOREM SocketsOfServer ==
  Spec => [](Delivery /\ NobodyLeftBehind /\ PresenceFollowsSockets /\ NothingLeaks)
  <1>1. ServerInv => Delivery /\ NobodyLeftBehind /\ PresenceFollowsSockets /\ NothingLeaks
    BY InvDelivers, InvLeavesNobody, InvLeaksNothing DEF ServerInv, SocketsInv
  <1> QED
    BY <1>1, ServerInvariance, PTL

=============================================================================
