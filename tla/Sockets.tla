------------------------------ MODULE Sockets ------------------------------
(***************************************************************************)
(* The WebSockets of one server instance, and what their opening and        *)
(* closing does: the shared Redis subscriptions they hear events through    *)
(* (Pubsub), the presence of their Players (a Player's own socket), and     *)
(* the cursor they show in a Room (a Room's socket).                        *)
(*                                                                         *)
(* Opening and closing are asynchronous and a socket may close while it is  *)
(* opening.  Between two awaits the process does one thing at a time; the   *)
(* continuations of one promise run together, before anything else.         *)
(***************************************************************************)
EXTENDS Naturals, Sequences

CONSTANTS
  SocketIds,   \* the sockets that may be opened
  Players, Rooms,
  None,        \* undefined
  MaxFaults    \* bound: Redis and database calls that fail

ASSUME SocketsAssumption ==
  /\ Players \cap Rooms = {}
  /\ None \notin SocketIds \cup Players \cup Rooms
  /\ MaxFaults \in Nat

VARIABLES
  owner,       \* whose session cookie the upgrade carried
  channel,     \* the channel a socket listens on: its owner, or a Room
  conn,        \* its connection: readyState
  pc,          \* where its SocketSession is
  sub,         \* the ChannelSubscription it holds or waits for
  presence,    \* presenceStarted
  isSeated, isShown,  \* of its CursorInbox
  channels,    \* Pubsub's map: the subscription of each channel
  receivers,   \* of each subscription; it is named by the socket that opened it
  ready,       \* its promise
  wire,        \* commands sent to Redis, in order, and not yet answered
  subscribed,  \* the channels Redis delivers to this instance
  active,      \* Players with isActive
  seated,      \* per Room, the Players with a seat
  cursors,     \* per Room, the Players whose cursor is shown
  faults,      \* calls that failed
  orderly      \* history: per Player, no two of their sockets met

sessions == <<owner, channel, conn, pc, sub, presence>>
inbox    == <<isSeated, isShown>>
pubsub   == <<channels, receivers, ready, wire, subscribed>>
rows     == <<active, seated, cursors>>
socketVars == <<sessions, inbox, pubsub, rows, faults, orderly>>

Channels   == Players \cup Rooms
IsUser(s)  == channel[s] \in Players
At(s, where) == pc[s] = where
Go(s, where) == pc' = [pc EXCEPT ![s] = where]
Set(f, x, v) == [f EXCEPT ![x] = v]
FailOnce     == faults < MaxFaults /\ faults' = faults + 1

\* A session exists: its socket was opened and its cleanup is not complete.
Live(s) == pc[s] \notin {"new", "done"}

-----------------------------------------------------------------------------
\* The readyState check the wrong way round.
ResolvedMutant(S) ==
  /\ pc' = [s \in SocketIds |->
              IF s \notin S THEN pc[s]
              ELSE IF conn[s] = "open" THEN "opened" ELSE "connecting"]
  /\ presence' = [s \in SocketIds |->
                    IF s \in S THEN conn[s] # "open" ELSE presence[s]]

\* subscribe has resolved for the sockets in S: a socket that is still open
\* goes on to connected(), one that is not has nothing more to open.
Resolved(S) ==
  /\ pc' = [s \in SocketIds |->
              IF s \notin S THEN pc[s]
              ELSE IF conn[s] = "open" THEN "connecting" ELSE "opened"]
  /\ presence' = [s \in SocketIds |->
                    IF s \in S THEN conn[s] = "open" ELSE presence[s]]

\* The upgrade of an authenticated request opens the session: subscribe finds
\* the channel ready, finds it on its way, or opens it.
Upgrade(s, p, c) ==
  LET o == channels[c] IN
  /\ At(s, "new")
  /\ c \in Players => c = p
  /\ owner' = Set(owner, s, p) /\ channel' = Set(channel, s, c)
  /\ conn' = Set(conn, s, "open")
  /\ orderly' = [orderly EXCEPT ![p] = @ /\
                   ~\E t \in SocketIds : Live(t) /\ channel[t] = c /\ owner[t] = p]
  /\ \/ /\ o # None /\ ready[o] = "ok"
        /\ sub' = Set(sub, s, o)
        /\ receivers' = [receivers EXCEPT ![o] = @ \cup {s}]
        /\ Go(s, "connecting") /\ presence' = Set(presence, s, TRUE)
        /\ UNCHANGED <<channels, ready, wire>>
     \/ /\ o # None /\ ready[o] = "pending"
        /\ sub' = Set(sub, s, o)
        /\ Go(s, "subscribing")
        /\ UNCHANGED <<presence, channels, receivers, ready, wire>>
     \/ /\ o = None
        /\ sub' = Set(sub, s, s)
        /\ channels' = Set(channels, c, s) /\ ready' = Set(ready, s, "pending")
        /\ wire' = Append(wire, [op |-> "SUBSCRIBE", channel |-> c, by |-> s])
        /\ Go(s, "subscribing")
        /\ UNCHANGED <<presence, receivers>>
  /\ UNCHANGED <<inbox, subscribed, rows, faults>>

Waiting(o) == {s \in SocketIds : At(s, "subscribing") /\ sub[s] = o}

\* A socket that closed meanwhile keeps no cleanup.
SubscribedMutant ==
  /\ wire # <<>> /\ Head(wire).op = "SUBSCRIBE"
  /\ LET o == Head(wire).by IN
     /\ wire' = Tail(wire)
     /\ subscribed' = subscribed \cup {Head(wire).channel}
     /\ ready' = Set(ready, o, "ok")
     /\ receivers' = [receivers EXCEPT ![o] = @ \cup Waiting(o)]
     /\ sub' = [s \in SocketIds |->
                  IF s \in Waiting(o) /\ conn[s] # "open" THEN None ELSE sub[s]]
     /\ Resolved(Waiting(o))
  /\ UNCHANGED <<owner, channel, conn, inbox, channels, rows, faults, orderly>>

\* Redis answers a SUBSCRIBE: every socket that waited is a receiver now.
Subscribed ==
  /\ wire # <<>> /\ Head(wire).op = "SUBSCRIBE"
  /\ LET o == Head(wire).by IN
     /\ wire' = Tail(wire)
     /\ subscribed' = subscribed \cup {Head(wire).channel}
     /\ ready' = Set(ready, o, "ok")
     /\ receivers' = [receivers EXCEPT ![o] = @ \cup Waiting(o)]
     /\ Resolved(Waiting(o))
  /\ UNCHANGED <<owner, channel, conn, sub, inbox, channels, rows, faults, orderly>>

\* The SUBSCRIBE fails: the channel is forgotten, and the sockets that waited
\* are closed.
SubscribeFails ==
  /\ wire # <<>> /\ Head(wire).op = "SUBSCRIBE"
  /\ FailOnce
  /\ LET o == Head(wire).by
         S == Waiting(o)
     IN
     /\ wire' = Tail(wire)
     /\ channels' = Set(channels, Head(wire).channel, None)
     /\ ready' = Set(ready, o, "failed")
     /\ pc' = [s \in SocketIds |-> IF s \in S THEN "opened" ELSE pc[s]]
     /\ sub' = [s \in SocketIds |-> IF s \in S THEN None ELSE sub[s]]
     /\ conn' = [s \in SocketIds |->
                   IF s \in S /\ conn[s] = "open" THEN "closing" ELSE conn[s]]
  /\ UNCHANGED <<owner, channel, presence, inbox, receivers, subscribed, rows, orderly>>

\* connected(): broadcastPresence(true), or whether the Player sits in the Room.
\* `active` is what the sockets write of isActive: a join or a create sets it
\* with no socket (RoomMembership), and a broadcast reaches the Rooms it read.
Connected(s) ==
  /\ At(s, "connecting")
  /\ Go(s, "opened")
  /\ \/ /\ IsUser(s)
        /\ active' = active \cup {owner[s]}
        /\ UNCHANGED isSeated
     \/ /\ ~IsUser(s)
        /\ isSeated' = Set(isSeated, s, owner[s] \in seated[channel[s]])
        /\ UNCHANGED active
  /\ UNCHANGED <<owner, channel, conn, sub, presence, isShown, pubsub,
                 seated, cursors, faults, orderly>>

ConnectedFails(s) ==
  /\ At(s, "connecting")
  /\ FailOnce
  /\ Go(s, "opened")
  /\ conn' = Set(conn, s, IF conn[s] = "open" THEN "closing" ELSE conn[s])
  /\ UNCHANGED <<owner, channel, sub, presence, inbox, pubsub, rows, orderly>>

-----------------------------------------------------------------------------
\* The socket closes, whoever began it.
Close(s) ==
  /\ conn[s] \in {"open", "closing"}
  /\ conn' = Set(conn, s, "closed")
  /\ UNCHANGED <<owner, channel, pc, sub, presence, inbox, pubsub, rows, faults, orderly>>

\* The channel goes although other sockets still receive from it.
ReleaseMutant(s) ==
  LET o == sub[s] IN
  /\ conn[s] = "closed" /\ At(s, "opened")
  /\ \/ /\ o # None
        /\ receivers' = [receivers EXCEPT ![o] = @ \ {s}]
        /\ channels[channel[s]] = o
        /\ channels' = Set(channels, channel[s], None)
        /\ wire' = Append(wire, [op |-> "UNSUBSCRIBE", channel |-> channel[s], by |-> s])
        /\ Go(s, "releasing")
     \/ /\ o = None \/ channels[channel[s]] # o
        /\ Go(s, "leaving")
        /\ UNCHANGED <<receivers, channels, wire>>
  /\ UNCHANGED <<owner, channel, conn, sub, presence, inbox, ready, subscribed,
                 rows, faults, orderly>>

\* The close handler, once opening is done: release drops the receiver, and the
\* last one drops the channel, unless the map has moved on.
Release(s) ==
  LET o == sub[s]
      rest == receivers[o] \ {s}
      drops == o # None /\ rest = {} /\ channels[channel[s]] = o
  IN
  /\ conn[s] = "closed" /\ At(s, "opened")
  /\ receivers' = IF o = None THEN receivers ELSE Set(receivers, o, rest)
  /\ \/ /\ drops
        /\ channels' = Set(channels, channel[s], None)
        /\ wire' = Append(wire, [op |-> "UNSUBSCRIBE", channel |-> channel[s], by |-> s])
        /\ Go(s, "releasing")
     \/ ~drops /\ Go(s, "leaving") /\ UNCHANGED <<channels, wire>>
  /\ UNCHANGED <<owner, channel, conn, sub, presence, inbox, ready, subscribed,
                 rows, faults, orderly>>

\* Redis answers, or the UNSUBSCRIBE fails and is logged: the close goes on.
UnsubscribeFails ==
  /\ wire # <<>> /\ Head(wire).op = "UNSUBSCRIBE"
  /\ FailOnce
  /\ wire' = Tail(wire)
  /\ Go(Head(wire).by, "leaving")
  /\ UNCHANGED <<owner, channel, conn, sub, presence, inbox, channels, receivers,
                 ready, subscribed, rows, orderly>>

Unsubscribed ==
  /\ wire # <<>> /\ Head(wire).op = "UNSUBSCRIBE"
  /\ wire' = Tail(wire)
  /\ subscribed' = subscribed \ {Head(wire).channel}
  /\ Go(Head(wire).by, "leaving")
  /\ UNCHANGED <<owner, channel, conn, sub, presence, inbox, channels, receivers,
                 ready, rows, faults, orderly>>

\* The Player goes inactive only with their last socket.
LeavingMutant(s) ==
  /\ At(s, "leaving")
  /\ Go(s, "done")
  /\ LET last == ~\E t \in SocketIds \ {s} : Live(t) /\ channel[t] = channel[s] IN
     active' = IF presence[s] /\ IsUser(s) /\ last THEN active \ {owner[s]} ELSE active
  /\ cursors' = IF presence[s] /\ isShown[s]
                THEN [cursors EXCEPT ![channel[s]] = @ \ {owner[s]}] ELSE cursors
  /\ isShown' = Set(isShown, s, FALSE)
  /\ UNCHANGED <<owner, channel, conn, sub, presence, isSeated, pubsub, seated,
                 faults, orderly>>

\* disconnected(), if connected() was called: broadcastPresence(false), or the
\* cursor is taken off the table.  The session is complete.
Leaving(s) ==
  /\ At(s, "leaving")
  /\ Go(s, "done")
  /\ active' = IF presence[s] /\ IsUser(s) THEN active \ {owner[s]} ELSE active
  /\ cursors' = IF presence[s] /\ isShown[s]
                THEN [cursors EXCEPT ![channel[s]] = @ \ {owner[s]}] ELSE cursors
  /\ isShown' = Set(isShown, s, FALSE)
  /\ UNCHANGED <<owner, channel, conn, sub, presence, isSeated, pubsub, seated,
                 faults, orderly>>

LeavingFails(s) ==
  /\ At(s, "leaving")
  /\ FailOnce
  /\ Go(s, "done")
  /\ UNCHANGED <<owner, channel, conn, sub, presence, inbox, pubsub, rows, orderly>>

-----------------------------------------------------------------------------
\* CursorInbox.receive, for a move (one that comes too soon is dropped) and for
\* a hide.  Messages come in until the socket has closed, and none follows.
Move(s) ==
  /\ conn[s] \in {"open", "closing"} /\ isSeated[s]
  /\ isShown' = Set(isShown, s, TRUE)
  /\ cursors' = [cursors EXCEPT ![channel[s]] = @ \cup {owner[s]}]
  /\ UNCHANGED <<sessions, isSeated, pubsub, active, seated, faults, orderly>>

Hide(s) ==
  /\ conn[s] \in {"open", "closing"} /\ isShown[s]
  /\ isShown' = Set(isShown, s, FALSE)
  /\ cursors' = [cursors EXCEPT ![channel[s]] = @ \ {owner[s]}]
  /\ UNCHANGED <<sessions, isSeated, pubsub, active, seated, faults, orderly>>

-----------------------------------------------------------------------------
SocketsInit ==
  /\ owner = [s \in SocketIds |-> None] /\ channel = [s \in SocketIds |-> None]
  /\ conn = [s \in SocketIds |-> "none"] /\ pc = [s \in SocketIds |-> "new"]
  /\ sub = [s \in SocketIds |-> None]
  /\ presence = [s \in SocketIds |-> FALSE]
  /\ isSeated = [s \in SocketIds |-> FALSE] /\ isShown = [s \in SocketIds |-> FALSE]
  /\ channels = [c \in Channels |-> None]
  /\ receivers = [s \in SocketIds |-> {}]
  /\ ready = [s \in SocketIds |-> "none"]
  /\ wire = <<>> /\ subscribed = {}
  /\ active = {} /\ cursors = [r \in Rooms |-> {}]
  /\ seated \in [Rooms -> SUBSET Players]
  /\ faults = 0
  /\ orderly = [p \in Players |-> TRUE]

Opens == \E s \in SocketIds, p \in Players, c \in Channels : Upgrade(s, p, c)

\* What goes on once sockets are open.
SocketsRun ==
  \/ Subscribed \/ SubscribeFails \/ Unsubscribed \/ UnsubscribeFails
  \/ \E s \in SocketIds :
       \/ Connected(s) \/ ConnectedFails(s)
       \/ Close(s) \/ Release(s) \/ Leaving(s) \/ LeavingFails(s)
       \/ Move(s) \/ Hide(s)

SocketsNext == Opens \/ SocketsRun

SocketsSpec == SocketsInit /\ [][SocketsNext]_socketVars

-----------------------------------------------------------------------------
Command == [op : {"SUBSCRIBE", "UNSUBSCRIBE"}, channel : Channels, by : SocketIds]

\* Types; and the map never keeps a subscription that failed, for the next
\* socket of the channel to wait on.
TypeOK ==
  /\ owner \in [SocketIds -> Players \cup {None}]
  /\ channel \in [SocketIds -> Channels \cup {None}]
  /\ conn \in [SocketIds -> {"none", "open", "closing", "closed"}]
  /\ pc \in [SocketIds -> {"new", "subscribing", "connecting", "opened",
                           "releasing", "leaving", "done"}]
  /\ sub \in [SocketIds -> SocketIds \cup {None}]
  /\ presence \in [SocketIds -> BOOLEAN]
  /\ isSeated \in [SocketIds -> BOOLEAN] /\ isShown \in [SocketIds -> BOOLEAN]
  /\ channels \in [Channels -> SocketIds \cup {None}]
  /\ receivers \in [SocketIds -> SUBSET SocketIds]
  /\ ready \in [SocketIds -> {"none", "pending", "ok", "failed"}]
  /\ wire \in Seq(Command)
  /\ subscribed \subseteq Channels
  /\ active \subseteq Players
  /\ seated \in [Rooms -> SUBSET Players] /\ cursors \in [Rooms -> SUBSET Players]
  /\ \A c \in Channels : channels[c] # None => ready[channels[c]] \in {"pending", "ok"}
  /\ faults \in 0..MaxFaults
  /\ orderly \in [Players -> BOOLEAN]

\* Whether Redis will deliver c once it has answered everything sent so far.
WillHear(c) ==
  \/ c \in subscribed /\ \A i \in DOMAIN wire : wire[i].channel # c
  \/ \E i \in DOMAIN wire :
       /\ wire[i].channel = c /\ wire[i].op = "SUBSCRIBE"
       /\ \A j \in (i + 1)..Len(wire) : wire[j].channel # c

Attached(s) == conn[s] = "open" /\ pc[s] \in {"connecting", "opened"} /\ sub[s] # None

\* A socket that is open and subscribed hears its channel: it receives from the
\* subscription the map holds, and Redis delivers the channel or will, however
\* the releases and SUBSCRIBEs of its neighbours interleave.
Delivery ==
  \A s \in SocketIds : Attached(s) =>
    /\ channels[channel[s]] = sub[s]
    /\ s \in receivers[sub[s]]
    /\ WillHear(channel[s])

\* Of what sockets write: a Player with no socket left is not active, and one with
\* no socket in a Room shows no cursor there, whatever the order in which their
\* sockets opened and closed, and however far the opening had come, as long as no
\* call to Redis or the database failed (faults = 0).  That a join or a create
\* sets isActive without a socket is outside this module.
NobodyLeftBehind ==
  faults = 0 =>
    \A p \in Players :
      /\ (~\E s \in SocketIds : Live(s) /\ channel[s] = p) => p \notin active
      /\ \A r \in Rooms :
           (~\E s \in SocketIds : Live(s) /\ channel[s] = r /\ owner[s] = p)
             => p \notin cursors[r]

\* A Player whose socket is open is active, if no two of their sockets ever met.
\* (If two did, the close of the old one is handled after the new one opened,
\* and leaves a connected Player inactive.)
PresenceFollowsSockets ==
  \A s \in SocketIds :
    (/\ At(s, "opened") /\ conn[s] = "open" /\ IsUser(s)
     /\ faults = 0 /\ orderly[owner[s]]) => owner[s] \in active

\* A channel no session is left on is neither in the map nor subscribed, also
\* when its sockets closed before they were subscribed.
NothingLeaks ==
  \A c \in Channels :
    (faults = 0 /\ ~\E s \in SocketIds : Live(s) /\ channel[s] = c)
      => channels[c] = None /\ c \notin subscribed

=============================================================================
