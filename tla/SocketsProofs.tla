---------------------------- MODULE SocketsProofs ----------------------------
(***************************************************************************)
(* What the sockets of an instance keep, whatever the number of sockets,    *)
(* Players and Rooms, and whatever fails and how often.                     *)
(***************************************************************************)
EXTENDS Sockets, SequenceTheorems, TLAPS

Opening == {"subscribing", "connecting", "opened"}
Shut    == {"releasing", "leaving", "done"}
Shown   == {"opened", "releasing", "leaving"}

\* A session, at each step of its SocketSession.
SessionGood(s) ==
  /\ At(s, "new") =>
       /\ owner[s] = None /\ channel[s] = None /\ conn[s] = "none" /\ sub[s] = None
       /\ ~presence[s]
  /\ ~At(s, "new") =>
       /\ owner[s] \in Players /\ channel[s] \in Channels /\ conn[s] # "none"
       /\ channel[s] \in Players => channel[s] = owner[s]
  /\ pc[s] \in Shut => conn[s] = "closed"
  /\ At(s, "subscribing") => ~presence[s]
  /\ At(s, "connecting") => presence[s]
  /\ isShown[s] => isSeated[s]
  /\ isSeated[s] => presence[s] /\ channel[s] \in Rooms /\ pc[s] \in Shown \cup {"done"}

\* The subscription a session waits for or holds.
SubGood(s) ==
  /\ pc[s] \in {"subscribing", "connecting"} => sub[s] # None
  /\ sub[s] # None =>
       /\ channel[sub[s]] = channel[s]
       /\ ready[sub[s]] = IF At(s, "subscribing") THEN "pending" ELSE "ok"
       /\ pc[s] \in Opening => channels[channel[s]] = sub[s]
  /\ ready[s] # "none" => ~At(s, "new")
  /\ receivers[s] = {t \in SocketIds : sub[t] = s /\ pc[t] \in {"connecting", "opened"}}

\* The map: a subscription in it is of its channel, and somebody holds it.
MapGood(c) ==
  LET o == channels[c] IN
  o # None =>
    /\ ready[o] \in {"pending", "ok"} /\ channel[o] = c
    /\ \E s \in SocketIds : sub[s] = o /\ pc[s] \in Opening

\* A command on the wire: its sender waits for the answer.
CommandGood(m) ==
  /\ m.channel = channel[m.by]
  /\ m.op = "SUBSCRIBE" => At(m.by, "subscribing") /\ sub[m.by] = m.by
  /\ m.op = "UNSUBSCRIBE" => At(m.by, "releasing")

WireGood ==
  /\ \A i \in DOMAIN wire : CommandGood(wire[i])
  /\ \A i, j \in DOMAIN wire : wire[i].by = wire[j].by => i = j

\* The map agrees with what Redis delivers once it has answered.
HeardGood(c) ==
  /\ channels[c] # None => WillHear(c)
  /\ faults = 0 /\ WillHear(c) => channels[c] # None

\* Who is active and who shows a cursor has a socket that will undo it.
SeenGood(p) ==
  faults = 0 =>
    /\ p \in active =>
         \E s \in SocketIds : presence[s] /\ channel[s] = p /\ pc[s] \in Shown
    /\ \A r \in Rooms : p \in cursors[r] =>
         \E s \in SocketIds : /\ presence[s] /\ isShown[s] /\ channel[s] = r
                              /\ owner[s] = p /\ pc[s] \in Shown

\* A Player whose sockets never met has one socket per channel.
AloneGood ==
  \A s, t \in SocketIds :
    (Live(s) /\ Live(t) /\ owner[s] = owner[t] /\ channel[s] = channel[t]
       /\ orderly[owner[s]]) => s = t

SocketsInv ==
  /\ TypeOK
  /\ \A s \in SocketIds : SessionGood(s) /\ SubGood(s)
  /\ \A c \in Channels : MapGood(c) /\ HeardGood(c)
  /\ WireGood
  /\ \A p \in Players : SeenGood(p)
  /\ AloneGood
  /\ PresenceFollowsSockets


-----------------------------------------------------------------------------
\* The command Redis answers is the first one, and the others move up.
LEMMA HeadOfWire ==
  ASSUME TypeOK, wire # <<>>
  PROVE  /\ 1 \in DOMAIN wire /\ Head(wire) = wire[1] /\ Head(wire) \in Command
         /\ Tail(wire) \in Seq(Command) /\ Len(Tail(wire)) = Len(wire) - 1
         /\ Len(wire) \in Nat \ {0}
         /\ DOMAIN wire = 1..Len(wire) /\ DOMAIN Tail(wire) = 1..(Len(wire) - 1)
         /\ \A i \in 1..(Len(wire) - 1) : Tail(wire)[i] = wire[i + 1]
  <1> wire \in Seq(Command)
    BY DEF TypeOK, Command
  <1>1. Len(wire) \in Nat \ {0} /\ DOMAIN wire = 1..Len(wire) /\ Head(wire) = wire[1]
    OBVIOUS
  <1>2. wire[1] \in Command
    BY <1>1, ElementOfSeq
  <1>3. /\ Tail(wire) \in Seq(Command) /\ Len(Tail(wire)) = Len(wire) - 1
        /\ \A i \in 1..(Len(wire) - 1) : Tail(wire)[i] = wire[i + 1]
    BY <1>1, HeadTailProperties
  <1> QED
    BY <1>1, <1>2, <1>3

\* A command is sent behind the others.
LEMMA LastOfWire ==
  ASSUME TypeOK, NEW m \in Command
  PROVE  /\ Append(wire, m) \in Seq(Command) /\ Len(Append(wire, m)) = Len(wire) + 1
         /\ Len(wire) \in Nat
         /\ DOMAIN wire = 1..Len(wire) /\ DOMAIN Append(wire, m) = 1..(Len(wire) + 1)
         /\ \A i \in 1..Len(wire) : Append(wire, m)[i] = wire[i]
         /\ Append(wire, m)[Len(wire) + 1] = m
  <1> wire \in Seq(Command)
    BY DEF TypeOK, Command
  <1> QED
    BY AppendProperties

\* Types of the wire.
LEMMA WireTypes ==
  ASSUME SocketsInv, SocketsNext
  PROVE  wire' \in Seq(Command)
  <1> TypeOK
    BY DEF SocketsInv
  <1>1. wire \in Seq(Command)
    BY DEF TypeOK
  <1>2. CASE wire' = wire
    BY <1>1, <1>2
  <1>3. CASE wire # <<>> /\ wire' = Tail(wire)
    BY <1>3, HeadOfWire
  <1>4. ASSUME NEW s \in SocketIds, NEW p \in Players, NEW c \in Channels, Upgrade(s, p, c)
        PROVE  wire' \in Seq(Command)
    <2>1. CASE wire' # wire
      <3> DEFINE m == [op |-> "SUBSCRIBE", channel |-> c, by |-> s]
      <3>1. m \in Command
        BY DEF Command
      <3> QED
        BY <1>4, <2>1, <3>1, LastOfWire DEF Upgrade
    <2> QED
      BY <1>2, <2>1
  <1>5. ASSUME NEW s \in SocketIds, Release(s)
        PROVE  wire' \in Seq(Command)
    <2>1. CASE wire' # wire
      <3> DEFINE m == [op |-> "UNSUBSCRIBE", channel |-> channel[s], by |-> s]
      <3>1. m \in Command
        BY <1>5 DEF Release, At, Command, SocketsInv, SessionGood
      <3> QED
        BY <1>5, <2>1, <3>1, LastOfWire DEF Release
    <2> QED
      BY <1>2, <2>1
  <1> QED
    BY <1>2, <1>3, <1>4, <1>5 DEF SocketsNext, SocketsRun, Opens, Subscribed, SubscribeFails,
       Unsubscribed, UnsubscribeFails, Connected, ConnectedFails, Close, Leaving, LeavingFails,
       Move, Hide, pubsub

\* Types.
LEMMA Types ==
  ASSUME SocketsInv, SocketsNext
  PROVE  TypeOK'
  <1> USE SocketsAssumption DEF At, Go, Set, FailOnce
  <1> TypeOK
    BY DEF SocketsInv
  <1>0. wire' \in Seq(Command)
    BY WireTypes
  <1>1. ASSUME NEW s \in SocketIds, NEW p \in Players, NEW c \in Channels, Upgrade(s, p, c)
        PROVE  TypeOK'
    <2>1. \A d \in Channels : channels[d] # s
      BY <1>1 DEF SocketsInv, MapGood, Upgrade, SessionGood, Channels
    <2> QED
      <3>1. UNCHANGED <<inbox, subscribed, rows, faults>>
        BY <1>1 DEF Upgrade
      <3>2. /\ owner' \in [SocketIds -> Players \cup {None}]
            /\ channel' \in [SocketIds -> Channels \cup {None}]
            /\ conn' \in [SocketIds -> {"none", "open", "closing", "closed"}]
            /\ orderly' \in [Players -> BOOLEAN]
        BY <1>1 DEF TypeOK, Upgrade
      <3>3. pc' = [pc EXCEPT ![s] = "connecting"] \/ pc' = [pc EXCEPT ![s] = "subscribing"]
        BY <1>1 DEF Upgrade
      <3>4. /\ presence' \in [SocketIds -> BOOLEAN]
            /\ sub' \in [SocketIds -> SocketIds \cup {None}]
        <4>1. presence' = presence \/ presence' = [presence EXCEPT ![s] = TRUE]
          BY <1>1 DEF Upgrade
        <4>2. \E o \in SocketIds : sub' = [sub EXCEPT ![s] = o]
          BY <1>1 DEF TypeOK, Upgrade
        <4>3. presence' \in [SocketIds -> BOOLEAN]
          BY <4>1 DEF TypeOK
        <4>4. sub' \in [SocketIds -> SocketIds \cup {None}]
          BY <4>2 DEF TypeOK
        <4> QED
          BY <4>3, <4>4
      <3>5. receivers' \in [SocketIds -> SUBSET SocketIds]
        BY <1>1 DEF TypeOK, Upgrade
      <3>6. pc' \in [SocketIds -> {"new", "subscribing", "connecting", "opened",
                                  "releasing", "leaving", "done"}]
        BY <3>3 DEF TypeOK
      <3>7. \/ channels' = channels /\ ready' = ready
            \/ /\ channels' = [channels EXCEPT ![c] = s]
               /\ ready' = [ready EXCEPT ![s] = "pending"]
        BY <1>1 DEF Upgrade
      <3>8. /\ channels' \in [Channels -> SocketIds \cup {None}]
            /\ ready' \in [SocketIds -> {"none", "pending", "ok", "failed"}]
            /\ \A d \in Channels : channels'[d] # None => ready'[channels'[d]] \in {"pending", "ok"}
        <4>1. CASE channels' = channels /\ ready' = ready
          BY <4>1 DEF TypeOK
        <4>2. CASE /\ channels' = [channels EXCEPT ![c] = s]
                   /\ ready' = [ready EXCEPT ![s] = "pending"]
          <5>1. /\ channels' \in [Channels -> SocketIds \cup {None}]
                /\ ready' \in [SocketIds -> {"none", "pending", "ok", "failed"}]
            BY <4>2 DEF TypeOK
          <5>2. ASSUME NEW d \in Channels, channels'[d] # None
                PROVE  ready'[channels'[d]] \in {"pending", "ok"}
            <6>1. CASE d = c
              BY <4>2, <6>1 DEF TypeOK
            <6>2. CASE d # c
              <7>1. channels'[d] = channels[d] /\ channels[d] \in SocketIds /\ channels[d] # s
                BY <2>1, <4>2, <5>2, <6>2 DEF TypeOK
              <7> QED
                BY <4>2, <5>2, <7>1 DEF TypeOK
            <6> QED
              BY <6>1, <6>2
          <5> QED
            BY <5>1, <5>2
        <4> QED
          BY <3>7, <4>1, <4>2
      <3> QED
        BY <1>0, <3>1, <3>2, <3>4, <3>5, <3>6, <3>8 DEF TypeOK, inbox, rows
  <1>2. CASE wire # <<>> /\ (Subscribed \/ SubscribeFails \/ Unsubscribed \/ UnsubscribeFails)
    <2> DEFINE o == Head(wire).by
               c == Head(wire).channel
    <2>1. o \in SocketIds /\ c \in Channels
      BY <1>2, HeadOfWire DEF Command
    <2>2. Head(wire).op = "SUBSCRIBE" => \A d \in Channels : channels[d] = o => d = c
      <3>1. CommandGood(Head(wire))
        BY <1>2, HeadOfWire DEF SocketsInv, WireGood
      <3>2. o # None
        BY <2>1
      <3> QED
        BY <3>1, <3>2 DEF SocketsInv, MapGood, CommandGood
    <2> HIDE DEF o, c
    <2>3. CASE Subscribed
      <3> USE DEF Subscribed, Resolved
      <3> QED
        <4>1. /\ pc' \in [SocketIds -> {"new", "subscribing", "connecting", "opened",
                                       "releasing", "leaving", "done"}]
              /\ presence' \in [SocketIds -> BOOLEAN]
          BY <2>3 DEF TypeOK
        <4>2. receivers' \in [SocketIds -> SUBSET SocketIds]
          BY <2>1, <2>3 DEF TypeOK, Waiting, o
        <4>3. /\ ready' \in [SocketIds -> {"none", "pending", "ok", "failed"}]
              /\ \A d \in SocketIds : ready'[d] = ready[d] \/ ready'[d] = "ok"
              /\ subscribed' \subseteq Channels
          BY <2>1, <2>3 DEF TypeOK, o, c
        <4>4. UNCHANGED <<owner, channel, conn, sub, inbox, channels, rows, faults, orderly>>
          BY <2>3
        <4> QED
          BY <1>0, <4>1, <4>2, <4>3, <4>4 DEF TypeOK, inbox, rows
    <2>4. CASE SubscribeFails
      BY <1>0, <2>1, <2>2, <2>4 DEF TypeOK, SubscribeFails, inbox, rows, o, c
    <2>5. CASE Unsubscribed \/ UnsubscribeFails
      BY <1>0, <2>1, <2>5 DEF TypeOK, Unsubscribed, UnsubscribeFails, inbox, rows, o, c
    <2> QED
      BY <1>2, <2>3, <2>4, <2>5
  <1>5. ASSUME NEW s \in SocketIds, Release(s)
        PROVE  TypeOK'
    <2>1. sub[s] # None => channel[s] \in Channels
      BY <1>5 DEF SocketsInv, SessionGood, Release
    <2> QED
      <3>1. receivers' \in [SocketIds -> SUBSET SocketIds]
        BY <1>5 DEF TypeOK, Release
      <3>2. /\ pc' = [pc EXCEPT ![s] = "releasing"] \/ pc' = [pc EXCEPT ![s] = "leaving"]
            /\ \/ channels' = channels
               \/ channel[s] \in Channels /\ channels' = [channels EXCEPT ![channel[s]] = None]
        BY <1>5, <2>1 DEF TypeOK, Release
      <3>3. UNCHANGED <<owner, channel, conn, sub, presence, inbox, ready, subscribed,
                        rows, faults, orderly>>
        BY <1>5 DEF Release
      <3>4. /\ channels' \in [Channels -> SocketIds \cup {None}]
            /\ \A c \in Channels : channels'[c] # None => channels'[c] = channels[c]
        BY <3>2 DEF TypeOK
      <3> QED
        BY <1>0, <3>1, <3>2, <3>3, <3>4 DEF TypeOK, inbox, rows
  <1>6. ASSUME NEW s \in SocketIds,
               \/ Connected(s) \/ ConnectedFails(s) \/ Close(s) \/ Leaving(s) \/ LeavingFails(s)
               \/ Move(s) \/ Hide(s)
        PROVE  TypeOK'
    <2>1. ~At(s, "new") => owner[s] \in Players /\ channel[s] \in Channels
      BY DEF SocketsInv, SessionGood
    <2>2. isSeated[s] \/ isShown[s] => channel[s] \in Rooms /\ ~At(s, "new")
      BY DEF SocketsInv, SessionGood
    <2>3. CASE Connected(s) \/ ConnectedFails(s) \/ Close(s)
      <3>1. isSeated' \in [SocketIds -> BOOLEAN]
        <4>1. isSeated' = isSeated \/ \E b \in BOOLEAN : isSeated' = [isSeated EXCEPT ![s] = b]
          <5> DEFINE b == owner[s] \in seated[channel[s]]
          <5>1. b \in BOOLEAN
            OBVIOUS
          <5>2. isSeated' = isSeated \/ isSeated' = [isSeated EXCEPT ![s] = b]
            BY <2>3 DEF Connected, ConnectedFails, Close, inbox
          <5> HIDE DEF b
          <5> QED
            BY <5>1, <5>2
        <4> QED
          BY <4>1 DEF TypeOK
      <3>2. active' \subseteq Players
        BY <2>1, <2>3 DEF TypeOK, Connected, ConnectedFails, Close, rows
      <3>3. /\ pc' = pc \/ pc' = [pc EXCEPT ![s] = "opened"]
            /\ \/ conn' = conn \/ conn' = [conn EXCEPT ![s] = "closed"]
               \/ conn' = [conn EXCEPT ![s] = "closing"]
            /\ faults' \in 0..MaxFaults
        BY <2>3 DEF TypeOK, Connected, ConnectedFails, Close
      <3>4. pc' \in [SocketIds -> {"new", "subscribing", "connecting", "opened",
                                  "releasing", "leaving", "done"}]
        BY <3>3 DEF TypeOK
      <3>5. conn' \in [SocketIds -> {"none", "open", "closing", "closed"}]
        BY <3>3 DEF TypeOK
      <3>6. UNCHANGED <<owner, channel, sub, presence, isShown, pubsub, seated, cursors, orderly>>
        BY <2>3 DEF Connected, ConnectedFails, Close, inbox, rows
      <3> QED
        BY <3>1, <3>2, <3>3, <3>4, <3>5, <3>6 DEF TypeOK, pubsub
    <2>4. CASE Leaving(s) \/ LeavingFails(s)
      <3>1. isShown' \in [SocketIds -> BOOLEAN]
        BY <2>4 DEF TypeOK, Leaving, LeavingFails, inbox
      <3>2. active' \subseteq Players
        BY <2>4 DEF TypeOK, Leaving, LeavingFails, rows
      <3>3. cursors' \in [Rooms -> SUBSET Players]
        <4>1. isShown[s] => cursors[channel[s]] \in SUBSET Players /\ owner[s] \in Players
          BY <2>1, <2>2 DEF TypeOK
        <4>2. cursors' # cursors =>
                isShown[s] /\ cursors' = [cursors EXCEPT ![channel[s]] = @ \ {owner[s]}]
          BY <2>4 DEF TypeOK, Leaving, LeavingFails, rows
        <4> QED
          BY <4>1, <4>2 DEF TypeOK
      <3>4. pc' = [pc EXCEPT ![s] = "done"] /\ faults' \in 0..MaxFaults
        BY <2>4 DEF TypeOK, Leaving, LeavingFails
      <3>5. UNCHANGED <<owner, channel, conn, sub, presence, isSeated, pubsub, seated, orderly>>
        BY <2>4 DEF Leaving, LeavingFails, inbox, rows
      <3> QED
        BY <3>1, <3>2, <3>3, <3>4, <3>5 DEF TypeOK, pubsub
    <2>5. CASE Move(s) \/ Hide(s)
      <3>1. isShown' \in [SocketIds -> BOOLEAN]
        BY <2>5 DEF TypeOK, Move, Hide
      <3>2. cursors' \in [Rooms -> SUBSET Players]
        <4>1. cursors[channel[s]] \in SUBSET Players /\ owner[s] \in Players
          BY <2>1, <2>2, <2>5 DEF TypeOK, Move, Hide
        <4>2. \/ cursors' = [cursors EXCEPT ![channel[s]] = @ \cup {owner[s]}]
              \/ cursors' = [cursors EXCEPT ![channel[s]] = @ \ {owner[s]}]
          BY <2>5 DEF Move, Hide
        <4> QED
          BY <4>1, <4>2 DEF TypeOK
      <3>3. UNCHANGED <<sessions, isSeated, pubsub, active, seated, faults, orderly>>
        BY <2>5 DEF Move, Hide
      <3> QED
        BY <3>1, <3>2, <3>3 DEF TypeOK, sessions, pubsub
    <2> QED
      BY <1>6, <2>3, <2>4, <2>5
  <1>7. Subscribed \/ SubscribeFails \/ Unsubscribed \/ UnsubscribeFails => wire # <<>>
    BY DEF Subscribed, SubscribeFails, Unsubscribed, UnsubscribeFails
  <1> QED
    BY <1>1, <1>2, <1>5, <1>6, <1>7 DEF SocketsNext, SocketsRun, Opens

\* A session stays as its step says.
LEMMA SessionStep ==
  ASSUME SocketsInv, SocketsNext, NEW t \in SocketIds
  PROVE  SessionGood(t)'
  <1> USE SocketsAssumption DEF At, Go, Set, FailOnce, Channels
  <1> SessionGood(t) /\ TypeOK
    BY DEF SocketsInv
  <1> USE DEF SessionGood, TypeOK, Shut, Shown
  <1>1. ASSUME NEW s \in SocketIds, NEW p \in Players, NEW c \in Channels, Upgrade(s, p, c)
        PROVE  SessionGood(t)'
    BY <1>1 DEF Upgrade, inbox
  <1>2. CASE Subscribed
    BY <1>2, HeadOfWire DEF Subscribed, Resolved, Waiting, inbox, Command
  <1>3. CASE SubscribeFails
    BY <1>3, HeadOfWire DEF SubscribeFails, Waiting, inbox, Command
  <1>4. CASE Unsubscribed \/ UnsubscribeFails
    <2>1. Head(wire).by \in SocketIds /\ pc[Head(wire).by] = "releasing"
      BY <1>4, HeadOfWire DEF Unsubscribed, UnsubscribeFails, Command, WireGood, CommandGood, SocketsInv
    <2> QED
      BY <1>4, <2>1 DEF Unsubscribed, UnsubscribeFails, inbox
  <1>5. ASSUME NEW s \in SocketIds, Connected(s) \/ ConnectedFails(s)
        PROVE  SessionGood(t)'
    BY <1>5 DEF Connected, ConnectedFails, IsUser, inbox
  <1>6. ASSUME NEW s \in SocketIds, Close(s) \/ Release(s)
        PROVE  SessionGood(t)'
    BY <1>6 DEF Close, Release, inbox
  <1>7. ASSUME NEW s \in SocketIds, Leaving(s) \/ LeavingFails(s)
        PROVE  SessionGood(t)'
    BY <1>7 DEF Leaving, LeavingFails, inbox
  <1>8. ASSUME NEW s \in SocketIds, Move(s) \/ Hide(s)
        PROVE  SessionGood(t)'
    BY <1>8 DEF Move, Hide, sessions
  <1> QED
    BY <1>1, <1>2, <1>3, <1>4, <1>5, <1>6, <1>7, <1>8 DEF SocketsNext, SocketsRun, Opens

\* The answer of Redis is for somebody who waits.
LEMMA Answered ==
  ASSUME SocketsInv, wire # <<>>
  PROVE  /\ Head(wire).by \in SocketIds /\ Head(wire).channel \in Channels
         /\ Head(wire).op \in {"SUBSCRIBE", "UNSUBSCRIBE"}
         /\ Head(wire).channel = channel[Head(wire).by]
         /\ Head(wire).op = "SUBSCRIBE" =>
              /\ pc[Head(wire).by] = "subscribing" /\ sub[Head(wire).by] = Head(wire).by
              /\ ready[Head(wire).by] = "pending"
              /\ channels[Head(wire).channel] = Head(wire).by
         /\ Head(wire).op = "UNSUBSCRIBE" => pc[Head(wire).by] = "releasing"
  <1>1. Head(wire) \in Command /\ CommandGood(Head(wire))
    BY HeadOfWire DEF SocketsInv, WireGood
  <1>2. Head(wire).by \in SocketIds /\ Head(wire).channel \in Channels
          /\ Head(wire).op \in {"SUBSCRIBE", "UNSUBSCRIBE"}
    BY <1>1 DEF Command
  <1>3. SubGood(Head(wire).by) /\ Head(wire).by # None
    BY <1>2, SocketsAssumption DEF SocketsInv
  <1> QED
    BY <1>1, <1>2, <1>3 DEF CommandGood, At, SubGood, Opening

\* A subscription is what its sockets take it for.
LEMMA SubStep ==
  ASSUME SocketsInv, SocketsNext, NEW t \in SocketIds
  PROVE  SubGood(t)'
  <1> USE SocketsAssumption DEF At, Go, Set, FailOnce
  <1> /\ TypeOK
      /\ \A s \in SocketIds : SubGood(s) /\ SessionGood(s)
      /\ \A c \in Channels : MapGood(c)
    BY DEF SocketsInv
  <1> USE DEF SubGood, TypeOK, Opening
  <1>1. ASSUME NEW s \in SocketIds, NEW p \in Players, NEW c \in Channels, Upgrade(s, p, c)
        PROVE  SubGood(t)'
    <2> DEFINE o == channels[c]
    <2>1. /\ sub[s] = None /\ ready[s] = "none" /\ channel[s] = None /\ pc[s] = "new"
          /\ \A u \in SocketIds : sub[u] # s
      BY <1>1 DEF Upgrade, SessionGood
    <2>2. o # None => o \in SocketIds \ {s} /\ channel[o] = c
      BY <2>1 DEF MapGood, SessionGood, Channels
    <2>3. /\ channel' = [channel EXCEPT ![s] = c]
          /\ \E w \in {"connecting", "subscribing"} : pc' = [pc EXCEPT ![s] = w]
          /\ pc'[s] = IF o # None /\ ready[o] = "ok" THEN "connecting" ELSE "subscribing"
          /\ sub' = [sub EXCEPT ![s] = IF o = None THEN s ELSE o]
          /\ channels' = IF o = None THEN [channels EXCEPT ![c] = s] ELSE channels
          /\ ready' = IF o = None THEN [ready EXCEPT ![s] = "pending"] ELSE ready
          /\ receivers' = IF o # None /\ ready[o] = "ok"
                          THEN [receivers EXCEPT ![o] = @ \cup {s}] ELSE receivers
          /\ o # None => ready[o] \in {"ok", "pending"}
      BY <1>1 DEF Upgrade
    <2> HIDE DEF o
    <2>4. receivers'[t] = {u \in SocketIds : sub'[u] = t /\ pc'[u] \in {"connecting", "opened"}}
      BY <2>1, <2>2, <2>3
    <2>5. CASE t = s
      BY <2>1, <2>2, <2>3, <2>4, <2>5 DEF o
    <2>6. CASE t # s
      <3>1. sub[t] # None => channel[t] \in Channels
        BY DEF SessionGood
      <3> QED
        BY <2>1, <2>2, <2>3, <2>4, <2>6, <3>1 DEF o
    <2> QED
      BY <2>5, <2>6
  <1>2. CASE Subscribed
    BY <1>2, Answered DEF Subscribed, Resolved, Waiting
  <1>3. CASE SubscribeFails
    BY <1>3, Answered DEF SubscribeFails, Waiting
  <1>4. CASE Unsubscribed \/ UnsubscribeFails
    BY <1>4, Answered DEF Unsubscribed, UnsubscribeFails
  <1>5. ASSUME NEW s \in SocketIds, Connected(s) \/ ConnectedFails(s)
        PROVE  SubGood(t)'
    BY <1>5 DEF Connected, ConnectedFails, pubsub
  <1>6. ASSUME NEW s \in SocketIds, Close(s) \/ Move(s) \/ Hide(s)
        PROVE  SubGood(t)'
    BY <1>6 DEF Close, Move, Hide, sessions, pubsub
  <1>7. ASSUME NEW s \in SocketIds, Leaving(s) \/ LeavingFails(s)
        PROVE  SubGood(t)'
    BY <1>7 DEF Leaving, LeavingFails, pubsub
  <1>8. ASSUME NEW s \in SocketIds, Release(s)
        PROVE  SubGood(t)'
    <2> DEFINE o == sub[s]
               drops == o # None /\ receivers[o] \ {s} = {} /\ channels[channel[s]] = o
    <2>1. /\ \E w \in {"releasing", "leaving"} : pc' = [pc EXCEPT ![s] = w]
          /\ pc[s] = "opened"
          /\ receivers' = IF o = None THEN receivers ELSE [receivers EXCEPT ![o] = @ \ {s}]
          /\ channels' = IF drops THEN [channels EXCEPT ![channel[s]] = None] ELSE channels
          /\ UNCHANGED <<channel, sub, ready>>
      BY <1>8 DEF Release
    <2>2. receivers'[t] = {u \in SocketIds : sub'[u] = t /\ pc'[u] \in {"connecting", "opened"}}
      BY <2>1
    <2>3. ASSUME pc'[t] \in Opening, sub[t] # None
          PROVE  channels'[channel[t]] = sub[t]
      <3>1. t # s /\ pc'[t] = pc[t] /\ channels[channel[t]] = sub[t] /\ channel[t] \in Channels
        BY <2>1, <2>3 DEF SessionGood
      <3>2. drops => channel[t] # channel[s]
        <4> SUFFICES ASSUME drops, channel[t] = channel[s]
                     PROVE  FALSE
          OBVIOUS
        <4>1. sub[t] = o /\ ready[o] = "ok"
          BY <2>1, <3>1
        <4>2. t \in receivers[o]
          <5>1. o \in SocketIds /\ ready[o] # "pending"
            BY <4>1
          <5>2. pc[t] \in {"connecting", "opened"}
            BY <2>3, <3>1, <4>1, <5>1
          <5> QED
            BY <4>1, <5>1, <5>2
        <4> QED
          BY <3>1, <4>2
      <3> QED
        BY <2>1, <3>1, <3>2
    <2> HIDE DEF o, drops
    <2> QED
      BY <2>1, <2>2, <2>3
  <1> QED
    BY <1>1, <1>2, <1>3, <1>4, <1>5, <1>6, <1>7, <1>8 DEF SocketsNext, SocketsRun, Opens

\* A channel in the map is held.
LEMMA MapStep ==
  ASSUME SocketsInv, SocketsNext, NEW d \in Channels
  PROVE  MapGood(d)'
  <1> USE SocketsAssumption DEF At, Go, Set, FailOnce
  <1> /\ TypeOK /\ MapGood(d)
      /\ \A s \in SocketIds : SubGood(s) /\ SessionGood(s)
    BY DEF SocketsInv
  <1> USE DEF MapGood, TypeOK, Opening
  <1>1. ASSUME NEW s \in SocketIds, NEW p \in Players, NEW c \in Channels, Upgrade(s, p, c)
        PROVE  MapGood(d)'
    <2>1. sub[s] = None /\ channel[s] = None /\ pc[s] = "new"
      BY <1>1 DEF Upgrade, SessionGood
    <2>2. /\ channel' = [channel EXCEPT ![s] = c]
          /\ \E w \in {"connecting", "subscribing"} : pc' = [pc EXCEPT ![s] = w]
          /\ \/ channels' = channels /\ ready' = ready
                /\ \E v \in SocketIds \cup {None} : sub' = [sub EXCEPT ![s] = v]
             \/ /\ channels' = [channels EXCEPT ![c] = s]
                /\ ready' = [ready EXCEPT ![s] = "pending"]
                /\ sub' = [sub EXCEPT ![s] = s]
      BY <1>1 DEF Upgrade
    <2>3. channels[d] # s
      BY <2>1 DEF Channels
    <2>4. CASE channels' = channels /\ ready' = ready
                /\ \E v \in SocketIds \cup {None} : sub' = [sub EXCEPT ![s] = v]
      BY <2>1, <2>2, <2>3, <2>4
    <2>5. CASE /\ channels' = [channels EXCEPT ![c] = s]
               /\ ready' = [ready EXCEPT ![s] = "pending"]
               /\ sub' = [sub EXCEPT ![s] = s]
      <3>1. CASE d = c
        BY <2>1, <2>2, <2>5, <3>1
      <3>2. CASE d # c
        BY <2>1, <2>2, <2>3, <2>5, <3>2
      <3> QED
        BY <3>1, <3>2
    <2> QED
      BY <2>2, <2>4, <2>5
  <1>2. CASE Subscribed
    BY <1>2, Answered DEF Subscribed, Resolved, Waiting
  <1>3. CASE SubscribeFails
    BY <1>3, Answered DEF SubscribeFails, Waiting
  <1>4. CASE Unsubscribed \/ UnsubscribeFails
    BY <1>4, Answered DEF Unsubscribed, UnsubscribeFails
  <1>5. ASSUME NEW s \in SocketIds, Connected(s) \/ ConnectedFails(s)
        PROVE  MapGood(d)'
    BY <1>5 DEF Connected, ConnectedFails, pubsub
  <1>6. ASSUME NEW s \in SocketIds, Close(s) \/ Move(s) \/ Hide(s)
        PROVE  MapGood(d)'
    BY <1>6 DEF Close, Move, Hide, sessions, pubsub
  <1>7. ASSUME NEW s \in SocketIds, Leaving(s) \/ LeavingFails(s)
        PROVE  MapGood(d)'
    BY <1>7 DEF Leaving, LeavingFails, pubsub
  <1>8. ASSUME NEW s \in SocketIds, Release(s)
        PROVE  MapGood(d)'
    <2> DEFINE o == channels[d]
    <2> SUFFICES ASSUME channels'[d] # None
                 PROVE  MapGood(d)'
      OBVIOUS
    <2>1. /\ \E w \in {"releasing", "leaving"} : pc' = [pc EXCEPT ![s] = w]
          /\ pc[s] = "opened"
          /\ UNCHANGED <<channel, sub, ready>>
          /\ \/ channels' = channels
             \/ /\ sub[s] # None /\ channels[channel[s]] = sub[s]
                /\ channels' = [channels EXCEPT ![channel[s]] = None]
          /\ \/ channels' # channels
             \/ sub[s] = None \/ receivers[sub[s]] \ {s} # {} \/ channels[channel[s]] # sub[s]
      <3>1. channel[s] \in Channels
        BY <1>8 DEF Release, SessionGood
      <3> QED
        BY <1>8, <3>1 DEF Release
    <2>2. channels'[d] = o /\ o \in SocketIds
      BY <2>1
    <2>3. PICK u \in SocketIds : sub[u] = o /\ pc[u] \in Opening
      BY <2>2
    <2>4. \E v \in SocketIds : sub[v] = o /\ pc[v] \in Opening /\ v # s
      <3>1. CASE u # s
        BY <2>3, <3>1
      <3>2. CASE u = s
        <4>1. channel[s] = d
          BY <2>2, <2>3, <3>2 DEF SubGood
        <4>2. channels' = channels
          BY <2>1, <2>2, <4>1
        <4>3. receivers[o] # {s} /\ s \in receivers[o]
          BY <2>1, <2>2, <2>3, <3>2, <4>1, <4>2 DEF SubGood
        <4>4. PICK v \in receivers[o] : v # s
          BY <4>3
        <4> QED
          BY <2>2, <4>4 DEF SubGood
      <3> QED
        BY <3>1, <3>2
    <2> QED
      BY <2>1, <2>2, <2>4
  <1> QED
    BY <1>1, <1>2, <1>3, <1>4, <1>5, <1>6, <1>7, <1>8 DEF SocketsNext, SocketsRun, Opens

Answers == Subscribed \/ SubscribeFails \/ Unsubscribed \/ UnsubscribeFails

\* A step leaves the wire alone, answers its first command, or sends one by a
\* session that had none on it.
LEMMA WireShape ==
  ASSUME SocketsInv, SocketsNext
  PROVE  \/ ~Answers /\ UNCHANGED <<wire, channels, subscribed>>
         \/ Answers /\ wire # <<>> /\ wire' = Tail(wire)
         \/ /\ ~Answers /\ subscribed' = subscribed
            /\ \E m \in Command :
                 /\ wire' = Append(wire, m) /\ CommandGood(m)'
                 /\ pc[m.by] \in {"new", "opened"}
                 /\ \/ /\ m.op = "SUBSCRIBE"
                       /\ channels' = [channels EXCEPT ![m.channel] = m.by]
                    \/ /\ m.op = "UNSUBSCRIBE"
                       /\ channels' = [channels EXCEPT ![m.channel] = None]
  <1> USE SocketsAssumption DEF At, Go, Set
  <1> TypeOK
    BY DEF SocketsInv
  <1>0. wire \in Seq(Command)
    BY DEF TypeOK
  <1>1. CASE Answers
    BY <1>1 DEF Answers, Subscribed, SubscribeFails, Unsubscribed, UnsubscribeFails
  <1>2. ASSUME ~Answers, NEW s \in SocketIds, NEW p \in Players, NEW c \in Channels,
               Upgrade(s, p, c), ~UNCHANGED <<wire, channels, subscribed>>
        PROVE  subscribed' = subscribed /\ \E m \in Command :
                 /\ wire' = Append(wire, m) /\ CommandGood(m)' /\ pc[m.by] = "new"
                 /\ m.op = "SUBSCRIBE" /\ channels' = [channels EXCEPT ![m.channel] = m.by]
    <2> DEFINE m == [op |-> "SUBSCRIBE", channel |-> c, by |-> s]
    <2>1. m \in Command /\ m.by = s /\ m.channel = c /\ m.op = "SUBSCRIBE"
      BY DEF Command
    <2>2. /\ wire' = Append(wire, m) /\ pc[s] = "new" /\ subscribed' = subscribed
          /\ channels' = [channels EXCEPT ![c] = s]
      BY <1>2 DEF Upgrade
    <2> HIDE DEF m
    <2>3. CommandGood(m)'
      BY <1>2, <2>1 DEF Upgrade, CommandGood, TypeOK
    <2> QED
      BY <2>1, <2>2, <2>3
  <1>3. ASSUME ~Answers, NEW s \in SocketIds, Release(s),
               ~UNCHANGED <<wire, channels, subscribed>>
        PROVE  subscribed' = subscribed /\ \E m \in Command :
                 /\ wire' = Append(wire, m) /\ CommandGood(m)' /\ pc[m.by] = "opened"
                 /\ m.op = "UNSUBSCRIBE" /\ channels' = [channels EXCEPT ![m.channel] = None]
    <2>0. channel[s] \in Channels
      BY <1>3 DEF Release, SocketsInv, SessionGood
    <2>1. PICK m \in Command : m = [op |-> "UNSUBSCRIBE", channel |-> channel[s], by |-> s]
      BY <2>0 DEF Command
    <2>2. /\ wire' = Append(wire, m) /\ pc[s] = "opened" /\ subscribed' = subscribed
          /\ channels' = [channels EXCEPT ![channel[s]] = None]
      BY <1>3, <2>1 DEF Release
    <2>3. CommandGood(m)'
      BY <1>3, <2>1 DEF Release, CommandGood, TypeOK
    <2> QED
      BY <2>1, <2>2, <2>3
  <1>4. ASSUME NEW s \in SocketIds,
               \/ Connected(s) \/ ConnectedFails(s) \/ Close(s) \/ Leaving(s) \/ LeavingFails(s)
               \/ Move(s) \/ Hide(s)
        PROVE  UNCHANGED <<wire, channels, subscribed>>
    BY <1>4 DEF Connected, ConnectedFails, Close, Leaving, LeavingFails, Move, Hide, pubsub
  <1>5. CASE ~Answers /\ UNCHANGED <<wire, channels, subscribed>>
    BY <1>5
  <1> QED
    BY <1>1, <1>2, <1>3, <1>4, <1>5 DEF SocketsNext, SocketsRun, Opens, Answers

\* A command stays good until it is answered.
LEMMA CommandStep ==
  ASSUME SocketsInv, SocketsNext, NEW m \in Command, CommandGood(m),
         Answers => m.by # Head(wire).by
  PROVE  CommandGood(m)'
  <1> USE SocketsAssumption DEF At, Go, Set, FailOnce
  <1> TypeOK
    BY DEF SocketsInv
  <1>0. m.by \in SocketIds /\ m.op \in {"SUBSCRIBE", "UNSUBSCRIBE"}
    BY DEF Command
  <1> USE <1>0 DEF CommandGood, TypeOK
  <1>1. ASSUME NEW s \in SocketIds, NEW p \in Players, NEW c \in Channels, Upgrade(s, p, c)
        PROVE  CommandGood(m)'
    BY <1>1 DEF Upgrade
  <1>2. CASE Subscribed
    BY <1>2, Answered DEF Answers, Subscribed, Resolved, Waiting
  <1>3. CASE SubscribeFails
    BY <1>3, Answered DEF Answers, SubscribeFails, Waiting
  <1>4. CASE Unsubscribed \/ UnsubscribeFails
    BY <1>4, Answered DEF Answers, Unsubscribed, UnsubscribeFails
  <1>5. ASSUME NEW s \in SocketIds, Connected(s) \/ ConnectedFails(s) \/ Release(s)
        PROVE  CommandGood(m)'
    BY <1>5 DEF Connected, ConnectedFails, Release
  <1>6. ASSUME NEW s \in SocketIds,
               Close(s) \/ Move(s) \/ Hide(s) \/ Leaving(s) \/ LeavingFails(s)
        PROVE  CommandGood(m)'
    BY <1>6 DEF Close, Move, Hide, Leaving, LeavingFails, sessions
  <1> QED
    BY <1>1, <1>2, <1>3, <1>4, <1>5, <1>6 DEF SocketsNext, SocketsRun, Opens

\* What is on the wire stays good.
LEMMA WireStep ==
  ASSUME SocketsInv, SocketsNext
  PROVE  WireGood'
  <1> TypeOK /\ WireGood
    BY DEF SocketsInv
  <1>0. wire \in Seq(Command)
    BY DEF TypeOK
  <1>k. \A m \in Command :
          CommandGood(m) /\ (Answers => m.by # Head(wire).by) => CommandGood(m)'
    BY CommandStep
  <1>1. CASE wire' = wire /\ ~Answers
    <2>1. \A i \in DOMAIN wire : wire[i] \in Command /\ CommandGood(wire[i])
      BY <1>0, ElementOfSeq DEF WireGood
    <2>2. \A i \in DOMAIN wire : \E m \in Command : m = wire[i] /\ CommandGood(m)'
      BY <1>1, <1>k, <2>1
    <2> QED
      BY <1>1, <2>2 DEF WireGood, CommandGood
  <1>2. CASE Answers /\ wire # <<>> /\ wire' = Tail(wire)
    <2> DEFINE n == Len(wire) - 1
    <2>1. /\ n \in Nat /\ DOMAIN wire' = 1..n /\ DOMAIN wire = 1..(n + 1) /\ Head(wire) = wire[1]
          /\ \A i \in 1..n : wire'[i] = wire[i + 1]
      BY <1>2, HeadOfWire
    <2>2. ASSUME NEW i \in 1..n
          PROVE  wire[i + 1] \in Command /\ CommandGood(wire[i + 1]) /\ wire[i + 1].by # wire[1].by
      BY <1>0, <2>1, ElementOfSeq DEF WireGood
    <2>3. ASSUME NEW i \in 1..n
          PROVE  \E m \in Command : m = wire[i + 1] /\ CommandGood(m)'
      BY <1>k, <2>1, <2>2
    <2> HIDE DEF n
    <2>4. \A i \in 1..n : CommandGood(wire[i])'
      BY <2>1, <2>3 DEF CommandGood
    <2>5. \A i, j \in 1..n : wire'[i].by = wire'[j].by => i = j
      BY <2>1 DEF WireGood
    <2> QED
      BY <2>1, <2>4, <2>5 DEF WireGood
  <1>3. ASSUME NEW m \in Command, wire' = Append(wire, m), CommandGood(m)',
               pc[m.by] \in {"new", "opened"}, ~Answers
        PROVE  WireGood'
    <2> DEFINE n == Len(wire)
    <2>1. /\ n \in Nat /\ DOMAIN wire = 1..n /\ DOMAIN wire' = 1..(n + 1)
          /\ \A i \in 1..n : wire'[i] = wire[i]
          /\ wire'[n + 1] = m
      BY <1>3, LastOfWire
    <2>2. ASSUME NEW i \in 1..n
          PROVE  wire[i] \in Command /\ CommandGood(wire[i]) /\ wire[i].by # m.by
      <3>1. wire[i] \in Command /\ CommandGood(wire[i])
        BY <1>0, <2>1, ElementOfSeq DEF WireGood
      <3> QED
        BY <1>3, <3>1 DEF CommandGood, Command, At
    <2>3. ASSUME NEW i \in 1..n
          PROVE  \E c \in Command : c = wire[i] /\ CommandGood(c)'
      BY <1>3, <1>k, <2>2
    <2> HIDE DEF n
    <2>4. \A i \in 1..(n + 1) : CommandGood(wire[i])'
      <3> TAKE i \in 1..(n + 1)
      <3>1. CASE i = n + 1
        BY <1>3, <2>1, <3>1 DEF CommandGood
      <3>2. CASE i # n + 1
        BY <2>1, <2>3, <3>2 DEF CommandGood
      <3> QED
        BY <3>1, <3>2
    <2>5. \A i, j \in 1..(n + 1) : wire'[i].by = wire'[j].by => i = j
      BY <2>1, <2>2 DEF WireGood
    <2> QED
      BY <2>1, <2>4, <2>5 DEF WireGood
  <1> QED
    BY <1>1, <1>2, <1>3, WireShape


\* What a command behind the others makes of a channel, and what the answer to
\* the first one leaves of it.
LEMMA Sent ==
  ASSUME TypeOK, NEW m \in Command, wire' = Append(wire, m), subscribed' = subscribed,
         NEW c \in Channels
  PROVE  WillHear(c)' <=> IF m.channel = c THEN m.op = "SUBSCRIBE" ELSE WillHear(c)
  <1> DEFINE n == Len(wire)
  <1>1. /\ n \in Nat /\ DOMAIN wire = 1..n /\ DOMAIN wire' = 1..(n + 1) /\ Len(wire') = n + 1
        /\ \A i \in 1..n : wire'[i] = wire[i]
        /\ wire'[n + 1] = m
    BY LastOfWire
  <1> HIDE DEF n
  <1>2. CASE m.channel = c
    <2>1. m.op = "SUBSCRIBE" => WillHear(c)'
      <3> SUFFICES ASSUME m.op = "SUBSCRIBE"
                   PROVE  \E i \in 1..(n + 1) :
                            /\ wire'[i].channel = c /\ wire'[i].op = "SUBSCRIBE"
                            /\ \A j \in (i + 1)..(n + 1) : wire'[j].channel # c
        BY <1>1 DEF WillHear
      <3>1. n + 1 \in 1..(n + 1) /\ ((n + 1) + 1)..(n + 1) = {}
        BY <1>1
      <3>2. wire'[n + 1].channel = c /\ wire'[n + 1].op = "SUBSCRIBE"
        BY <1>1, <1>2
      <3> QED
        BY <3>1, <3>2
    <2>2. WillHear(c)' => m.op = "SUBSCRIBE"
      BY <1>1, <1>2 DEF WillHear
    <2> QED
      BY <1>2, <2>1, <2>2
  <1>3. CASE m.channel # c
    <2>1. WillHear(c) => WillHear(c)'
      BY <1>1, <1>3 DEF WillHear
    <2>2. WillHear(c)' => WillHear(c)
      BY <1>1, <1>3 DEF WillHear
    <2> QED
      BY <1>3, <2>1, <2>2
  <1> QED
    BY <1>2, <1>3

LEMMA AnswerKeeps ==
  ASSUME TypeOK, wire # <<>>, wire' = Tail(wire), NEW c \in Channels,
         Head(wire).channel # c => (c \in subscribed <=> c \in subscribed'),
         Head(wire).channel = c =>
           (Head(wire).op = "SUBSCRIBE" => c \in subscribed')
  PROVE  /\ WillHear(c) => WillHear(c)'
         /\ (c \in subscribed' /\ Head(wire).channel = c => Head(wire).op = "SUBSCRIBE") =>
              (WillHear(c)' => WillHear(c))
  <1> DEFINE n == Len(wire) - 1
  <1>1. /\ n \in Nat /\ DOMAIN wire = 1..(n + 1) /\ DOMAIN wire' = 1..n /\ Len(wire') = n
        /\ Len(wire) = n + 1
        /\ Head(wire) = wire[1] /\ \A i \in 1..n : wire'[i] = wire[i + 1]
    BY HeadOfWire
  <1> HIDE DEF n
  <1>2. ASSUME NEW i \in 1..(n + 1)
        PROVE  i = 1 \/ \E j \in 1..n : i = j + 1
    <2>1. i = 1 \/ (i - 1 \in 1..n /\ i = (i - 1) + 1)
      BY <1>1
    <2> QED
      BY <2>1
  <1>3. WillHear(c) => WillHear(c)'
    <2>1. CASE c \in subscribed /\ \A i \in 1..(n + 1) : wire[i].channel # c
      BY <1>1, <2>1 DEF WillHear
    <2>2. ASSUME NEW i \in 1..(n + 1), wire[i].channel = c, wire[i].op = "SUBSCRIBE",
                 \A j \in (i + 1)..(n + 1) : wire[j].channel # c
          PROVE  WillHear(c)'
      <3>1. CASE i = 1
        <4>1. c \in subscribed'
          BY <1>1, <2>2, <3>1
        <4>2. \A j \in 1..n : wire'[j].channel # c
          BY <1>1, <2>2, <3>1
        <4> QED
          BY <1>1, <4>1, <4>2 DEF WillHear
      <3>2. ASSUME NEW k \in 1..n, i = k + 1
            PROVE  WillHear(c)'
        <4>1. wire'[k].channel = c /\ wire'[k].op = "SUBSCRIBE"
          BY <1>1, <2>2, <3>2
        <4>2. \A j \in (k + 1)..n : wire'[j].channel # c
          BY <1>1, <2>2, <3>2
        <4> QED
          BY <1>1, <4>1, <4>2 DEF WillHear
      <3> QED
        BY <1>2, <3>1, <3>2
    <2> QED
      BY <1>1, <2>1, <2>2 DEF WillHear
  <1>4. ASSUME c \in subscribed' /\ Head(wire).channel = c => Head(wire).op = "SUBSCRIBE",
               WillHear(c)'
        PROVE  WillHear(c)
    <2>1. CASE c \in subscribed' /\ \A i \in 1..n : wire'[i].channel # c
      <3>0. \A i \in 1..(n + 1) : i # 1 => wire[i].channel # c
        <4> TAKE i \in 1..(n + 1)
        <4> HAVE i # 1
        <4>1. PICK j \in 1..n : i = j + 1
          BY <1>2
        <4> QED
          BY <1>1, <2>1, <4>1
      <3>1. CASE wire[1].channel = c
        <4>1. wire[1].op = "SUBSCRIBE" /\ \A j \in (1 + 1)..(n + 1) : wire[j].channel # c
          BY <1>1, <1>4, <2>1, <3>0, <3>1
        <4> QED
          BY <1>1, <3>1, <4>1 DEF WillHear
      <3>2. CASE wire[1].channel # c
        <4>1. c \in subscribed /\ \A i \in 1..(n + 1) : wire[i].channel # c
          BY <1>1, <2>1, <3>0, <3>2
        <4> QED
          BY <1>1, <4>1 DEF WillHear
      <3> QED
        BY <3>1, <3>2
    <2>2. ASSUME NEW i \in 1..n, wire'[i].channel = c, wire'[i].op = "SUBSCRIBE",
                 \A j \in (i + 1)..n : wire'[j].channel # c
          PROVE  WillHear(c)
      <3>1. i + 1 \in 1..(n + 1) /\ wire[i + 1].channel = c /\ wire[i + 1].op = "SUBSCRIBE"
        BY <1>1, <2>2
      <3>2. \A j \in ((i + 1) + 1)..(n + 1) : wire[j].channel # c
        <4> TAKE j \in ((i + 1) + 1)..(n + 1)
        <4>1. PICK k \in 1..n : j = k + 1
          BY <1>1, <1>2
        <4> QED
          BY <1>1, <2>2, <4>1
      <3> QED
        BY <1>1, <3>1, <3>2 DEF WillHear
    <2> QED
      BY <1>1, <1>4, <2>1, <2>2 DEF WillHear
  <1> QED
    BY <1>3, <1>4

\* Faults are never forgotten.
LEMMA FaultsCount ==
  ASSUME TypeOK, SocketsNext
  PROVE  faults \in Nat /\ faults' \in {faults, faults + 1}
  <1>1. faults \in Nat
    BY SocketsAssumption DEF TypeOK
  <1>2. Answers => faults' = faults \/ FailOnce
    BY DEF Answers, Subscribed, SubscribeFails, Unsubscribed, UnsubscribeFails
  <1>3. Opens => faults' = faults
    BY DEF Opens, Upgrade
  <1>4. ASSUME NEW s \in SocketIds, Connected(s) \/ ConnectedFails(s) \/ Close(s) \/ Release(s)
        PROVE  faults' = faults \/ FailOnce
    BY <1>4 DEF Connected, ConnectedFails, Close, Release
  <1>5. ASSUME NEW s \in SocketIds, Leaving(s) \/ LeavingFails(s) \/ Move(s) \/ Hide(s)
        PROVE  faults' = faults \/ FailOnce
    BY <1>5 DEF Leaving, LeavingFails, Move, Hide
  <1>6. faults' = faults \/ FailOnce
    BY <1>2, <1>3, <1>4, <1>5 DEF SocketsNext, SocketsRun, Answers
  <1> QED
    BY <1>1, <1>6 DEF FailOnce

\* The map and Redis stay in agreement.
LEMMA HeardStep ==
  ASSUME SocketsInv, SocketsNext, NEW d \in Channels
  PROVE  HeardGood(d)'
  <1> USE SocketsAssumption DEF Set, FailOnce
  <1> TypeOK /\ HeardGood(d)
    BY DEF SocketsInv
  <1>0. faults \in Nat /\ faults' \in Nat /\ (faults' = 0 => faults = 0)
    BY FaultsCount
  <1>1. CASE UNCHANGED <<wire, channels, subscribed>>
    BY <1>0, <1>1 DEF HeardGood, WillHear
  <1>2. ASSUME NEW m \in Command, wire' = Append(wire, m), subscribed' = subscribed,
               \/ /\ m.op = "SUBSCRIBE" /\ channels' = [channels EXCEPT ![m.channel] = m.by]
               \/ /\ m.op = "UNSUBSCRIBE" /\ channels' = [channels EXCEPT ![m.channel] = None]
        PROVE  HeardGood(d)'
    <2>1. WillHear(d)' <=> IF m.channel = d THEN m.op = "SUBSCRIBE" ELSE WillHear(d)
      BY <1>2, Sent
    <2>2. channels'[d] # None <=> IF m.channel = d THEN m.op = "SUBSCRIBE" ELSE channels[d] # None
      BY <1>2 DEF TypeOK, Command
    <2> QED
      BY <1>0, <2>1, <2>2 DEF HeardGood
  <1>3. CASE Answers /\ wire # <<>> /\ wire' = Tail(wire)
    <2> DEFINE c == Head(wire).channel
    <2>1. /\ d # c => (d \in subscribed <=> d \in subscribed')
          /\ d = c /\ Head(wire).op = "SUBSCRIBE" /\ faults' = faults => d \in subscribed'
          /\ d = c /\ Head(wire).op = "UNSUBSCRIBE" /\ faults' = faults => d \notin subscribed'
          /\ \/ channels' = channels
             \/ Head(wire).op = "SUBSCRIBE" /\ channels' = [channels EXCEPT ![c] = None]
          /\ channels' # channels => faults' = faults + 1
          /\ Head(wire).op = "SUBSCRIBE" /\ faults' # faults =>
               channels' = [channels EXCEPT ![c] = None]
          /\ faults' # faults => faults' = faults + 1
      <3>0. /\ Head(wire).op \in {"SUBSCRIBE", "UNSUBSCRIBE"} /\ c \in Channels
            /\ faults' # faults => faults' = faults + 1
            /\ faults + 1 # faults
        BY <1>0, <1>3, Answered, FaultsCount
      <3>1. CASE Subscribed
        <4>1. /\ Head(wire).op = "SUBSCRIBE" /\ subscribed' = subscribed \cup {c}
              /\ channels' = channels /\ faults' = faults
          BY <3>1 DEF Subscribed
        <4> HIDE DEF c
        <4> QED
          BY <3>0, <4>1
      <3>2. CASE SubscribeFails
        BY <3>0, <3>2 DEF SubscribeFails
      <3>3. CASE Unsubscribed
        <4>1. /\ Head(wire).op = "UNSUBSCRIBE" /\ subscribed' = subscribed \ {c}
              /\ channels' = channels /\ faults' = faults
          BY <3>3 DEF Unsubscribed
        <4> HIDE DEF c
        <4> QED
          BY <3>0, <4>1
      <3>4. CASE UnsubscribeFails
        <4>1. /\ Head(wire).op = "UNSUBSCRIBE" /\ subscribed' = subscribed
              /\ channels' = channels /\ faults' = faults + 1
          BY <3>4 DEF UnsubscribeFails
        <4> HIDE DEF c
        <4> QED
          BY <3>0, <4>1
      <3> QED
        BY <1>3, <3>1, <3>2, <3>3, <3>4 DEF Answers
    <2>2. CASE faults' = faults
      <3>1. WillHear(d) <=> WillHear(d)'
        BY <1>3, <2>1, <2>2, Answered, AnswerKeeps
      <3> QED
        BY <1>0, <2>1, <2>2, <3>1 DEF HeardGood
    <2>3. CASE faults' # faults
      <3>1. channels'[d] # None => Head(wire).op = "UNSUBSCRIBE" \/ c # d
        BY <1>3, <2>1, <2>3, Answered DEF TypeOK
      <3>2. channels'[d] # None => WillHear(d)'
        BY <1>3, <2>1, <2>3, <3>1, Answered, AnswerKeeps DEF HeardGood, TypeOK
      <3> QED
        BY <1>0, <2>1, <2>3, <3>2 DEF HeardGood
    <2> QED
      BY <2>2, <2>3
  <1> QED
    BY <1>1, <1>2, <1>3, WireShape

\* Whoever is seen has a socket that will undo it.
LEMMA SeenStep ==
  ASSUME SocketsInv, SocketsNext, NEW p \in Players
  PROVE  SeenGood(p)'
  <1> USE SocketsAssumption DEF At, Go, Set, FailOnce
  <1> /\ TypeOK /\ SeenGood(p)
      /\ \A s \in SocketIds : SessionGood(s)
    BY DEF SocketsInv
  <1> SUFFICES ASSUME faults' = 0
               PROVE  SeenGood(p)'
    BY DEF SeenGood
  <1>0. faults = 0
    BY FaultsCount
  <1> USE <1>0 DEF SeenGood, TypeOK, Shown
  <1>1. ASSUME NEW s \in SocketIds, NEW q \in Players, NEW c \in Channels, Upgrade(s, q, c)
        PROVE  SeenGood(p)'
    BY <1>1 DEF Upgrade, rows, inbox
  <1>2. CASE Subscribed
    <2>1. \A s \in SocketIds : presence[s] /\ pc[s] \in Shown => presence'[s] /\ pc'[s] \in Shown
      BY <1>2 DEF Subscribed, Resolved, Waiting
    <2>2. UNCHANGED <<active, cursors, channel, owner, isShown>>
      BY <1>2 DEF Subscribed, rows, inbox
    <2> QED
      BY <2>1, <2>2
  <1>3. CASE SubscribeFails \/ UnsubscribeFails
    BY <1>3 DEF SubscribeFails, UnsubscribeFails
  <1>4. CASE Unsubscribed
    BY <1>4, Answered DEF Unsubscribed, rows, inbox
  <1>5. ASSUME NEW s \in SocketIds, Connected(s) \/ ConnectedFails(s)
        PROVE  SeenGood(p)'
    <2>1. /\ pc[s] = "connecting" /\ pc' = [pc EXCEPT ![s] = "opened"] /\ presence[s]
          /\ UNCHANGED <<cursors, channel, owner, isShown, presence>>
          /\ \/ active' = active
             \/ IsUser(s) /\ channel[s] = owner[s] /\ active' = active \cup {owner[s]}
      <3>1. SessionGood(s) /\ pc[s] = "connecting"
        BY <1>5 DEF Connected, ConnectedFails
      <3>2. Connected(s)
        BY <1>5, FaultsCount DEF ConnectedFails
      <3> QED
        BY <3>1, <3>2 DEF Connected, SessionGood, IsUser
    <2>3. p \in active' =>
            \E t \in SocketIds : presence'[t] /\ channel'[t] = p /\ pc'[t] \in Shown
      BY <2>1
    <2>4. \A r \in Rooms : p \in cursors'[r] =>
            \E t \in SocketIds : /\ presence'[t] /\ isShown'[t] /\ channel'[t] = r
                                 /\ owner'[t] = p /\ pc'[t] \in Shown
      BY <2>1
    <2> QED
      BY <2>3, <2>4
  <1>6. ASSUME NEW s \in SocketIds, Close(s) \/ Release(s)
        PROVE  SeenGood(p)'
    BY <1>6 DEF Close, Release, rows, inbox
  <1>7. ASSUME NEW s \in SocketIds, Leaving(s) \/ LeavingFails(s)
        PROVE  SeenGood(p)'
    <2>1. Leaving(s)
      BY <1>7, FaultsCount DEF LeavingFails
    <2>2. /\ pc[s] = "leaving" /\ pc' = [pc EXCEPT ![s] = "done"]
          /\ UNCHANGED <<channel, owner, presence>>
          /\ isShown' = [isShown EXCEPT ![s] = FALSE]
          /\ active' = IF presence[s] /\ channel[s] \in Players THEN active \ {owner[s]} ELSE active
          /\ cursors' = IF presence[s] /\ isShown[s]
                        THEN [cursors EXCEPT ![channel[s]] = @ \ {owner[s]}] ELSE cursors
          /\ channel[s] \in Players => channel[s] = owner[s]
      BY <2>1 DEF Leaving, SessionGood, IsUser
    <2>3. ASSUME p \in active'
          PROVE  \E t \in SocketIds : presence'[t] /\ channel'[t] = p /\ pc'[t] \in Shown
      <3>1. PICK t \in SocketIds : presence[t] /\ channel[t] = p /\ pc[t] \in Shown
        BY <2>2, <2>3
      <3>2. t # s
        BY <2>2, <2>3, <3>1
      <3> QED
        BY <2>2, <3>1, <3>2
    <2>4. ASSUME NEW r \in Rooms, p \in cursors'[r]
          PROVE  \E t \in SocketIds : /\ presence'[t] /\ isShown'[t] /\ channel'[t] = r
                                      /\ owner'[t] = p /\ pc'[t] \in Shown
      <3>0. p \in cursors[r]
        BY <2>2, <2>4
      <3>1. PICK t \in SocketIds : /\ presence[t] /\ isShown[t] /\ channel[t] = r
                                  /\ owner[t] = p /\ pc[t] \in Shown
        BY <3>0
      <3>2. t # s
        BY <2>2, <2>4, <3>1
      <3> QED
        BY <2>2, <3>1, <3>2
    <2> QED
      BY <2>3, <2>4
  <1>8. ASSUME NEW s \in SocketIds, Move(s) \/ Hide(s)
        PROVE  SeenGood(p)'
    <2>1. /\ UNCHANGED <<sessions, active>> /\ isSeated[s] /\ presence[s]
          /\ channel[s] \in Rooms /\ pc[s] \in Shown
      BY <1>8 DEF Move, Hide, SessionGood, Shut
    <2>2. CASE Move(s)
      BY <2>1, <2>2 DEF Move, sessions
    <2>3. CASE Hide(s)
      BY <2>1, <2>3 DEF Hide, sessions
    <2> QED
      BY <1>8, <2>2, <2>3
  <1> QED
    BY <1>1, <1>2, <1>3, <1>4, <1>5, <1>6, <1>7, <1>8 DEF SocketsNext, SocketsRun, Opens

\* A Player whose sockets never met keeps one socket per channel.
LEMMA AloneStep ==
  ASSUME SocketsInv, SocketsNext
  PROVE  AloneGood'
  <1> USE SocketsAssumption DEF At, Go, Set, FailOnce
  <1> TypeOK /\ AloneGood
    BY DEF SocketsInv
  <1>1. ASSUME NEW s \in SocketIds, NEW p \in Players, NEW c \in Channels, Upgrade(s, p, c)
        PROVE  AloneGood'
    <2>1. /\ pc[s] = "new" /\ owner' = [owner EXCEPT ![s] = p]
          /\ channel' = [channel EXCEPT ![s] = c]
          /\ \E w \in {"connecting", "subscribing"} : pc' = [pc EXCEPT ![s] = w]
      BY <1>1 DEF Upgrade
    <2>2. /\ \A q \in Players : orderly'[q] => orderly[q]
          /\ orderly'[p] => ~\E t \in SocketIds : Live(t) /\ channel[t] = c /\ owner[t] = p
      <3>1. orderly' = [orderly EXCEPT ![p] = @ /\
                ~\E t \in SocketIds : Live(t) /\ channel[t] = c /\ owner[t] = p]
        BY <1>1 DEF Upgrade
      <3> DEFINE b == orderly[p] /\
                ~\E t \in SocketIds : Live(t) /\ channel[t] = c /\ owner[t] = p
      <3>2. orderly' = [orderly EXCEPT ![p] = b]
        BY <3>1, Zenon
      <3>3. b => orderly[p] /\ ~\E t \in SocketIds : Live(t) /\ channel[t] = c /\ owner[t] = p
        OBVIOUS
      <3> HIDE DEF b
      <3> QED
        BY <3>2, <3>3 DEF TypeOK
    <2>3. \A t \in SocketIds : Live(t)' => owner'[t] \in Players
      BY <2>1 DEF TypeOK, Live, SocketsInv, SessionGood
    <2>4. \A t \in SocketIds \ {s} : (Live(t)' <=> Live(t)) /\ owner'[t] = owner[t]
                                        /\ channel'[t] = channel[t]
      BY <2>1 DEF TypeOK, Live
    <2>5. owner'[s] = p /\ channel'[s] = c
      BY <2>1 DEF TypeOK
    <2> QED
      BY <2>2, <2>3, <2>4, <2>5 DEF AloneGood
  <1>2. ASSUME UNCHANGED <<owner, channel, orderly>>,
               \A t \in SocketIds : Live(t)' => Live(t)
        PROVE  AloneGood'
    BY <1>2 DEF AloneGood
  <1>3. CASE Answers
    BY <1>2, <1>3, Answered DEF Answers, Subscribed, SubscribeFails, Unsubscribed,
       UnsubscribeFails, Resolved, Waiting, Live, TypeOK
  <1>4. ASSUME NEW s \in SocketIds, Connected(s) \/ ConnectedFails(s) \/ Close(s)
        PROVE  AloneGood'
    BY <1>2, <1>4 DEF Connected, ConnectedFails, Close, Live, TypeOK
  <1>5. ASSUME NEW s \in SocketIds, Release(s) \/ Leaving(s) \/ LeavingFails(s)
        PROVE  AloneGood'
    BY <1>2, <1>5 DEF Release, Leaving, LeavingFails, Live, TypeOK
  <1>6. ASSUME NEW s \in SocketIds, Move(s) \/ Hide(s)
        PROVE  AloneGood'
    BY <1>2, <1>6 DEF Move, Hide, Live, sessions
  <1> QED
    BY <1>1, <1>3, <1>4, <1>5, <1>6 DEF SocketsNext, SocketsRun, Opens, Answers

\* The presence of a Player whose sockets never met follows their socket.
LEMMA PresenceStep ==
  ASSUME SocketsInv, SocketsNext
  PROVE  PresenceFollowsSockets'
  <1> USE SocketsAssumption DEF At, Go, Set, FailOnce
  <1> TypeOK /\ PresenceFollowsSockets /\ \A s \in SocketIds : SessionGood(s)
    BY DEF SocketsInv
  <1> SUFFICES ASSUME NEW t \in SocketIds,
                      (/\ At(t, "opened") /\ conn[t] = "open" /\ IsUser(t)
                       /\ faults = 0 /\ orderly[owner[t]])'
               PROVE  owner'[t] \in active'
    BY DEF PresenceFollowsSockets
  <1>0. faults = 0
    BY FaultsCount
  <1> USE <1>0 DEF PresenceFollowsSockets, TypeOK, IsUser
  <1>1. ASSUME NEW s \in SocketIds, NEW p \in Players, NEW c \in Channels, Upgrade(s, p, c)
        PROVE  owner'[t] \in active'
    <2>1. /\ pc[s] = "new" /\ owner' = [owner EXCEPT ![s] = p]
          /\ channel' = [channel EXCEPT ![s] = c] /\ conn' = [conn EXCEPT ![s] = "open"]
          /\ \E w \in {"connecting", "subscribing"} : pc' = [pc EXCEPT ![s] = w]
          /\ \A q \in Players : orderly'[q] => orderly[q]
          /\ active' = active
      BY <1>1 DEF Upgrade, rows
    <2>2. t # s /\ owner[t] \in Players
      BY <2>1 DEF SessionGood
    <2> QED
      BY <2>1, <2>2
  <1>2. CASE Answers
    BY <1>2, Answered DEF Answers, Subscribed, SubscribeFails, Unsubscribed,
       UnsubscribeFails, Resolved, Waiting, rows
  <1>3. ASSUME NEW s \in SocketIds, Connected(s) \/ ConnectedFails(s) \/ Close(s) \/ Release(s)
        PROVE  owner'[t] \in active'
    BY <1>3 DEF Connected, ConnectedFails, Close, Release, rows
  <1>4. ASSUME NEW s \in SocketIds, Leaving(s) \/ LeavingFails(s)
        PROVE  owner'[t] \in active'
    <2>1. /\ pc[s] = "leaving" /\ pc' = [pc EXCEPT ![s] = "done"]
          /\ UNCHANGED <<owner, channel, conn, orderly>>
          /\ active' = active \/ (IsUser(s) /\ active' = active \ {owner[s]})
      BY <1>4 DEF Leaving, LeavingFails, rows
    <2>2. t # s /\ pc[t] = "opened" /\ owner[t] \in active
      BY <2>1
    <2>3. owner[s] = owner[t] /\ IsUser(s) => channel[s] = channel[t]
      BY <2>1, <2>2 DEF SessionGood
    <2>4. ~(owner[s] = owner[t] /\ IsUser(s))
      BY <2>1, <2>2, <2>3 DEF SocketsInv, AloneGood, Live
    <2> QED
      BY <2>1, <2>2, <2>4
  <1>5. ASSUME NEW s \in SocketIds, Move(s) \/ Hide(s)
        PROVE  owner'[t] \in active'
    BY <1>5 DEF Move, Hide, sessions
  <1> QED
    BY <1>1, <1>2, <1>3, <1>4, <1>5 DEF SocketsNext, SocketsRun, Opens, Answers

LEMMA InitInv == SocketsInit => SocketsInv
  <1> SUFFICES ASSUME SocketsInit
               PROVE  SocketsInv
    OBVIOUS
  <1> USE SocketsAssumption DEF SocketsInit
  <1>1. TypeOK
    BY DEF TypeOK, Channels, Command
  <1>2. \A s \in SocketIds : SessionGood(s) /\ SubGood(s)
    BY DEF SessionGood, SubGood, At, Shut, Opening
  <1>3. \A c \in Channels : MapGood(c) /\ HeardGood(c)
    BY DEF MapGood, HeardGood, WillHear, Channels
  <1>4. WireGood
    BY DEF WireGood
  <1>5. \A p \in Players : SeenGood(p)
    BY DEF SeenGood
  <1>6. AloneGood /\ PresenceFollowsSockets
    BY DEF AloneGood, PresenceFollowsSockets, Live, At
  <1> QED
    BY <1>1, <1>2, <1>3, <1>4, <1>5, <1>6 DEF SocketsInv

\* Every step of the sockets keeps the invariant.
LEMMA SocketsStep ==
  ASSUME SocketsInv, SocketsNext
  PROVE  SocketsInv'
  <1>1. \A s \in SocketIds : SessionGood(s)' /\ SubGood(s)'
    BY SessionStep, SubStep
  <1>2. \A c \in Channels : MapGood(c)' /\ HeardGood(c)'
    BY MapStep, HeardStep
  <1>3. \A p \in Players : SeenGood(p)'
    BY SeenStep
  <1> QED
    BY <1>1, <1>2, <1>3, Types, WireStep, AloneStep, PresenceStep DEF SocketsInv, Channels

LEMMA SocketsStutter ==
  ASSUME SocketsInv, UNCHANGED socketVars
  PROVE  SocketsInv'
  BY DEF SocketsInv, socketVars, sessions, inbox, pubsub, rows, TypeOK, SessionGood, SubGood,
     MapGood, CommandGood, WireGood, HeardGood, WillHear, SeenGood, AloneGood, Live, At, IsUser,
     PresenceFollowsSockets

\* The sockets of an instance keep the invariant.
LEMMA SocketsInvariance == SocketsSpec => []SocketsInv
  <1>1. SocketsInv /\ [SocketsNext]_socketVars => SocketsInv'
    BY SocketsStep, SocketsStutter
  <1> QED
    BY <1>1, InitInv, PTL DEF SocketsSpec

-----------------------------------------------------------------------------
\* What the invariant says of the properties.
LEMMA InvDelivers == SocketsInv => Delivery
  <1> SUFFICES ASSUME SocketsInv, NEW s \in SocketIds, Attached(s)
               PROVE  /\ channels[channel[s]] = sub[s]
                      /\ s \in receivers[sub[s]]
                      /\ WillHear(channel[s])
    BY DEF Delivery
  <1>1. /\ pc[s] \in {"connecting", "opened"} /\ sub[s] \in SocketIds /\ channel[s] \in Channels
        /\ sub[s] # None
    BY DEF Attached, SocketsInv, TypeOK, SessionGood, At
  <1>2. channels[channel[s]] = sub[s] /\ s \in receivers[sub[s]]
    BY <1>1 DEF SocketsInv, SubGood, Opening
  <1>3. WillHear(channel[s])
    BY <1>1, <1>2 DEF SocketsInv, HeardGood
  <1> QED
    BY <1>2, <1>3

LEMMA InvLeavesNobody == SocketsInv => NobodyLeftBehind
  BY DEF SocketsInv, NobodyLeftBehind, SeenGood, Live, Shown

LEMMA InvLeaksNothing == SocketsInv => NothingLeaks
  <1> SUFFICES ASSUME SocketsInv, NEW c \in Channels, faults = 0,
                      ~\E s \in SocketIds : Live(s) /\ channel[s] = c
               PROVE  channels[c] = None /\ c \notin subscribed
    BY DEF NothingLeaks
  <1> TypeOK /\ MapGood(c) /\ HeardGood(c) /\ WireGood
    BY DEF SocketsInv
  <1>1. channels[c] = None
    <2> SUFFICES ASSUME channels[c] # None
                 PROVE  FALSE
      OBVIOUS
    <2>1. PICK s \in SocketIds : sub[s] = channels[c] /\ pc[s] \in Opening
      BY DEF MapGood
    <2>2. channel[channels[c]] = c
      BY DEF MapGood
    <2>3. channel[s] = c /\ Live(s)
      BY <2>1, <2>2 DEF SocketsInv, SubGood, Live, Opening
    <2> QED
      BY <2>3
  <1>2. ~WillHear(c)
    BY <1>1 DEF HeardGood
  <1>3. ASSUME NEW i \in DOMAIN wire
        PROVE  wire[i].channel # c
    <2>1. wire[i] \in Command /\ CommandGood(wire[i])
      BY ElementOfSeq DEF TypeOK, WireGood
    <2> QED
      BY <2>1 DEF Command, CommandGood, Live, At
  <1> QED
    BY <1>1, <1>2, <1>3 DEF WillHear

-----------------------------------------------------------------------------
\* A socket that is open and subscribed receives from the subscription Pubsub's
\* map holds, and Redis delivers its channel or will (Pubsub.subscribe and
\* release): for every number of sockets and every failure of Redis.
THEOREM DeliveryHolds == SocketsSpec => []Delivery
  BY SocketsInvariance, InvDelivers, PTL

\* Of what sockets write, and without a failed call (faults = 0): nobody without a
\* socket is active or shows a cursor (SocketSession's cleanup, Orchestrator
\* presence and CursorInbox).  A join or a create sets isActive with no socket.
THEOREM NobodyLeftBehindHolds == SocketsSpec => []NobodyLeftBehind
  BY SocketsInvariance, InvLeavesNobody, PTL

\* Presence follows the socket of a Player whose sockets never met.
THEOREM PresenceFollowsSocketsHolds == SocketsSpec => []PresenceFollowsSockets
  <1>1. SocketsInv => PresenceFollowsSockets
    BY DEF SocketsInv
  <1> QED
    BY <1>1, SocketsInvariance, PTL

\* Without a failed call, a channel nobody is left on is neither in the map of
\* Pubsub nor subscribed at Redis.
THEOREM NothingLeaksHolds == SocketsSpec => []NothingLeaks
  BY SocketsInvariance, InvLeaksNothing, PTL

=============================================================================
