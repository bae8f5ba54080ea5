---------------------------- MODULE RoomMembership ----------------------------
(***************************************************************************)
(* Who sits in one Room, who is its Host, and how it starts and ends.       *)
(*                                                                         *)
(* A join reads and writes under a lock on the Room row (SELECT ... FOR     *)
(* UPDATE in a transaction).  Updates of that row wait for the lock, and so *)
(* does an insert of a seat, whose foreign key locks the row as well.       *)
(* Everything else interleaves.  Rounds are RoundLifecycle's subject, and   *)
(* so is the ready flag once the Room has started: here it says "ready".    *)
(* A Player's isHost flag is left out: hostId decides who may act.          *)
(***************************************************************************)
EXTENDS FiniteSets, Naturals

CONSTANTS
  Players,     \* users who may sit in the Room
  Creator,     \* the one who creates it
  Handlers,    \* requests and presence changes in flight, on any instance
  None,        \* nobody; an unlocked row
  MaxPlayers,  \* the Room's maxPlayers
  MinPlayers,  \* MIN_PLAYERS_TO_START
  MaxFaults    \* bound: handlers that die part-way

ASSUME MembershipAssumption ==
  /\ IsFiniteSet(Players) /\ Creator \in Players
  /\ None \notin Players \cup Handlers
  /\ MaxPlayers \in Nat /\ MinPlayers \in Nat /\ MaxFaults \in Nat

VARIABLES
  status,  \* the Room row: LOBBY, IN_PROGRESS or FINISHED
  host,    \* its hostId
  lock,    \* the handler whose transaction has locked the row
  seated,  \* Players with a room_players row
  active,  \* those with isActive,
  ready,   \* with isReady,
  dealt,   \* and with a Hand
  task,    \* handlers in flight: where they are, for whom, and what they read
  threw,   \* the start failed while it dealt the Hands
  faults   \* handlers that died part-way

room  == <<status, host>>
seats == <<seated, active, ready, dealt>>
ended == <<threw, faults>>
vars  == <<room, lock, seats, task, ended>>

Idle == [pc |-> "idle", player |-> None, heir |-> None, late |-> FALSE,
         flag |-> FALSE, list |-> {}]

At(h, pc)     == task[h].pc = pc
Go(h, pc)     == task' = [task EXCEPT ![h].pc = pc]
Become(h, r)  == task' = [task EXCEPT ![h] = r]
Begin(h, pc, p) == task[h] = Idle /\ Become(h, [Idle EXCEPT !.pc = pc, !.player = p])
Stop(h)       == Become(h, Idle)
Unlocked      == lock = None

-----------------------------------------------------------------------------
\* createRoom after its first insert: the Room is listed before its Host sits,
\* and the Host's own seat is inserted without a look at maxPlayers.
CreateSeat(h) ==
  /\ At(h, "createSeat")
  /\ Unlocked
  /\ seated' = seated \cup {Creator}
  /\ active' = active \cup {Creator}
  /\ Stop(h)
  /\ UNCHANGED <<room, lock, ready, dealt, ended>>

\* The creator acts on the Room once its creation was answered.
Knows(p) == p = Creator => ~\E h \in Handlers : At(h, "createSeat")

\* The Room row is read without FOR UPDATE.
JoinAdmitMutant(h, p) ==
  /\ task[h] = Idle
  /\ status # "FINISHED"
  /\ p \notin seated
  /\ Cardinality(seated) < MaxPlayers
  /\ Become(h, [Idle EXCEPT !.pc = "joinInsert", !.player = p, !.late = status = "IN_PROGRESS"])
  /\ UNCHANGED <<room, seats, lock, ended>>

\* addPlayerToLockedRoom: lock the row and run assertCanJoin on it.
JoinAdmit(h, p) ==
  /\ task[h] = Idle
  /\ Unlocked
  /\ status # "FINISHED"
  /\ p \notin seated
  /\ Cardinality(seated) < MaxPlayers
  /\ lock' = h
  /\ Become(h, [Idle EXCEPT !.pc = "joinInsert", !.player = p, !.late = status = "IN_PROGRESS"])
  /\ UNCHANGED <<room, seats, ended>>

\* Insert the seat and commit.
JoinInsert(h) ==
  LET p == task[h].player IN
  /\ At(h, "joinInsert")
  /\ seated' = seated \cup {p}
  /\ active' = active \cup {p}
  /\ UNCHANGED <<ready, dealt>>
  /\ lock' = None
  /\ IF task[h].late THEN Go(h, "joinDeal") ELSE Stop(h)
  /\ UNCHANGED <<room, ended>>

\* dealLateJoiner, of the Room as the join read it.
JoinDeal(h) ==
  /\ At(h, "joinDeal")
  /\ dealt' = dealt \cup ({task[h].player} \cap seated)
  /\ Stop(h)
  /\ UNCHANGED <<room, lock, seated, active, ready, ended>>

-----------------------------------------------------------------------------
\* togglePlayerReady reads the Room, then the flag, then writes its opposite.
Toggle(h, p) ==
  /\ status = "LOBBY"
  /\ Begin(h, "toggleRead", p)
  /\ UNCHANGED <<room, lock, seats, ended>>

ToggleRead(h) ==
  /\ At(h, "toggleRead")
  /\ \/ /\ task[h].player \in seated
        /\ task' = [task EXCEPT ![h].pc = "toggleWrite", ![h].flag = task[h].player \in ready]
     \/ task[h].player \notin seated /\ Stop(h)
  /\ UNCHANGED <<room, lock, seats, ended>>

ToggleWrite(h) ==
  LET p == task[h].player IN
  /\ At(h, "toggleWrite")
  /\ ready' = IF task[h].flag THEN ready \ {p} ELSE ready \cup ({p} \cap seated)
  /\ Stop(h)
  /\ UNCHANGED <<room, lock, seated, active, dealt, ended>>

-----------------------------------------------------------------------------
\* startGame: assertRoomCanStart on the Room and its Players.
StartCheck(h) ==
  /\ status = "LOBBY"
  /\ Cardinality(active) >= MinPlayers
  /\ active \subseteq ready
  /\ Begin(h, "startClaim", host)
  /\ UNCHANGED <<room, lock, seats, ended>>

\* The UPDATE does not ask for LOBBY.
StartClaimMutant(h) ==
  /\ At(h, "startClaim")
  /\ Unlocked
  /\ status' = "IN_PROGRESS" /\ Go(h, "startUnready")
  /\ UNCHANGED <<host, lock, seats, ended>>

\* claimLobbyStart.
StartClaim(h) ==
  /\ At(h, "startClaim")
  /\ Unlocked
  /\ \/ status = "LOBBY" /\ status' = "IN_PROGRESS" /\ Go(h, "startUnready")
     \/ status # "LOBBY" /\ Stop(h) /\ UNCHANGED status
  /\ UNCHANGED <<host, lock, seats, ended>>

\* setPlayersAsUnready.
StartUnready(h) ==
  /\ At(h, "startUnready")
  /\ ready' = {}
  /\ Go(h, "startList")
  /\ UNCHANGED <<room, lock, seated, active, dealt, ended>>

\* Only those who were ready in time get a Hand.
StartListMutant(h) ==
  /\ At(h, "startList")
  /\ task' = [task EXCEPT ![h].pc = "startDeal", ![h].list = active]
  /\ UNCHANGED <<room, lock, seats, ended>>

\* dealInitialHands reads the Players and deals one after the other.
StartList(h) ==
  /\ At(h, "startList")
  /\ task' = [task EXCEPT ![h].pc = "startDeal", ![h].list = seated]
  /\ UNCHANGED <<room, lock, seats, ended>>

\* dealHand reads back the Player, and throws when they have left.
StartDeal(h) ==
  /\ At(h, "startDeal")
  /\ \E p \in task[h].list :
       \/ /\ p \in seated
          /\ dealt' = dealt \cup {p}
          /\ task' = [task EXCEPT ![h].list = @ \ {p}]
          /\ UNCHANGED threw
       \/ /\ p \notin seated
          /\ threw' = TRUE
          /\ Stop(h)
          /\ UNCHANGED dealt
  /\ UNCHANGED <<room, lock, seated, active, ready, faults>>

\* Every Hand is dealt: startFirstRound is RoundLifecycle's.
StartDone(h) ==
  /\ At(h, "startDeal")
  /\ task[h].list = {}
  /\ Stop(h)
  /\ UNCHANGED <<room, lock, seats, ended>>

-----------------------------------------------------------------------------
\* leaveRoom deletes the row, if there is one.
Leave(h, p) ==
  /\ Begin(h, "hostLoss", p)
  /\ seated' = seated \ {p} /\ active' = active \ {p}
  /\ ready' = ready \ {p} /\ dealt' = dealt \ {p}
  /\ UNCHANGED <<room, lock, ended>>

\* markPresence(false).  A Host who drops in LOBBY keeps the Room.
Drop(h, p) ==
  /\ p \in active
  /\ Begin(h, "dropRead", p)
  /\ active' = active \ {p}
  /\ UNCHANGED <<room, lock, seated, ready, dealt, ended>>

DropRead(h) ==
  /\ At(h, "dropRead")
  /\ \/ status = "LOBBY" /\ Stop(h)
     \/ status # "LOBBY" /\ Go(h, "hostLoss")
  /\ UNCHANGED <<room, lock, seats, ended>>

\* The seat is written whether or not it is still there.
ReturnMutant(p) ==
  /\ p \notin active
  /\ active' = active \cup {p}
  /\ UNCHANGED <<room, lock, seated, ready, dealt, task, ended>>

\* markPresence(true).
Return(p) ==
  /\ p \in seated \ active
  /\ active' = active \cup {p}
  /\ UNCHANGED <<room, lock, seated, ready, dealt, task, ended>>

\* A Host who leaves in LOBBY is treated like one who drops.
HostLossMutant(h) ==
  /\ At(h, "hostLoss")
  /\ \/ (host # task[h].player \/ status # "IN_PROGRESS") /\ Stop(h)
     \/ host = task[h].player /\ status = "IN_PROGRESS" /\ Go(h, "heirRead")
  /\ UNCHANGED <<room, lock, seats, ended>>

\* handleHostLoss.
HostLoss(h) ==
  /\ At(h, "hostLoss")
  /\ \/ (host # task[h].player \/ status = "FINISHED") /\ Stop(h)
     \/ host = task[h].player /\ status = "LOBBY" /\ Go(h, "end")
     \/ host = task[h].player /\ status = "IN_PROGRESS" /\ Go(h, "heirRead")
  /\ UNCHANGED <<room, lock, seats, ended>>

\* reassignHostInProgress: the SELECT has no order, so any active Player.
HeirRead(h) ==
  LET heirs == active \ {task[h].player} IN
  /\ At(h, "heirRead")
  /\ \/ \E q \in heirs : task' = [task EXCEPT ![h].pc = "heirWrite", ![h].heir = q]
     \/ heirs = {} /\ Go(h, "end")
  /\ UNCHANGED <<room, lock, seats, ended>>

HeirWrite(h) ==
  /\ At(h, "heirWrite")
  /\ Unlocked
  /\ host' = task[h].heir
  /\ Stop(h)
  /\ UNCHANGED <<status, lock, seats, ended>>

\* endRoom, checked against the Host and then carried out by endGame.
EndRoom(h) ==
  /\ Begin(h, "end", host)
  /\ UNCHANGED <<room, lock, seats, ended>>

EndGame(h) ==
  /\ At(h, "end")
  /\ Unlocked
  /\ status' = "FINISHED"
  /\ Stop(h)
  /\ UNCHANGED <<host, lock, seats, ended>>

\* A handler dies, or an await of its rejects; its transaction is rolled back.
Fail(h) ==
  /\ task[h] # Idle
  /\ faults < MaxFaults /\ faults' = faults + 1
  /\ lock' = IF lock = h THEN None ELSE lock
  /\ Stop(h)
  /\ UNCHANGED <<room, seats, threw>>

-----------------------------------------------------------------------------
\* The Room row has just been inserted; its creator has no seat yet.
Init ==
  /\ status = "LOBBY" /\ host = Creator /\ lock = None
  /\ seated = {} /\ active = {} /\ ready = {} /\ dealt = {}
  /\ \E h \in Handlers :
       task = [g \in Handlers |-> IF g = h THEN [Idle EXCEPT !.pc = "createSeat"] ELSE Idle]
  /\ threw = FALSE /\ faults = 0

Request(h) ==
  \/ Knows(host) /\ (StartCheck(h) \/ EndRoom(h))
  \/ \E p \in Players : Knows(p) /\
       (JoinAdmit(h, p) \/ Toggle(h, p) \/ Leave(h, p) \/ Drop(h, p))

Resume(h) ==
  \/ CreateSeat(h) \/ JoinInsert(h) \/ JoinDeal(h) \/ ToggleRead(h) \/ ToggleWrite(h)
  \/ StartClaim(h) \/ StartUnready(h) \/ StartList(h) \/ StartDeal(h) \/ StartDone(h)
  \/ DropRead(h) \/ HostLoss(h) \/ HeirRead(h) \/ HeirWrite(h) \/ EndGame(h)

Next ==
  \/ \E h \in Handlers : Request(h) \/ Resume(h) \/ Fail(h)
  \/ \E p \in Players : Return(p)

Spec == Init /\ [][Next]_vars

-----------------------------------------------------------------------------
Pcs == {"idle", "createSeat", "joinInsert", "joinDeal", "toggleRead", "toggleWrite",
        "startClaim", "startUnready", "startList", "startDeal", "dropRead",
        "hostLoss", "heirRead", "heirWrite", "end"}

TaskState == [pc : Pcs, player : Players \cup {None}, heir : Players \cup {None},
              late : BOOLEAN, flag : BOOLEAN, list : SUBSET Players]

\* The flags and the Hand are columns of the seat: without a seat there are none.
TypeOK ==
  /\ status \in {"LOBBY", "IN_PROGRESS", "FINISHED"}
  /\ host \in Players
  /\ lock \in Handlers \cup {None}
  /\ seated \subseteq Players
  /\ active \subseteq seated /\ ready \subseteq seated /\ dealt \subseteq seated
  /\ task \in [Handlers -> TaskState]
  /\ threw \in BOOLEAN
  /\ faults \in 0..MaxFaults

\* addPlayerToLockedRoom: "two joins can't both count the same free seat past
\* maxPlayers", and a Room that is over takes nobody, however joins meet
\* each other, the start and the end.  The creator's own seat is not a join.
JoinsRespectRoom ==
  [][\A p \in (seated' \ seated) \ {Creator} :
       Cardinality(seated') <= MaxPlayers /\ status' # "FINISHED"]_vars

\* claimLobbyStart: of two racing starts one stops before it deals again, and
\* no start revives a Room that ended after its check.
StatusAdvances ==
  [][status' # status => \/ status' = "FINISHED"
                         \/ status = "LOBBY" /\ status' = "IN_PROGRESS"]_vars

Quiet == \A h \in Handlers : task[h] = Idle

\* dealLateJoiner: a Player "would otherwise hold no cards".  Between the start
\* that deals to those it finds and the joins that deal to themselves, nobody
\* in a started Room is left without a Hand, unless the start threw.
NobodyWithoutHand ==
  Quiet /\ status = "IN_PROGRESS" /\ ~threw /\ faults = 0 => seated \subseteq dealt

\* ADR-0002: the Host rules "avoid both orphaned lobbies and killed in-progress
\* games".  A Room that waits to start has its Host among the seated.  (A seat is
\* all this asks: ADR-0002 would end the Room of a Host who drops in LOBBY, and
\* handleHostDrop, by its comment, keeps it for them to come back to.)
NoOrphanedLobby ==
  Quiet /\ status = "LOBBY" /\ faults = 0 => host \in seated

\* ADR-0002: a Host who leaves or drops mid-game hands the role to an active
\* Player, or the Room ends: a Room that somebody plays in has a Host in it.
HostCanAct ==
  Quiet /\ status = "IN_PROGRESS" /\ active # {} /\ faults = 0 => host \in seated

=============================================================================
