--------------------------- MODULE RoundLifecycle ---------------------------
(***************************************************************************)
(* One Room of the game server: its Rounds, its Players' round state, and  *)
(* the request handlers, expiry handlers and sweeps that are in flight on  *)
(* it.  A handler is a slot with a program counter and the values it has   *)
(* read so far; every `await` of the code that reads or writes what this   *)
(* module keeps is one action, so handlers interleave where they do in the *)
(* server.  Several instances of the server may run: only the database is  *)
(* shared, and its conditional UPDATEs and row locks are the guards below. *)
(*                                                                         *)
(* Deadlines are not timed here: a play, judging or grace deadline may     *)
(* fire whenever its Round exists (RoundClocks models the keys and the     *)
(* columns).  Cards and Hosts are left to their own modules.               *)
(***************************************************************************)
EXTENDS Naturals, FiniteSets

CONSTANTS
  Players,        \* the users that may sit in the Room
  Tasks,          \* slots for request and expiry handlers in flight
  Sweepers,       \* one slot per server instance: its sweeps are single-flight
  NoPlayer,       \* null in a player-valued field
  MinPlayers,     \* MIN_PLAYERS_TO_START
  MaxPoints,      \* room.maxPoints
  MaxRound,       \* bound: no Round past this number is opened
  MaxFaults,      \* bound: handlers that die part-way
  Requests,       \* the handlers the environment calls
  SlowRotations   \* TRUE: a live rotation may outlast STALLED_ROTATION_GRACE_MS

HandlerKinds == {"toggle", "start", "play", "pick", "leave", "drop", "return", "join",
                 "end", "expire", "sweep", "resume"}

ASSUME ParametersAssumption ==
  /\ NoPlayer \notin Players
  /\ Tasks \cap Sweepers = {}
  /\ MinPlayers \in Nat /\ MaxPoints \in Nat \ {0} /\ MaxRound \in Nat \ {0}
  /\ MaxFaults \in Nat
  /\ Requests \subseteq HandlerKinds
  /\ SlowRotations \in BOOLEAN

VARIABLES
  room,       \* the Room row
  rounds,     \* the Round rows by round number; status "NONE" is no row
  plays,      \* per Round, the Players with a round_played_cards row
  seated,     \* Players with a room_players row
  active,     \* of those, isActive
  ready,      \* of those, isReady
  score,      \* of those, score
  stray,      \* history: of those, whose isReady a toggle wrote after the start
  task,       \* handlers in flight and what each has read
  faults,     \* how many handlers have died part-way
  announced,  \* how often each event of a Round was published
  prompt,     \* the plays published with room.time-to-judge
  picker      \* who claimed JUDGING -> COMPLETE

seats    == <<seated, active, ready, score, stray>>
ledger   == <<rounds, plays>>
observed == <<announced, prompt, picker>>   \* history: no guard reads it
vars     == <<room, ledger, seats, task, faults, observed>>

Slots        == Tasks \cup Sweepers
RoundNumbers == 1..MaxRound
Ongoing      == {"PLAYING", "JUDGING"}      \* ACTIVE_PHASES
Ended        == {"COMPLETE", "ABORTED"}
RoundEvents  == {"round-start", "time-to-judge", "round-end"}
Idle         == [pc |-> "idle", kind |-> "none", round |-> 0,
                 player |-> NoPlayer, judge |-> NoPlayer, seen |-> {}]

-----------------------------------------------------------------------------
\* How a handler moves: it starts in a free slot, goes on, or is done.

At(t, pc)   == task[t].pc = pc
Go(t, pc)   == task' = [task EXCEPT ![t].pc = pc]
Become(t, r) == task' = [task EXCEPT ![t] = r]
Stop(t)     == Become(t, Idle)
Begin(t, kind) == kind \in Requests /\ task[t] = Idle
N(t)        == task[t].round
Announce(e, n) == announced' = [announced EXCEPT ![e][n] = @ + 1]

\* Definitions named ...Mutant are plausible bugs, each just before the code it
\* would replace; nothing uses them but the runs that show a property has teeth.

\* The outgoing Judge is not excluded.
EligibleMutant(outgoing) == active

\* getRandomJudge's choices: active Players but the outgoing Judge, unless
\* that leaves nobody.
Eligible(outgoing) ==
  IF active \ {outgoing} # {} THEN active \ {outgoing} ELSE active

-----------------------------------------------------------------------------
\* RoomService.togglePlayerReady.  Only the LOBBY lets a toggle begin; nothing
\* stops its write once the game has started, where isReady means "has played".

Toggle(t, p) ==
  /\ Begin(t, "toggle")
  /\ room.status = "LOBBY"
  /\ Become(t, [Idle EXCEPT !.kind = "toggle", !.pc = "toggleRead", !.player = p])
  /\ UNCHANGED <<room, ledger, seats, faults, observed>>

ToggleRead(t) ==
  LET p == task[t].player IN
  /\ At(t, "toggleRead")
  /\ \/ /\ p \in seated
        /\ Become(t, [task[t] EXCEPT !.pc = "toggleWrite", !.seen = {p} \ ready])
     \/ p \notin seated /\ Stop(t)
  /\ UNCHANGED <<room, ledger, seats, faults, observed>>

\* The flag it read, turned round; no row matches once the Player left.
ToggleWrite(t) ==
  LET p == task[t].player IN
  /\ At(t, "toggleWrite")
  /\ ready' = (ready \ {p}) \cup (task[t].seen \cap seated)
  /\ stray' = IF room.status = "LOBBY" THEN stray ELSE stray \cup ({p} \cap seated)
  /\ Stop(t)
  /\ UNCHANGED <<room, ledger, seated, active, score, faults, observed>>

-----------------------------------------------------------------------------
\* RoomService.startGame and RoomOrchestrator.startRoom: Round 1.

StartCheck(t) ==
  /\ Begin(t, "start")
  /\ room.status = "LOBBY"
  /\ Cardinality(active) >= MinPlayers
  /\ active \subseteq ready
  /\ \E j \in Eligible(NoPlayer) :
       Become(t, [Idle EXCEPT !.kind = "start", !.pc = "startClaim",
                              !.round = 1, !.judge = j])
  /\ UNCHANGED <<room, ledger, seats, faults, observed>>

StartClaim(t) ==
  /\ At(t, "startClaim")
  /\ \/ /\ room.status = "LOBBY"
        /\ room' = [status |-> "IN_PROGRESS", round |-> 1, judge |-> task[t].judge]
        /\ Go(t, "startUnready")
     \/ /\ room.status # "LOBBY"
        /\ Stop(t) /\ UNCHANGED room
  /\ UNCHANGED <<ledger, seats, faults, observed>>

StartUnready(t) ==
  /\ At(t, "startUnready")
  /\ ready' = {} /\ stray' = {}
  /\ Go(t, "startDeal")
  /\ UNCHANGED <<room, ledger, seated, active, score, faults, observed>>

\* dealInitialHands reads the Players and deals each a Hand; it throws when it
\* comes to one who has left since.
StartDeal(t) ==
  /\ At(t, "startDeal")
  /\ Become(t, [task[t] EXCEPT !.pc = "startDealt", !.seen = seated])
  /\ UNCHANGED <<room, ledger, seats, faults, observed>>

StartDealt(t) ==
  /\ At(t, "startDealt")
  /\ \/ Go(t, "openRound")
     \/ ~(task[t].seen \subseteq seated) /\ Stop(t)
  /\ UNCHANGED <<room, ledger, seats, faults, observed>>

-----------------------------------------------------------------------------
\* RoomService.playCards.  The checks are one step: the insert repeats the
\* one that matters, the phase, under the Round's row lock, and the unique
\* index on (round, player) stands behind the ready flag.

PlayCheck(t, p) ==
  LET n == room.round IN
  /\ Begin(t, "play")
  /\ room.status = "IN_PROGRESS"
  /\ rounds[n].status = "PLAYING"
  /\ p \in seated \ ready
  /\ p # rounds[n].judge
  /\ Become(t, [Idle EXCEPT !.kind = "play", !.pc = "playInsert",
                            !.round = n, !.player = p])
  /\ UNCHANGED <<room, ledger, seats, faults, observed>>

\* The phase is not checked again under the lock.
PlayInsertMutant(t) ==
  /\ At(t, "playInsert")
  /\ plays' = [plays EXCEPT ![N(t)] = @ \cup {task[t].player}]
  /\ Go(t, "playRefill")
  /\ UNCHANGED <<room, rounds, seats, faults, observed>>

PlayInsert(t) ==
  LET n == N(t)  p == task[t].player IN
  /\ At(t, "playInsert")
  /\ \/ /\ rounds[n].status = "PLAYING" /\ p \notin plays[n]
        /\ plays' = [plays EXCEPT ![n] = @ \cup {p}]
        /\ Go(t, "playRefill")
     \/ /\ rounds[n].status # "PLAYING" \/ p \in plays[n]
        /\ Stop(t) /\ UNCHANGED plays
  /\ UNCHANGED <<room, rounds, seats, faults, observed>>

\* An upsert instead of an UPDATE.
PlayRefillMutant(t) ==
  /\ At(t, "playRefill")
  /\ ready' = ready \cup {task[t].player} /\ stray' = stray \ {task[t].player}
  /\ Go(t, "playReread")
  /\ UNCHANGED <<room, ledger, seated, active, score, faults, observed>>

\* refillHand's UPDATE sets isReady; it matches no row once the Player left.
PlayRefill(t) ==
  /\ At(t, "playRefill")
  /\ ready' = ready \cup ({task[t].player} \cap seated)
  /\ stray' = stray \ {task[t].player}
  /\ Go(t, "playReread")
  /\ UNCHANGED <<room, ledger, seated, active, score, faults, observed>>

\* The Player is read back for the broadcast, then the Round is looked up.
PlayReread(t) ==
  /\ At(t, "playReread")
  /\ \/ /\ task[t].player \in seated
        /\ Become(t, [Idle EXCEPT !.kind = "play", !.pc = "findRoom"])
     \/ /\ task[t].player \notin seated /\ Stop(t)
  /\ UNCHANGED <<room, ledger, seats, faults, observed>>

-----------------------------------------------------------------------------
\* Departures, returns and joins.

\* leaveRoom deletes the row; the Host fallout and onPlayerLeft follow.
Leave(t, p) ==
  /\ Begin(t, "leave")
  /\ p \in seated
  /\ seated' = seated \ {p} /\ active' = active \ {p} /\ ready' = ready \ {p}
  /\ score' = [score EXCEPT ![p] = 0] /\ stray' = stray \ {p}
  /\ Become(t, [Idle EXCEPT !.kind = "leave", !.pc = "hostLoss", !.player = p])
  /\ UNCHANGED <<room, ledger, faults, observed>>

\* markPresence(false) clears isActive; the Host fallout and onPlayerDropped follow.
Drop(t, p) ==
  /\ Begin(t, "drop")
  /\ p \in seated
  /\ active' = active \ {p}
  /\ Become(t, [Idle EXCEPT !.kind = "drop", !.pc = "hostLoss", !.player = p])
  /\ UNCHANGED <<room, ledger, seated, ready, score, stray, faults, observed>>

\* A drop that reads its Player back and finds nobody is over.  Then
\* handleHostLoss, when the Player was the Host: a Host who leaves the LOBBY ends
\* the Room (one who drops there keeps it), and so does one without an active
\* heir; with one, the game goes on.
HostLoss(t) ==
  LET p == task[t].player IN
  /\ At(t, "hostLoss")
  /\ \/ Go(t, "findRoom")
     \/ task[t].kind = "drop" /\ p \notin seated /\ Stop(t)
     \/ /\ \/ room.status = "LOBBY" /\ task[t].kind = "leave"
           \/ room.status = "IN_PROGRESS" /\ active \subseteq {p}
        /\ Go(t, "endGame")
     \/ /\ room.status = "IN_PROGRESS"
        /\ \E heir \in active \ {p} :
             Become(t, [task[t] EXCEPT !.pc = "newHost", !.seen = {heir}])
  /\ UNCHANGED <<room, ledger, seats, faults, observed>>

\* The heir's row is written and read back: of an heir who left in between
\* nothing is found, and the departure ends without onPlayerLeft.
NewHost(t) ==
  /\ At(t, "newHost")
  /\ \/ /\ task[t].seen \subseteq seated
        /\ Become(t, [task[t] EXCEPT !.pc = "findRoom", !.seen = {}])
     \/ ~(task[t].seen \subseteq seated) /\ Stop(t)
  /\ UNCHANGED <<room, ledger, seats, faults, observed>>

\* markPresence(true); onPlayerReturned only touches deadlines.
Return(p) ==
  /\ "return" \in Requests
  /\ p \in seated \ active
  /\ active' = active \cup {p}
  /\ UNCHANGED <<room, ledger, seated, ready, score, stray, task, faults, observed>>

\* joinRoom: a fresh Player, not ready, without points.
Join(p) ==
  /\ "join" \in Requests
  /\ room.status # "FINISHED"
  /\ p \notin seated
  /\ seated' = seated \cup {p} /\ active' = active \cup {p}
  /\ UNCHANGED <<room, ledger, ready, score, stray, task, faults, observed>>

-----------------------------------------------------------------------------
\* activeRound, then what the caller does with the Round it found.

FindRoom(t) ==
  /\ At(t, "findRoom")
  /\ \/ /\ room.status = "IN_PROGRESS"
        /\ Become(t, [task[t] EXCEPT !.pc = "findRound", !.round = room.round])
     \/ /\ room.status # "IN_PROGRESS" /\ Stop(t)
  /\ UNCHANGED <<room, ledger, seats, faults, observed>>

\* A leaving Judge aborts; a dropped Judge is left to the grace deadline; any
\* other play or departure asks whether everyone has now played.
FindRound(t) ==
  LET r == rounds[N(t)]
      judgeGone == r.judge = task[t].player
  IN
  /\ At(t, "findRound")
  /\ \/ /\ r.status \in Ongoing /\ judgeGone /\ task[t].kind = "leave"
        /\ Go(t, "abort")
     \/ /\ r.status = "PLAYING" /\ ~judgeGone
        /\ Go(t, "readPlayers")
     \/ /\ \/ r.status \notin Ongoing
           \/ judgeGone /\ task[t].kind # "leave"
           \/ r.status = "JUDGING" /\ ~judgeGone
        /\ Stop(t)
  /\ UNCHANGED <<room, ledger, seats, faults, observed>>

\* Inactive Players are awaited too.
ReadPlayersMutant(t) ==
  /\ At(t, "readPlayers")
  /\ \/ seated \ {room.judge} \subseteq ready /\ Go(t, "readPlays")
     \/ ~(seated \ {room.judge} \subseteq ready) /\ Stop(t)
  /\ UNCHANGED <<room, ledger, seats, faults, observed>>

\* allActivePlayersPlayed: isJudge is derived from the Room, not the Round.
ReadPlayers(t) ==
  /\ At(t, "readPlayers")
  /\ \/ active \ {room.judge} \subseteq ready /\ Go(t, "readPlays")
     \/ ~(active \ {room.judge} \subseteq ready) /\ Stop(t)
  /\ UNCHANGED <<room, ledger, seats, faults, observed>>

\* playsOf.  With no plays only an elapsed play window aborts the Round.
ReadPlays(t) ==
  /\ At(t, "readPlays")
  /\ \/ /\ plays[N(t)] # {}
        /\ Become(t, [task[t] EXCEPT !.pc = "claimJudging", !.seen = plays[N(t)]])
     \/ /\ plays[N(t)] = {} /\ task[t].kind \in {"expire", "sweep"}
        /\ Go(t, "abort")
     \/ /\ plays[N(t)] = {} /\ task[t].kind \notin {"expire", "sweep"}
        /\ Stop(t)
  /\ UNCHANGED <<room, ledger, seats, faults, observed>>

\* An UPDATE without the phase predicate.
ClaimJudgingMutant(t) ==
  /\ At(t, "claimJudging")
  /\ rounds' = [rounds EXCEPT ![N(t)].status = "JUDGING"]
  /\ Go(t, "timeToJudge")
  /\ UNCHANGED <<room, plays, seats, faults, observed>>

\* advanceToJudging's claim PLAYING -> JUDGING.
ClaimJudging(t) ==
  /\ At(t, "claimJudging")
  /\ \/ /\ rounds[N(t)].status = "PLAYING"
        /\ rounds' = [rounds EXCEPT ![N(t)].status = "JUDGING"]
        /\ Go(t, "timeToJudge")
     \/ /\ rounds[N(t)].status # "PLAYING"
        /\ Stop(t) /\ UNCHANGED rounds
  /\ UNCHANGED <<room, plays, seats, faults, observed>>

\* The prompt carries the plays read before the claim.
TimeToJudge(t) ==
  /\ At(t, "timeToJudge")
  /\ Announce("time-to-judge", N(t))
  /\ prompt' = [prompt EXCEPT ![N(t)] = task[t].seen]
  /\ Stop(t)
  /\ UNCHANGED <<room, ledger, seats, faults, picker>>

-----------------------------------------------------------------------------
\* RoundLifecycle.judgePick: check, claim, record, score, end or rotate.

PickRoom(t, j, w) ==
  /\ Begin(t, "pick")
  /\ room.judge = j
  /\ Become(t, [Idle EXCEPT !.kind = "pick", !.pc = "pickRound",
                            !.judge = j, !.player = w])
  /\ UNCHANGED <<room, ledger, seats, faults, observed>>

\* requireActiveRound reads the Room again.
PickRound(t) ==
  /\ At(t, "pickRound")
  /\ \/ /\ room.status = "IN_PROGRESS" /\ rounds[room.round].status = "JUDGING"
        /\ Become(t, [task[t] EXCEPT !.pc = "pickWinner", !.round = room.round])
     \/ /\ room.status = "IN_PROGRESS" => rounds[room.round].status # "JUDGING"
        /\ Stop(t)
  /\ UNCHANGED <<room, ledger, seats, faults, observed>>

\* Anyone in the Room can be picked.
PickWinnerMutant(t) ==
  /\ At(t, "pickWinner")
  /\ \/ task[t].player \in seated /\ Go(t, "pickClaim")
     \/ task[t].player \notin seated /\ Stop(t)
  /\ UNCHANGED <<room, ledger, seats, faults, observed>>

PickWinner(t) ==
  /\ At(t, "pickWinner")
  /\ \/ task[t].player \in plays[N(t)] \cap seated /\ Go(t, "pickClaim")
     \/ task[t].player \notin plays[N(t)] \cap seated /\ Stop(t)
  /\ UNCHANGED <<room, ledger, seats, faults, observed>>

\* The claim's result is ignored.
PickClaimMutant(t) ==
  /\ At(t, "pickClaim")
  /\ rounds' = [rounds EXCEPT ![N(t)].status = "COMPLETE"]
  /\ picker' = [picker EXCEPT ![N(t)] = task[t].judge]
  /\ Go(t, "pickRecord")
  /\ UNCHANGED <<room, plays, seats, faults, announced, prompt>>

\* claimJudgedRound: JUDGING -> COMPLETE, or the Round was already decided.
PickClaim(t) ==
  /\ At(t, "pickClaim")
  /\ \/ /\ rounds[N(t)].status = "JUDGING"
        /\ rounds' = [rounds EXCEPT ![N(t)].status = "COMPLETE"]
        /\ picker' = [picker EXCEPT ![N(t)] = task[t].judge]
        /\ Go(t, "pickRecord")
     \/ /\ rounds[N(t)].status # "JUDGING"
        /\ Stop(t) /\ UNCHANGED <<rounds, picker>>
  /\ UNCHANGED <<room, plays, seats, faults, announced, prompt>>

PickRecord(t) ==
  /\ At(t, "pickRecord")
  /\ rounds' = [rounds EXCEPT ![N(t)].winner = task[t].player]
  /\ Go(t, "pickScore")
  /\ UNCHANGED <<room, plays, seats, faults, observed>>

\* incrementPlayerScore matches no row once the winner left.
PickScore(t) ==
  /\ At(t, "pickScore")
  /\ score' = IF task[t].player \in seated
              THEN [score EXCEPT ![task[t].player] = @ + 1] ELSE score
  /\ Go(t, "pickReread")
  /\ UNCHANGED <<room, ledger, seated, active, ready, stray, faults, observed>>

\* maxPoints off by one.
PickRereadMutant(t) ==
  LET w == task[t].player IN
  /\ At(t, "pickReread")
  /\ \/ w \notin seated /\ Stop(t)
     \/ w \in seated /\ score[w] > MaxPoints /\ Go(t, "pickEnd")
     \/ w \in seated /\ score[w] <= MaxPoints /\ Go(t, "roundEnd")
  /\ UNCHANGED <<room, ledger, seats, faults, observed>>

\* scoreRoundWinner reads the winner back: gone, at maxPoints, or play on.
PickReread(t) ==
  LET w == task[t].player IN
  /\ At(t, "pickReread")
  /\ \/ w \notin seated /\ Stop(t)
     \/ w \in seated /\ score[w] >= MaxPoints /\ Go(t, "pickEnd")
     \/ w \in seated /\ score[w] < MaxPoints /\ Go(t, "roundEnd")
  /\ UNCHANGED <<room, ledger, seats, faults, observed>>

PickEnd(t) ==
  /\ At(t, "pickEnd")
  /\ room' = [room EXCEPT !.status = "FINISHED"]
  /\ Go(t, "lastRoundEnd")
  /\ UNCHANGED <<ledger, seats, faults, observed>>

LastRoundEnd(t) ==
  /\ At(t, "lastRoundEnd")
  /\ Announce("round-end", N(t))
  /\ Stop(t)
  /\ UNCHANGED <<room, ledger, seats, faults, prompt, picker>>

-----------------------------------------------------------------------------
\* abortAndRotate, and the rotation every ended Round goes through.

\* Rotates without claiming the Round.
AbortMutant(t) ==
  /\ At(t, "abort")
  /\ Go(t, "roundEnd")
  /\ UNCHANGED <<room, ledger, seats, faults, observed>>

Abort(t) ==
  /\ At(t, "abort")
  /\ \/ /\ rounds[N(t)].status \in Ongoing
        /\ rounds' = [rounds EXCEPT ![N(t)].status = "ABORTED"]
        /\ Go(t, "roundEnd")
     \/ /\ rounds[N(t)].status \notin Ongoing
        /\ Stop(t) /\ UNCHANGED rounds
  /\ UNCHANGED <<room, plays, seats, faults, observed>>

RoundEnd(t) ==
  /\ At(t, "roundEnd")
  /\ Announce("round-end", N(t))
  /\ Go(t, "rotateRead")
  /\ UNCHANGED <<room, ledger, seats, faults, prompt, picker>>

\* assertCanRotate; the bound MaxRound also stops a rotation here.
RotateRead(t) ==
  LET mayRotate == /\ room.status = "IN_PROGRESS" /\ room.round = N(t)
                   /\ N(t) < MaxRound
  IN
  /\ At(t, "rotateRead")
  /\ \/ /\ mayRotate
        /\ Become(t, [task[t] EXCEPT !.pc = "rotatePick", !.judge = room.judge])
     \/ ~mayRotate /\ Stop(t)
  /\ UNCHANGED <<room, ledger, seats, faults, observed>>

RotatePick(t) ==
  /\ At(t, "rotatePick")
  /\ \/ \E j \in Eligible(task[t].judge) :
          Become(t, [task[t] EXCEPT !.pc = "rotateUnready", !.judge = j])
     \/ active = {} /\ Stop(t)
  /\ UNCHANGED <<room, ledger, seats, faults, observed>>

RotateUnready(t) ==
  /\ At(t, "rotateUnready")
  /\ ready' = {} /\ stray' = {}
  /\ Go(t, "rotateRoom")
  /\ UNCHANGED <<room, ledger, seated, active, score, faults, observed>>

RotateRoom(t) ==
  /\ At(t, "rotateRoom")
  /\ room' = [room EXCEPT !.round = N(t) + 1, !.judge = task[t].judge]
  /\ Become(t, [task[t] EXCEPT !.pc = "openRound", !.round = @ + 1])
  /\ UNCHANGED <<ledger, seats, faults, observed>>

\* openRound's INSERT; the unique index on (room, round number) refuses a second.
OpenRound(t) ==
  /\ At(t, "openRound")
  /\ \/ /\ rounds[N(t)].status = "NONE"
        /\ rounds' = [rounds EXCEPT ![N(t)] =
             [status |-> "PLAYING", judge |-> task[t].judge, winner |-> NoPlayer]]
        /\ Go(t, "roundStart")
     \/ /\ rounds[N(t)].status # "NONE"
        /\ Stop(t) /\ UNCHANGED rounds
  /\ UNCHANGED <<room, plays, seats, faults, observed>>

RoundStart(t) ==
  /\ At(t, "roundStart")
  /\ Announce("round-start", N(t))
  /\ Stop(t)
  /\ UNCHANGED <<room, ledger, seats, faults, prompt, picker>>

-----------------------------------------------------------------------------
\* The game ends: the Host's /end aborts the Round first and finishes the Room
\* after; a Host lost without an heir finishes first, aborts after, and goes on
\* as the departure it is.

EndRoom(t) ==
  /\ Begin(t, "end")
  /\ Become(t, [Idle EXCEPT !.kind = "end", !.pc = "endFind"])
  /\ UNCHANGED <<room, ledger, seats, faults, observed>>

AfterEndActiveRound(t) ==
  Go(t, IF task[t].kind = "end" THEN "endGame" ELSE "findRoom")

\* endActiveRound reads the Room's current Round.
EndFind(t) ==
  LET n == room.round IN
  /\ At(t, "endFind")
  /\ \/ /\ n \in RoundNumbers /\ rounds[n].status # "NONE"
        /\ Become(t, [task[t] EXCEPT !.pc = "endAbort", !.round = n])
     \/ /\ n \in RoundNumbers => rounds[n].status = "NONE"
        /\ AfterEndActiveRound(t)
  /\ UNCHANGED <<room, ledger, seats, faults, observed>>

EndAbort(t) ==
  /\ At(t, "endAbort")
  /\ \/ /\ rounds[N(t)].status \in Ongoing
        /\ rounds' = [rounds EXCEPT ![N(t)].status = "ABORTED"]
        /\ Go(t, "endRoundEnd")
     \/ /\ rounds[N(t)].status \notin Ongoing
        /\ AfterEndActiveRound(t) /\ UNCHANGED rounds
  /\ UNCHANGED <<room, plays, seats, faults, observed>>

EndRoundEnd(t) ==
  /\ At(t, "endRoundEnd")
  /\ Announce("round-end", N(t))
  /\ AfterEndActiveRound(t)
  /\ UNCHANGED <<room, ledger, seats, faults, prompt, picker>>

EndGame(t) ==
  /\ At(t, "endGame")
  /\ room' = [room EXCEPT !.status = "FINISHED"]
  /\ IF task[t].kind = "end" THEN Stop(t) ELSE Go(t, "endFind")
  /\ UNCHANGED <<ledger, seats, faults, observed>>

-----------------------------------------------------------------------------
\* Deadlines: Redis expiry events (onExpired) and the sweep (reconcileRounds).

ExpirePlay(t, n) ==
  /\ Begin(t, "expire")
  /\ rounds[n].status = "PLAYING"
  /\ Become(t, [Idle EXCEPT !.kind = "expire", !.pc = "readPlays", !.round = n])
  /\ UNCHANGED <<room, ledger, seats, faults, observed>>

\* The judging window exists once judging opened; a grace whose Judge is back
\* is ignored.  onExpired does not look at the phase: the claim does.
ExpireJudge(t, n) ==
  /\ Begin(t, "expire")
  /\ rounds[n].status # "NONE"
  /\ rounds[n].status # "PLAYING" \/ rounds[n].judge \notin active
  /\ Become(t, [Idle EXCEPT !.kind = "expire", !.pc = "abort", !.round = n])
  /\ UNCHANGED <<room, ledger, seats, faults, observed>>

\* findExpiredActive and advanceExpired: the Judge deadline has lapsed, or only
\* the play deadline has.
SweepExpired(t, n) ==
  /\ Begin(t, "sweep")
  /\ rounds[n].status \in Ongoing
  /\ \E pc \in {"abort"} \cup
               (IF rounds[n].status = "PLAYING" THEN {"readPlays"} ELSE {}) :
       Become(t, [Idle EXCEPT !.kind = "sweep", !.pc = pc, !.round = n])
  /\ UNCHANGED <<room, ledger, seats, faults, observed>>

\* A handler that ended Round n and has not opened the next one yet.
Rotating(u, n) ==
  /\ task[u].kind # "resume"
  /\ \/ /\ task[u].round = n
        /\ task[u].pc \in {"pickRecord", "pickScore", "pickReread", "pickEnd",
                           "roundEnd", "rotateRead", "rotatePick",
                           "rotateUnready", "rotateRoom", "endRoundEnd"}
     \/ task[u].round = n + 1 /\ task[u].pc = "openRound"
     \/ task[u].kind = "end" /\ task[u].pc = "endGame"

\* No grace: a rotation in progress is taken for a dead one.
SweepStalledMutant(t, n) ==
  /\ Begin(t, "resume")
  /\ room.status = "IN_PROGRESS"
  /\ n < MaxRound
  /\ rounds[n].status \in Ended /\ rounds[n + 1].status = "NONE"
  /\ Become(t, [Idle EXCEPT !.kind = "resume", !.pc = "resumeRead", !.round = n])
  /\ UNCHANGED <<room, ledger, seats, faults, observed>>

\* findStalledEnded: an ended Round without a successor, 15s after it ended.
\* Unless SlowRotations, no rotation of its own is still alive by then.
SweepStalled(t, n) ==
  /\ Begin(t, "resume")
  /\ room.status = "IN_PROGRESS"
  /\ n < MaxRound
  /\ rounds[n].status \in Ended /\ rounds[n + 1].status = "NONE"
  /\ SlowRotations \/ ~\E u \in Slots : Rotating(u, n)
  /\ Become(t, [Idle EXCEPT !.kind = "resume", !.pc = "resumeRead", !.round = n])
  /\ UNCHANGED <<room, ledger, seats, faults, observed>>

\* Only a Room still on the ended Round is resumed.
ResumeReadMutant(t) ==
  /\ At(t, "resumeRead")
  /\ \/ room.round = N(t) /\ Go(t, "rotateRead")
     \/ room.round # N(t) /\ Stop(t)
  /\ UNCHANGED <<room, ledger, seats, faults, observed>>

\* resumeRotation and stalledRotationStep: rotate, only open, or give up.
ResumeRead(t) ==
  LET step == IF room.round = N(t) THEN "rotate"
              ELSE IF room.round = N(t) + 1 /\ room.judge # NoPlayer THEN "open"
              ELSE "throw"
  IN
  /\ At(t, "resumeRead")
  /\ \/ step = "rotate" /\ Go(t, "rotateRead")
     \/ /\ step = "open"
        /\ Become(t, [task[t] EXCEPT !.pc = "openRound", !.round = room.round,
                                     !.judge = room.judge])
     \/ step = "throw" /\ Stop(t)
  /\ UNCHANGED <<room, ledger, seats, faults, observed>>

\* The process dies, or an await (Redis, Postgres) rejects: the handler is
\* over, what it wrote stays.
Fail(t) ==
  /\ task[t] # Idle
  /\ faults < MaxFaults
  /\ faults' = faults + 1
  /\ Stop(t)
  /\ UNCHANGED <<room, ledger, seats, observed>>

-----------------------------------------------------------------------------
\* A Room in LOBBY whose seated Players have all marked ready.
Init ==
  /\ room \in [status : {"LOBBY"}, round : {0}, judge : {NoPlayer}]
  /\ rounds = [n \in RoundNumbers |->
                 [status |-> "NONE", judge |-> NoPlayer, winner |-> NoPlayer]]
  /\ plays = [n \in RoundNumbers |-> {}]
  /\ seated \in {S \in SUBSET Players : Cardinality(S) >= MinPlayers}
  /\ active = seated /\ ready = seated
  /\ score = [p \in Players |-> 0] /\ stray = {}
  /\ task = [t \in Slots |-> Idle]
  /\ faults = 0
  /\ announced = [e \in RoundEvents |-> [n \in RoundNumbers |-> 0]]
  /\ prompt = [n \in RoundNumbers |-> {}]
  /\ picker = [n \in RoundNumbers |-> NoPlayer]

\* The environment calls a handler, or a key expires.
Call(t) ==
  \/ StartCheck(t) \/ EndRoom(t)
  \/ \E p \in Players : Toggle(t, p) \/ PlayCheck(t, p) \/ Leave(t, p) \/ Drop(t, p)
  \/ \E j, w \in Players : PickRoom(t, j, w)
  \/ \E n \in RoundNumbers : ExpirePlay(t, n) \/ ExpireJudge(t, n)

Sweep(s) == \E n \in RoundNumbers : SweepExpired(s, n) \/ SweepStalled(s, n)

\* A handler in flight resumes after an await.
Resume(t) ==
  \/ ToggleRead(t) \/ ToggleWrite(t)
  \/ StartClaim(t) \/ StartUnready(t) \/ StartDeal(t) \/ StartDealt(t)
  \/ PlayInsert(t) \/ PlayRefill(t) \/ PlayReread(t)
  \/ HostLoss(t) \/ NewHost(t)
  \/ FindRoom(t) \/ FindRound(t) \/ ReadPlayers(t) \/ ReadPlays(t)
  \/ ClaimJudging(t) \/ TimeToJudge(t)
  \/ PickRound(t) \/ PickWinner(t) \/ PickClaim(t) \/ PickRecord(t)
  \/ PickScore(t) \/ PickReread(t) \/ PickEnd(t) \/ LastRoundEnd(t)
  \/ Abort(t) \/ RoundEnd(t)
  \/ RotateRead(t) \/ RotatePick(t) \/ RotateUnready(t) \/ RotateRoom(t)
  \/ OpenRound(t) \/ RoundStart(t) \/ ResumeRead(t)
  \/ EndFind(t) \/ EndAbort(t) \/ EndRoundEnd(t) \/ EndGame(t)

Next ==
  \/ \E t \in Tasks : Call(t)
  \/ \E s \in Sweepers : Sweep(s)
  \/ \E p \in Players : Return(p) \/ Join(p)
  \/ \E t \in Slots : Resume(t) \/ Fail(t)

Spec == Init /\ [][Next]_vars

\* The event loop resumes every handler, and every instance sweeps every 30s.
FairSpec ==
  /\ Spec
  /\ \A t \in Slots : WF_vars(Resume(t))
  /\ \A s \in Sweepers : WF_vars(\E n \in RoundNumbers : SweepStalled(s, n))

\* The Rounds as the Players are promised them: RoundLedger, on this module's
\* own rounds and plays.
Ledger == INSTANCE RoundLedger WITH rounds <- rounds, plays <- plays

\* However handlers interleave, die or repeat, every step of the server is a
\* step of the ledger or leaves it alone.
ImplementsLedger == Ledger!Spec

-----------------------------------------------------------------------------
Pcs == {"idle", "toggleRead", "toggleWrite",
        "startClaim", "startUnready", "startDeal", "startDealt",
        "playInsert", "playRefill",
        "playReread", "hostLoss", "newHost", "findRoom",
        "findRound", "readPlayers", "readPlays",
        "claimJudging", "timeToJudge", "pickRound", "pickWinner", "pickClaim",
        "pickRecord", "pickScore", "pickReread", "pickEnd", "lastRoundEnd",
        "abort", "roundEnd", "rotateRead", "rotatePick", "rotateUnready",
        "rotateRoom", "openRound", "roundStart", "resumeRead", "endFind",
        "endAbort", "endRoundEnd", "endGame"}

PlayerOrNull == Players \cup {NoPlayer}

RoundRow == [status : {"NONE"} \cup Ongoing \cup Ended,
             judge : PlayerOrNull, winner : PlayerOrNull]

TaskState == [pc : Pcs, kind : HandlerKinds \cup {"none"},
              round : 0..MaxRound, player : PlayerOrNull,
              judge : PlayerOrNull, seen : SUBSET Players]

\* The rows and the handlers in flight hold values of the code's types, and
\* only a Player with a seat is active, ready or has points.  (A row's flags are
\* sets here: the Players for whom they are true.)
TypeOK ==
  /\ room \in [status : {"LOBBY", "IN_PROGRESS", "FINISHED"},
               round : 0..MaxRound, judge : PlayerOrNull]
  /\ rounds \in [RoundNumbers -> RoundRow]
  /\ plays \in [RoundNumbers -> SUBSET Players]
  /\ seated \subseteq Players
  /\ active \subseteq seated /\ ready \subseteq seated /\ stray \subseteq seated
  /\ score \in [Players -> Nat]
  /\ \A p \in Players \ seated : score[p] = 0
  /\ task \in [Slots -> TaskState]
  /\ faults \in 0..MaxFaults
  /\ announced \in [RoundEvents -> [RoundNumbers -> Nat]]
  /\ prompt \in [RoundNumbers -> SUBSET Players]
  /\ picker \in [RoundNumbers -> PlayerOrNull]

Quiet == \A t \in Slots : task[t] = Idle

\* assertCanRotate and the unique index: "two paths can't open two Rounds".
\* Once a Round has a row, every earlier one has ended, whoever rotated and
\* whatever died on the way; so at most one Round of the Room is in play.
OneRoundInPlay ==
  \A m, n \in RoundNumbers :
    m < n /\ rounds[n].status # "NONE" => rounds[m].status \in Ended

\* While a Round is in play the Room names it and its Judge: `isJudge` is read
\* from the Room, the right to play from the Round, and the two must agree.
JudgeAgreement ==
  \A n \in RoundNumbers :
    rounds[n].status \in Ongoing =>
      room.round = n /\ room.judge = rounds[n].judge

\* claimJudgedRound guards "a double-click scoring twice": a Player never has
\* more points than Rounds that record them as winner, even after they leave
\* and return, after two picks race, or after a pick dies half-way.
ScoresBackedByWins ==
  \A p \in Players :
    score[p] <= Cardinality({n \in RoundNumbers : rounds[n].winner = p})

\* Only a Round its Judge decided has a winner, and the winner is somebody
\* who played in it and did not judge it.
WinnerPlayed ==
  \A n \in RoundNumbers : rounds[n].winner # NoPlayer =>
    /\ rounds[n].status = "COMPLETE"
    /\ rounds[n].winner \in plays[n] \ {rounds[n].judge}

\* "A replayed timer event won't double-emit time-to-judge or double-rotate":
\* each event of a Round goes out at most once, time-to-judge only for a Round
\* that was judged with plays, round-end only for one that ended, and the next
\* Round is announced only then.
AnnouncedOnce ==
  \A n \in RoundNumbers :
    /\ \A e \in RoundEvents : announced[e][n] <= 1
    /\ announced["time-to-judge"][n] = 1 => prompt[n] # {}
    /\ announced["round-end"][n] = 1 => rounds[n].status \in Ended
    /\ announced["round-start"][n] = 1 =>
         \A m \in 1..(n - 1) : rounds[m].status \in Ended

\* Whoever completes the answers opens judging: when nothing is in flight and
\* no handler died, a Round is never left PLAYING with every awaited Player
\* ready, whatever plays, drops and leaves raced each other (issue #25).  There
\* are two exceptions.  An answer whose Player left while it was being recorded:
\* reading that Player back fails and the check after the play is skipped.  And a
\* lobby toggle that checked the status before the start and wrote after it: the
\* flag of an awaited Player is then no longer about an answer, and nobody looks.
LastAnswerOpensJudging ==
  Quiet /\ faults = 0 /\ room.status = "IN_PROGRESS"
     /\ stray \cap active \subseteq {room.judge} =>
    \A n \in RoundNumbers :
      rounds[n].status = "PLAYING" /\ plays[n] # {} /\ plays[n] \subseteq seated =>
        ~(active \ {room.judge} \subseteq ready)

\* maxPoints ends the game: when no handler is in flight and none died, nobody
\* sits in an unfinished Room with that many points, whoever left, came back or
\* was picked meanwhile.
WinEndsGame ==
  Quiet /\ faults = 0 /\ (\E p \in seated : score[p] >= MaxPoints) =>
    room.status = "FINISHED"

\* "Excluding prevJudgeId let the same Player judge twice in a row": while
\* nobody's presence changes, consecutive Rounds have different Judges.
JudgeRotates ==
  \A n \in 2..MaxRound : rounds[n].status # "NONE" =>
    rounds[n].judge # rounds[n - 1].judge

\* "room.round-start for Round 1 follows" room.started: a Room that started opens
\* Round 1, or its game ends.
RoundOneFollows ==
  room.status = "IN_PROGRESS" ~>
    rounds[1].status # "NONE" \/ room.status = "FINISHED"

\* resumeRotation: a rotation that died is finished by a sweep, as long as the
\* game goes on and somebody is there to judge.
RotationCompletes ==
  \A n \in 1..(MaxRound - 1) :
    rounds[n].status \in Ended ~>
      \/ rounds[n + 1].status # "NONE"
      \/ room.status = "FINISHED" \/ active = {}

=============================================================================
