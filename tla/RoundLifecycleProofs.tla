------------------------ MODULE RoundLifecycleProofs ------------------------
(***************************************************************************)
(* Theorems about RoundLifecycle, for every value of its constants: any    *)
(* number of Players, handlers and instances, any number of faults, with   *)
(* or without the 15s grace of the sweep.                                  *)
(*                                                                         *)
(* None of the properties is inductive alone: what a handler may do next   *)
(* rests on what it read before.  TaskGood says, for each program counter, *)
(* what is still true of those reads; Forward says which facts about a     *)
(* Round no step takes back, and so which reads cannot go stale.           *)
(***************************************************************************)
EXTENDS RoundLifecycle, TLAPS

\* TypeOK without the handlers in flight.
RowsTyped ==
  /\ room \in [status : {"LOBBY", "IN_PROGRESS", "FINISHED"},
               round : 0..MaxRound, judge : PlayerOrNull]
  /\ rounds \in [RoundNumbers -> RoundRow]
  /\ plays \in [RoundNumbers -> SUBSET Players]
  /\ seated \subseteq Players /\ active \subseteq seated /\ ready \subseteq seated
  /\ stray \subseteq seated /\ score \in [Players -> Nat]
  /\ \A p \in Players \ seated : score[p] = 0
  /\ faults \in 0..MaxFaults
  /\ announced \in [RoundEvents -> [RoundNumbers -> Nat]]
  /\ prompt \in [RoundNumbers -> SUBSET Players]
  /\ picker \in [RoundNumbers -> PlayerOrNull]

\* What the rows say together.
RowsGood ==
  /\ room.status = "IN_PROGRESS" => room.round \in RoundNumbers
  /\ OneRoundInPlay
  /\ WinnerPlayed
  /\ \A n \in RoundNumbers :
       /\ rounds[n].status = "NONE" => plays[n] = {} /\ rounds[n].winner = NoPlayer
       /\ rounds[n].judge \notin plays[n]

Roundless == {"idle", "toggleRead", "toggleWrite", "playReread", "hostLoss", "newHost",
              "findRoom", "pickRound", "endFind", "endGame"}
RotationPcs == {"roundEnd", "rotateRead", "rotatePick", "rotateUnready",
                "rotateRoom", "resumeRead", "pickScore", "pickReread"}

\* What a handler at its program counter may rely on.
TaskGood(r) ==
  /\ r.pc \notin Roundless => r.round \in RoundNumbers
  /\ r.pc \in {"playInsert", "playRefill", "playReread", "pickRound",
               "pickWinner", "pickClaim", "pickRecord", "pickScore",
               "pickReread"} => r.player \in Players
  /\ r.pc \in {"startClaim", "startUnready", "startDeal", "startDealt",
               "rotateUnready", "rotateRoom", "openRound"} => r.judge \in Players
  /\ r.pc \in {"startClaim", "startUnready", "startDeal", "startDealt"} =>
       r.round = 1
  /\ r.pc = "playInsert" =>
       rounds[r.round].status # "NONE" /\ r.player # rounds[r.round].judge
  /\ r.pc = "toggleWrite" => r.seen \subseteq {r.player}
  /\ r.pc = "claimJudging" => r.seen # {} /\ r.seen \subseteq plays[r.round]
  /\ r.pc \in {"pickClaim", "pickRecord"} => r.player \in plays[r.round]
  /\ r.pc = "pickRecord" =>
       rounds[r.round].status = "COMPLETE" /\ rounds[r.round].winner = NoPlayer
  /\ r.pc \in RotationPcs => rounds[r.round].status \in Ended
  /\ r.pc \in {"rotatePick", "rotateUnready", "rotateRoom"} => r.round < MaxRound
  /\ r.pc = "openRound" => \A m \in 1..(r.round - 1) : rounds[m].status \in Ended

\* One handler records the winner of a Round: its claim was the only one.
OneRecorder ==
  \A t, u \in Slots :
    task[t].pc = "pickRecord" /\ task[u].pc = "pickRecord"
      /\ task[t].round = task[u].round => t = u

InFlight ==
  /\ task \in [Slots -> TaskState]
  /\ \A t \in Slots : TaskGood(task[t])
  /\ OneRecorder

IInv == RowsTyped /\ RowsGood /\ InFlight

\* What no step takes back about a Round.
Forward ==
  \A n \in RoundNumbers :
    /\ rounds[n].status # "NONE" =>
         rounds'[n].status # "NONE" /\ rounds'[n].judge = rounds[n].judge
    /\ rounds[n].status \in Ended => rounds'[n].status = rounds[n].status
    /\ plays[n] \subseteq plays'[n]

-----------------------------------------------------------------------------
\* The bits of arithmetic every proof below needs.
LEMMA RoundNumberFacts ==
  /\ MaxRound \in Nat /\ 1 \in RoundNumbers
  /\ RoundNumbers \subseteq 0..MaxRound
  /\ \A n \in RoundNumbers : n < MaxRound => n + 1 \in RoundNumbers
BY ParametersAssumption DEF RoundNumbers

LEMMA IdleGood == Idle \in TaskState /\ TaskGood(Idle) /\ Idle.pc = "idle"
BY RoundNumberFacts
DEF Idle, TaskState, TaskGood, Pcs, PlayerOrNull, Roundless, RotationPcs

\* What a handler relies on stays true when Rounds move forward; a winner to be
\* recorded also needs its Round left alone.
LEMMA GoodStays ==
  ASSUME NEW r \in TaskState, TaskGood(r), Forward,
         r.pc = "pickRecord" => rounds'[r.round] = rounds[r.round]
  PROVE  TaskGood(r)'
<1>1. r.round \in Nat
  BY RoundNumberFacts DEF TaskState
<1>2. \A m \in 1..(r.round - 1) : r.round \in RoundNumbers => m \in RoundNumbers
  BY <1>1, RoundNumberFacts DEF RoundNumbers
<1> QED
  BY <1>1, <1>2 DEF TaskGood, Forward, Roundless, RotationPcs, Ended

\* The shape of every step: one handler moves to r, the Rounds move forward.
LEMMA StepKeepsInFlight ==
  ASSUME InFlight, Forward, NEW t \in Slots, NEW r \in TaskState,
         task' = [task EXCEPT ![t] = r], TaskGood(r)',
         \A u \in Slots \ {t} :
           task[u].pc = "pickRecord" =>
             /\ rounds'[task[u].round] = rounds[task[u].round]
             /\ r.pc = "pickRecord" => r.round # task[u].round
  PROVE  InFlight'
<1>1. task' \in [Slots -> TaskState]
  BY DEF InFlight
<1>2. ASSUME NEW u \in Slots PROVE TaskGood(task[u])'
  <2>1. CASE u = t
    <3>1. task'[u] = r
      BY <2>1 DEF InFlight
    <3> QED BY <3>1 DEF TaskGood
  <2>2. CASE u # t
    <3>1. task'[u] = task[u] /\ task[u] \in TaskState /\ TaskGood(task[u])
      BY <2>2 DEF InFlight
    <3>2. task[u].pc = "pickRecord" => rounds'[task[u].round] = rounds[task[u].round]
      BY <2>2
    <3> HIDE DEF TaskState
    <3>3. \A q \in TaskState :
            TaskGood(q) /\ (q.pc = "pickRecord" => rounds'[q.round] = rounds[q.round])
              => TaskGood(q)'
      BY GoodStays
    <3> QED BY <3>1, <3>2, <3>3 DEF TaskGood
  <2> QED BY <2>1, <2>2
<1>3. OneRecorder'
  BY DEF OneRecorder, InFlight
<1> QED BY <1>1, <1>2, <1>3 DEF InFlight

-----------------------------------------------------------------------------
\* Steps that only move a handler.

\* A handler that reads, checks or gives up leaves the rows alone.
LEMMA ReadStep ==
  ASSUME IInv, UNCHANGED <<room, ledger, seats, faults, observed>>,
         NEW t \in Slots, NEW r \in TaskState,
         task' = [task EXCEPT ![t] = r], TaskGood(r), r.pc # "pickRecord"
  PROVE  IInv'
<1>1. Forward
  BY DEF Forward, ledger
<1>2. TaskGood(r)'
  BY DEF TaskGood, ledger
<1>3. InFlight'
  <2>1. \A u \in Slots : rounds'[task[u].round] = rounds[task[u].round]
    BY DEF ledger
  <2> QED BY <1>1, <1>2, <2>1, StepKeepsInFlight DEF IInv
<1>4. RowsTyped' /\ RowsGood'
  BY DEF IInv, RowsTyped, RowsGood, OneRoundInPlay, WinnerPlayed, ledger, seats, observed
<1> QED BY <1>3, <1>4 DEF IInv

LEMMA StopStep ==
  ASSUME IInv, UNCHANGED <<room, ledger, seats, faults, observed>>,
         NEW t \in Slots, Stop(t)
  PROVE  IInv'
BY IdleGood, ReadStep DEF Stop, Become

\* A handler in flight has a well-typed state that satisfies TaskGood, so does
\* what EXCEPT makes of it.
LEMMA TaskFacts ==
  ASSUME IInv, NEW t \in Slots
  PROVE  /\ task[t] \in TaskState /\ TaskGood(task[t])
         /\ task = [task EXCEPT ![t] = task[t]]
BY DEF IInv, InFlight

LEMMA GoStep ==
  ASSUME IInv, UNCHANGED <<room, ledger, seats, faults, observed>>,
         NEW t \in Slots, NEW pc \in Pcs, Go(t, pc),
         TaskGood([task[t] EXCEPT !.pc = pc]), pc # "pickRecord"
  PROVE  IInv'
<1> DEFINE r == [task[t] EXCEPT !.pc = pc]
<1>1. r \in TaskState /\ r.pc = pc
  BY TaskFacts DEF TaskState
<1>2. task' = [task EXCEPT ![t] = r]
  BY TaskFacts DEF Go
<1> QED BY <1>1, <1>2, ReadStep

\* RoomService.togglePlayerReady's checks and read.
LEMMA ToggleKeeps ==
  ASSUME IInv, NEW t \in Slots, NEW p \in Players, Toggle(t, p) PROVE IInv'
<1> DEFINE q == [Idle EXCEPT !.kind = "toggle", !.pc = "toggleRead"]
           r == [q EXCEPT !.player = p]
<1>1. q \in TaskState /\ q.pc = "toggleRead"
  BY IdleGood DEF Idle, TaskState, Pcs, HandlerKinds
<1>2. task' = [task EXCEPT ![t] = r]
  BY DEF Toggle, Become
<1> HIDE DEF q
<1>3. r \in TaskState /\ r.pc = "toggleRead"
  BY <1>1 DEF TaskState, PlayerOrNull
<1>4. TaskGood(r)
  BY <1>3 DEF TaskGood, Roundless, RotationPcs
<1> QED BY <1>2, <1>3, <1>4, ReadStep DEF Toggle

LEMMA ToggleReadKeeps ==
  ASSUME IInv, NEW t \in Slots, ToggleRead(t) PROVE IInv'
<1> DEFINE p == task[t].player
           r == [task[t] EXCEPT !.pc = "toggleWrite", !.seen = {p} \ ready]
<1>1. CASE p \in seated /\ Become(t, r)
  <2>1. p \in Players
    BY <1>1 DEF IInv, RowsTyped
  <2>2. /\ r \in TaskState /\ r.pc = "toggleWrite"
        /\ r.seen \subseteq {p} /\ r.player = p
    BY <2>1, TaskFacts DEF TaskState, Pcs
  <2>3. TaskGood(r)
    BY <2>2 DEF TaskGood, Roundless, RotationPcs
  <2> QED BY <1>1, <2>2, <2>3, ReadStep DEF ToggleRead, Become
<1>2. CASE Stop(t)
  BY <1>2, StopStep DEF ToggleRead
<1> QED BY <1>1, <1>2 DEF ToggleRead

\* RoomService.startGame's check.
LEMMA StartCheckKeeps ==
  ASSUME IInv, NEW t \in Slots, StartCheck(t) PROVE IInv'
<1>1. PICK j \in Players :
        Become(t, [Idle EXCEPT !.kind = "start", !.pc = "startClaim",
                               !.round = 1, !.judge = j])
  BY DEF StartCheck, Eligible, IInv, RowsTyped
<1> DEFINE r == [Idle EXCEPT !.kind = "start", !.pc = "startClaim",
                             !.round = 1, !.judge = j]
<1>2. r \in TaskState /\ TaskGood(r) /\ r.pc = "startClaim"
  BY RoundNumberFacts DEF Idle, TaskState, TaskGood, Pcs, PlayerOrNull,
     HandlerKinds, Roundless, RotationPcs
<1> QED BY <1>1, <1>2, ReadStep DEF StartCheck, Become

LEMMA PlayCheckKeeps ==
  ASSUME IInv, NEW t \in Slots, NEW p \in Players, PlayCheck(t, p) PROVE IInv'
<1> DEFINE n == room.round
           r == [Idle EXCEPT !.kind = "play", !.pc = "playInsert",
                             !.round = n, !.player = p]
<1>1. n \in RoundNumbers /\ n \in 0..MaxRound
  BY RoundNumberFacts DEF PlayCheck, IInv, RowsGood
<1>2. r \in TaskState /\ TaskGood(r) /\ r.pc = "playInsert"
  BY <1>1 DEF PlayCheck, Idle, TaskState, TaskGood, Pcs, PlayerOrNull,
     HandlerKinds, Roundless, RotationPcs
<1> QED BY <1>2, ReadStep DEF PlayCheck, Become

LEMMA PlayRereadKeeps ==
  ASSUME IInv, NEW t \in Slots, PlayReread(t) PROVE IInv'
<1> DEFINE r == [Idle EXCEPT !.kind = "play", !.pc = "findRoom"]
<1>1. r \in TaskState /\ r.pc = "findRoom"
  BY IdleGood DEF Idle, TaskState, Pcs, HandlerKinds
<1>2. TaskGood(r)
  BY <1>1 DEF TaskGood, Roundless, RotationPcs
<1> HIDE DEF r
<1>3. CASE Become(t, r)
  BY <1>1, <1>2, <1>3, ReadStep DEF PlayReread, Become
<1>4. CASE Stop(t)
  BY <1>4, StopStep DEF PlayReread
<1> QED BY <1>3, <1>4 DEF PlayReread, r

\* activeRound's two reads.
LEMMA FindRoomKeeps ==
  ASSUME IInv, NEW t \in Slots, FindRoom(t) PROVE IInv'
<1> DEFINE r == [task[t] EXCEPT !.pc = "findRound", !.round = room.round]
<1>1. CASE room.status = "IN_PROGRESS" /\ Become(t, r)
  <2>1. room.round \in RoundNumbers /\ room.round \in 0..MaxRound
    BY <1>1, RoundNumberFacts DEF IInv, RowsGood
  <2>2. r \in TaskState /\ TaskGood(r) /\ r.pc = "findRound"
    BY <2>1, TaskFacts DEF TaskState, TaskGood, Pcs, Roundless, RotationPcs
  <2> QED BY <1>1, <2>2, ReadStep DEF FindRoom, Become
<1>2. CASE Stop(t)
  BY <1>2, StopStep DEF FindRoom
<1> QED BY <1>1, <1>2 DEF FindRoom

LEMMA FindRoundKeeps ==
  ASSUME IInv, NEW t \in Slots, FindRound(t) PROVE IInv'
<1>1. ASSUME NEW pc \in {"abort", "readPlayers"}, Go(t, pc) PROVE IInv'
  <2>1. TaskGood([task[t] EXCEPT !.pc = pc])
    BY <1>1, TaskFacts DEF FindRound, At, TaskState, TaskGood, Roundless, RotationPcs
  <2> QED BY <1>1, <2>1, GoStep DEF FindRound, Pcs
<1>2. CASE Stop(t)
  BY <1>2, StopStep DEF FindRound
<1> QED BY <1>1, <1>2 DEF FindRound


\* allActivePlayersPlayed and playsOf.
LEMMA ReadPlayersKeeps ==
  ASSUME IInv, NEW t \in Slots, ReadPlayers(t) PROVE IInv'
<1>1. CASE Go(t, "readPlays")
  <2>1. TaskGood([task[t] EXCEPT !.pc = "readPlays"])
    BY TaskFacts DEF ReadPlayers, At, TaskState, TaskGood, Roundless, RotationPcs
  <2> QED BY <1>1, <2>1, GoStep DEF ReadPlayers, Pcs
<1>2. CASE Stop(t)
  BY <1>2, StopStep DEF ReadPlayers
<1> QED BY <1>1, <1>2 DEF ReadPlayers

LEMMA ReadPlaysKeeps ==
  ASSUME IInv, NEW t \in Slots, ReadPlays(t) PROVE IInv'
<1>0. N(t) \in RoundNumbers
  BY TaskFacts DEF ReadPlays, At, N, TaskGood, Roundless
<1> DEFINE r == [task[t] EXCEPT !.pc = "claimJudging", !.seen = plays[N(t)]]
<1>1. CASE plays[N(t)] # {} /\ Become(t, r)
  <2>1. plays[N(t)] \subseteq Players
    BY <1>0 DEF IInv, RowsTyped
  <2>2. r \in TaskState /\ TaskGood(r) /\ r.pc = "claimJudging"
    BY <1>0, <1>1, <2>1, TaskFacts
    DEF TaskState, TaskGood, Pcs, N, Roundless, RotationPcs
  <2> QED BY <1>1, <2>2, ReadStep DEF ReadPlays, Become
<1>2. CASE Go(t, "abort")
  <2>1. TaskGood([task[t] EXCEPT !.pc = "abort"])
    BY <1>0, TaskFacts DEF TaskState, N, TaskGood, Roundless, RotationPcs
  <2> QED BY <1>2, <2>1, GoStep DEF ReadPlays, Pcs
<1>3. CASE Stop(t)
  BY <1>3, StopStep DEF ReadPlays
<1> QED BY <1>1, <1>2, <1>3 DEF ReadPlays

\* dealInitialHands.
LEMMA StartDealKeeps ==
  ASSUME IInv, NEW t \in Slots, StartDeal(t) PROVE IInv'
<1> DEFINE r == [task[t] EXCEPT !.pc = "startDealt", !.seen = seated]
<1>1. seated \subseteq Players
  BY DEF IInv, RowsTyped
<1>2. task[t].judge \in Players /\ task[t].round = 1
  BY TaskFacts DEF StartDeal, At, TaskGood
<1>3. r \in TaskState /\ r.pc = "startDealt" /\ r.round = task[t].round
        /\ r.judge = task[t].judge
  BY <1>1, TaskFacts DEF TaskState, Pcs
<1>4. TaskGood(r)
  BY <1>2, <1>3, RoundNumberFacts DEF TaskGood, Roundless, RotationPcs
<1> QED BY <1>3, <1>4, ReadStep DEF StartDeal, Become

LEMMA StartDealtKeeps ==
  ASSUME IInv, NEW t \in Slots, StartDealt(t) PROVE IInv'
<1>1. CASE Go(t, "openRound")
  <2>1. task[t].judge \in Players /\ task[t].round = 1
    BY TaskFacts DEF StartDealt, At, TaskGood
  <2>2. TaskGood([task[t] EXCEPT !.pc = "openRound"])
    BY <2>1, TaskFacts, RoundNumberFacts DEF TaskState, TaskGood, Roundless, RotationPcs
  <2> QED BY <1>1, <2>2, GoStep DEF StartDealt, Pcs
<1>2. CASE Stop(t)
  BY <1>2, StopStep DEF StartDealt
<1> QED BY <1>1, <1>2 DEF StartDealt

\* checkJudgePick's reads.
LEMMA PickRoomKeeps ==
  ASSUME IInv, NEW t \in Slots, NEW j \in Players, NEW w \in Players,
         PickRoom(t, j, w)
  PROVE  IInv'
<1> DEFINE q == [Idle EXCEPT !.kind = "pick", !.pc = "pickRound", !.judge = j]
           r == [q EXCEPT !.player = w]
<1>1. q \in TaskState /\ q.pc = "pickRound"
  BY IdleGood DEF Idle, TaskState, Pcs, PlayerOrNull, HandlerKinds
<1> HIDE DEF q
<1>2. r \in TaskState /\ r.pc = "pickRound" /\ r.player = w
  BY <1>1 DEF TaskState, PlayerOrNull
<1>3. TaskGood(r)
  BY <1>2 DEF TaskGood, Roundless, RotationPcs
<1>4. task' = [task EXCEPT ![t] = r]
  BY DEF PickRoom, Become, q
<1> QED BY <1>2, <1>3, <1>4, ReadStep DEF PickRoom

LEMMA PickRoundKeeps ==
  ASSUME IInv, NEW t \in Slots, PickRound(t) PROVE IInv'
<1> DEFINE r == [task[t] EXCEPT !.pc = "pickWinner", !.round = room.round]
<1>1. CASE room.status = "IN_PROGRESS" /\ Become(t, r)
  <2>1. room.round \in RoundNumbers /\ room.round \in 0..MaxRound
    BY <1>1, RoundNumberFacts DEF IInv, RowsGood
  <2>2. task[t].player \in Players
    BY TaskFacts DEF PickRound, At, TaskGood
  <2>3. r \in TaskState /\ r.pc = "pickWinner" /\ r.round = room.round
          /\ r.player = task[t].player
    BY <2>1, TaskFacts DEF TaskState, Pcs
  <2>4. TaskGood(r)
    BY <2>1, <2>2, <2>3 DEF TaskGood, Roundless, RotationPcs
  <2> QED BY <1>1, <2>3, <2>4, ReadStep DEF PickRound, Become
<1>2. CASE Stop(t)
  BY <1>2, StopStep DEF PickRound
<1> QED BY <1>1, <1>2 DEF PickRound

LEMMA PickWinnerKeeps ==
  ASSUME IInv, NEW t \in Slots, PickWinner(t) PROVE IInv'
<1>1. CASE task[t].player \in plays[N(t)] \cap seated /\ Go(t, "pickClaim")
  <2>1. TaskGood([task[t] EXCEPT !.pc = "pickClaim"])
    BY <1>1, TaskFacts
    DEF PickWinner, At, N, TaskState, TaskGood, Roundless, RotationPcs
  <2> QED BY <1>1, <2>1, GoStep DEF PickWinner, Pcs
<1>2. CASE Stop(t)
  BY <1>2, StopStep DEF PickWinner
<1> QED BY <1>1, <1>2 DEF PickWinner

LEMMA PickRereadKeeps ==
  ASSUME IInv, NEW t \in Slots, PickReread(t) PROVE IInv'
<1>1. ASSUME NEW pc \in {"pickEnd", "roundEnd"}, Go(t, pc) PROVE IInv'
  <2>1. TaskGood([task[t] EXCEPT !.pc = pc])
    BY TaskFacts DEF PickReread, At, TaskState, TaskGood, Roundless, RotationPcs
  <2> QED BY <1>1, <2>1, GoStep DEF PickReread, Pcs
<1>2. CASE Stop(t)
  BY <1>2, StopStep DEF PickReread
<1> QED BY <1>1, <1>2 DEF PickReread

\* assertCanRotate and getRandomJudge.
LEMMA RotateReadKeeps ==
  ASSUME IInv, NEW t \in Slots, RotateRead(t) PROVE IInv'
<1> DEFINE r == [task[t] EXCEPT !.pc = "rotatePick", !.judge = room.judge]
<1>1. CASE N(t) < MaxRound /\ Become(t, r)
  <2>1. task[t].round \in RoundNumbers /\ rounds[task[t].round].status \in Ended
    BY TaskFacts DEF RotateRead, At, TaskGood, Roundless, RotationPcs
  <2>2. room.judge \in PlayerOrNull
    BY DEF IInv, RowsTyped
  <2>3. r \in TaskState /\ r.pc = "rotatePick" /\ r.round = task[t].round
    BY <2>2, TaskFacts DEF TaskState, Pcs
  <2>4. TaskGood(r)
    BY <1>1, <2>1, <2>3 DEF TaskGood, N, Roundless, RotationPcs
  <2> QED BY <1>1, <2>3, <2>4, ReadStep DEF RotateRead, Become
<1>2. CASE Stop(t)
  BY <1>2, StopStep DEF RotateRead
<1> QED BY <1>1, <1>2 DEF RotateRead

LEMMA RotatePickKeeps ==
  ASSUME IInv, NEW t \in Slots, RotatePick(t) PROVE IInv'
<1>1. ASSUME NEW j \in Eligible(task[t].judge),
             Become(t, [task[t] EXCEPT !.pc = "rotateUnready", !.judge = j])
      PROVE  IInv'
  <2> DEFINE r == [task[t] EXCEPT !.pc = "rotateUnready", !.judge = j]
  <2>1. task[t].round \in RoundNumbers /\ rounds[task[t].round].status \in Ended
          /\ task[t].round < MaxRound
    BY TaskFacts DEF RotatePick, At, TaskGood, Roundless, RotationPcs
  <2>2. j \in Players
    BY DEF Eligible, IInv, RowsTyped
  <2>3. r \in TaskState /\ r.pc = "rotateUnready" /\ r.round = task[t].round
          /\ r.judge = j
    BY <2>2, TaskFacts DEF TaskState, Pcs, PlayerOrNull
  <2>4. TaskGood(r)
    BY <2>1, <2>2, <2>3 DEF TaskGood, Roundless, RotationPcs
  <2> QED BY <1>1, <2>3, <2>4, ReadStep DEF RotatePick, Become
<1>2. CASE Stop(t)
  BY <1>2, StopStep DEF RotatePick
<1> QED BY <1>1, <1>2 DEF RotatePick

\* The ends of a game, up to their claims.
LEMMA EndRoomKeeps ==
  ASSUME IInv, NEW t \in Slots, EndRoom(t) PROVE IInv'
<1> DEFINE r == [Idle EXCEPT !.kind = "end", !.pc = "endFind"]
<1>1. r \in TaskState /\ r.pc = "endFind"
  BY IdleGood DEF Idle, TaskState, Pcs, HandlerKinds
<1>2. TaskGood(r)
  BY <1>1 DEF TaskGood, Roundless, RotationPcs
<1> QED BY <1>1, <1>2, ReadStep DEF EndRoom, Become

LEMMA HostLossKeeps ==
  ASSUME IInv, NEW t \in Slots, HostLoss(t) PROVE IInv'
<1>1. ASSUME NEW pc \in {"findRoom", "endGame"}, Go(t, pc) PROVE IInv'
  <2>1. TaskGood([task[t] EXCEPT !.pc = pc])
    BY TaskFacts DEF TaskState, TaskGood, Roundless, RotationPcs
  <2> QED BY <1>1, <2>1, GoStep DEF HostLoss, Pcs
<1>2. CASE Stop(t)
  BY <1>2, StopStep DEF HostLoss
<1>3. ASSUME NEW heir \in active,
             Become(t, [task[t] EXCEPT !.pc = "newHost", !.seen = {heir}])
      PROVE  IInv'
  <2> DEFINE r == [task[t] EXCEPT !.pc = "newHost", !.seen = {heir}]
  <2>1. heir \in Players
    BY DEF IInv, RowsTyped
  <2>2. r \in TaskState /\ r.pc = "newHost"
    BY <2>1, TaskFacts DEF TaskState, Pcs
  <2>3. TaskGood(r)
    BY <2>2 DEF TaskGood, Roundless, RotationPcs
  <2> QED BY <1>3, <2>2, <2>3, ReadStep DEF HostLoss, Become
<1> QED BY <1>1, <1>2, <1>3 DEF HostLoss

LEMMA NewHostKeeps ==
  ASSUME IInv, NEW t \in Slots, NewHost(t) PROVE IInv'
<1> DEFINE r == [task[t] EXCEPT !.pc = "findRoom", !.seen = {}]
<1>1. r \in TaskState /\ r.pc = "findRoom"
  BY TaskFacts DEF TaskState, Pcs
<1>2. TaskGood(r)
  BY <1>1 DEF TaskGood, Roundless, RotationPcs
<1>3. CASE Become(t, r)
  BY <1>1, <1>2, <1>3, ReadStep DEF NewHost, Become
<1>4. CASE Stop(t)
  BY <1>4, StopStep DEF NewHost
<1> QED BY <1>3, <1>4 DEF NewHost

LEMMA EndFindKeeps ==
  ASSUME IInv, NEW t \in Slots, EndFind(t) PROVE IInv'
<1> DEFINE n == room.round
           r == [task[t] EXCEPT !.pc = "endAbort", !.round = n]
<1>1. CASE n \in RoundNumbers /\ Become(t, r)
  <2>1. r \in TaskState /\ r.pc = "endAbort" /\ r.round = n
    BY <1>1, RoundNumberFacts, TaskFacts DEF TaskState, Pcs
  <2>2. TaskGood(r)
    BY <1>1, <2>1 DEF TaskGood, Roundless, RotationPcs
  <2> QED BY <1>1, <2>1, <2>2, ReadStep DEF EndFind, Become
<1>2. ASSUME NEW pc \in {"findRoom", "endGame"}, Go(t, pc) PROVE IInv'
  <2>1. TaskGood([task[t] EXCEPT !.pc = pc])
    BY TaskFacts DEF TaskState, TaskGood, Roundless, RotationPcs
  <2> QED BY <1>2, <2>1, GoStep DEF EndFind, Pcs
<1> QED BY <1>1, <1>2 DEF EndFind, AfterEndActiveRound

\* Deadlines and sweeps start a handler on a Round.
LEMMA DeadlineTask ==
  ASSUME NEW n \in RoundNumbers, NEW kind \in HandlerKinds,
         NEW pc \in {"readPlays", "abort"}
  PROVE  LET r == [Idle EXCEPT !.kind = kind, !.pc = pc, !.round = n] IN
         r \in TaskState /\ TaskGood(r) /\ r.pc # "pickRecord"
<1> DEFINE r == [Idle EXCEPT !.kind = kind, !.pc = pc, !.round = n]
<1>1. r \in TaskState /\ r.pc = pc /\ r.round = n
  BY IdleGood, RoundNumberFacts DEF Idle, TaskState, Pcs
<1>2. TaskGood(r)
  BY <1>1 DEF TaskGood, Roundless, RotationPcs
<1> QED BY <1>1, <1>2

LEMMA ExpirePlayKeeps ==
  ASSUME IInv, NEW t \in Slots, NEW n \in RoundNumbers, ExpirePlay(t, n)
  PROVE  IInv'
BY DeadlineTask, ReadStep DEF ExpirePlay, Become, HandlerKinds

LEMMA ExpireJudgeKeeps ==
  ASSUME IInv, NEW t \in Slots, NEW n \in RoundNumbers, ExpireJudge(t, n)
  PROVE  IInv'
BY DeadlineTask, ReadStep DEF ExpireJudge, Become, HandlerKinds

LEMMA SweepExpiredKeeps ==
  ASSUME IInv, NEW t \in Slots, NEW n \in RoundNumbers, SweepExpired(t, n)
  PROVE  IInv'
<1>1. PICK pc \in {"readPlays", "abort"} :
        Become(t, [Idle EXCEPT !.kind = "sweep", !.pc = pc, !.round = n])
  BY DEF SweepExpired
<1> QED BY <1>1, DeadlineTask, ReadStep DEF SweepExpired, Become, HandlerKinds

LEMMA SweepStalledKeeps ==
  ASSUME IInv, NEW t \in Slots, NEW n \in RoundNumbers, SweepStalled(t, n)
  PROVE  IInv'
<1> DEFINE r == [Idle EXCEPT !.kind = "resume", !.pc = "resumeRead", !.round = n]
<1>1. r \in TaskState /\ r.pc = "resumeRead" /\ r.round = n
  BY IdleGood, RoundNumberFacts DEF Idle, TaskState, Pcs, HandlerKinds
<1>2. TaskGood(r)
  BY <1>1 DEF SweepStalled, TaskGood, Roundless, RotationPcs
<1> QED BY <1>1, <1>2, ReadStep DEF SweepStalled, Become

LEMMA ResumeReadKeeps ==
  ASSUME IInv, NEW t \in Slots, ResumeRead(t) PROVE IInv'
<1>0. task[t].round \in RoundNumbers /\ rounds[task[t].round].status \in Ended
  BY TaskFacts DEF ResumeRead, At, TaskGood, Roundless, RotationPcs
<1>1. CASE Go(t, "rotateRead")
  <2>1. TaskGood([task[t] EXCEPT !.pc = "rotateRead"])
    BY <1>0, TaskFacts DEF TaskState, TaskGood, Roundless, RotationPcs
  <2> QED BY <1>1, <2>1, GoStep DEF ResumeRead, Pcs
<1> DEFINE r == [task[t] EXCEPT !.pc = "openRound", !.round = room.round,
                                !.judge = room.judge]
<1>2. CASE room.round = N(t) + 1 /\ room.judge # NoPlayer /\ Become(t, r)
  <2>1. room.judge \in Players /\ room.round \in RoundNumbers
    BY <1>0, <1>2, RoundNumberFacts
    DEF IInv, RowsTyped, N, PlayerOrNull, RoundNumbers
  <2>2. \A m \in 1..(room.round - 1) : rounds[m].status \in Ended
    <3> SUFFICES ASSUME NEW m \in 1..(room.round - 1)
                 PROVE  rounds[m].status \in Ended
      OBVIOUS
    <3>1. m \in RoundNumbers /\ (m = task[t].round \/ m < task[t].round)
      BY <1>0, <1>2, RoundNumberFacts DEF N, RoundNumbers
    <3>2. rounds[task[t].round].status # "NONE"
      BY <1>0 DEF Ended
    <3> QED BY <1>0, <3>1, <3>2 DEF IInv, RowsGood, OneRoundInPlay
  <2>3. r \in TaskState /\ r.pc = "openRound" /\ r.round = room.round
          /\ r.judge = room.judge
    BY <2>1, RoundNumberFacts, TaskFacts DEF TaskState, Pcs, PlayerOrNull
  <2>4. TaskGood(r)
    BY <2>1, <2>2, <2>3 DEF TaskGood, Roundless, RotationPcs
  <2> QED BY <1>2, <2>3, <2>4, ReadStep DEF ResumeRead, Become
<1>3. CASE Stop(t)
  BY <1>3, StopStep DEF ResumeRead
<1> QED BY <1>1, <1>2, <1>3 DEF ResumeRead

-----------------------------------------------------------------------------
\* Steps that leave the Rounds alone but write the Room, the Players, the
\* count of faults or the history.

LEMMA RowStep ==
  ASSUME IInv, UNCHANGED ledger, RowsTyped',
         room'.status = "IN_PROGRESS" => room'.round \in RoundNumbers,
         NEW t \in Slots, NEW r \in TaskState,
         task' = [task EXCEPT ![t] = r], TaskGood(r), r.pc # "pickRecord"
  PROVE  IInv'
<1>1. Forward
  BY DEF Forward, ledger
<1>2. TaskGood(r)'
  BY DEF TaskGood, ledger
<1>3. InFlight'
  <2>1. \A u \in Slots : rounds'[task[u].round] = rounds[task[u].round]
    BY DEF ledger
  <2> QED BY <1>1, <1>2, <2>1, StepKeepsInFlight DEF IInv
<1>4. RowsGood'
  BY DEF IInv, RowsGood, OneRoundInPlay, WinnerPlayed, ledger
<1> QED BY <1>3, <1>4 DEF IInv

LEMMA RowStop ==
  ASSUME IInv, UNCHANGED ledger, RowsTyped',
         room'.status = "IN_PROGRESS" => room'.round \in RoundNumbers,
         NEW t \in Slots, Stop(t)
  PROVE  IInv'
BY IdleGood, RowStep DEF Stop, Become

LEMMA GoFacts ==
  ASSUME IInv, NEW t \in Slots, NEW pc \in Pcs, Go(t, pc)
  PROVE  LET r == [task[t] EXCEPT !.pc = pc] IN
         /\ r \in TaskState /\ r.pc = pc
         /\ r.round = task[t].round /\ r.player = task[t].player
         /\ r.judge = task[t].judge /\ r.seen = task[t].seen
         /\ task' = [task EXCEPT ![t] = r]
<1> DEFINE r == [task[t] EXCEPT !.pc = pc]
<1>1. r \in TaskState /\ r.pc = pc
        /\ r.round = task[t].round /\ r.player = task[t].player
        /\ r.judge = task[t].judge /\ r.seen = task[t].seen
  BY TaskFacts DEF TaskState
<1>2. task' = [task EXCEPT ![t] = r]
  BY TaskFacts DEF Go
<1> QED BY <1>1, <1>2

LEMMA RowGo ==
  ASSUME IInv, UNCHANGED ledger, RowsTyped',
         room'.status = "IN_PROGRESS" => room'.round \in RoundNumbers,
         NEW t \in Slots, NEW pc \in Pcs, Go(t, pc),
         TaskGood([task[t] EXCEPT !.pc = pc]), pc # "pickRecord"
  PROVE  IInv'
BY GoFacts, RowStep

\* A Room row that keeps its type.
LEMMA RoomTyped ==
  ASSUME RowsTyped, UNCHANGED <<ledger, seats, faults, observed>>,
         room' \in [status : {"LOBBY", "IN_PROGRESS", "FINISHED"},
                    round : 0..MaxRound, judge : PlayerOrNull]
  PROVE  RowsTyped'
BY DEF RowsTyped, ledger, seats, observed

LEMMA StartClaimKeeps ==
  ASSUME IInv, NEW t \in Slots, StartClaim(t) PROVE IInv'
<1>0. task[t].judge \in Players /\ task[t].round = 1
  BY TaskFacts DEF StartClaim, At, TaskGood
<1>1. CASE /\ room' = [status |-> "IN_PROGRESS", round |-> 1, judge |-> task[t].judge]
           /\ Go(t, "startUnready")
  <2>1. RowsTyped'
    BY <1>0, <1>1, RoundNumberFacts, RoomTyped DEF IInv, StartClaim, PlayerOrNull
  <2>2. TaskGood([task[t] EXCEPT !.pc = "startUnready"])
    BY <1>0, <1>1, GoFacts, RoundNumberFacts DEF Pcs, TaskGood, Roundless, RotationPcs
  <2> QED BY <1>1, <2>1, <2>2, RowGo, RoundNumberFacts DEF StartClaim, Pcs
<1>2. CASE UNCHANGED room /\ Stop(t)
  BY <1>2, StopStep DEF StartClaim
<1> QED BY <1>1, <1>2 DEF StartClaim

LEMMA StartUnreadyKeeps ==
  ASSUME IInv, NEW t \in Slots, StartUnready(t) PROVE IInv'
<1>1. RowsTyped'
  BY DEF IInv, RowsTyped, StartUnready, ledger, observed
<1>2. TaskGood([task[t] EXCEPT !.pc = "startDeal"])
  BY GoFacts, TaskFacts, RoundNumberFacts
  DEF StartUnready, At, Pcs, TaskGood, Roundless, RotationPcs
<1> QED BY <1>1, <1>2, RowGo DEF StartUnready, Pcs, IInv, RowsGood

LEMMA ToggleWriteKeeps ==
  ASSUME IInv, NEW t \in Slots, ToggleWrite(t) PROVE IInv'
<1>1. RowsTyped'
  BY DEF IInv, RowsTyped, ToggleWrite, ledger, observed
<1> QED BY <1>1, RowStop DEF ToggleWrite, IInv, RowsGood

LEMMA RotateUnreadyKeeps ==
  ASSUME IInv, NEW t \in Slots, RotateUnready(t) PROVE IInv'
<1>1. RowsTyped'
  BY DEF IInv, RowsTyped, RotateUnready, ledger, observed
<1>2. /\ task[t].round \in RoundNumbers /\ task[t].round < MaxRound
     /\ task[t].judge \in Players /\ rounds[task[t].round].status \in Ended
  BY TaskFacts DEF RotateUnready, At, TaskGood, Roundless, RotationPcs
<1>3. TaskGood([task[t] EXCEPT !.pc = "rotateRoom"])
  BY <1>2, GoFacts DEF RotateUnready, Pcs, TaskGood, Roundless, RotationPcs
<1> QED BY <1>1, <1>3, RowGo DEF RotateUnready, Pcs, IInv, RowsGood

LEMMA PlayRefillKeeps ==
  ASSUME IInv, NEW t \in Slots, PlayRefill(t) PROVE IInv'
<1>1. RowsTyped'
  BY DEF IInv, RowsTyped, PlayRefill, ledger, observed
<1>2. TaskGood([task[t] EXCEPT !.pc = "playReread"])
  BY GoFacts, TaskFacts DEF PlayRefill, At, Pcs, TaskGood, Roundless, RotationPcs
<1> QED BY <1>1, <1>2, RowGo DEF PlayRefill, Pcs, IInv, RowsGood

LEMMA PickScoreKeeps ==
  ASSUME IInv, NEW t \in Slots, PickScore(t) PROVE IInv'
<1>1. RowsTyped'
  BY DEF IInv, RowsTyped, PickScore, ledger, observed
<1>2. /\ task[t].round \in RoundNumbers /\ task[t].player \in Players
     /\ rounds[task[t].round].status \in Ended
  BY TaskFacts DEF PickScore, At, TaskGood, Roundless, RotationPcs
<1>3. TaskGood([task[t] EXCEPT !.pc = "pickReread"])
  BY <1>2, GoFacts DEF PickScore, Pcs, TaskGood, Roundless, RotationPcs
<1> QED BY <1>1, <1>3, RowGo DEF PickScore, Pcs, IInv, RowsGood

\* A Player leaves or drops.
LEMMA DepartureTask ==
  ASSUME NEW p \in Players, NEW kind \in {"leave", "drop"}
  PROVE  LET r == [Idle EXCEPT !.kind = kind, !.pc = "hostLoss", !.player = p] IN
         r \in TaskState /\ TaskGood(r) /\ r.pc # "pickRecord"
<1> DEFINE q == [Idle EXCEPT !.kind = kind, !.pc = "hostLoss"]
           r == [q EXCEPT !.player = p]
<1>1. q \in TaskState /\ q.pc = "hostLoss"
  BY IdleGood DEF Idle, TaskState, Pcs, HandlerKinds
<1> HIDE DEF q
<1>2. r \in TaskState /\ r.pc = "hostLoss"
  BY <1>1 DEF TaskState, PlayerOrNull
<1>3. TaskGood(r)
  BY <1>2 DEF TaskGood, Roundless, RotationPcs
<1> QED BY <1>2, <1>3 DEF q

LEMMA LeaveKeeps ==
  ASSUME IInv, NEW t \in Slots, NEW p \in Players, Leave(t, p) PROVE IInv'
<1>1. RowsTyped'
  BY DEF IInv, RowsTyped, Leave, ledger, observed
<1> QED BY <1>1, DepartureTask, RowStep DEF Leave, Become, IInv, RowsGood

LEMMA DropKeeps ==
  ASSUME IInv, NEW t \in Slots, NEW p \in Players, Drop(t, p) PROVE IInv'
<1>1. RowsTyped'
  BY DEF IInv, RowsTyped, Drop, ledger, observed
<1> QED BY <1>1, DepartureTask, RowStep DEF Drop, Become, IInv, RowsGood

\* A Player returns or joins: no handler moves.
LEMMA PlayersStep ==
  ASSUME IInv, UNCHANGED <<room, ledger, task>>, RowsTyped'
  PROVE  IInv'
<1>1. InFlight'
  BY DEF IInv, InFlight, OneRecorder, TaskGood, ledger
<1>2. RowsGood'
  BY DEF IInv, RowsGood, OneRoundInPlay, WinnerPlayed, ledger
<1> QED BY <1>1, <1>2 DEF IInv

LEMMA ReturnKeeps ==
  ASSUME IInv, NEW p \in Players, Return(p) PROVE IInv'
<1>1. RowsTyped'
  BY DEF IInv, RowsTyped, Return, ledger, observed
<1> QED BY <1>1, PlayersStep DEF Return

LEMMA JoinKeeps ==
  ASSUME IInv, NEW p \in Players, Join(p) PROVE IInv'
<1>1. RowsTyped'
  BY DEF IInv, RowsTyped, Join, ledger, observed
<1> QED BY <1>1, PlayersStep DEF Join

\* The game ends.
LEMMA PickEndKeeps ==
  ASSUME IInv, NEW t \in Slots, PickEnd(t) PROVE IInv'
<1>1. RowsTyped' /\ room'.status = "FINISHED"
  <2>1. room' = [room EXCEPT !.status = "FINISHED"]
    BY DEF PickEnd
  <2> QED BY <2>1, RoomTyped DEF IInv, RowsTyped, PickEnd
<1>2. task[t].round \in RoundNumbers
  BY TaskFacts DEF PickEnd, At, TaskGood, Roundless, RotationPcs
<1>3. TaskGood([task[t] EXCEPT !.pc = "lastRoundEnd"])
  BY <1>2, GoFacts DEF PickEnd, Pcs, TaskGood, Roundless, RotationPcs
<1> QED BY <1>1, <1>3, RowGo DEF PickEnd, Pcs

LEMMA EndGameKeeps ==
  ASSUME IInv, NEW t \in Slots, EndGame(t) PROVE IInv'
<1>1. RowsTyped' /\ room'.status = "FINISHED"
  <2>1. room' = [room EXCEPT !.status = "FINISHED"]
    BY DEF EndGame
  <2> QED BY <2>1, RoomTyped DEF IInv, RowsTyped, EndGame
<1>2. CASE Go(t, "endFind")
  <2>1. TaskGood([task[t] EXCEPT !.pc = "endFind"])
    BY <1>2, GoFacts DEF Pcs, TaskGood, Roundless, RotationPcs
  <2> QED BY <1>1, <1>2, <2>1, RowGo DEF EndGame, Pcs
<1>3. CASE Stop(t)
  BY <1>1, <1>3, RowStop DEF EndGame
<1> QED BY <1>2, <1>3 DEF EndGame

\* The Room moves on to the next Round's number and Judge.
LEMMA RotateRoomKeeps ==
  ASSUME IInv, NEW t \in Slots, RotateRoom(t) PROVE IInv'
<1> DEFINE n == task[t].round
           r == [task[t] EXCEPT !.pc = "openRound", !.round = @ + 1]
<1>1. n \in RoundNumbers /\ n < MaxRound /\ task[t].judge \in Players
        /\ rounds[n].status \in Ended
  BY TaskFacts DEF RotateRoom, At, TaskGood, Roundless, RotationPcs
<1>2. n + 1 \in RoundNumbers /\ n + 1 \in 0..MaxRound
  BY <1>1, RoundNumberFacts
<1>3. room' \in [status : {"LOBBY", "IN_PROGRESS", "FINISHED"},
                 round : 0..MaxRound, judge : PlayerOrNull]
        /\ room'.round = n + 1
  <2>1. room' = [room EXCEPT !.round = n + 1, !.judge = task[t].judge]
    BY DEF RotateRoom, N
  <2> QED BY <1>1, <1>2, <2>1 DEF IInv, RowsTyped, PlayerOrNull
<1>4. RowsTyped'
  BY <1>3, RoomTyped DEF IInv, RotateRoom
<1>5. r \in TaskState /\ r.pc = "openRound" /\ r.round = n + 1
        /\ r.judge = task[t].judge
  BY <1>2, TaskFacts DEF TaskState, Pcs
<1>6. \A m \in 1..((n + 1) - 1) : rounds[m].status \in Ended
  <2> SUFFICES ASSUME NEW m \in 1..((n + 1) - 1) PROVE rounds[m].status \in Ended
    OBVIOUS
  <2>1. m \in RoundNumbers /\ (m = n \/ m < n)
    BY <1>1, RoundNumberFacts DEF RoundNumbers
  <2>2. rounds[n].status # "NONE"
    BY <1>1 DEF Ended
  <2> QED BY <1>1, <2>1, <2>2 DEF IInv, RowsGood, OneRoundInPlay
<1>7. TaskGood(r)
  BY <1>1, <1>2, <1>5, <1>6 DEF TaskGood, Roundless, RotationPcs
<1> QED BY <1>2, <1>3, <1>4, <1>5, <1>7, RowStep DEF RotateRoom, Become

\* A handler dies.
LEMMA FailKeeps ==
  ASSUME IInv, NEW t \in Slots, Fail(t) PROVE IInv'
<1>1. faults' \in 0..MaxFaults
  BY ParametersAssumption DEF IInv, RowsTyped, Fail
<1>2. RowsTyped'
  BY <1>1 DEF IInv, RowsTyped, Fail, ledger, seats, observed
<1> QED BY <1>2, RowStop DEF Fail, IInv, RowsGood

-----------------------------------------------------------------------------
\* Steps that publish an event: only the history grows.

LEMMA AnnounceTyped ==
  ASSUME RowsTyped, UNCHANGED <<room, ledger, seats, faults, picker>>,
         prompt' \in [RoundNumbers -> SUBSET Players],
         NEW e \in RoundEvents, NEW n \in RoundNumbers, Announce(e, n)
  PROVE  RowsTyped'
<1>1. announced' \in [RoundEvents -> [RoundNumbers -> Nat]]
  BY DEF RowsTyped, Announce
<1> QED BY <1>1 DEF RowsTyped, ledger, seats

LEMMA TimeToJudgeKeeps ==
  ASSUME IInv, NEW t \in Slots, TimeToJudge(t) PROVE IInv'
<1>1. N(t) \in RoundNumbers /\ task[t].seen \subseteq Players
  BY TaskFacts DEF TimeToJudge, At, N, TaskGood, TaskState, Roundless
<1>2. prompt' \in [RoundNumbers -> SUBSET Players]
  BY <1>1 DEF TimeToJudge, IInv, RowsTyped
<1>3. RowsTyped'
  BY <1>1, <1>2, AnnounceTyped DEF IInv, TimeToJudge, RoundEvents
<1> QED BY <1>3, RowStop DEF TimeToJudge, IInv, RowsGood

LEMMA LastRoundEndKeeps ==
  ASSUME IInv, NEW t \in Slots, LastRoundEnd(t) PROVE IInv'
<1>1. N(t) \in RoundNumbers
  BY TaskFacts DEF LastRoundEnd, At, N, TaskGood, Roundless
<1>2. RowsTyped'
  BY <1>1, AnnounceTyped DEF IInv, RowsTyped, LastRoundEnd, RoundEvents
<1> QED BY <1>2, RowStop DEF LastRoundEnd, IInv, RowsGood

LEMMA RoundStartKeeps ==
  ASSUME IInv, NEW t \in Slots, RoundStart(t) PROVE IInv'
<1>1. N(t) \in RoundNumbers
  BY TaskFacts DEF RoundStart, At, N, TaskGood, Roundless
<1>2. RowsTyped'
  BY <1>1, AnnounceTyped DEF IInv, RowsTyped, RoundStart, RoundEvents
<1> QED BY <1>2, RowStop DEF RoundStart, IInv, RowsGood

LEMMA RoundEndKeeps ==
  ASSUME IInv, NEW t \in Slots, RoundEnd(t) PROVE IInv'
<1>1. task[t].round \in RoundNumbers /\ rounds[task[t].round].status \in Ended
  BY TaskFacts DEF RoundEnd, At, TaskGood, Roundless, RotationPcs
<1>2. RowsTyped'
  BY <1>1, AnnounceTyped DEF IInv, RowsTyped, RoundEnd, RoundEvents, N
<1>3. TaskGood([task[t] EXCEPT !.pc = "rotateRead"])
  BY <1>1, GoFacts DEF RoundEnd, Pcs, TaskGood, Roundless, RotationPcs
<1> QED BY <1>2, <1>3, RowGo DEF RoundEnd, Pcs, IInv, RowsGood

LEMMA EndRoundEndKeeps ==
  ASSUME IInv, NEW t \in Slots, EndRoundEnd(t) PROVE IInv'
<1>1. N(t) \in RoundNumbers
  BY TaskFacts DEF EndRoundEnd, At, N, TaskGood, Roundless
<1>2. RowsTyped'
  BY <1>1, AnnounceTyped DEF IInv, RowsTyped, EndRoundEnd, RoundEvents
<1>3. ASSUME NEW pc \in {"findRoom", "endGame"}, Go(t, pc) PROVE IInv'
  <2>1. TaskGood([task[t] EXCEPT !.pc = pc])
    BY <1>3, GoFacts DEF Pcs, TaskGood, Roundless, RotationPcs
  <2> QED BY <1>2, <1>3, <2>1, RowGo DEF EndRoundEnd, Pcs, IInv, RowsGood
<1> QED BY <1>3 DEF EndRoundEnd, AfterEndActiveRound

-----------------------------------------------------------------------------
\* Steps that write a Round.

\* GoFacts with the handler's new state named.
LEMMA GoTask ==
  ASSUME IInv, NEW t \in Slots, NEW pc \in Pcs, Go(t, pc)
  PROVE  \E r \in TaskState :
           /\ r.pc = pc /\ r.round = N(t) /\ r.player = task[t].player
           /\ task' = [task EXCEPT ![t] = r]
<1> DEFINE q == [task[t] EXCEPT !.pc = pc]
<1>1. /\ q \in TaskState /\ q.pc = pc /\ q.round = N(t) /\ q.player = task[t].player
      /\ task' = [task EXCEPT ![t] = q]
  BY GoFacts DEF N
<1> HIDE DEF q
<1> QED BY <1>1

\* A claim moves a Round that is in play on, and nothing else: the Rounds stay
\* in order, no winner appears, and no recorder was waiting on this Round.
LEMMA ClaimStep ==
  ASSUME IInv, NEW n \in RoundNumbers, rounds[n].status \in Ongoing,
         NEW to \in {"JUDGING", "COMPLETE", "ABORTED"},
         rounds' = [rounds EXCEPT ![n].status = to],
         UNCHANGED <<room, plays>>, RowsTyped',
         NEW t \in Slots, NEW r \in TaskState,
         task' = [task EXCEPT ![t] = r], TaskGood(r)',
         r.pc = "pickRecord" => r.round = n
  PROVE  IInv'
<1>1. rounds'[n].status = to /\ rounds'[n].judge = rounds[n].judge
        /\ rounds'[n].winner = rounds[n].winner
        /\ \A m \in RoundNumbers \ {n} : rounds'[m] = rounds[m]
  BY DEF IInv, RowsTyped, RoundRow
<1>2. rounds[n].status # "NONE" /\ rounds[n].status \notin Ended
        /\ rounds[n].status # "COMPLETE" /\ to # "NONE"
  BY DEF Ongoing, Ended
<1>3. rounds[n].winner = NoPlayer
  BY <1>2 DEF IInv, RowsGood, WinnerPlayed
<1>4. Forward
  BY <1>1, <1>2 DEF Forward
<1>5. RowsGood'
  <2>1. OneRoundInPlay'
    BY <1>1, <1>2 DEF IInv, RowsGood, OneRoundInPlay
  <2>2. WinnerPlayed'
    BY <1>1, <1>3 DEF IInv, RowsGood, WinnerPlayed
  <2>3. \A m \in RoundNumbers :
          /\ rounds'[m].status = "NONE" => plays'[m] = {} /\ rounds'[m].winner = NoPlayer
          /\ rounds'[m].judge \notin plays'[m]
    BY <1>1, <1>2 DEF IInv, RowsGood
  <2> QED BY <2>1, <2>2, <2>3 DEF IInv, RowsGood
<1>6. ASSUME NEW u \in Slots, task[u].pc = "pickRecord"
      PROVE  task[u].round \in RoundNumbers \ {n}
  BY <1>2, <1>6, TaskFacts DEF TaskGood, Roundless
<1>7. InFlight'
  BY <1>1, <1>4, <1>6, StepKeepsInFlight DEF IInv
<1> QED BY <1>5, <1>7 DEF IInv

\* A Round row that keeps its type.
LEMMA RoundTyped ==
  ASSUME RowsTyped, NEW n \in RoundNumbers,
         NEW to \in {"JUDGING", "COMPLETE", "ABORTED"},
         rounds' = [rounds EXCEPT ![n].status = to],
         UNCHANGED <<room, plays, seats, faults, announced, prompt>>,
         picker' \in [RoundNumbers -> PlayerOrNull]
  PROVE  RowsTyped'
<1>1. rounds' \in [RoundNumbers -> RoundRow]
  BY DEF RowsTyped, RoundRow, Ongoing, Ended
<1> QED BY <1>1 DEF RowsTyped, seats

LEMMA ClaimJudgingKeeps ==
  ASSUME IInv, NEW t \in Slots, ClaimJudging(t) PROVE IInv'
<1>1. N(t) \in RoundNumbers
  BY TaskFacts DEF ClaimJudging, At, N, TaskGood, Roundless
<1>2. CASE /\ rounds[N(t)].status = "PLAYING"
           /\ rounds' = [rounds EXCEPT ![N(t)].status = "JUDGING"]
           /\ Go(t, "timeToJudge")
  <2>1. RowsTyped'
    BY <1>1, <1>2, RoundTyped DEF IInv, RowsTyped, ClaimJudging, observed
  <2>2. PICK r \in TaskState :
          /\ r.pc = "timeToJudge" /\ r.round = N(t) /\ r.player = task[t].player
          /\ task' = [task EXCEPT ![t] = r]
    BY <1>2, GoTask DEF Pcs
  <2>3. TaskGood(r)'
    BY <1>1, <2>2 DEF TaskGood, Roundless, RotationPcs
  <2> QED BY <1>1, <1>2, <2>1, <2>2, <2>3, ClaimStep DEF ClaimJudging, Ongoing
<1>3. CASE UNCHANGED rounds /\ Stop(t)
  BY <1>3, StopStep DEF ClaimJudging, ledger
<1> QED BY <1>2, <1>3 DEF ClaimJudging

LEMMA AbortKeeps ==
  ASSUME IInv, NEW t \in Slots, Abort(t) PROVE IInv'
<1>1. N(t) \in RoundNumbers
  BY TaskFacts DEF Abort, At, N, TaskGood, Roundless
<1>2. CASE /\ rounds[N(t)].status \in Ongoing
           /\ rounds' = [rounds EXCEPT ![N(t)].status = "ABORTED"]
           /\ Go(t, "roundEnd")
  <2>1. RowsTyped'
    BY <1>1, <1>2, RoundTyped DEF IInv, RowsTyped, Abort, observed
  <2>2. PICK r \in TaskState :
          /\ r.pc = "roundEnd" /\ r.round = N(t) /\ r.player = task[t].player
          /\ task' = [task EXCEPT ![t] = r]
    BY <1>2, GoTask DEF Pcs
  <2>3. rounds'[N(t)].status \in Ended
    BY <1>1, <1>2 DEF IInv, RowsTyped, RoundRow, Ended
  <2>4. TaskGood(r)'
    BY <1>1, <2>2, <2>3 DEF TaskGood, Roundless, RotationPcs
  <2> QED BY <1>1, <1>2, <2>1, <2>2, <2>4, ClaimStep DEF Abort
<1>3. CASE UNCHANGED rounds /\ Stop(t)
  BY <1>3, StopStep DEF Abort, ledger
<1> QED BY <1>2, <1>3 DEF Abort

LEMMA EndAbortKeeps ==
  ASSUME IInv, NEW t \in Slots, EndAbort(t) PROVE IInv'
<1>1. N(t) \in RoundNumbers
  BY TaskFacts DEF EndAbort, At, N, TaskGood, Roundless
<1>2. CASE /\ rounds[N(t)].status \in Ongoing
           /\ rounds' = [rounds EXCEPT ![N(t)].status = "ABORTED"]
           /\ Go(t, "endRoundEnd")
  <2>1. RowsTyped'
    BY <1>1, <1>2, RoundTyped DEF IInv, RowsTyped, EndAbort, observed
  <2>2. PICK r \in TaskState :
          /\ r.pc = "endRoundEnd" /\ r.round = N(t) /\ r.player = task[t].player
          /\ task' = [task EXCEPT ![t] = r]
    BY <1>2, GoTask DEF Pcs
  <2>3. TaskGood(r)'
    BY <1>1, <2>2 DEF TaskGood, Roundless, RotationPcs
  <2> QED BY <1>1, <1>2, <2>1, <2>2, <2>3, ClaimStep DEF EndAbort
<1>3. ASSUME UNCHANGED rounds, NEW pc \in {"findRoom", "endGame"}, Go(t, pc)
      PROVE  IInv'
  <2>1. UNCHANGED <<room, ledger, seats, faults, observed>>
    BY <1>3 DEF EndAbort, ledger
  <2>2. TaskGood([task[t] EXCEPT !.pc = pc])
    BY <1>3, GoFacts DEF Pcs, TaskGood, Roundless, RotationPcs
  <2> QED BY <1>3, <2>1, <2>2, GoStep DEF Pcs
<1> QED BY <1>2, <1>3 DEF EndAbort, AfterEndActiveRound

LEMMA PickClaimKeeps ==
  ASSUME IInv, NEW t \in Slots, PickClaim(t) PROVE IInv'
<1>1. N(t) \in RoundNumbers /\ task[t].player \in plays[N(t)] \cap Players
        /\ task[t].judge \in PlayerOrNull
  BY TaskFacts DEF PickClaim, At, N, TaskGood, TaskState, Roundless
<1>2. CASE /\ rounds[N(t)].status = "JUDGING"
           /\ rounds' = [rounds EXCEPT ![N(t)].status = "COMPLETE"]
           /\ picker' = [picker EXCEPT ![N(t)] = task[t].judge]
           /\ Go(t, "pickRecord")
  <2>0. picker' \in [RoundNumbers -> PlayerOrNull]
    BY <1>1, <1>2 DEF IInv, RowsTyped
  <2>1. RowsTyped'
    BY <1>1, <1>2, <2>0, RoundTyped DEF IInv, PickClaim
  <2>2. PICK r \in TaskState :
          /\ r.pc = "pickRecord" /\ r.round = N(t) /\ r.player = task[t].player
          /\ task' = [task EXCEPT ![t] = r]
    BY <1>2, GoTask DEF Pcs
  <2>3. rounds'[N(t)].status = "COMPLETE" /\ rounds'[N(t)].winner = NoPlayer
    <3>1. rounds[N(t)].winner = NoPlayer
      BY <1>1, <1>2 DEF IInv, RowsGood, WinnerPlayed
    <3> QED BY <1>1, <1>2, <3>1 DEF IInv, RowsTyped, RoundRow
  <2>4. TaskGood(r)'
    BY <1>1, <2>2, <2>3 DEF PickClaim, TaskGood, Roundless, RotationPcs
  <2> QED BY <1>1, <1>2, <2>1, <2>2, <2>4, ClaimStep DEF PickClaim, Ongoing
<1>3. CASE UNCHANGED <<rounds, picker>> /\ Stop(t)
  BY <1>3, StopStep DEF PickClaim, ledger, observed
<1> QED BY <1>2, <1>3 DEF PickClaim

\* The winner of a decided Round is recorded, by the only handler that may.
LEMMA PickRecordKeeps ==
  ASSUME IInv, NEW t \in Slots, PickRecord(t) PROVE IInv'
<1> DEFINE n == N(t)
           w == task[t].player
<1>1. /\ n \in RoundNumbers /\ w \in plays[n] /\ w \in Players
      /\ rounds[n].status = "COMPLETE" /\ rounds[n].winner = NoPlayer
  BY TaskFacts DEF PickRecord, At, N, TaskGood, Roundless
<1>2. PICK r \in TaskState :
        /\ r.pc = "pickScore" /\ r.round = N(t) /\ r.player = task[t].player
        /\ task' = [task EXCEPT ![t] = r]
  BY GoTask DEF PickRecord, Pcs
<1>3. /\ rounds' = [rounds EXCEPT ![n].winner = w]
      /\ UNCHANGED <<room, plays, seats, faults, observed>>
  BY DEF PickRecord
<1>4. /\ rounds'[n].status = "COMPLETE" /\ rounds'[n].judge = rounds[n].judge
      /\ rounds'[n].winner = w
      /\ \A m \in RoundNumbers \ {n} : rounds'[m] = rounds[m]
  BY <1>1, <1>3 DEF IInv, RowsTyped, RoundRow
<1>5. Forward
  BY <1>1, <1>3, <1>4 DEF Forward
<1>6. RowsTyped'
  <2>1. rounds' \in [RoundNumbers -> RoundRow]
    BY <1>1, <1>3 DEF IInv, RowsTyped, RoundRow, PlayerOrNull
  <2> QED BY <1>3, <2>1 DEF IInv, RowsTyped, seats, observed
<1>7. RowsGood'
  <2>1. OneRoundInPlay'
    BY <1>1, <1>4 DEF IInv, RowsGood, OneRoundInPlay
  <2>2. WinnerPlayed'
    BY <1>1, <1>3, <1>4 DEF IInv, RowsGood, WinnerPlayed
  <2>3. \A m \in RoundNumbers :
          /\ rounds'[m].status = "NONE" => plays'[m] = {} /\ rounds'[m].winner = NoPlayer
          /\ rounds'[m].judge \notin plays'[m]
    BY <1>1, <1>3, <1>4 DEF IInv, RowsGood
  <2> QED BY <1>3, <2>1, <2>2, <2>3 DEF IInv, RowsGood
<1>8. InFlight'
  <2>1. TaskGood(r)'
    BY <1>1, <1>2, <1>4 DEF TaskGood, Roundless, RotationPcs, Ended
  <2>2. ASSUME NEW u \in Slots \ {t}, task[u].pc = "pickRecord"
        PROVE  task[u].round \in RoundNumbers \ {n}
    BY <2>2, TaskFacts
    DEF IInv, InFlight, OneRecorder, TaskGood, Roundless, PickRecord, At, N
  <2> HIDE DEF n
  <2> QED BY <1>2, <1>4, <1>5, <2>1, <2>2, StepKeepsInFlight DEF IInv
<1> QED BY <1>6, <1>7, <1>8 DEF IInv

\* A new Round: every earlier one has ended, and no later one exists.
LEMMA OpenRoundKeeps ==
  ASSUME IInv, NEW t \in Slots, OpenRound(t) PROVE IInv'
<1> DEFINE n == N(t)
           j == task[t].judge
<1>1. /\ n \in RoundNumbers /\ j \in Players
      /\ \A m \in 1..(n - 1) : rounds[m].status \in Ended
  BY TaskFacts DEF OpenRound, At, N, TaskGood, Roundless
<1>2. CASE /\ rounds[n].status = "NONE"
           /\ rounds' = [rounds EXCEPT ![n] =
                [status |-> "PLAYING", judge |-> j, winner |-> NoPlayer]]
           /\ Go(t, "roundStart")
  <2>1. PICK r \in TaskState :
          /\ r.pc = "roundStart" /\ r.round = N(t) /\ r.player = task[t].player
          /\ task' = [task EXCEPT ![t] = r]
    BY <1>2, GoTask DEF Pcs
  <2>2. UNCHANGED <<room, plays, seats, faults, observed>>
    BY DEF OpenRound
  <2>3. /\ rounds'[n].status = "PLAYING" /\ rounds'[n].judge = j
        /\ rounds'[n].winner = NoPlayer
        /\ \A m \in RoundNumbers \ {n} : rounds'[m] = rounds[m]
    BY <1>1, <1>2 DEF IInv, RowsTyped
  <2>4. Forward
    BY <1>2, <2>2, <2>3 DEF Forward, Ended
  <2>5. RowsTyped'
    <3>1. rounds' \in [RoundNumbers -> RoundRow]
      BY <1>1, <1>2 DEF IInv, RowsTyped, RoundRow, Ongoing, PlayerOrNull
    <3> QED BY <2>2, <3>1 DEF IInv, RowsTyped, seats, observed
  <2>6. RowsGood'
    <3>1. OneRoundInPlay'
      <4> SUFFICES ASSUME NEW m \in RoundNumbers, NEW k \in RoundNumbers,
                          m < k, rounds'[k].status # "NONE"
                   PROVE  rounds'[m].status \in Ended
        BY DEF OneRoundInPlay
      <4>1. CASE k = n
        BY <1>1, <2>3, <4>1 DEF RoundNumbers
      <4>2. CASE k # n
        <5>1. rounds[k].status # "NONE"
          BY <2>3, <4>2
        <5>2. rounds[m].status \in Ended
          BY <5>1 DEF IInv, RowsGood, OneRoundInPlay
        <5> QED BY <1>2, <2>3, <5>2 DEF Ended
      <4> QED BY <4>1, <4>2
    <3>2. WinnerPlayed'
      BY <2>2, <2>3 DEF IInv, RowsGood, WinnerPlayed
    <3>3. \A m \in RoundNumbers :
            /\ rounds'[m].status = "NONE" => plays'[m] = {} /\ rounds'[m].winner = NoPlayer
            /\ rounds'[m].judge \notin plays'[m]
      BY <1>2, <2>2, <2>3 DEF IInv, RowsGood
    <3> QED BY <2>2, <3>1, <3>2, <3>3 DEF IInv, RowsGood
  <2>7. InFlight'
    <3>1. TaskGood(r)'
      BY <1>1, <2>1 DEF TaskGood, Roundless, RotationPcs
    <3>2. ASSUME NEW u \in Slots \ {t}, task[u].pc = "pickRecord"
          PROVE  task[u].round \in RoundNumbers \ {n}
      BY <1>2, <3>2, TaskFacts DEF TaskGood, Roundless
    <3> HIDE DEF n, j
    <3> QED BY <2>1, <2>3, <2>4, <3>1, <3>2, StepKeepsInFlight DEF IInv
  <2> QED BY <2>5, <2>6, <2>7 DEF IInv
<1>3. CASE UNCHANGED rounds /\ Stop(t)
  BY <1>3, StopStep DEF OpenRound, ledger
<1> QED BY <1>2, <1>3 DEF OpenRound

\* An answer: not the Judge's, and only in a Round that exists.
LEMMA PlayInsertKeeps ==
  ASSUME IInv, NEW t \in Slots, PlayInsert(t) PROVE IInv'
<1> DEFINE n == N(t)
           p == task[t].player
<1>1. n \in RoundNumbers /\ p \in Players /\ p # rounds[n].judge
  BY TaskFacts DEF PlayInsert, At, N, TaskGood, Roundless
<1>2. CASE /\ rounds[n].status = "PLAYING"
           /\ plays' = [plays EXCEPT ![n] = @ \cup {p}]
           /\ Go(t, "playRefill")
  <2>1. PICK r \in TaskState :
          /\ r.pc = "playRefill" /\ r.round = N(t) /\ r.player = task[t].player
          /\ task' = [task EXCEPT ![t] = r]
    BY <1>2, GoTask DEF Pcs
  <2>2. UNCHANGED <<room, rounds, seats, faults, observed>>
    BY DEF PlayInsert
  <2>3. /\ plays'[n] = plays[n] \cup {p}
        /\ \A m \in RoundNumbers \ {n} : plays'[m] = plays[m]
    BY <1>1, <1>2 DEF IInv, RowsTyped
  <2>4. Forward
    BY <2>2, <2>3 DEF Forward
  <2>5. RowsTyped'
    <3>1. plays' \in [RoundNumbers -> SUBSET Players]
      BY <1>1, <1>2 DEF IInv, RowsTyped
    <3> QED BY <2>2, <3>1 DEF IInv, RowsTyped, seats, observed
  <2>6. RowsGood'
    <3>1. OneRoundInPlay' /\ WinnerPlayed'
      BY <2>2, <2>3 DEF IInv, RowsGood, OneRoundInPlay, WinnerPlayed
    <3>2. \A m \in RoundNumbers :
            /\ rounds'[m].status = "NONE" => plays'[m] = {} /\ rounds'[m].winner = NoPlayer
            /\ rounds'[m].judge \notin plays'[m]
      BY <1>1, <1>2, <2>2, <2>3 DEF IInv, RowsGood
    <3> QED BY <2>2, <3>1, <3>2 DEF IInv, RowsGood
  <2>7. InFlight'
    <3>1. TaskGood(r)'
      BY <1>1, <2>1 DEF TaskGood, Roundless, RotationPcs
    <3> QED BY <2>1, <2>2, <2>4, <3>1, StepKeepsInFlight DEF IInv
  <2> QED BY <2>5, <2>6, <2>7 DEF IInv
<1>3. CASE UNCHANGED plays /\ Stop(t)
  BY <1>3, StopStep DEF PlayInsert, ledger
<1> QED BY <1>2, <1>3 DEF PlayInsert

-----------------------------------------------------------------------------
\* The invariant holds initially and every step keeps it.

LEMMA InitKeeps == Init => IInv
<1> SUFFICES ASSUME Init PROVE IInv
  OBVIOUS
<1>1. RowsTyped
  BY RoundNumberFacts, ParametersAssumption
  DEF Init, RowsTyped, RoundRow, PlayerOrNull, RoundEvents
<1>2. RowsGood
  BY ParametersAssumption, RoundNumberFacts
  DEF Init, RowsGood, OneRoundInPlay, WinnerPlayed
<1>3. InFlight
  BY IdleGood DEF Init, InFlight, OneRecorder
<1> QED BY <1>1, <1>2, <1>3 DEF IInv

LEMMA StutterKeeps ==
  ASSUME IInv, UNCHANGED vars PROVE IInv'
<1>1. RowsTyped'
  BY DEF IInv, RowsTyped, vars, ledger, seats, observed
<1> QED BY <1>1, PlayersStep DEF vars

LEMMA CallKeeps ==
  ASSUME IInv, NEW t \in Slots, Call(t) PROVE IInv'
BY StartCheckKeeps, EndRoomKeeps, ToggleKeeps, PlayCheckKeeps, LeaveKeeps,
   DropKeeps, PickRoomKeeps, ExpirePlayKeeps, ExpireJudgeKeeps
DEF Call

LEMMA ResumeKeeps ==
  ASSUME IInv, NEW t \in Slots, Resume(t) PROVE IInv'
<1>0. CASE ToggleRead(t) \/ ToggleWrite(t) \/ StartClaim(t) \/ StartUnready(t)
             \/ StartDeal(t) \/ StartDealt(t)
  BY <1>0, ToggleReadKeeps, ToggleWriteKeeps, StartClaimKeeps, StartUnreadyKeeps,
     StartDealKeeps, StartDealtKeeps
<1>1. CASE PlayInsert(t) \/ PlayRefill(t) \/ PlayReread(t) \/ HostLoss(t)
             \/ NewHost(t) \/ FindRoom(t) \/ FindRound(t) \/ ReadPlayers(t)
             \/ ReadPlays(t) \/ ClaimJudging(t) \/ TimeToJudge(t)
  BY <1>1, PlayInsertKeeps, PlayRefillKeeps, PlayRereadKeeps, HostLossKeeps,
     NewHostKeeps, FindRoomKeeps, FindRoundKeeps, ReadPlayersKeeps,
     ReadPlaysKeeps, ClaimJudgingKeeps, TimeToJudgeKeeps
<1>2. CASE PickRound(t) \/ PickWinner(t) \/ PickClaim(t) \/ PickRecord(t)
             \/ PickScore(t) \/ PickReread(t) \/ PickEnd(t) \/ LastRoundEnd(t)
  BY <1>2, PickRoundKeeps, PickWinnerKeeps, PickClaimKeeps, PickRecordKeeps,
     PickScoreKeeps, PickRereadKeeps, PickEndKeeps, LastRoundEndKeeps
<1>3. CASE Abort(t) \/ RoundEnd(t) \/ RotateRead(t) \/ RotatePick(t)
             \/ RotateUnready(t) \/ RotateRoom(t) \/ OpenRound(t)
             \/ RoundStart(t) \/ ResumeRead(t)
  BY <1>3, AbortKeeps, RoundEndKeeps, RotateReadKeeps, RotatePickKeeps,
     RotateUnreadyKeeps, RotateRoomKeeps, OpenRoundKeeps, RoundStartKeeps,
     ResumeReadKeeps
<1>4. CASE EndFind(t) \/ EndAbort(t) \/ EndRoundEnd(t) \/ EndGame(t)
  BY <1>4, EndFindKeeps, EndAbortKeeps, EndRoundEndKeeps, EndGameKeeps
<1> QED BY <1>0, <1>1, <1>2, <1>3, <1>4 DEF Resume

LEMMA NextKeeps == IInv /\ [Next]_vars => IInv'
<1> SUFFICES ASSUME IInv, [Next]_vars PROVE IInv'
  OBVIOUS
<1>1. CASE \E t \in Tasks : Call(t)
  BY <1>1, CallKeeps DEF Slots
<1>2. CASE \E s \in Sweepers : Sweep(s)
  BY <1>2, SweepExpiredKeeps, SweepStalledKeeps DEF Sweep, Slots
<1>3. CASE \E p \in Players : Return(p) \/ Join(p)
  BY <1>3, ReturnKeeps, JoinKeeps
<1>4. CASE \E t \in Slots : Resume(t) \/ Fail(t)
  BY <1>4, ResumeKeeps, FailKeeps
<1>5. CASE UNCHANGED vars
  BY <1>5, StutterKeeps
<1> QED BY <1>1, <1>2, <1>3, <1>4, <1>5 DEF Next

\* However many handlers and instances meet, and wherever they die, what every
\* handler relies on stays true: IInv is an invariant of the server.
THEOREM Invariance == Spec => []IInv
BY InitKeeps, NextKeeps, PTL DEF Spec

\* The rows and the handlers in flight keep their types.
THEOREM TypeCorrect == Spec => []TypeOK
<1>1. IInv => TypeOK
  BY DEF IInv, RowsTyped, InFlight, TypeOK
<1> QED BY <1>1, Invariance, PTL

\* "Two paths can't open two Rounds" (assertCanRotate), and a rotation that died
\* and was resumed cannot either: no Round has a row before every earlier one
\* has ended.
THEOREM RoundsOneAtATime == Spec => []OneRoundInPlay
<1>1. IInv => OneRoundInPlay
  BY DEF IInv, RowsGood
<1> QED BY <1>1, Invariance, PTL

\* A recorded winner answered in that Round, did not judge it, and the Round was
\* decided and not aborted, whatever raced the pick.
THEOREM WinnersPlayed == Spec => []WinnerPlayed
<1>1. IInv => WinnerPlayed
  BY DEF IInv, RowsGood
<1> QED BY <1>1, Invariance, PTL


-----------------------------------------------------------------------------
\* RoundLifecycle implements RoundLedger: the handlers' steps that write a Round
\* are steps of the ledger, all others leave it alone.

LEMMA InitRefines == Init => Ledger!Init
BY DEF Init, Ledger!Init, Ledger!Numbers, RoundNumbers

\* The steps that touch neither rounds nor plays.
LEMMA QuietSteps ==
  /\ \A t \in Slots : Call(t) => UNCHANGED ledger
  /\ \A t \in Slots : Sweep(t) => UNCHANGED ledger
  /\ \A p \in Players : Return(p) \/ Join(p) => UNCHANGED ledger
  /\ \A t \in Slots : Fail(t) => UNCHANGED ledger
<1>1. \A t \in Slots : Call(t) => UNCHANGED ledger
  BY DEF Call, StartCheck, EndRoom, Toggle, PlayCheck, Leave, Drop, PickRoom,
         ExpirePlay, ExpireJudge
<1>2. \A t \in Slots : Sweep(t) => UNCHANGED ledger
  BY DEF Sweep, SweepExpired, SweepStalled
<1>3. \A p \in Players : Return(p) \/ Join(p) => UNCHANGED ledger
  BY DEF Return, Join
<1>4. \A t \in Slots : Fail(t) => UNCHANGED ledger
  BY DEF Fail
<1> QED BY <1>1, <1>2, <1>3, <1>4

LEMMA OpenRefines ==
  ASSUME IInv, NEW t \in Slots, OpenRound(t)
  PROVE  Ledger!Next \/ UNCHANGED ledger
<1>1. /\ N(t) \in RoundNumbers /\ task[t].judge \in Players
      /\ \A m \in 1..(N(t) - 1) : rounds[m].status \in Ended
  BY TaskFacts DEF OpenRound, At, N, TaskGood, Roundless
<1>2. UNCHANGED rounds \/ Ledger!Open(N(t), task[t].judge)
  BY <1>1 DEF OpenRound, Ledger!Open, Ledger!Over, Ended
<1> QED BY <1>1, <1>2 DEF OpenRound, Ledger!Next, Ledger!Numbers, RoundNumbers, ledger

LEMMA AnswerRefines ==
  ASSUME IInv, NEW t \in Slots, PlayInsert(t)
  PROVE  Ledger!Next \/ UNCHANGED ledger
<1>1. /\ N(t) \in RoundNumbers /\ task[t].player \in Players
      /\ task[t].player # rounds[N(t)].judge
  BY TaskFacts DEF PlayInsert, At, N, TaskGood, Roundless
<1>2. UNCHANGED plays \/ Ledger!Answer(N(t), task[t].player)
  BY <1>1 DEF PlayInsert, Ledger!Answer
<1> QED BY <1>1, <1>2 DEF PlayInsert, Ledger!Next, Ledger!Numbers, RoundNumbers, ledger

\* Judging opens with the plays read before the claim: they are still there.
LEMMA JudgingRefines ==
  ASSUME IInv, NEW t \in Slots, ClaimJudging(t)
  PROVE  Ledger!Next \/ UNCHANGED ledger
<1>1. N(t) \in RoundNumbers /\ plays[N(t)] # {}
  BY TaskFacts DEF ClaimJudging, At, N, TaskGood, Roundless
<1>2. UNCHANGED rounds \/ Ledger!OpenJudging(N(t))
  BY <1>1 DEF ClaimJudging, Ledger!OpenJudging
<1> QED BY <1>1, <1>2
    DEF ClaimJudging, Ledger!Next, Ledger!Numbers, RoundNumbers, ledger

LEMMA DecideRefines ==
  ASSUME IInv, NEW t \in Slots, PickClaim(t)
  PROVE  Ledger!Next \/ UNCHANGED ledger
<1>1. N(t) \in RoundNumbers
  BY TaskFacts DEF PickClaim, At, N, TaskGood, Roundless
<1>2. UNCHANGED rounds \/ Ledger!Decide(N(t))
  BY <1>1 DEF PickClaim, Ledger!Decide
<1> QED BY <1>1, <1>2 DEF PickClaim, Ledger!Next, Ledger!Numbers, RoundNumbers, ledger

LEMMA RecordRefines ==
  ASSUME IInv, NEW t \in Slots, PickRecord(t)
  PROVE  Ledger!Next
<1>1. /\ N(t) \in RoundNumbers /\ task[t].player \in plays[N(t)] \cap Players
      /\ rounds[N(t)].status = "COMPLETE" /\ rounds[N(t)].winner = NoPlayer
  BY TaskFacts DEF PickRecord, At, N, TaskGood, Roundless
<1>2. Ledger!Record(N(t), task[t].player)
  BY <1>1 DEF PickRecord, Ledger!Record
<1> QED BY <1>1, <1>2 DEF Ledger!Next, Ledger!Numbers, RoundNumbers

LEMMA VoidRefines ==
  ASSUME IInv, NEW t \in Slots, Abort(t) \/ EndAbort(t)
  PROVE  Ledger!Next \/ UNCHANGED ledger
<1>1. N(t) \in RoundNumbers
  BY TaskFacts DEF Abort, EndAbort, At, N, TaskGood, Roundless
<1>2. UNCHANGED rounds \/ Ledger!Void(N(t))
  BY <1>1 DEF Abort, EndAbort, Ledger!Void, Ongoing
<1> QED BY <1>1, <1>2
    DEF Abort, EndAbort, Ledger!Next, Ledger!Numbers, RoundNumbers, ledger

LEMMA ResumeRefines ==
  ASSUME IInv, NEW t \in Slots, Resume(t)
  PROVE  Ledger!Next \/ UNCHANGED ledger
<1>1. CASE OpenRound(t) \/ PlayInsert(t) \/ ClaimJudging(t) \/ PickClaim(t)
             \/ PickRecord(t) \/ Abort(t) \/ EndAbort(t)
  BY <1>1, OpenRefines, AnswerRefines, JudgingRefines, DecideRefines,
     RecordRefines, VoidRefines
<1>2. CASE ToggleRead(t) \/ ToggleWrite(t) \/ StartClaim(t) \/ StartUnready(t)
             \/ StartDeal(t) \/ StartDealt(t) \/ PlayRefill(t) \/ PlayReread(t)
             \/ HostLoss(t) \/ NewHost(t) \/ FindRoom(t) \/ FindRound(t)
             \/ ReadPlayers(t) \/ ReadPlays(t) \/ TimeToJudge(t)
             \/ PickRound(t) \/ PickWinner(t)
  BY <1>2 DEF ToggleRead, ToggleWrite, StartClaim, StartUnready, StartDeal,
              StartDealt, PlayRefill, PlayReread, HostLoss, NewHost, FindRoom,
              FindRound, ReadPlayers, ReadPlays, TimeToJudge, PickRound, PickWinner
<1>3. CASE PickScore(t) \/ PickReread(t) \/ PickEnd(t) \/ LastRoundEnd(t)
             \/ RoundEnd(t) \/ RotateRead(t) \/ RotatePick(t) \/ RotateUnready(t)
             \/ RotateRoom(t) \/ RoundStart(t) \/ ResumeRead(t)
             \/ EndFind(t) \/ EndRoundEnd(t) \/ EndGame(t)
  BY <1>3 DEF PickScore, PickReread, PickEnd, LastRoundEnd, RoundEnd, RotateRead,
              RotatePick, RotateUnready, RotateRoom, RoundStart, ResumeRead,
              EndFind, EndRoundEnd, EndGame
<1> QED BY <1>1, <1>2, <1>3 DEF Resume

LEMMA StepRefines ==
  IInv /\ [Next]_vars => [Ledger!Next]_(Ledger!ledgerVars)
<1> SUFFICES ASSUME IInv, [Next]_vars PROVE Ledger!Next \/ UNCHANGED ledger
  BY DEF Ledger!ledgerVars, ledger
<1>1. CASE \E t \in Slots : Resume(t)
  BY <1>1, ResumeRefines
<1>2. CASE UNCHANGED vars
  BY <1>2 DEF vars
<1> QED BY <1>1, <1>2, QuietSteps DEF Next, Slots

\* The server keeps the ledger's promises for any number of Players, handlers and
\* instances: answers come in one per Player and only before judging, a Round is
\* decided once or voided, and Rounds follow one another.
THEOREM LedgerImplemented == Spec => ImplementsLedger
BY InitRefines, StepRefines, Invariance, PTL DEF Spec, ImplementsLedger, Ledger!Spec

=============================================================================
