--------------------------- MODULE RoundGameProofs ---------------------------
(***************************************************************************)
(* Theorems about the game RoundLifecycle plays: what is announced, who     *)
(* scores, who judges, and that a Round that can go on does.  They rest on  *)
(* IInv and on one idea: of the handlers that meet on a Round, the one      *)
(* whose conditional UPDATE matched is alone with everything that follows.  *)
(***************************************************************************)
EXTENDS RoundLifecycleProofs, FiniteSetTheorems

-----------------------------------------------------------------------------
\* Events.

\* The handler about to publish an event, since it won the claim.
Holders(e) ==
  IF e = "time-to-judge" THEN {"timeToJudge"}
  ELSE IF e = "round-start" THEN {"roundStart"}
  ELSE {"pickRecord", "pickScore", "pickReread", "pickEnd", "lastRoundEnd", "roundEnd",
        "endRoundEnd"}

\* The claim has been won.
Reached(e, n) ==
  IF e = "time-to-judge" THEN rounds[n].status \notin {"NONE", "PLAYING"}
  ELSE IF e = "round-start" THEN rounds[n].status # "NONE"
  ELSE rounds[n].status \in Ended

EventGood(e) ==
  /\ \A n \in RoundNumbers :
       announced[e][n] \in {0, 1} /\ (announced[e][n] # 0 => Reached(e, n))
  /\ \A t \in Slots : task[t].pc \in Holders(e) =>
       announced[e][task[t].round] = 0 /\ Reached(e, task[t].round)
  /\ \A t, u \in Slots :
       /\ task[t].pc \in Holders(e) /\ task[u].pc \in Holders(e)
       /\ task[t].round = task[u].round
       => t = u

PromptGood ==
  /\ \A t \in Slots : task[t].pc = "timeToJudge" => task[t].seen # {}
  /\ \A n \in RoundNumbers : announced["time-to-judge"][n] # 0 => prompt[n] # {}

EventsInv == PromptGood /\ \A e \in RoundEvents : EventGood(e)

-----------------------------------------------------------------------------
\* Points.

Wins(p)   == {n \in RoundNumbers : rounds[n].winner = p}
Unscored(p) ==
  {n \in RoundNumbers : \E t \in Slots :
     task[t].pc = "pickScore" /\ task[t].player = p /\ task[t].round = n}

ScoresInv ==
  /\ \A t \in Slots : task[t].pc = "pickScore" => rounds[task[t].round].winner = task[t].player
  /\ \A p \in Players : score[p] <= Cardinality(Wins(p) \ Unscored(p))

WinInv ==
  faults = 0 => \A p \in seated : score[p] >= MaxPoints =>
    \/ room.status = "FINISHED"
    \/ \E t \in Slots : task[t].pc \in {"pickReread", "pickEnd"} /\ task[t].player = p

-----------------------------------------------------------------------------
\* A step moves one handler.

Claimants == {"pickRecord", "pickScore", "pickReread", "pickEnd", "lastRoundEnd", "roundEnd",
              "endRoundEnd", "timeToJudge", "roundStart"}

\* A rotation that has the outgoing Judge or the next one in hand.
Turning == {"rotatePick", "rotateUnready", "rotateRoom"}

Moved(t) == \A u \in Slots \ {t} : task'[u] = task[u]

\* The handlers' steps that win no claim and publish nothing.
Plain(t) ==
  \/ Call(t) \/ Sweep(t) \/ Fail(t)
  \/ ToggleRead(t) \/ ToggleWrite(t)
  \/ StartClaim(t) \/ StartUnready(t) \/ StartDeal(t) \/ StartDealt(t)
  \/ PlayInsert(t) \/ PlayRefill(t) \/ PlayReread(t)
  \/ HostLoss(t) \/ NewHost(t) \/ FindRoom(t) \/ FindRound(t) \/ ReadPlayers(t) \/ ReadPlays(t)
  \/ PickRound(t) \/ PickWinner(t)
  \/ RotateRead(t) \/ RotatePick(t) \/ RotateUnready(t) \/ RotateRoom(t) \/ ResumeRead(t)
  \/ EndFind(t) \/ EndGame(t)

LEMMA CallMoves ==
  ASSUME IInv, NEW t \in Slots, Call(t) \/ Sweep(t) \/ Fail(t)
  PROVE  /\ Moved(t) /\ task'[t].pc \notin Claimants \cup Turning
         /\ UNCHANGED <<announced, prompt, rounds, plays, room>>
  <1> task \in [Slots -> TaskState]
    BY DEF IInv, InFlight
  <1> USE DEF Moved, Claimants, Turning, Become, Begin, Stop, Idle, ledger, observed
  <1>1. CASE StartCheck(t) \/ EndRoom(t)
    BY <1>1 DEF StartCheck, EndRoom
  <1>2. ASSUME NEW p \in Players, Toggle(t, p) \/ PlayCheck(t, p) \/ Leave(t, p) \/ Drop(t, p)
        PROVE  /\ Moved(t) /\ task'[t].pc \notin Claimants \cup Turning
               /\ UNCHANGED <<announced, prompt, rounds, plays, room>>
    <2>0. CASE Toggle(t, p)
      BY <2>0 DEF Toggle
    <2>1. CASE PlayCheck(t, p)
      BY <2>1 DEF PlayCheck
    <2>2. CASE Leave(t, p)
      BY <2>2 DEF Leave
    <2>3. CASE Drop(t, p)
      BY <2>3 DEF Drop
    <2> QED
      BY <1>2, <2>0, <2>1, <2>2, <2>3
  <1>3. ASSUME NEW j \in Players, NEW w \in Players, PickRoom(t, j, w)
        PROVE  /\ Moved(t) /\ task'[t].pc \notin Claimants \cup Turning
               /\ UNCHANGED <<announced, prompt, rounds, plays, room>>
    BY <1>3 DEF PickRoom
  <1>4. ASSUME NEW n \in RoundNumbers,
               ExpirePlay(t, n) \/ ExpireJudge(t, n) \/ SweepExpired(t, n) \/ SweepStalled(t, n)
        PROVE  /\ Moved(t) /\ task'[t].pc \notin Claimants \cup Turning
               /\ UNCHANGED <<announced, prompt, rounds, plays, room>>
    BY <1>4 DEF ExpirePlay, ExpireJudge, SweepExpired, SweepStalled
  <1>5. CASE Fail(t)
    BY <1>5 DEF Fail
  <1> QED
    BY <1>1, <1>2, <1>3, <1>4, <1>5 DEF Call, Sweep

LEMMA PlainMoves ==
  ASSUME IInv, NEW t \in Slots, Plain(t)
  PROVE  /\ Moved(t) /\ task'[t].pc \notin Claimants /\ UNCHANGED <<announced, prompt, rounds>>
         /\ task'[t].pc \in Turning => RotateRead(t) \/ RotatePick(t) \/ RotateUnready(t)
  <1> task \in [Slots -> TaskState] /\ task[t] \in TaskState
    BY DEF IInv, InFlight
  <1> USE DEF Moved, Claimants, Turning, Become, Stop, Go, Idle, ledger, observed, TaskState
  <1>1. CASE Call(t) \/ Sweep(t) \/ Fail(t)
    BY <1>1, CallMoves
  <1>2. CASE StartClaim(t)
    BY <1>2 DEF StartClaim
  <1>3. CASE StartUnready(t) \/ ToggleWrite(t)
    BY <1>3 DEF StartUnready, ToggleWrite
  <1>4. CASE StartDeal(t)
    BY <1>4 DEF StartDeal
  <1>5. CASE StartDealt(t)
    BY <1>5 DEF StartDealt
  <1>6. CASE PlayInsert(t)
    BY <1>6 DEF PlayInsert
  <1>7. CASE PlayRefill(t)
    BY <1>7 DEF PlayRefill
  <1>8. CASE PlayReread(t)
    <2> DEFINE r == [Idle EXCEPT !.kind = "play", !.pc = "findRoom"]
    <2>1. r.pc = "findRoom"
      OBVIOUS
    <2> HIDE DEF r
    <2>2. CASE Become(t, r)
      BY <1>8, <2>1, <2>2 DEF PlayReread
    <2>3. CASE Stop(t)
      BY <1>8, <2>3 DEF PlayReread
    <2> QED
      BY <1>8, <2>2, <2>3 DEF PlayReread, r
  <1>9. CASE HostLoss(t)
    <2>1. ASSUME NEW heir, Become(t, [task[t] EXCEPT !.pc = "newHost", !.seen = {heir}])
          PROVE  Moved(t) /\ task'[t].pc = "newHost"
      BY <2>1
    <2>2. UNCHANGED <<announced, prompt, rounds>>
      BY <1>9 DEF HostLoss
    <2>3. CASE Go(t, "findRoom") \/ Go(t, "endGame") \/ Stop(t)
      BY <2>2, <2>3
    <2> QED
      BY <1>9, <2>1, <2>2, <2>3 DEF HostLoss
  <1>10. CASE FindRoom(t)
    <2> DEFINE r == [task[t] EXCEPT !.pc = "findRound", !.round = room.round]
    <2>1. r.pc = "findRound"
      OBVIOUS
    <2> HIDE DEF r
    <2>2. CASE Become(t, r)
      BY <1>10, <2>1, <2>2 DEF FindRoom
    <2>3. CASE Stop(t)
      BY <1>10, <2>3 DEF FindRoom
    <2> QED
      BY <1>10, <2>2, <2>3 DEF FindRoom, r
  <1>11. CASE FindRound(t)
    BY <1>11 DEF FindRound
  <1>12. CASE ReadPlayers(t)
    BY <1>12 DEF ReadPlayers
  <1>13. CASE ReadPlays(t)
    <2> DEFINE r == [task[t] EXCEPT !.pc = "claimJudging", !.seen = plays[N(t)]]
    <2>1. r.pc = "claimJudging"
      OBVIOUS
    <2> HIDE DEF r
    <2>2. CASE Become(t, r)
      BY <1>13, <2>1, <2>2 DEF ReadPlays
    <2>3. CASE Go(t, "abort") \/ Stop(t)
      BY <1>13, <2>3 DEF ReadPlays
    <2> QED
      BY <1>13, <2>2, <2>3 DEF ReadPlays, r
  <1>14. CASE PickRound(t)
    <2> DEFINE r == [task[t] EXCEPT !.pc = "pickWinner", !.round = room.round]
    <2>1. r.pc = "pickWinner"
      OBVIOUS
    <2> HIDE DEF r
    <2>2. CASE Become(t, r)
      BY <1>14, <2>1, <2>2 DEF PickRound
    <2>3. CASE Stop(t)
      BY <1>14, <2>3 DEF PickRound
    <2> QED
      BY <1>14, <2>2, <2>3 DEF PickRound, r
  <1>15. CASE PickWinner(t)
    BY <1>15 DEF PickWinner
  <1>16. CASE RotateRead(t)
    <2> DEFINE r == [task[t] EXCEPT !.pc = "rotatePick", !.judge = room.judge]
    <2>1. r.pc = "rotatePick"
      OBVIOUS
    <2> HIDE DEF r
    <2>2. CASE Become(t, r)
      BY <1>16, <2>1, <2>2 DEF RotateRead
    <2>3. CASE Stop(t)
      BY <1>16, <2>3 DEF RotateRead
    <2> QED
      BY <1>16, <2>2, <2>3 DEF RotateRead, r
  <1>17. CASE RotatePick(t)
    <2>1. ASSUME NEW j, Become(t, [task[t] EXCEPT !.pc = "rotateUnready", !.judge = j])
          PROVE  Moved(t) /\ task'[t].pc \notin Claimants
      BY <2>1
    <2>2. CASE Stop(t)
      BY <1>17, <2>2 DEF RotatePick
    <2> QED
      BY <1>17, <2>1, <2>2 DEF RotatePick
  <1>18. CASE RotateUnready(t)
    BY <1>18 DEF RotateUnready
  <1>19. CASE RotateRoom(t)
    BY <1>19 DEF RotateRoom
  <1>20. CASE ResumeRead(t)
    <2> DEFINE r == [task[t] EXCEPT !.pc = "openRound", !.round = room.round, !.judge = room.judge]
    <2>1. r.pc = "openRound"
      OBVIOUS
    <2> HIDE DEF r
    <2>2. CASE Become(t, r)
      BY <1>20, <2>1, <2>2 DEF ResumeRead
    <2>3. CASE Go(t, "rotateRead") \/ Stop(t)
      BY <1>20, <2>3 DEF ResumeRead
    <2> QED
      BY <1>20, <2>2, <2>3 DEF ResumeRead, r
  <1>21. CASE EndFind(t)
    BY <1>21 DEF EndFind, AfterEndActiveRound
  <1>22. CASE EndGame(t)
    BY <1>22 DEF EndGame
  <1>23. CASE ToggleRead(t)
    <2> DEFINE r == [task[t] EXCEPT !.pc = "toggleWrite", !.seen = {task[t].player} \ ready]
    <2>1. r.pc = "toggleWrite"
      OBVIOUS
    <2> HIDE DEF r
    <2>2. Become(t, r) \/ Stop(t)
      BY <1>23 DEF ToggleRead, r
    <2> QED
      BY <1>23, <2>1, <2>2 DEF ToggleRead
  <1>24. CASE NewHost(t)
    <2> DEFINE r == [task[t] EXCEPT !.pc = "findRoom", !.seen = {}]
    <2>1. r.pc = "findRoom"
      OBVIOUS
    <2> HIDE DEF r
    <2>2. Become(t, r) \/ Stop(t)
      BY <1>24 DEF NewHost, r
    <2> QED
      BY <1>24, <2>1, <2>2 DEF NewHost
  <1> QED
    BY <1>1, <1>2, <1>3, <1>4, <1>5, <1>6, <1>7, <1>8, <1>9, <1>10, <1>11, <1>12, <1>13, <1>14, <1>15, <1>16, <1>17, <1>18, <1>19, <1>20, <1>21, <1>22, <1>23, <1>24 DEF Plain

\* The steps that win a claim or follow one.
Claiming(t) ==
  \/ ClaimJudging(t) \/ TimeToJudge(t) \/ PickClaim(t) \/ PickRecord(t) \/ PickScore(t)
  \/ PickReread(t) \/ PickEnd(t) \/ LastRoundEnd(t) \/ Abort(t) \/ RoundEnd(t)
  \/ OpenRound(t) \/ RoundStart(t) \/ EndAbort(t) \/ EndRoundEnd(t)

LEMMA Handlers ==
  Next => \/ \E t \in Slots : Plain(t) \/ Claiming(t)
          \/ \E p \in Players : Return(p) \/ Join(p)
  BY DEF Next, Resume, Plain, Claiming, Slots

\* Who wins a claim moves from its program counter, and nothing else of it moves.
LEMMA ClaimMoves ==
  ASSUME IInv, NEW t \in Slots, Claiming(t)
  PROVE  /\ Moved(t) /\ task[t].pc # "idle"
         /\ \/ task'[t].pc = "idle" /\ task'[t] = Idle
            \/ /\ task'[t].round = task[t].round /\ task'[t].player = task[t].player
               /\ task'[t].kind = task[t].kind /\ task'[t].judge = task[t].judge
               /\ task'[t].seen = task[t].seen
  <1> task \in [Slots -> TaskState]
    BY DEF IInv, InFlight
  <1>1. \/ \E pc \in Pcs : task' = [task EXCEPT ![t].pc = pc]
        \/ task' = [task EXCEPT ![t] = Idle]
    <2> USE DEF Become, Stop, Go, Pcs, AfterEndActiveRound
    <2>1. CASE ClaimJudging(t) \/ TimeToJudge(t) \/ PickClaim(t) \/ PickRecord(t) \/ PickScore(t)
      BY <2>1 DEF ClaimJudging, TimeToJudge, PickClaim, PickRecord, PickScore
    <2>2. CASE PickReread(t) \/ PickEnd(t) \/ LastRoundEnd(t) \/ Abort(t) \/ RoundEnd(t)
      BY <2>2 DEF PickReread, PickEnd, LastRoundEnd, Abort, RoundEnd
    <2>3. CASE OpenRound(t) \/ RoundStart(t) \/ EndAbort(t) \/ EndRoundEnd(t)
      BY <2>3 DEF OpenRound, RoundStart, EndAbort, EndRoundEnd
    <2> QED
      BY <2>1, <2>2, <2>3 DEF Claiming
  <1>2. task[t].pc # "idle"
    BY DEF At, Claiming, ClaimJudging, TimeToJudge, PickClaim, PickRecord, PickScore,
       PickReread, PickEnd, LastRoundEnd, Abort, RoundEnd, OpenRound, RoundStart, EndAbort, EndRoundEnd
  <1>3. CASE task' = [task EXCEPT ![t] = Idle]
    BY <1>2, <1>3 DEF Moved, Idle
  <1>4. ASSUME NEW pc \in Pcs, task' = [task EXCEPT ![t].pc = pc]
        PROVE  /\ Moved(t)
               /\ task'[t].round = task[t].round /\ task'[t].player = task[t].player
               /\ task'[t].kind = task[t].kind /\ task'[t].judge = task[t].judge
               /\ task'[t].seen = task[t].seen
    BY <1>4 DEF Moved, TaskState
  <1> QED
    BY <1>1, <1>2, <1>3, <1>4
-----------------------------------------------------------------------------
\* Each event of a Round goes out at most once.

\* A Round's claims are not taken back, nor is a recorded winner.
LEMMA Phases ==
  ASSUME IInv, [Next]_vars, NEW n \in RoundNumbers
  PROVE  /\ \A e \in RoundEvents : Reached(e, n) => Reached(e, n)'
         /\ rounds[n].winner # NoPlayer => rounds'[n].winner = rounds[n].winner
  <1>1. Ledger!Next \/ UNCHANGED ledger
    BY StepRefines DEF Ledger!ledgerVars, ledger
  <1>2. rounds \in [RoundNumbers -> RoundRow]
    BY DEF IInv, RowsTyped
  <1>3. rounds[n].status = "NONE" => rounds[n].winner = NoPlayer
    BY DEF IInv, RowsGood
  <1> USE DEF Reached, Ended, RoundRow, RoundEvents
  <1>4. CASE UNCHANGED ledger
    BY <1>4 DEF ledger
  <1>5. ASSUME NEW m \in RoundNumbers,
               Ledger!OpenJudging(m) \/ Ledger!Decide(m) \/ Ledger!Void(m)
        PROVE  /\ \A e \in RoundEvents : Reached(e, n) => Reached(e, n)'
               /\ rounds'[n].winner = rounds[n].winner
    BY <1>2, <1>5 DEF Ledger!OpenJudging, Ledger!Decide, Ledger!Void
  <1>6. ASSUME NEW m \in RoundNumbers, NEW p \in Players,
               Ledger!Open(m, p) \/ Ledger!Answer(m, p) \/ Ledger!Record(m, p)
        PROVE  /\ \A e \in RoundEvents : Reached(e, n) => Reached(e, n)'
               /\ rounds[n].winner # NoPlayer => rounds'[n].winner = rounds[n].winner
    <2>1. CASE Ledger!Open(m, p)
      BY <1>2, <1>3, <2>1 DEF Ledger!Open
    <2>2. CASE Ledger!Answer(m, p)
      BY <1>2, <2>2 DEF Ledger!Answer
    <2>3. CASE Ledger!Record(m, p)
      BY <1>2, <2>3 DEF Ledger!Record
    <2> QED
      BY <1>6, <2>1, <2>2, <2>3
  <1> QED
    BY <1>1, <1>4, <1>5, <1>6 DEF Ledger!Next, Ledger!Numbers, RoundNumbers

\* What a step does to an event: its handler is not about to publish it, still
\* is, has just won the claim, or has just published it.
EventMove(e, t) ==
  \/ task'[t].pc \notin Holders(e) /\ announced'[e] = announced[e]
  \/ /\ task[t].pc \in Holders(e) /\ task'[t].pc \in Holders(e)
     /\ task'[t].round = task[t].round /\ announced'[e] = announced[e]
  \/ \E n \in RoundNumbers :
       /\ ~Reached(e, n) /\ Reached(e, n)'
       /\ task'[t].round = n /\ announced'[e] = announced[e]
  \/ /\ task[t].pc \in Holders(e) /\ task'[t].pc \notin Holders(e)
     /\ \E n \in RoundNumbers :
          /\ task[t].round = n
          /\ announced'[e] = [announced[e] EXCEPT ![n] = @ + 1]

LEMMA EventKeeps ==
  ASSUME NEW e \in RoundEvents, EventGood(e), NEW t \in Slots, Moved(t), EventMove(e, t),
         announced[e] \in [RoundNumbers -> Nat],
         \A u \in Slots : task[u].pc \in Holders(e) => task[u].round \in RoundNumbers,
         \A n \in RoundNumbers : Reached(e, n) => Reached(e, n)'
  PROVE  EventGood(e)'
  <1>1. ASSUME NEW n \in RoundNumbers
        PROVE  announced'[e][n] \in {0, 1} /\ (announced'[e][n] # 0 => Reached(e, n)')
    <2>1. CASE announced'[e] = announced[e]
      BY <2>1 DEF EventGood
    <2>2. ASSUME NEW m \in RoundNumbers, task[t].pc \in Holders(e), task[t].round = m,
                 announced'[e] = [announced[e] EXCEPT ![m] = @ + 1]
          PROVE  announced'[e][n] \in {0, 1} /\ (announced'[e][n] # 0 => Reached(e, n)')
      <3>1. announced[e][m] = 0 /\ Reached(e, m)
        BY <2>2 DEF EventGood
      <3>2. announced'[e][n] = IF n = m THEN announced[e][m] + 1 ELSE announced[e][n]
        BY <2>2
      <3> QED
        BY <3>1, <3>2 DEF EventGood
    <2> QED
      BY <2>1, <2>2 DEF EventMove
  <1>2. ASSUME NEW u \in Slots, NEW n \in RoundNumbers,
               task'[u].pc \in Holders(e), task'[u].round = n
        PROVE  announced'[e][n] = 0 /\ Reached(e, n)'
    <2>1. CASE u = t
      BY <1>2, <2>1 DEF EventGood, EventMove
    <2>2. CASE u # t
      <3>1. task'[u] = task[u]
        BY <2>2 DEF Moved
      <3>2. announced[e][n] = 0 /\ Reached(e, n)
        BY <1>2, <3>1 DEF EventGood
      <3>3. ASSUME NEW m \in RoundNumbers, task[t].pc \in Holders(e), task[t].round = m,
                   announced'[e] = [announced[e] EXCEPT ![m] = @ + 1]
            PROVE  announced'[e][n] = announced[e][n]
        <4>1. m # n
          BY <1>2, <2>2, <3>1, <3>3 DEF EventGood
        <4> QED
          BY <3>3, <4>1
      <3>4. announced'[e][n] = announced[e][n]
        BY <3>3 DEF EventMove
      <3> QED
        BY <3>2, <3>4
    <2> QED
      BY <2>1, <2>2
  <1>3. ASSUME NEW u \in Slots, task'[u].pc \in Holders(e)
        PROVE  task'[u].round \in RoundNumbers
    BY <1>3 DEF EventMove, Moved
  <1>4. ASSUME NEW u \in Slots, NEW v \in Slots,
               task'[u].pc \in Holders(e), task'[v].pc \in Holders(e),
               task'[u].round = task'[v].round
        PROVE  u = v
    BY <1>4 DEF EventGood, EventMove, Moved
  <1>5. ASSUME NEW u \in Slots, task'[u].pc \in Holders(e)
        PROVE  announced'[e][task'[u].round] = 0 /\ Reached(e, task[u].round)'
    BY <1>2, <1>3, <1>5 DEF Reached
  <1> QED
    BY <1>1, <1>4, <1>5 DEF EventGood
\* The events' own steps: the claims, and what follows them up to the publish.
LEMMA ClaimingEvents ==
  ASSUME IInv, NEW t \in Slots, Claiming(t), NEW e \in RoundEvents
  PROVE  EventMove(e, t)
  <1> DEFINE n == task[t].round
  <1>1. n \in RoundNumbers
    <2>1. task[t].pc \notin Roundless
      BY DEF Roundless, At, Claiming, ClaimJudging, TimeToJudge, PickClaim, PickRecord, PickScore,
         PickReread, PickEnd, LastRoundEnd, Abort, RoundEnd, OpenRound, RoundStart, EndAbort, EndRoundEnd
    <2> QED
      BY <2>1, TaskFacts DEF TaskGood
  <1>2. /\ task \in [Slots -> TaskState] /\ rounds \in [RoundNumbers -> RoundRow]
        /\ announced \in [RoundEvents -> [RoundNumbers -> Nat]]
    BY DEF IInv, InFlight, RowsTyped
  <1>3. \A pc \in Pcs : Go(t, pc) => task'[t].pc = pc /\ task'[t].round = n
    BY <1>2 DEF Go, TaskState
  <1>4. Stop(t) => task'[t].pc = "idle"
    BY <1>2 DEF Stop, Become, Idle
  <1>5. e \in {"time-to-judge", "round-start", "round-end"}
    BY DEF RoundEvents
  <1> USE DEF EventMove, Holders, Reached, Ended, Ongoing, At, N, RoundRow, Pcs
  <1>6. CASE ClaimJudging(t)
    BY <1>1, <1>2, <1>3, <1>4, <1>5, <1>6 DEF ClaimJudging, observed
  <1>7. CASE PickClaim(t)
    BY <1>1, <1>2, <1>3, <1>4, <1>5, <1>7 DEF PickClaim, observed
  <1>8. CASE Abort(t)
    BY <1>1, <1>2, <1>3, <1>4, <1>5, <1>8 DEF Abort, observed
  <1>9. CASE OpenRound(t)
    <2>1. CASE Stop(t)
      BY <1>4, <1>9, <2>1 DEF OpenRound, observed
    <2>2. CASE Go(t, "roundStart") /\ ~Stop(t)
      <3>1. task'[t].pc = "roundStart" /\ task'[t].round = n
        BY <1>3, <2>2
      <3>2. /\ rounds[n].status = "NONE" /\ rounds'[n].status = "PLAYING"
            /\ UNCHANGED announced
        BY <1>1, <1>2, <1>9, <2>2 DEF OpenRound, observed
      <3> QED
        BY <1>1, <1>5, <3>1, <3>2
    <2> QED
      BY <1>9, <2>1, <2>2 DEF OpenRound
  <1>10. CASE EndAbort(t)
    BY <1>1, <1>2, <1>3, <1>4, <1>5, <1>10 DEF EndAbort, observed, AfterEndActiveRound
  <1>11. CASE TimeToJudge(t)
    BY <1>1, <1>2, <1>3, <1>4, <1>5, <1>11 DEF TimeToJudge, Announce
  <1>12. CASE RoundStart(t)
    BY <1>1, <1>2, <1>3, <1>4, <1>5, <1>12 DEF RoundStart, Announce
  <1>13. CASE RoundEnd(t)
    BY <1>1, <1>2, <1>3, <1>4, <1>5, <1>13 DEF RoundEnd, Announce
  <1>14. CASE LastRoundEnd(t)
    BY <1>1, <1>2, <1>3, <1>4, <1>5, <1>14 DEF LastRoundEnd, Announce
  <1>15. CASE EndRoundEnd(t)
    BY <1>1, <1>2, <1>3, <1>4, <1>5, <1>15 DEF EndRoundEnd, Announce, AfterEndActiveRound
  <1>16. CASE PickRecord(t)
    BY <1>1, <1>2, <1>3, <1>4, <1>5, <1>16 DEF PickRecord, observed, ledger
  <1>17. CASE PickScore(t)
    BY <1>1, <1>2, <1>3, <1>4, <1>5, <1>17 DEF PickScore, observed, ledger
  <1>18. CASE PickReread(t)
    BY <1>1, <1>2, <1>3, <1>4, <1>5, <1>18 DEF PickReread, observed
  <1>19. CASE PickEnd(t)
    BY <1>1, <1>2, <1>3, <1>4, <1>5, <1>19 DEF PickEnd, observed
  <1> QED
    BY <1>6, <1>7, <1>8, <1>9, <1>10, <1>11, <1>12, <1>13, <1>14, <1>15, <1>16, <1>17, <1>18, <1>19 DEF Claiming
LEMMA PlainEvents ==
  ASSUME IInv, NEW t \in Slots, Plain(t), NEW e \in RoundEvents
  PROVE  EventMove(e, t)
  <1>1. Holders(e) \subseteq Claimants
    BY DEF Holders, Claimants, RoundEvents
  <1> QED
    BY <1>1, PlainMoves DEF EventMove

LEMMA PromptKeeps ==
  ASSUME IInv, PromptGood, [Next]_vars PROVE PromptGood'
  <1> /\ task \in [Slots -> TaskState]
      /\ announced \in [RoundEvents -> [RoundNumbers -> Nat]]
      /\ prompt \in [RoundNumbers -> SUBSET Players]
    BY DEF IInv, InFlight, RowsTyped
  <1>1. ASSUME UNCHANGED <<announced, prompt>>, NEW t \in Slots, Moved(t),
               task'[t].pc = "timeToJudge" => task'[t].seen # {}
        PROVE  PromptGood'
    BY <1>1 DEF PromptGood, Moved
  <1>2. ASSUME NEW t \in Slots, Plain(t) PROVE PromptGood'
    BY <1>1, <1>2, PlainMoves DEF Claimants
  <1>3. ASSUME NEW t \in Slots, Claiming(t), ~TimeToJudge(t) PROVE PromptGood'
    <2>1. Moved(t)
      BY <1>3, ClaimMoves
    <2>2. CASE ClaimJudging(t)
      <3>1. task[t].seen # {}
        BY <2>2, TaskFacts DEF ClaimJudging, At, TaskGood
      <3>2. task'[t].pc = "idle" \/ task'[t].seen = task[t].seen
        BY <1>3, ClaimMoves
      <3>3. UNCHANGED <<announced, prompt>>
        BY <2>2 DEF ClaimJudging, observed
      <3> QED
        BY <1>1, <2>1, <3>1, <3>2, <3>3
    <2>3. CASE ~ClaimJudging(t)
      <3>1. task'[t].pc # "timeToJudge"
        BY <1>3, <2>3 DEF Claiming, PickClaim, PickRecord, PickScore, PickReread, PickEnd, LastRoundEnd,
           Abort, RoundEnd, OpenRound, RoundStart, EndAbort, EndRoundEnd, AfterEndActiveRound,
           Go, Stop, Become, Idle, TaskState
      <3>2. UNCHANGED <<announced, prompt>> \/ (UNCHANGED prompt /\ \E e \in {"round-start", "round-end"} : Announce(e, N(t)))
        BY <1>3, <2>3 DEF Claiming, PickClaim, PickRecord, PickScore, PickReread, PickEnd, LastRoundEnd,
           Abort, RoundEnd, OpenRound, RoundStart, EndAbort, EndRoundEnd, observed
      <3>3. UNCHANGED prompt /\ announced'["time-to-judge"] = announced["time-to-judge"]
        BY <3>2 DEF Announce, RoundEvents
      <3> QED
        BY <2>1, <3>1, <3>3 DEF PromptGood, Moved
    <2> QED
      BY <2>2, <2>3
  <1>4. ASSUME NEW t \in Slots, TimeToJudge(t) PROVE PromptGood'
    <2> DEFINE n == task[t].round
    <2>1. n \in RoundNumbers /\ task[t].seen # {}
      BY <1>4, TaskFacts DEF TimeToJudge, At, TaskGood, Roundless, PromptGood
    <2>2. \A m \in RoundNumbers \ {n} : /\ announced'["time-to-judge"][m] = announced["time-to-judge"][m]
                                        /\ prompt'[m] = prompt[m]
      BY <1>4, <2>1 DEF TimeToJudge, Announce, N, RoundEvents
    <2>3. prompt'[n] = task[t].seen
      BY <1>4, <2>1 DEF TimeToJudge, N
    <2>4. \A u \in Slots : task'[u].pc = "timeToJudge" => task'[u] = task[u]
      BY <1>4 DEF TimeToJudge, Stop, Become, Idle
    <2> QED
      BY <2>1, <2>2, <2>3, <2>4 DEF PromptGood
  <1>5. ASSUME NEW p \in Players, Return(p) \/ Join(p) PROVE PromptGood'
    BY <1>5 DEF Return, Join, observed, PromptGood
  <1>6. CASE UNCHANGED vars
    BY <1>6 DEF vars, observed, PromptGood
  <1> QED
    BY <1>2, <1>3, <1>4, <1>5, <1>6, Handlers

LEMMA EventsKeep ==
  ASSUME IInv, EventsInv, [Next]_vars PROVE EventsInv'
  <1>1. PromptGood'
    BY PromptKeeps DEF EventsInv
  <1>2. ASSUME NEW e \in RoundEvents PROVE EventGood(e)'
    <2>1. announced[e] \in [RoundNumbers -> Nat]
      BY DEF IInv, RowsTyped
    <2>2. ASSUME NEW u \in Slots, task[u].pc \in Holders(e) PROVE task[u].round \in RoundNumbers
      BY <2>2, TaskFacts DEF TaskGood, Holders, Roundless
    <2>3. \A n \in RoundNumbers : Reached(e, n) => Reached(e, n)'
      BY Phases
    <2>4. EventGood(e)
      BY DEF EventsInv
    <2>5. ASSUME NEW t \in Slots, Plain(t) \/ Claiming(t) PROVE EventGood(e)'
      <3>1. Moved(t) /\ EventMove(e, t)
        BY <2>5, PlainMoves, PlainEvents, ClaimMoves, ClaimingEvents
      <3> QED
        BY <2>1, <2>2, <2>3, <2>4, <3>1, EventKeeps
    <2>6. ASSUME UNCHANGED <<rounds, task, announced>> PROVE EventGood(e)'
      BY <2>4, <2>6 DEF EventGood, Reached
    <2>7. ASSUME NEW p \in Players, Return(p) \/ Join(p) PROVE UNCHANGED <<rounds, task, announced>>
      BY <2>7 DEF Return, Join, ledger, observed
    <2>8. CASE UNCHANGED vars
      BY <2>6, <2>8 DEF vars, ledger, observed
    <2> QED
      BY <2>5, <2>6, <2>7, <2>8, Handlers
  <1> QED
    BY <1>1, <1>2 DEF EventsInv

LEMMA EventsInit == Init => EventsInv
  BY DEF Init, EventsInv, PromptGood, EventGood, Holders, Reached, Idle, RoundEvents

LEMMA EventsInvariance == Spec => []EventsInv
  BY Invariance, EventsInit, EventsKeep, PTL DEF Spec

\* "A replayed timer event won't double-emit time-to-judge or double-rotate":
\* whatever picks, aborts, deadlines, sweeps and /end race for a Round, only the
\* one whose conditional UPDATE matched publishes, and it publishes once; judging
\* is announced with answers in it, and no Round starts before the others ended.
THEOREM AnnouncedOnceHolds == Spec => []AnnouncedOnce
  <1>1. IInv /\ EventsInv => AnnouncedOnce
    <2> SUFFICES ASSUME IInv, EventsInv, NEW n \in RoundNumbers
        PROVE  /\ \A e \in RoundEvents : announced[e][n] <= 1
               /\ announced["time-to-judge"][n] = 1 => prompt[n] # {}
               /\ announced["round-end"][n] = 1 => rounds[n].status \in Ended
               /\ announced["round-start"][n] = 1 =>
                    \A m \in 1..(n - 1) : rounds[m].status \in Ended
      BY DEF AnnouncedOnce
    <2>1. \A e \in RoundEvents : /\ announced[e][n] \in {0, 1}
                                 /\ announced[e][n] # 0 => Reached(e, n)
      BY DEF EventsInv, EventGood
    <2>2. announced["time-to-judge"][n] = 1 => prompt[n] # {}
      BY DEF EventsInv, PromptGood
    <2>3. announced["round-end"][n] = 1 => rounds[n].status \in Ended
      BY <2>1 DEF RoundEvents, Reached
    <2>4. announced["round-start"][n] = 1 => rounds[n].status # "NONE"
      BY <2>1 DEF RoundEvents, Reached
    <2>5. rounds[n].status # "NONE" => \A m \in 1..(n - 1) : rounds[m].status \in Ended
      BY RoundNumberFacts DEF IInv, RowsGood, OneRoundInPlay, RoundNumbers
    <2> QED
      BY <2>1, <2>2, <2>3, <2>4, <2>5
  <1> QED
    BY <1>1, Invariance, EventsInvariance, PTL
-----------------------------------------------------------------------------
\* Points are backed by wins.

\* The Rounds whose point p has been given.
Paid(p) == Wins(p) \ Unscored(p)

LEMMA PaidFinite ==
  ASSUME NEW p
  PROVE  IsFiniteSet(Paid(p)) /\ Cardinality(Paid(p)) \in Nat
  <1>1. IsFiniteSet(RoundNumbers)
    BY RoundNumberFacts, FS_Interval DEF RoundNumbers
  <1>2. Paid(p) \subseteq RoundNumbers
    BY DEF Paid, Wins
  <1> QED
    BY <1>1, <1>2, FS_Subset, FS_CardinalityType

\* A step that gives no point keeps the points backed, as long as what was paid
\* stays paid.
LEMMA PaidKeeps ==
  ASSUME RowsTyped, RowsTyped', NEW p \in Players,
         score[p] <= Cardinality(Paid(p)), score'[p] <= score[p], Paid(p) \subseteq Paid(p)'
  PROVE  score'[p] <= Cardinality(Paid(p)')
  <1>1. IsFiniteSet(Paid(p)') /\ Cardinality(Paid(p)') \in Nat
    <2>1. IsFiniteSet(RoundNumbers)
      BY RoundNumberFacts, FS_Interval DEF RoundNumbers
    <2>2. Paid(p)' \subseteq RoundNumbers
      BY DEF Paid, Wins
    <2> QED
      BY <2>1, <2>2, FS_Subset, FS_CardinalityType
  <1>2. Cardinality(Paid(p)) \in Nat /\ Cardinality(Paid(p)) <= Cardinality(Paid(p)')
    BY <1>1, PaidFinite, FS_Subset
  <1>3. score[p] \in Nat /\ score'[p] \in Nat
    BY DEF RowsTyped
  <1> QED
    BY <1>1, <1>2, <1>3

\* Only PickScore adds to a score.
LEMMA ScoreMoves ==
  ASSUME IInv, NEW t \in Slots, Plain(t) \/ Claiming(t), ~PickScore(t), NEW p \in Players
  PROVE  score'[p] <= score[p]
  <1>1. score \in [Players -> Nat]
    BY DEF IInv, RowsTyped
  <1>2. ASSUME NEW q \in Players, Leave(t, q) PROVE score'[p] <= score[p]
    BY <1>1, <1>2 DEF Leave
  <1>3. ASSUME UNCHANGED score PROVE score'[p] <= score[p]
    BY <1>1, <1>3
  <1> USE DEF seats
  <1>4. CASE Call(t)
    BY <1>2, <1>3, <1>4 DEF Call, StartCheck, EndRoom, Toggle, PlayCheck, Drop, PickRoom, ExpirePlay, ExpireJudge
  <1>5. CASE Sweep(t) \/ Fail(t)
    BY <1>3, <1>5 DEF Sweep, SweepExpired, SweepStalled, Fail
  <1>6. CASE Claiming(t)
    BY <1>3, <1>6 DEF Claiming, ClaimJudging, TimeToJudge, PickClaim, PickRecord,
       PickReread, PickEnd, LastRoundEnd, Abort, RoundEnd, OpenRound, RoundStart, EndAbort, EndRoundEnd
  <1>7. CASE Plain(t) /\ ~(Call(t) \/ Sweep(t) \/ Fail(t))
    BY <1>3, <1>7 DEF Plain, ToggleRead, ToggleWrite, StartClaim, StartUnready, StartDeal, StartDealt,
       PlayInsert, PlayRefill, PlayReread, HostLoss, NewHost, FindRoom, FindRound, ReadPlayers,
       ReadPlays, PickRound, PickWinner, RotateRead, RotatePick, RotateUnready, RotateRoom, ResumeRead, EndFind, EndGame
  <1> QED
    BY <1>4, <1>5, <1>6, <1>7

\* A recorded winner stays; a handler about to score one keeps its Round.
LEMMA WinnersStay ==
  ASSUME IInv, ScoresInv, [Next]_vars, NEW t \in Slots, Moved(t),
         task'[t].pc # "pickScore"
  PROVE  /\ \A u \in Slots : task'[u].pc = "pickScore" =>
              rounds'[task'[u].round].winner = task'[u].player
         /\ \A p \in Players : Paid(p) \subseteq Paid(p)'
  <1>1. \A n \in RoundNumbers : rounds[n].winner # NoPlayer => rounds'[n].winner = rounds[n].winner
    BY Phases
  <1>2. ASSUME NEW u \in Slots, task'[u].pc = "pickScore"
        PROVE  rounds'[task'[u].round].winner = task'[u].player
    <2>1. task'[u] = task[u]
      BY <1>2 DEF Moved
    <2>2. /\ task[u].round \in RoundNumbers /\ task[u].player \in Players
          /\ rounds[task[u].round].winner = task[u].player
      BY <1>2, <2>1, TaskFacts DEF TaskGood, Roundless, ScoresInv
    <2> QED
      BY <1>1, <2>1, <2>2, ParametersAssumption
  <1>3. ASSUME NEW p \in Players PROVE Paid(p) \subseteq Paid(p)'
    <2>1. Wins(p) \subseteq Wins(p)'
      BY <1>1, ParametersAssumption DEF Wins
    <2>2. Unscored(p)' \subseteq Unscored(p)
      BY DEF Unscored, Moved
    <2> QED
      BY <2>1, <2>2 DEF Paid
  <1> QED
    BY <1>2, <1>3

LEMMA RecordScores ==
  ASSUME IInv, IInv', ScoresInv, [Next]_vars, NEW t \in Slots, PickRecord(t)
  PROVE  ScoresInv'
  <1> DEFINE n == task[t].round  w == task[t].player
  <1>1. /\ n \in RoundNumbers /\ w \in Players /\ rounds[n].winner = NoPlayer
        /\ task \in [Slots -> TaskState] /\ rounds \in [RoundNumbers -> RoundRow]
    BY TaskFacts DEF PickRecord, At, TaskGood, Roundless, IInv, InFlight, RowsTyped
  <1>2. /\ rounds'[n].winner = w
        /\ \A m \in RoundNumbers \ {n} : rounds'[m].winner = rounds[m].winner
    BY <1>1 DEF PickRecord, N, RoundRow
  <1>3. /\ task'[t].pc = "pickScore" /\ task'[t].round = n /\ task'[t].player = w
        /\ \A u \in Slots \ {t} : task'[u] = task[u]
    BY <1>1 DEF PickRecord, Go, TaskState
  <1>4. ASSUME NEW u \in Slots, task'[u].pc = "pickScore"
        PROVE  rounds'[task'[u].round].winner = task'[u].player
    <2>1. CASE u = t
      BY <1>2, <1>3, <2>1
    <2>2. CASE u # t
      <3>1. /\ task'[u] = task[u] /\ task[u].round \in RoundNumbers /\ task[u].player \in Players
            /\ rounds[task[u].round].winner = task[u].player
        BY <1>3, <1>4, <2>2, TaskFacts DEF TaskGood, Roundless, ScoresInv
      <3>2. task[u].round # n
        BY <1>1, <3>1, ParametersAssumption
      <3> QED
        BY <1>2, <3>1, <3>2
    <2> QED
      BY <2>1, <2>2
  <1>5. ASSUME NEW p \in Players PROVE score'[p] <= Cardinality(Paid(p)')
    <2>1. Paid(p) \subseteq Paid(p)'
      <3>1. n \notin Wins(p)
        BY <1>1, ParametersAssumption DEF Wins
      <3>2. Wins(p) \subseteq Wins(p)'
        BY <1>2, <3>1 DEF Wins
      <3>3. Unscored(p)' \subseteq Unscored(p) \cup {n}
        BY <1>3 DEF Unscored
      <3> QED
        BY <3>1, <3>2, <3>3 DEF Paid
    <2>2. UNCHANGED score
      BY DEF PickRecord, seats
    <2>3. score[p] \in Nat /\ score[p] <= Cardinality(Paid(p))
      BY DEF IInv, RowsTyped, ScoresInv, Paid
    <2> QED
      BY <2>1, <2>2, <2>3, PaidKeeps DEF IInv
  <1> QED
    BY <1>4, <1>5 DEF ScoresInv, Paid

\* The claim's only winner gives the only point of its Round.
LEMMA ScoreScores ==
  ASSUME IInv, IInv', ScoresInv, EventsInv, [Next]_vars, NEW t \in Slots, PickScore(t)
  PROVE  ScoresInv'
  <1>0. PICK n \in RoundNumbers, w \in Players : n = task[t].round /\ w = task[t].player
    BY TaskFacts DEF PickScore, At, TaskGood, Roundless
  <1>1. /\ rounds[n].winner = w
        /\ task \in [Slots -> TaskState] /\ score \in [Players -> Nat] /\ task[t].pc = "pickScore"
    BY <1>0 DEF PickScore, At, IInv, InFlight, RowsTyped, ScoresInv
  <1>2. Moved(t) /\ task'[t].pc = "pickReread"
    BY <1>1 DEF PickScore, Go, Moved, TaskState
  <1>3. /\ \A u \in Slots : task'[u].pc = "pickScore" =>
             rounds'[task'[u].round].winner = task'[u].player
        /\ \A p \in Players : Paid(p) \subseteq Paid(p)'
    BY <1>2, WinnersStay
  <1>4. ASSUME NEW p \in Players, score'[p] <= score[p] PROVE score'[p] <= Cardinality(Paid(p)')
    BY <1>3, <1>4, PaidKeeps DEF IInv, ScoresInv, Paid
  <1>5. \A p \in Players \ {w} : score'[p] <= score[p]
    BY <1>0, <1>1 DEF PickScore
  <1>6. score'[w] <= Cardinality(Paid(w)')
    <2>1. n \in Unscored(w) /\ n \notin Paid(w)
      BY <1>0, <1>1 DEF Unscored, Paid
    <2>2. ASSUME NEW u \in Slots, task'[u].pc = "pickScore" PROVE task'[u].round # n
      <3>1. u # t /\ task'[u] = task[u]
        BY <1>2, <2>2 DEF Moved
      <3>2. EventGood("round-end")
        BY DEF EventsInv, RoundEvents
      <3> QED
        BY <1>0, <1>1, <2>2, <3>1, <3>2 DEF EventGood, Holders
    <2>3. n \notin Unscored(w)'
      BY <2>2 DEF Unscored
    <2>4. n \in Wins(w)'
      BY <1>1, Phases, ParametersAssumption DEF Wins
    <2>5. Paid(w) \cup {n} \subseteq Paid(w)'
      BY <1>3, <2>3, <2>4 DEF Paid
    <2>6. Cardinality(Paid(w) \cup {n}) = Cardinality(Paid(w)) + 1 /\ Cardinality(Paid(w)) \in Nat
      BY <2>1, PaidFinite, FS_AddElement
    <2>7. IsFiniteSet(Paid(w)') /\ Cardinality(Paid(w)') \in Nat
      <3>1. IsFiniteSet(RoundNumbers)
        BY RoundNumberFacts, FS_Interval DEF RoundNumbers
      <3>2. Paid(w)' \subseteq RoundNumbers
        BY DEF Paid, Wins
      <3> QED
        BY <3>1, <3>2, FS_Subset, FS_CardinalityType
    <2>8. Cardinality(Paid(w)) + 1 <= Cardinality(Paid(w)')
      BY <2>5, <2>6, <2>7, FS_Subset
    <2>9. score'[w] <= score[w] + 1 /\ score[w] <= Cardinality(Paid(w)) /\ score[w] \in Nat /\ score'[w] \in Nat
      <3>1. score'[w] \in {score[w], score[w] + 1} /\ score[w] \in Nat
        BY <1>0, <1>1 DEF PickScore
      <3> QED
        BY <1>1, <3>1 DEF ScoresInv, Paid
    <2> QED
      BY <2>6, <2>7, <2>8, <2>9
  <1> QED
    BY <1>3, <1>4, <1>5, <1>6 DEF ScoresInv, Paid

LEMMA ScoresKeep ==
  ASSUME IInv, IInv', ScoresInv, EventsInv, [Next]_vars PROVE ScoresInv'
  <1>1. ASSUME NEW t \in Slots, Plain(t) \/ Claiming(t), ~PickRecord(t), ~PickScore(t)
        PROVE  ScoresInv'
    <2>1. Moved(t)
      BY <1>1, PlainMoves, ClaimMoves
    <2>2. task'[t].pc # "pickScore"
      <3>1. CASE Plain(t)
        BY <3>1, PlainMoves DEF Claimants
      <3>2. CASE Claiming(t)
        BY <1>1, <3>2, TaskFacts DEF Claiming, ClaimJudging, TimeToJudge, PickClaim, PickReread, PickEnd,
           LastRoundEnd, Abort, RoundEnd, OpenRound, RoundStart, EndAbort, EndRoundEnd,
           AfterEndActiveRound, Go, Stop, Become, Idle, TaskState, IInv, InFlight
      <3> QED
        BY <1>1, <3>1, <3>2
    <2>3. \A p \in Players : score'[p] <= score[p]
      BY <1>1, ScoreMoves
    <2>4. ASSUME NEW p \in Players PROVE score'[p] <= Cardinality(Paid(p)')
      BY <2>1, <2>2, <2>3, PaidKeeps, WinnersStay DEF IInv, ScoresInv, Paid
    <2> QED
      BY <2>1, <2>2, <2>4, WinnersStay DEF ScoresInv, Paid
  <1>2. ASSUME UNCHANGED <<rounds, task, score>> PROVE ScoresInv'
    BY <1>2 DEF ScoresInv, Wins, Unscored
  <1>3. ASSUME NEW p \in Players, Return(p) \/ Join(p) PROVE ScoresInv'
    BY <1>2, <1>3 DEF Return, Join, ledger
  <1>4. CASE UNCHANGED vars
    BY <1>2, <1>4 DEF vars, ledger, seats
  <1> QED
    BY <1>1, <1>3, <1>4, RecordScores, ScoreScores, Handlers

LEMMA ScoresInit == Init => ScoresInv
  <1> SUFFICES ASSUME Init PROVE ScoresInv
    OBVIOUS
  <1>1. \A t \in Slots : task[t].pc = "idle"
    BY DEF Init, Idle
  <1>2. \A p \in Players : score[p] = 0
    BY DEF Init
  <1>3. \A p \in Players : Cardinality(Wins(p) \ Unscored(p)) \in Nat
    BY PaidFinite DEF Paid
  <1> QED
    BY <1>1, <1>2, <1>3 DEF ScoresInv

LEMMA ScoresInvariance == Spec => []ScoresInv
  BY Invariance, EventsInvariance, ScoresInit, ScoresKeep, PTL DEF Spec

\* claimJudgedRound guards "a double-click scoring twice": every point a Player
\* has is the point of a Round of its own that names that Player as winner,
\* whatever picks race, wherever a pick dies between claim, record and score,
\* and whoever leaves and comes back.
THEOREM ScoresBackedByWinsHolds == Spec => []ScoresBackedByWins
  <1>1. IInv /\ ScoresInv => ScoresBackedByWins
    <2> SUFFICES ASSUME IInv, ScoresInv, NEW p \in Players
        PROVE  score[p] <= Cardinality(Wins(p))
      BY DEF ScoresBackedByWins, Wins
    <2>1. IsFiniteSet(Wins(p))
      <3>1. IsFiniteSet(RoundNumbers) /\ Wins(p) \subseteq RoundNumbers
        BY RoundNumberFacts, FS_Interval DEF RoundNumbers, Wins
      <3> QED
        BY <3>1, FS_Subset
    <2>2. Cardinality(Paid(p)) <= Cardinality(Wins(p)) /\ Cardinality(Wins(p)) \in Nat
      BY <2>1, FS_Subset, FS_CardinalityType DEF Paid
    <2>3. score[p] \in Nat /\ score[p] <= Cardinality(Paid(p)) /\ Cardinality(Paid(p)) \in Nat
      BY PaidFinite DEF IInv, RowsTyped, ScoresInv, Paid
    <2> QED
      BY <2>2, <2>3
  <1> QED
    BY <1>1, Invariance, ScoresInvariance, PTL
-----------------------------------------------------------------------------
\* Who has won is being announced, or the game is over.

LEMMA FinishedStays ==
  ASSUME IInv, [Next]_vars, room.status = "FINISHED"
  PROVE  room'.status = "FINISHED"
  <1>1. room \in [status : {"LOBBY", "IN_PROGRESS", "FINISHED"}, round : 0..MaxRound, judge : PlayerOrNull]
    BY DEF IInv, RowsTyped
  <1>2. ASSUME NEW t \in Slots, Call(t) \/ Sweep(t) \/ Fail(t) PROVE UNCHANGED room
    BY <1>2, CallMoves
  <1>3. ASSUME NEW t \in Slots, Claiming(t) PROVE room'.status = "FINISHED"
    BY <1>1, <1>3 DEF Claiming, ClaimJudging, TimeToJudge, PickClaim, PickRecord, PickScore,
       PickReread, PickEnd, LastRoundEnd, Abort, RoundEnd, OpenRound, RoundStart, EndAbort, EndRoundEnd
  <1>4. ASSUME NEW t \in Slots, Plain(t), ~(Call(t) \/ Sweep(t) \/ Fail(t))
        PROVE  room'.status = "FINISHED"
    BY <1>1, <1>4 DEF Plain, ToggleRead, ToggleWrite, StartClaim, StartUnready, StartDeal, StartDealt,
       PlayInsert, PlayRefill, PlayReread, HostLoss, NewHost, FindRoom, FindRound, ReadPlayers,
       ReadPlays, PickRound, PickWinner, RotateRead, RotatePick, RotateUnready, RotateRoom, ResumeRead, EndFind, EndGame
  <1>5. ASSUME NEW p \in Players, Return(p) \/ Join(p) PROVE UNCHANGED room
    BY <1>5 DEF Return, Join
  <1>6. CASE UNCHANGED vars
    BY <1>6 DEF vars
  <1> QED
    BY <1>2, <1>3, <1>4, <1>5, <1>6, Handlers

\* A step of a handler that is not finding a winner seats nobody.
LEMMA SeatsShrink ==
  ASSUME NEW t \in Slots, (Plain(t) /\ ~Fail(t)) \/ Claiming(t)
  PROVE  seated' \subseteq seated /\ faults' = faults
  <1> USE DEF seats
  <1>1. CASE Call(t)
    <2>1. CASE StartCheck(t) \/ EndRoom(t)
      BY <2>1 DEF StartCheck, EndRoom
    <2>2. CASE \E p \in Players : Toggle(t, p) \/ PlayCheck(t, p) \/ Leave(t, p) \/ Drop(t, p)
      BY <2>2 DEF Toggle, PlayCheck, Leave, Drop
    <2>3. CASE \E j, w \in Players : PickRoom(t, j, w)
      BY <2>3 DEF PickRoom
    <2>4. CASE \E n \in RoundNumbers : ExpirePlay(t, n) \/ ExpireJudge(t, n)
      BY <2>4 DEF ExpirePlay, ExpireJudge
    <2> QED
      BY <1>1, <2>1, <2>2, <2>3, <2>4 DEF Call
  <1>2. CASE Sweep(t)
    BY <1>2 DEF Sweep, SweepExpired, SweepStalled
  <1>3. CASE Claiming(t)
    BY <1>3 DEF Claiming, ClaimJudging, TimeToJudge, PickClaim, PickRecord, PickScore,
       PickReread, PickEnd, LastRoundEnd, Abort, RoundEnd, OpenRound, RoundStart, EndAbort, EndRoundEnd
  <1>4. CASE Plain(t) /\ ~(Call(t) \/ Sweep(t) \/ Fail(t))
    BY <1>4 DEF Plain, ToggleRead, ToggleWrite, StartClaim, StartUnready, StartDeal, StartDealt,
       PlayInsert, PlayRefill, PlayReread, HostLoss, NewHost, FindRoom, FindRound, ReadPlayers,
       ReadPlays, PickRound, PickWinner, RotateRead, RotatePick, RotateUnready, RotateRoom, ResumeRead, EndFind, EndGame
  <1> QED
    BY <1>1, <1>2, <1>3, <1>4

LEMMA PlainFrom ==
  ASSUME NEW t \in Slots, Plain(t), ~Fail(t)
  PROVE  task[t].pc \notin Claimants
  <1>1. CASE Call(t) \/ Sweep(t)
    <2>1. Call(t) => task[t] = Idle
      BY DEF Call, StartCheck, EndRoom, Toggle, PlayCheck, Leave, Drop, PickRoom, ExpirePlay, ExpireJudge, Begin
    <2>2. Sweep(t) => task[t] = Idle
      BY DEF Sweep, SweepExpired, SweepStalled, Begin
    <2> QED
      BY <1>1, <2>1, <2>2 DEF Idle, Claimants
  <1>2. CASE ~(Call(t) \/ Sweep(t))
    BY <1>2 DEF Plain, ToggleRead, ToggleWrite, StartClaim, StartUnready, StartDeal, StartDealt,
       PlayInsert, PlayRefill, PlayReread, HostLoss, NewHost, FindRoom, FindRound, ReadPlayers,
       ReadPlays, PickRound, PickWinner, RotateRead, RotatePick, RotateUnready, RotateRoom, ResumeRead, EndFind, EndGame, At, Claimants
  <1> QED
    BY <1>1, <1>2

\* What a handler's step may do to a Player with maxPoints: it has just scored,
\* or nothing changes, unless the step is the handler's that is finding out.
Finding(t, p) == task[t].pc \in {"pickReread", "pickEnd"} /\ task[t].player = p
WinMove(t) ==
  /\ Moved(t) /\ faults' = faults /\ seated' \subseteq seated
  /\ \A p \in seated' :
       \/ task'[t].pc = "pickReread" /\ task'[t].player = p
       \/ /\ score'[p] <= score[p]
          /\ Finding(t, p) => \/ score'[p] < MaxPoints
                              \/ (task'[t].pc = "pickEnd" /\ task'[t].player = p)

LEMMA WinKeeps ==
  ASSUME IInv, IInv', WinInv, [Next]_vars PROVE WinInv'
  <1>1. faults \in Nat /\ score \in [Players -> Nat] /\ task \in [Slots -> TaskState] /\ seated \subseteq Players
    BY ParametersAssumption DEF IInv, RowsTyped, InFlight
  <1>2. ASSUME NEW t \in Slots, WinMove(t) PROVE WinInv'
    <2> SUFFICES ASSUME faults = 0, room'.status # "FINISHED", NEW p \in seated', score'[p] >= MaxPoints
                 PROVE  \E u \in Slots : task'[u].pc \in {"pickReread", "pickEnd"} /\ task'[u].player = p
      BY <1>2 DEF WinInv, WinMove
    <2>1. CASE task'[t].pc = "pickReread" /\ task'[t].player = p
      BY <2>1
    <2>2. CASE score'[p] <= score[p]
      <3>1. score[p] >= MaxPoints /\ room.status # "FINISHED"
        <4>1. score[p] \in Nat /\ score'[p] \in Nat /\ MaxPoints \in Nat
          BY <1>1, <1>2, ParametersAssumption DEF IInv, RowsTyped, WinMove
        <4> QED
          BY <2>2, <4>1, FinishedStays
      <3>2. PICK u \in Slots : Finding(u, p)
        BY <1>2, <3>1 DEF WinInv, WinMove, Finding
      <3>3. CASE u = t
        <4>1. ~(score'[p] < MaxPoints)
          BY <1>1, <1>2, ParametersAssumption DEF IInv, RowsTyped, WinMove
        <4>2. task'[t].pc \in {"pickReread", "pickEnd"} /\ task'[t].player = p
          BY <1>2, <2>2, <3>2, <3>3, <4>1 DEF WinMove, Finding
        <4> QED
          BY <4>2
      <3>4. CASE u # t
        BY <1>2, <3>2, <3>4 DEF Moved, WinMove, Finding
      <3> QED
        BY <3>3, <3>4
    <2> QED
      BY <1>2, <2>1, <2>2 DEF WinMove
  <1>3. ASSUME NEW t \in Slots, Plain(t), ~Fail(t) PROVE WinInv'
    <2>1. Moved(t) /\ faults' = faults /\ seated' \subseteq seated
      BY <1>3, PlainMoves, SeatsShrink
    <2>2. \A p \in seated' : score'[p] <= score[p] /\ ~Finding(t, p)
      BY <1>1, <1>3, <2>1, PlainFrom, ScoreMoves DEF Finding, PickScore, Claimants, At
    <2> QED
      BY <1>2, <2>1, <2>2 DEF WinMove
  <1>4. ASSUME NEW t \in Slots, Claiming(t), task[t].pc \notin {"pickScore", "pickReread", "pickEnd"}
        PROVE  WinInv'
    <2>1. Moved(t) /\ faults' = faults /\ seated' \subseteq seated
      BY <1>4, ClaimMoves, SeatsShrink
    <2>2. \A p \in seated' : score'[p] <= score[p] /\ ~Finding(t, p)
      BY <1>1, <1>4, <2>1, ScoreMoves DEF Finding, PickScore, At
    <2> QED
      BY <1>2, <2>1, <2>2 DEF WinMove
  <1>5. ASSUME NEW t \in Slots, PickScore(t) PROVE WinInv'
    <2>1. Moved(t) /\ faults' = faults /\ seated' = seated
      BY <1>5, ClaimMoves DEF Claiming, PickScore
    <2>2. task'[t].pc = "pickReread" /\ task'[t].player = task[t].player /\ task[t].pc = "pickScore"
      BY <1>1, <1>5 DEF PickScore, Go, TaskState, At
    <2>3. \A p \in seated' : score'[p] <= score[p] \/ task[t].player = p
      BY <1>1, <1>5, <2>1 DEF PickScore
    <2> QED
      BY <1>2, <2>1, <2>2, <2>3 DEF WinMove, Finding
  <1>6. ASSUME NEW t \in Slots, PickReread(t) PROVE WinInv'
    <2>1. Moved(t) /\ faults' = faults /\ seated' = seated /\ score' = score
      BY <1>6, ClaimMoves DEF Claiming, PickReread, seats
    <2>2. \A p \in seated : score[p] <= score[p]
      BY <1>1
    <2>3. ASSUME NEW p \in seated, task[t].player = p
          PROVE  score[p] < MaxPoints \/ (task'[t].pc = "pickEnd" /\ task'[t].player = p)
      BY <1>1, <1>6, <2>3 DEF PickReread, Go, TaskState
    <2> QED
      BY <1>2, <2>1, <2>2, <2>3 DEF WinMove, Finding
  <1>7. ASSUME NEW t \in Slots, PickEnd(t) PROVE WinInv'
    <2>1. room'.status = "FINISHED"
      BY <1>7 DEF PickEnd, IInv, RowsTyped
    <2> QED
      BY <2>1 DEF WinInv
  <1>8. ASSUME NEW t \in Slots, Fail(t) PROVE WinInv'
    BY <1>1, <1>8 DEF Fail, WinInv
  <1>9. ASSUME NEW p \in Players, Return(p) PROVE WinInv'
    BY <1>9 DEF Return, WinInv
  <1>10. ASSUME NEW p \in Players, Join(p) PROVE WinInv'
    <2>1. score[p] = 0 /\ ~(score[p] >= MaxPoints)
      BY <1>10, ParametersAssumption DEF Join, IInv, RowsTyped
    <2> QED
      BY <1>10, <2>1 DEF Join, WinInv
  <1>11. CASE UNCHANGED vars
    BY <1>11 DEF vars, seats, WinInv
  <1>12. ASSUME NEW t \in Slots, Claiming(t), ~PickScore(t), ~PickReread(t), ~PickEnd(t)
         PROVE  task[t].pc \notin {"pickScore", "pickReread", "pickEnd"}
    BY <1>12 DEF Claiming, ClaimJudging, TimeToJudge, PickClaim, PickRecord, LastRoundEnd, Abort,
       RoundEnd, OpenRound, RoundStart, EndAbort, EndRoundEnd, At
  <1> QED
    BY <1>3, <1>4, <1>5, <1>6, <1>7, <1>8, <1>9, <1>10, <1>11, <1>12, Handlers

LEMMA WinInit == Init => WinInv
  BY ParametersAssumption DEF Init, WinInv

LEMMA WinInvariance == Spec => []WinInv
  BY Invariance, WinInit, WinKeeps, PTL DEF Spec

\* maxPoints ends the game: when no handler is in flight and none died, nobody
\* sits in an unfinished Room with that many points.  A point is read back by
\* the handler that gave it, so the one that reaches maxPoints is seen by
\* somebody, or its Player left and took the points away.
THEOREM WinEndsGameHolds == Spec => []WinEndsGame
  <1>1. IInv /\ WinInv => WinEndsGame
    BY DEF IInv, InFlight, WinInv, WinEndsGame, Quiet, Idle
  <1> QED
    BY <1>1, Invariance, WinInvariance, PTL
-----------------------------------------------------------------------------
\* One handler is on its way to open each Round.

\* The handlers that lead to the INSERT of Round k, unless they stop: a start for
\* the first one, a pick, an abort or a resumed rotation for the others.
Starting == {"startUnready", "startDeal", "startDealt", "openRound"}
Rotation == {"pickRecord", "pickScore", "pickReread", "roundEnd", "rotateRead", "rotatePick",
             "rotateUnready", "rotateRoom", "resumeRead"}
Openings == 1..(MaxRound + 1)
Opener(t, k) ==
  \/ task[t].pc \in Starting /\ task[t].round = k
  \/ task[t].pc \in Rotation /\ task[t].round + 1 = k

\* The Room is on the last Round that has a row, or on the next one.
RoomOnTop ==
  /\ room.status = "LOBBY" => room.round = 0
  /\ \A m \in RoundNumbers :
       /\ m > room.round => rounds[m].status = "NONE"
       /\ m < room.round => rounds[m].status \in Ended
       /\ m = room.round /\ rounds[m].status # "NONE" => room.judge = rounds[m].judge

\* What a handler on its way may rely on.
OpenerGood(t) ==
  /\ task[t].pc \in Starting \cup Rotation => room.round # 0
  /\ task[t].kind = "resume" => t \in Sweepers
  /\ task[t].pc = "resumeRead" => task[t].kind = "resume"
  /\ task[t].pc \in Starting => room.round = task[t].round /\ room.judge = task[t].judge
  /\ task[t].pc \in {"rotatePick", "rotateUnready", "rotateRoom"} => room.round = task[t].round
  /\ \A k \in RoundNumbers : Opener(t, k) => rounds[k].status = "NONE"

AloneGood == \A t, u \in Slots, k \in Openings : Opener(t, k) /\ Opener(u, k) => t = u

JudgeInv == RoomOnTop /\ AloneGood /\ \A t \in Slots : OpenerGood(t)

\* Round k waits for the one before it.
LEMMA OpenerWaits ==
  ASSUME IInv, NEW t \in Slots, NEW n \in RoundNumbers, Opener(t, n + 1)
  PROVE  rounds[n].status \in Ended
  <1>1. n \in Nat /\ n >= 1 /\ n + 1 # 1 /\ task[t].round \in Nat
    BY RoundNumberFacts, TaskFacts DEF RoundNumbers, TaskState
  <1>2. CASE task[t].pc \in Starting
    <2>1. task[t].pc = "openRound" /\ n \in 1..(task[t].round - 1)
      BY <1>1, <1>2, TaskFacts DEF Opener, Starting, Rotation, TaskGood
    <2> QED
      BY <2>1, TaskFacts DEF TaskGood
  <1>3. CASE task[t].pc \in Rotation
    <2>1. task[t].round = n
      BY <1>1, <1>3 DEF Opener, Starting, Rotation
    <2> QED
      BY <1>3, <2>1, TaskFacts DEF TaskGood, Rotation, RotationPcs, Ended
  <1> QED
    BY <1>2, <1>3 DEF Opener

\* What a step that opens no Round and leaves the Room on its own does to its
\* handler: it is not on its way, it still is, or it has just set out, alone.
OpenMove(t) ==
  \/ task'[t].pc \notin Starting \cup Rotation
  \/ /\ task[t].pc \in Starting \cup Rotation
     /\ \A k \in Openings : Opener(t, k)' => Opener(t, k)
  \/ \E n \in RoundNumbers :
       /\ task'[t].pc \in Rotation /\ task'[t].round = n
       /\ rounds[n].status # "NONE"
       /\ n + 1 \in RoundNumbers => rounds[n + 1].status = "NONE"
       /\ \A u \in Slots \ {t} : ~Opener(u, n + 1)

\* What the handler's own reads must make true.
ReadsGood(t) ==
  /\ task[t].kind = "resume" => t \in Sweepers
  /\ task[t].pc = "resumeRead" => task[t].kind = "resume"
  /\ task[t].pc \in Starting => room.round = task[t].round /\ room.judge = task[t].judge
  /\ task[t].pc \in {"rotatePick", "rotateUnready", "rotateRoom"} => room.round = task[t].round

LEMMA OpenersKeep ==
  ASSUME IInv, IInv', JudgeInv, NEW t \in Slots, Moved(t), OpenMove(t), ReadsGood(t)',
         room'.round = room.round, room'.judge = room.judge,
         room'.status = "LOBBY" => room.status = "LOBBY",
         \A n \in RoundNumbers : /\ rounds[n].status = "NONE" => rounds'[n].status = "NONE"
                                 /\ rounds[n].status # "NONE" => rounds'[n].judge = rounds[n].judge
                                 /\ rounds[n].status \in Ended => rounds'[n].status \in Ended
  PROVE  JudgeInv'
  <1>1. RoomOnTop'
    BY DEF JudgeInv, RoomOnTop
  <1>2. room.round \in Nat /\ RoundNumbers \subseteq Openings /\ RoundNumbers \subseteq Nat
        /\ \A n \in RoundNumbers : n + 1 \in Openings
    BY RoundNumberFacts DEF RoundNumbers, Openings, IInv, RowsTyped
  <1>3. ASSUME NEW u \in Slots \ {t}, NEW k PROVE Opener(u, k)' <=> Opener(u, k)
    BY DEF Opener, Moved
  <1>4. ASSUME NEW k \in Openings, Opener(t, k)'
        PROVE  /\ k \in RoundNumbers => rounds[k].status = "NONE"
               /\ \A u \in Slots \ {t} : ~Opener(u, k)
    <2>1. CASE task'[t].pc \notin Starting \cup Rotation
      BY <1>4, <2>1 DEF Opener
    <2>2. CASE task[t].pc \in Starting \cup Rotation /\ \A j \in Openings : Opener(t, j)' => Opener(t, j)
      BY <1>4, <2>2 DEF JudgeInv, OpenerGood, AloneGood
    <2>3. ASSUME NEW n \in RoundNumbers, task'[t].pc \in Rotation, task'[t].round = n,
                 n + 1 \in RoundNumbers => rounds[n + 1].status = "NONE",
                 \A u \in Slots \ {t} : ~Opener(u, n + 1)
          PROVE  /\ k \in RoundNumbers => rounds[k].status = "NONE"
                 /\ \A u \in Slots \ {t} : ~Opener(u, k)
      <3>1. k = n + 1
        BY <1>4, <2>3 DEF Opener, Starting, Rotation
      <3> QED
        BY <2>3, <3>1
    <2> QED
      BY <2>1, <2>2, <2>3 DEF OpenMove
  <1>5. AloneGood'
    BY <1>3, <1>4 DEF AloneGood, JudgeInv
  <1>6. task'[t].pc \in Starting \cup Rotation => room.round # 0
    <2>1. \A n \in RoundNumbers : rounds[n].status # "NONE" => room.round # 0
      BY <1>2 DEF JudgeInv, RoomOnTop, RoundNumbers
    <2> QED
      BY <2>1 DEF OpenMove, JudgeInv, OpenerGood
  <1>7. ASSUME NEW u \in Slots PROVE OpenerGood(u)'
    <2>1. CASE u = t
      BY <1>2, <1>4, <1>6, <2>1 DEF OpenerGood, ReadsGood
    <2>2. CASE u # t
      BY <1>2, <1>3, <2>2 DEF OpenerGood, JudgeInv, Moved
    <2> QED
      BY <2>1, <2>2
  <1> QED
    BY <1>1, <1>5, <1>7 DEF JudgeInv
\* A handler's new place, of the four forms the actions are written in.
LEMMA TaskMoves ==
  ASSUME IInv, NEW t \in Slots
  PROVE  /\ \A r : Become(t, r) => task'[t] = r
         /\ Stop(t) => task'[t].pc = "idle" /\ task'[t].kind = "none"
         /\ \A pc : Go(t, pc) =>
              /\ task'[t].pc = pc /\ task'[t].round = task[t].round
              /\ task'[t].kind = task[t].kind /\ task'[t].judge = task[t].judge
              /\ task'[t].player = task[t].player /\ task'[t].seen = task[t].seen
  <1>1. task \in [Slots -> TaskState]
    BY DEF IInv, InFlight
  <1> QED
    BY <1>1 DEF Become, Stop, Go, Idle, TaskState

LEMMA CallOpens ==
  ASSUME IInv, NEW t \in Slots, Call(t) \/ Fail(t)
  PROVE  OpenMove(t) /\ ReadsGood(t)'
  <1> task \in [Slots -> TaskState]
    BY DEF IInv, InFlight
  <1> USE DEF OpenMove, ReadsGood, Become, Begin, Stop, Idle, Starting, Rotation
  <1>1. CASE StartCheck(t) \/ EndRoom(t)
    BY <1>1 DEF StartCheck, EndRoom
  <1>2. ASSUME NEW p \in Players, PlayCheck(t, p) PROVE OpenMove(t) /\ ReadsGood(t)'
    BY <1>2 DEF PlayCheck
  <1>7. ASSUME NEW p \in Players, Toggle(t, p) PROVE OpenMove(t) /\ ReadsGood(t)'
    BY <1>7 DEF Toggle
  <1>3. ASSUME NEW p \in Players, Leave(t, p) \/ Drop(t, p) PROVE OpenMove(t) /\ ReadsGood(t)'
    <2>1. CASE Leave(t, p)
      BY <2>1 DEF Leave
    <2>2. CASE Drop(t, p)
      BY <2>2 DEF Drop
    <2> QED
      BY <1>3, <2>1, <2>2
  <1>4. ASSUME NEW j \in Players, NEW w \in Players, PickRoom(t, j, w)
        PROVE  OpenMove(t) /\ ReadsGood(t)'
    BY <1>4 DEF PickRoom
  <1>5. ASSUME NEW n \in RoundNumbers, ExpirePlay(t, n) \/ ExpireJudge(t, n)
        PROVE  OpenMove(t) /\ ReadsGood(t)'
    BY <1>5 DEF ExpirePlay, ExpireJudge
  <1>6. CASE Fail(t)
    BY <1>6 DEF Fail
  <1> QED
    BY <1>1, <1>2, <1>3, <1>4, <1>5, <1>6, <1>7 DEF Call

\* One sweep at a time, and only once the handlers that ended the Round are dead.
LEMMA SweepOpens ==
  ASSUME IInv, JudgeInv, ~SlowRotations, \A s, u \in Sweepers : s = u,
         NEW t \in Sweepers, Sweep(t)
  PROVE  OpenMove(t) /\ ReadsGood(t)'
  <1> t \in Slots /\ task \in [Slots -> TaskState]
    BY DEF Slots, IInv, InFlight
  <1>1. ASSUME NEW n \in RoundNumbers, SweepExpired(t, n) PROVE OpenMove(t) /\ ReadsGood(t)'
    BY <1>1 DEF SweepExpired, OpenMove, ReadsGood, Become, Begin, Idle, Starting, Rotation
  <1>2. ASSUME NEW n \in RoundNumbers, SweepStalled(t, n) PROVE OpenMove(t) /\ ReadsGood(t)'
    <2>1. task'[t].pc = "resumeRead" /\ task'[t].round = n /\ task'[t].kind = "resume"
      BY <1>2 DEF SweepStalled, Become, Idle
    <2>2. rounds[n].status # "NONE" /\ rounds[n + 1].status = "NONE" /\ n \in Nat
      BY <1>2, RoundNumberFacts DEF SweepStalled, Ended, RoundNumbers
    <2>3. ASSUME NEW u \in Slots \ {t}, Opener(u, n + 1) PROVE FALSE
      <3>1. task[u].kind # "resume"
        BY <2>3 DEF JudgeInv, OpenerGood
      <3>2. ~Rotating(u, n)
        BY <1>2 DEF SweepStalled
      <3>3. task[u].pc # "resumeRead" /\ task[u].round \in Nat
        BY <3>1, TaskFacts, RoundNumberFacts DEF JudgeInv, OpenerGood, TaskState
      <3>4. task[u].pc \in {"startUnready", "startDeal", "startDealt"} => n + 1 = 1
        BY <2>3, TaskFacts DEF Opener, Starting, Rotation, TaskGood
      <3>5. n + 1 # 1
        BY <2>2, RoundNumberFacts DEF RoundNumbers
      <3> QED
        BY <2>2, <2>3, <3>1, <3>2, <3>3, <3>4, <3>5 DEF Opener, Starting, Rotation, Rotating
    <2> QED
      BY <2>1, <2>2, <2>3 DEF OpenMove, ReadsGood, Starting, Rotation
  <1> QED
    BY <1>1, <1>2 DEF Sweep

\* The steps of handlers that are not on their way.
LEMMA IdleOpens ==
  ASSUME IInv, JudgeInv, NEW t \in Slots,
         \/ ToggleRead(t) \/ ToggleWrite(t) \/ PlayInsert(t) \/ PlayRefill(t) \/ PlayReread(t)
         \/ HostLoss(t) \/ NewHost(t) \/ FindRoom(t) \/ FindRound(t) \/ ReadPlayers(t) \/ ReadPlays(t)
         \/ ClaimJudging(t) \/ TimeToJudge(t) \/ PickRound(t) \/ PickWinner(t)
         \/ PickEnd(t) \/ LastRoundEnd(t) \/ RoundStart(t)
         \/ EndFind(t) \/ EndAbort(t) \/ EndRoundEnd(t) \/ EndGame(t)
  PROVE  OpenMove(t) /\ ReadsGood(t)'
  <1> DEFINE Still == /\ task'[t].pc \notin Starting \cup Rotation
                      /\ task'[t].kind = "resume" => task[t].kind = "resume"
  <1> task[t] \in TaskState
    BY TaskFacts
  <1>1. Still
    <2> USE TaskMoves DEF Starting, Rotation
    <2>1. CASE ToggleWrite(t) \/ PlayInsert(t) \/ PlayRefill(t) \/ FindRound(t) \/ ReadPlayers(t)
      BY <2>1 DEF ToggleWrite, PlayInsert, PlayRefill, FindRound, ReadPlayers
    <2>2. CASE PlayReread(t)
      BY <2>2 DEF PlayReread, Idle
    <2>3. CASE FindRoom(t)
      BY <2>3 DEF FindRoom, TaskState
    <2>4. CASE ReadPlays(t)
      <3> DEFINE r == [task[t] EXCEPT !.pc = "claimJudging", !.seen = plays[N(t)]]
      <3>1. r.pc = "claimJudging" /\ r.kind = task[t].kind
        BY DEF TaskState
      <3> HIDE DEF r
      <3>2. Become(t, r) \/ Go(t, "abort") \/ Stop(t)
        BY <2>4 DEF ReadPlays, r
      <3> QED
        BY <3>1, <3>2
    <2>5. CASE PickRound(t)
      BY <2>5 DEF PickRound, TaskState
    <2>6. CASE EndFind(t)
      <3> DEFINE r == [task[t] EXCEPT !.pc = "endAbort", !.round = room.round]
      <3>1. r.pc = "endAbort" /\ r.kind = task[t].kind
        BY DEF TaskState
      <3> HIDE DEF r
      <3>2. Become(t, r) \/ Go(t, "endGame") \/ Go(t, "findRoom")
        BY <2>6 DEF EndFind, AfterEndActiveRound, r
      <3> QED
        BY <3>1, <3>2
    <2>7. CASE ClaimJudging(t) \/ TimeToJudge(t) \/ PickWinner(t) \/ PickEnd(t)
      BY <2>7 DEF ClaimJudging, TimeToJudge, PickWinner, PickEnd
    <2>8. CASE LastRoundEnd(t) \/ RoundStart(t) \/ EndAbort(t) \/ EndRoundEnd(t) \/ EndGame(t)
      BY <2>8 DEF LastRoundEnd, RoundStart, EndAbort, EndRoundEnd, EndGame, AfterEndActiveRound
    <2>9. CASE ToggleRead(t) \/ NewHost(t)
      <3> DEFINE r == [task[t] EXCEPT !.pc = "toggleWrite", !.seen = {task[t].player} \ ready]
                 q == [task[t] EXCEPT !.pc = "findRoom", !.seen = {}]
      <3>1. /\ r.pc = "toggleWrite" /\ r.kind = task[t].kind
            /\ q.pc = "findRoom" /\ q.kind = task[t].kind
        BY DEF TaskState
      <3> HIDE DEF r, q
      <3>2. Become(t, r) \/ Become(t, q) \/ Stop(t)
        BY <2>9 DEF ToggleRead, NewHost, r, q
      <3> QED
        BY <3>1, <3>2
    <2>10. CASE HostLoss(t)
      <3>1. ASSUME NEW heir, Become(t, [task[t] EXCEPT !.pc = "newHost", !.seen = {heir}])
            PROVE  Still
        BY <3>1 DEF TaskState
      <3>2. CASE Go(t, "findRoom") \/ Go(t, "endGame") \/ Stop(t)
        BY <3>2
      <3> QED
        BY <2>10, <3>1, <3>2 DEF HostLoss
    <2> QED
      BY <2>1, <2>2, <2>3, <2>4, <2>5, <2>6, <2>7, <2>8, <2>9, <2>10
  <1>2. task[t].kind = "resume" => t \in Sweepers
    BY DEF JudgeInv, OpenerGood
  <1> QED
    BY <1>1, <1>2 DEF OpenMove, ReadsGood, Starting, Rotation

\* The claims that end a Round set out for the next one.
LEMMA ClaimOpens ==
  ASSUME IInv, JudgeInv, NEW t \in Slots, PickClaim(t) \/ Abort(t)
  PROVE  OpenMove(t) /\ ReadsGood(t)'
  <1>1. PICK n \in RoundNumbers : n = task[t].round
    BY TaskFacts DEF PickClaim, Abort, At, TaskGood, Roundless
  <1>2. task[t].kind = "resume" => t \in Sweepers
    BY DEF JudgeInv, OpenerGood
  <1>3. CASE Stop(t)
    BY <1>3, TaskMoves DEF OpenMove, ReadsGood, Starting, Rotation
  <1>4. CASE ~Stop(t)
    <2>1. /\ rounds[n].status \in Ongoing
          /\ task'[t].pc \in {"pickRecord", "roundEnd"} /\ task'[t].round = n
          /\ task'[t].kind = task[t].kind
      BY <1>1, <1>4, TaskMoves DEF PickClaim, Abort, N, Ongoing
    <2>2. rounds[n].status \notin Ended /\ rounds[n].status # "NONE"
      BY <2>1 DEF Ongoing, Ended
    <2>3. n + 1 \in RoundNumbers => rounds[n + 1].status = "NONE"
      BY <2>2, RoundNumberFacts DEF IInv, RowsGood, OneRoundInPlay, RoundNumbers
    <2>4. \A u \in Slots : ~Opener(u, n + 1)
      BY <2>2, OpenerWaits
    <2> QED
      BY <1>2, <2>1, <2>2, <2>3, <2>4 DEF OpenMove, ReadsGood, Starting, Rotation
  <1> QED
    BY <1>3, <1>4

\* The steps on the way.
LEMMA WayOpens ==
  ASSUME IInv, JudgeInv, NEW t \in Slots,
         \/ StartUnready(t) \/ StartDeal(t) \/ StartDealt(t)
         \/ PickRecord(t) \/ PickScore(t) \/ PickReread(t) \/ RoundEnd(t)
         \/ RotateRead(t) \/ RotatePick(t) \/ RotateUnready(t) \/ ResumeRead(t)
  PROVE  OpenMove(t) /\ ReadsGood(t)'
  <1> task[t] \in TaskState
    BY TaskFacts
  <1>1. /\ task[t].kind = "resume" => t \in Sweepers
        /\ task[t].pc \in Starting => room.round = task[t].round /\ room.judge = task[t].judge
        /\ task[t].pc \in {"rotatePick", "rotateUnready", "rotateRoom"} => room.round = task[t].round
    BY DEF JudgeInv, OpenerGood
  <1>2. task[t].round \in Nat
    BY RoundNumberFacts DEF TaskState
  <1> USE TaskMoves DEF OpenMove, ReadsGood, Opener, Starting, Rotation, At, N
  <1>3. CASE StartUnready(t) \/ StartDealt(t)
    BY <1>1, <1>3 DEF StartUnready, StartDealt
  <1>4. CASE StartDeal(t)
    BY <1>1, <1>4 DEF StartDeal, TaskState
  <1>5. CASE PickRecord(t) \/ PickScore(t) \/ PickReread(t) \/ RoundEnd(t)
    BY <1>1, <1>5 DEF PickRecord, PickScore, PickReread, RoundEnd
  <1>6. CASE RotateRead(t)
    BY <1>1, <1>6 DEF RotateRead, TaskState
  <1>7. CASE RotatePick(t)
    BY <1>1, <1>7 DEF RotatePick, TaskState
  <1>8. CASE RotateUnready(t)
    BY <1>1, <1>8 DEF RotateUnready
  <1>9. CASE ResumeRead(t)
    <2> DEFINE r == [task[t] EXCEPT !.pc = "openRound", !.round = room.round, !.judge = room.judge]
    <2>1. /\ r.pc = "openRound" /\ r.round = room.round /\ r.judge = room.judge
          /\ r.kind = task[t].kind
      BY DEF TaskState
    <2> HIDE DEF r
    <2>2. task[t].pc = "resumeRead" /\ task[t].kind = "resume"
      BY <1>9 DEF ResumeRead, JudgeInv, OpenerGood
    <2>3. \/ Go(t, "rotateRead") \/ Stop(t)
          \/ Become(t, r) /\ room.round = task[t].round + 1
      BY <1>9 DEF ResumeRead, r
    <2>4. UNCHANGED room
      BY <1>9 DEF ResumeRead
    <2>5. CASE Go(t, "rotateRead") \/ Stop(t)
      BY <1>1, <2>2, <2>5
    <2>6. CASE Become(t, r) /\ room.round = task[t].round + 1
      BY <1>1, <2>1, <2>2, <2>4, <2>6
    <2> QED
      BY <2>3, <2>5, <2>6
  <1> QED
    BY <1>3, <1>4, <1>5, <1>6, <1>7, <1>8, <1>9
\* What these steps leave of the Room and of its Rounds.
RowsStay ==
  /\ room'.round = room.round /\ room'.judge = room.judge
  /\ room'.status = "LOBBY" => room.status = "LOBBY"
  /\ \A n \in RoundNumbers :
       /\ rounds[n].status = "NONE" => rounds'[n].status = "NONE"
       /\ rounds[n].status # "NONE" => rounds'[n].judge = rounds[n].judge
       /\ rounds[n].status \in Ended => rounds'[n].status \in Ended

LEMMA RoundsStay ==
  ASSUME IInv, NEW t \in Slots, Plain(t) \/ Claiming(t), ~OpenRound(t),
         room'.round = room.round, room'.judge = room.judge,
         room'.status = "LOBBY" => room.status = "LOBBY"
  PROVE  RowsStay
  <1>1. rounds \in [RoundNumbers -> RoundRow]
    BY DEF IInv, RowsTyped
  <1>2. CASE UNCHANGED rounds
    BY <1>2 DEF RowsStay
  <1>3. CASE Plain(t)
    BY <1>2, <1>3, PlainMoves
  <1>4. CASE ClaimJudging(t) \/ PickClaim(t) \/ Abort(t) \/ EndAbort(t)
    <2>1. PICK n \in RoundNumbers : n = task[t].round
      BY <1>4, TaskFacts DEF ClaimJudging, PickClaim, Abort, EndAbort, At, TaskGood, Roundless
    <2>2. ASSUME ~UNCHANGED rounds
          PROVE  /\ rounds[n].status \in Ongoing
                 /\ \E to \in {"JUDGING", "COMPLETE", "ABORTED"} :
                      rounds' = [rounds EXCEPT ![n].status = to]
      BY <1>4, <2>1, <2>2 DEF ClaimJudging, PickClaim, Abort, EndAbort, N, Ongoing
    <2> QED
      BY <1>1, <1>2, <2>2 DEF RowsStay, Ongoing, Ended, RoundRow
  <1>5. CASE PickRecord(t)
    BY <1>1, <1>5 DEF PickRecord, RowsStay, RoundRow
  <1>6. CASE \/ TimeToJudge(t) \/ PickScore(t) \/ PickReread(t) \/ PickEnd(t) \/ LastRoundEnd(t)
             \/ RoundEnd(t) \/ RoundStart(t) \/ EndRoundEnd(t)
    BY <1>2, <1>6 DEF TimeToJudge, PickScore, PickReread, PickEnd, LastRoundEnd, RoundEnd,
       RoundStart, EndRoundEnd, ledger
  <1> QED
    BY <1>3, <1>4, <1>5, <1>6 DEF Claiming

LEMMA JudgeRowsStay ==
  ASSUME IInv, NEW t \in Slots, Plain(t) \/ Claiming(t),
         ~StartClaim(t), ~RotateRoom(t), ~OpenRound(t)
  PROVE  RowsStay
  <1> SUFFICES /\ room'.round = room.round /\ room'.judge = room.judge
               /\ room'.status = "LOBBY" => room.status = "LOBBY"
    BY RoundsStay
  <1>1. room \in [status : {"LOBBY", "IN_PROGRESS", "FINISHED"}, round : 0..MaxRound, judge : PlayerOrNull]
    BY DEF IInv, RowsTyped
  <1>2. CASE UNCHANGED room
    BY <1>2
  <1>3. CASE PickEnd(t) \/ EndGame(t)
    BY <1>1, <1>3 DEF PickEnd, EndGame
  <1>4. CASE Call(t) \/ Sweep(t) \/ Fail(t)
    BY <1>2, <1>4, CallMoves
  <1>5. CASE Claiming(t) /\ ~PickEnd(t)
    BY <1>2, <1>5 DEF Claiming, ClaimJudging, TimeToJudge, PickClaim, PickRecord, PickScore,
       PickReread, LastRoundEnd, Abort, RoundEnd, OpenRound, RoundStart, EndAbort, EndRoundEnd
  <1>6. CASE Plain(t) /\ ~EndGame(t) /\ ~(Call(t) \/ Sweep(t) \/ Fail(t))
    BY <1>2, <1>6 DEF Plain, ToggleRead, ToggleWrite, StartClaim, StartUnready, StartDeal, StartDealt,
       PlayInsert, PlayRefill, PlayReread, HostLoss, NewHost, FindRoom, FindRound, ReadPlayers,
       ReadPlays, PickRound, PickWinner, RotateRead, RotatePick, RotateUnready, RotateRoom, ResumeRead, EndFind
  <1> QED
    BY <1>3, <1>4, <1>5, <1>6

\* The first Round: nobody else is on the way while the Room is in LOBBY.
LEMMA StartOpens ==
  ASSUME IInv, IInv', JudgeInv, NEW t \in Slots, StartClaim(t)
  PROVE  JudgeInv'
  <1>1. Moved(t) /\ UNCHANGED rounds
    BY PlainMoves DEF Plain
  <1>2. CASE UNCHANGED room
    <2>1. task'[t].pc = "idle" /\ task'[t].kind = "none"
      BY <1>2, TaskMoves DEF StartClaim, IInv, RowsTyped
    <2> QED
      BY <1>1, <1>2, <2>1, OpenersKeep DEF OpenMove, ReadsGood, Starting, Rotation
  <1>3. CASE room # room'
    <2>1. /\ room.status = "LOBBY" /\ room.round = 0
          /\ room'.status = "IN_PROGRESS" /\ room'.round = 1 /\ room'.judge = task[t].judge
          /\ task'[t].pc = "startUnready" /\ task'[t].round = task[t].round
          /\ task'[t].judge = task[t].judge /\ task'[t].kind = task[t].kind
      BY <1>3, TaskMoves DEF StartClaim, JudgeInv, RoomOnTop
    <2>2. task[t].round = 1
      BY TaskFacts DEF StartClaim, At, TaskGood
    <2>3. \A n \in RoundNumbers : rounds[n].status = "NONE"
      BY <2>1, RoundNumberFacts DEF JudgeInv, RoomOnTop, RoundNumbers
    <2>4. \A u \in Slots \ {t} : task'[u] = task[u] /\ task[u].pc \notin Starting \cup Rotation
      BY <1>1, <2>1 DEF Moved, JudgeInv, OpenerGood
    <2>5. RoomOnTop'
      <3>1. \A m \in RoundNumbers : ~(m < 1)
        BY RoundNumberFacts DEF RoundNumbers
      <3> QED
        BY <1>1, <2>1, <2>3, <3>1 DEF RoomOnTop
    <2>6. AloneGood'
      BY <2>4 DEF AloneGood, Opener
    <2>7. ASSUME NEW u \in Slots PROVE OpenerGood(u)'
      <3>1. CASE u = t
        BY <1>1, <2>1, <2>2, <2>3, <3>1 DEF OpenerGood, Opener, Starting, Rotation, JudgeInv
      <3>2. CASE u # t
        BY <1>1, <2>1, <2>3, <2>4, <3>2 DEF OpenerGood, Opener, JudgeInv, Starting, Rotation
      <3> QED
        BY <3>1, <3>2
    <2> QED
      BY <2>5, <2>6, <2>7 DEF JudgeInv
  <1> QED
    BY <1>2, <1>3

\* The rotation that reaches the Room finds it on the Round it ended.
LEMMA RotateOpens ==
  ASSUME IInv, IInv', JudgeInv, NEW t \in Slots, RotateRoom(t)
  PROVE  JudgeInv'
  <1>1. Moved(t) /\ UNCHANGED rounds
    BY PlainMoves DEF Plain
  <1>2. PICK n \in RoundNumbers : n = task[t].round
    BY TaskFacts DEF RotateRoom, At, TaskGood, Roundless
  <1>3. /\ room.round = n /\ n < MaxRound /\ n + 1 \in RoundNumbers /\ n \in Nat
        /\ rounds[n].status \in Ended /\ rounds[n + 1].status = "NONE"
        /\ Opener(t, n + 1) /\ task[t].pc = "rotateRoom"
    <2>1. task[t].pc = "rotateRoom" /\ room.round = n /\ n < MaxRound /\ rounds[n].status \in Ended
      BY <1>2, TaskFacts DEF RotateRoom, At, TaskGood, RotationPcs, JudgeInv, OpenerGood
    <2>2. n + 1 \in RoundNumbers /\ Opener(t, n + 1) /\ n \in Nat
      BY <1>2, <2>1, RoundNumberFacts DEF Opener, Rotation, Starting, RoundNumbers
    <2> QED
      BY <2>1, <2>2 DEF JudgeInv, OpenerGood
  <1>4. /\ room'.round = n + 1 /\ room'.judge = task[t].judge /\ room'.status = room.status
        /\ task'[t].pc = "openRound" /\ task'[t].round = n + 1
        /\ task'[t].judge = task[t].judge /\ task'[t].kind = task[t].kind
    BY <1>2, TaskMoves, TaskFacts DEF RotateRoom, N, IInv, RowsTyped, TaskState
  <1>5. RoomOnTop'
    <2>1. room.status # "LOBBY"
      BY <1>3, RoundNumberFacts DEF JudgeInv, RoomOnTop, RoundNumbers
    <2>2. \A m \in RoundNumbers : m > n + 1 => rounds[m].status = "NONE"
      BY <1>3, RoundNumberFacts DEF JudgeInv, RoomOnTop, RoundNumbers
    <2>3. \A m \in RoundNumbers : m < n + 1 => rounds[m].status \in Ended
      BY <1>3, RoundNumberFacts DEF JudgeInv, RoomOnTop, RoundNumbers
    <2> QED
      BY <1>1, <1>3, <1>4, <2>1, <2>2, <2>3 DEF RoomOnTop
  <1>6. \A u \in Slots \ {t} : task'[u] = task[u] /\ ~Opener(u, n + 1)
    BY <1>1, <1>3, RoundNumberFacts DEF Moved, JudgeInv, AloneGood, Openings, RoundNumbers
  <1>7. \A k \in Openings : Opener(t, k)' => k = n + 1
    BY <1>4 DEF Opener, Rotation
  <1>8. AloneGood'
    <2>1. \A u \in Slots \ {t}, k \in Openings : Opener(u, k)' => Opener(u, k)
      BY <1>6 DEF Opener
    <2> QED
      BY <1>6, <1>7, <2>1 DEF AloneGood, JudgeInv
  <1>9. ASSUME NEW u \in Slots PROVE OpenerGood(u)'
    <2>1. CASE u = t
      BY <1>1, <1>3, <1>4, <1>7, <2>1, RoundNumberFacts
         DEF OpenerGood, Opener, Starting, Rotation, JudgeInv, Openings, RoundNumbers
    <2>2. CASE u # t
      <3>1. task'[u] = task[u] /\ OpenerGood(u) /\ ~Opener(u, n + 1)
        BY <1>6, <2>2 DEF JudgeInv
      <3>2. task[u].pc \notin Starting
        <4>1. SUFFICES ASSUME task[u].pc \in Starting PROVE FALSE
          OBVIOUS
        <4>2. room.round = task[u].round
          BY <3>1, <4>1 DEF OpenerGood
        <4>3. Opener(u, n)
          BY <1>3, <4>1, <4>2 DEF Opener
        <4>4. rounds[n].status = "NONE"
          BY <3>1, <4>3 DEF OpenerGood
        <4> QED
          BY <1>3, <4>4 DEF Ended
      <3>3. task[u].pc \notin {"rotatePick", "rotateUnready", "rotateRoom"}
        BY <1>3, <3>1 DEF OpenerGood, Opener, Rotation
      <3>4. ASSUME NEW k \in RoundNumbers, Opener(u, k)' PROVE rounds'[k].status = "NONE"
        BY <1>1, <3>1, <3>4 DEF OpenerGood, Opener
      <3> QED
        BY <1>3, <1>4, <3>1, <3>2, <3>3, <3>4 DEF OpenerGood
    <2> QED
      BY <2>1, <2>2
  <1> QED
    BY <1>5, <1>8, <1>9 DEF JudgeInv
LEMMA InsertOpens ==
  ASSUME IInv, IInv', JudgeInv, [Next]_vars, NEW t \in Slots, OpenRound(t)
  PROVE  JudgeInv'
  <1>1. Moved(t) /\ UNCHANGED room
    BY ClaimMoves DEF Claiming, OpenRound
  <1>2. CASE UNCHANGED rounds
    <2>1. task'[t].pc \in {"idle", "roundStart"} /\ task'[t].kind \in {"none", task[t].kind}
      BY <1>2, TaskMoves DEF OpenRound
    <2>2. OpenMove(t) /\ ReadsGood(t)'
      BY <2>1 DEF OpenMove, ReadsGood, Starting, Rotation, JudgeInv, OpenerGood
    <2> QED
      BY <1>1, <1>2, <2>2, OpenersKeep
  <1>3. CASE ~UNCHANGED rounds
    <2>1. PICK n \in RoundNumbers : n = task[t].round
      BY TaskFacts DEF OpenRound, At, TaskGood, Roundless
    <2>2. /\ rounds[n].status = "NONE"
          /\ rounds' = [rounds EXCEPT ![n] =
               [status |-> "PLAYING", judge |-> task[t].judge, winner |-> NoPlayer]]
          /\ task[t].pc = "openRound" /\ task'[t].pc = "roundStart" /\ task'[t].kind = task[t].kind
      BY <1>3, <2>1, TaskMoves DEF OpenRound, N, At
    <2>3. /\ \A m \in RoundNumbers \ {n} : rounds'[m] = rounds[m]
          /\ rounds'[n].status = "PLAYING" /\ rounds'[n].judge = task[t].judge
      BY <2>2 DEF IInv, RowsTyped
    <2>4. room.round = n /\ room.judge = task[t].judge /\ Opener(t, n)
      BY <2>1, <2>2 DEF JudgeInv, OpenerGood, Starting, Opener
    <2>5. RoomOnTop'
      <3>1. ~(n > n) /\ ~(n < n) /\ n # 0
        BY RoundNumberFacts DEF RoundNumbers
      <3> QED
        BY <1>1, <2>3, <2>4, <3>1 DEF RoomOnTop, JudgeInv
    <2>6. \A u \in Slots \ {t} : task'[u] = task[u] /\ ~Opener(u, n)
      <3>1. n \in Openings
        BY RoundNumberFacts DEF Openings, RoundNumbers
      <3> QED
        BY <1>1, <2>4, <3>1 DEF Moved, JudgeInv, AloneGood
    <2>7. AloneGood'
      BY <2>2, <2>6 DEF AloneGood, JudgeInv, Opener, Starting, Rotation
    <2>8. ASSUME NEW u \in Slots PROVE OpenerGood(u)'
      <3>1. CASE u = t
        BY <2>2, <3>1 DEF OpenerGood, JudgeInv, Opener, Starting, Rotation
      <3>2. CASE u # t
        <4>1. task'[u] = task[u] /\ OpenerGood(u) /\ ~Opener(u, n)
          BY <2>6, <3>2 DEF JudgeInv
        <4>2. ASSUME NEW k \in RoundNumbers, Opener(u, k)' PROVE rounds'[k].status = "NONE"
          <5>1. Opener(u, k)
            BY <4>1, <4>2 DEF Opener
          <5>2. k # n /\ rounds[k].status = "NONE"
            BY <4>1, <5>1 DEF OpenerGood
          <5> QED
            BY <2>3, <5>2
        <4> QED
          BY <1>1, <4>1, <4>2 DEF OpenerGood
      <3> QED
        BY <3>1, <3>2
    <2> QED
      BY <2>5, <2>7, <2>8 DEF JudgeInv
  <1> QED
    BY <1>2, <1>3

LEMMA JudgeKeeps ==
  ASSUME ~SlowRotations, \A s, u \in Sweepers : s = u, IInv, IInv', JudgeInv, [Next]_vars
  PROVE  JudgeInv'
  <1>1. ASSUME NEW t \in Slots, Plain(t) \/ Claiming(t), OpenMove(t), ReadsGood(t)',
               ~StartClaim(t), ~RotateRoom(t), ~OpenRound(t)
        PROVE  JudgeInv'
    <2>1. Moved(t)
      BY <1>1, PlainMoves, ClaimMoves
    <2>2. RowsStay
      BY <1>1, JudgeRowsStay
    <2> QED
      BY <1>1, <2>1, <2>2, OpenersKeep DEF RowsStay
  <1>2. ASSUME NEW t \in Slots, StartClaim(t) \/ RotateRoom(t) \/ OpenRound(t) PROVE JudgeInv'
    BY <1>2, StartOpens, RotateOpens, InsertOpens
  <1>3. ASSUME NEW t \in Slots, Call(t) \/ Fail(t) PROVE JudgeInv'
    BY <1>1, <1>2, <1>3, CallOpens DEF Plain
  <1>4. ASSUME NEW t \in Sweepers, Sweep(t) PROVE JudgeInv'
    BY <1>1, <1>2, <1>4, SweepOpens DEF Plain, Slots
  <1>5. ASSUME NEW t \in Slots, Resume(t), ~StartClaim(t), ~RotateRoom(t), ~OpenRound(t)
        PROVE  JudgeInv'
    <2>1. Plain(t) \/ Claiming(t)
      BY <1>5 DEF Resume, Plain, Claiming
    <2>2. OpenMove(t) /\ ReadsGood(t)'
      BY <1>5, IdleOpens, ClaimOpens, WayOpens DEF Resume
    <2> QED
      BY <1>1, <1>5, <2>1, <2>2
  <1>6. ASSUME UNCHANGED <<room, rounds, task>> PROVE JudgeInv'
    BY <1>6 DEF JudgeInv, RoomOnTop, AloneGood, OpenerGood, Opener
  <1>7. ASSUME NEW p \in Players, Return(p) \/ Join(p) PROVE JudgeInv'
    BY <1>6, <1>7 DEF Return, Join, ledger
  <1>8. CASE UNCHANGED vars
    BY <1>6, <1>8 DEF vars, ledger
  <1> QED
    BY <1>2, <1>3, <1>4, <1>5, <1>7, <1>8 DEF Next, Slots

LEMMA JudgeInit == Init => JudgeInv
  <1> SUFFICES ASSUME Init PROVE JudgeInv
    OBVIOUS
  <1>1. \A t \in Slots : task[t].pc = "idle" /\ task[t].kind = "none"
    BY DEF Init, Idle
  <1>2. room.status = "LOBBY" /\ room.round = 0 /\ \A m \in RoundNumbers : rounds[m].status = "NONE" /\ m > 0
    BY RoundNumberFacts DEF Init, RoundNumbers
  <1>3. RoomOnTop
    BY <1>2, RoundNumberFacts DEF RoomOnTop, RoundNumbers
  <1> QED
    BY <1>1, <1>2, <1>3 DEF JudgeInv, AloneGood, OpenerGood, Opener, Starting, Rotation

LEMMA JudgeInvariance ==
  ASSUME ~SlowRotations, \A s, u \in Sweepers : s = u
  PROVE  Spec => []JudgeInv
  BY Invariance, JudgeInit, JudgeKeeps, PTL DEF Spec

\* While a Round is in play the Room names it and its Judge, on which `isJudge`
\* rests: whatever starts, picks, aborts, departures, deadlines, failures and /end
\* meet, for any number of them.  One instance sweeps, and no live rotation is
\* slower than the sweep's 15s of grace: with two instances the run twoSweeps
\* shows it violated.
THEOREM JudgeAgreementHolds ==
  ASSUME ~SlowRotations, \A s, u \in Sweepers : s = u
  PROVE  Spec => []JudgeAgreement
  <1>1. IInv /\ JudgeInv => JudgeAgreement
    <2> SUFFICES ASSUME IInv, JudgeInv, NEW n \in RoundNumbers, rounds[n].status \in Ongoing
                 PROVE  room.round = n /\ room.judge = rounds[n].judge
      BY DEF JudgeAgreement
    <2>1. rounds[n].status # "NONE" /\ rounds[n].status \notin Ended
      BY DEF Ongoing, Ended
    <2>2. room.round \in Nat /\ n \in Nat
      BY RoundNumberFacts DEF IInv, RowsTyped, RoundNumbers
    <2> QED
      BY <2>1, <2>2 DEF JudgeInv, RoomOnTop
  <1> QED
    BY <1>1, Invariance, JudgeInvariance, PTL
-----------------------------------------------------------------------------
\* The Judge rotates.

RotationInv ==
  /\ \E p, q \in active : p # q
  /\ \A t \in Slots : task[t].pc = "rotatePick" => task[t].judge = room.judge
  /\ \A t \in Slots : task[t].pc \in {"rotateUnready", "rotateRoom"} => task[t].judge # room.judge
  /\ \A n \in RoundNumbers : room.round = n + 1 => room.judge # rounds[n].judge
  /\ \A n \in RoundNumbers : n + 1 \in RoundNumbers /\ rounds[n + 1].status # "NONE" =>
       rounds[n + 1].judge # rounds[n].judge

LEMMA ActiveStays ==
  ASSUME Requests \cap {"leave", "drop", "return", "join"} = {}, [Next]_vars
  PROVE  UNCHANGED active
  <1> USE DEF seats
  <1>1. ASSUME NEW t \in Slots, Call(t) PROVE UNCHANGED active
    <2>1. CASE StartCheck(t) \/ EndRoom(t)
      BY <2>1 DEF StartCheck, EndRoom
    <2>2. CASE \E p \in Players : Toggle(t, p) \/ PlayCheck(t, p) \/ Leave(t, p) \/ Drop(t, p)
      BY <2>2 DEF Toggle, PlayCheck, Leave, Drop, Begin
    <2>3. CASE \E j, w \in Players : PickRoom(t, j, w)
      BY <2>3 DEF PickRoom
    <2>4. CASE \E n \in RoundNumbers : ExpirePlay(t, n) \/ ExpireJudge(t, n)
      BY <2>4 DEF ExpirePlay, ExpireJudge
    <2> QED
      BY <1>1, <2>1, <2>2, <2>3, <2>4 DEF Call
  <1>2. ASSUME NEW t \in Slots, Sweep(t) \/ Fail(t) PROVE UNCHANGED active
    BY <1>2 DEF Sweep, SweepExpired, SweepStalled, Fail
  <1>3. ASSUME NEW p \in Players, Return(p) \/ Join(p) PROVE UNCHANGED active
    BY <1>3 DEF Return, Join
  <1>4. ASSUME NEW t \in Slots, Claiming(t) PROVE UNCHANGED active
    BY <1>4 DEF Claiming, ClaimJudging, TimeToJudge, PickClaim, PickRecord, PickScore,
       PickReread, PickEnd, LastRoundEnd, Abort, RoundEnd, OpenRound, RoundStart, EndAbort, EndRoundEnd
  <1>5. ASSUME NEW t \in Slots, Plain(t), ~(Call(t) \/ Sweep(t) \/ Fail(t)) PROVE UNCHANGED active
    BY <1>5 DEF Plain, ToggleRead, ToggleWrite, StartClaim, StartUnready, StartDeal, StartDealt,
       PlayInsert, PlayRefill, PlayReread, HostLoss, NewHost, FindRoom, FindRound, ReadPlayers,
       ReadPlays, PickRound, PickWinner, RotateRead, RotatePick, RotateUnready, RotateRoom, ResumeRead, EndFind, EndGame
  <1>6. CASE UNCHANGED vars
    BY <1>6 DEF vars
  <1> QED
    BY <1>1, <1>2, <1>3, <1>4, <1>5, <1>6, Handlers

\* The Judge the handler has in hand: the outgoing one, then another.
LEMMA JudgeInHand ==
  ASSUME IInv, RotationInv, NEW t \in Slots, Plain(t) \/ Claiming(t)
  PROVE  /\ task'[t].pc = "rotatePick" => task'[t].judge = room.judge
         /\ task'[t].pc \in {"rotateUnready", "rotateRoom"} => task'[t].judge # room.judge
  <1> task[t] \in TaskState
    BY TaskFacts
  <1> DEFINE Goal == /\ task'[t].pc = "rotatePick" => task'[t].judge = room.judge
                     /\ task'[t].pc \in {"rotateUnready", "rotateRoom"} => task'[t].judge # room.judge
  <1>1. CASE RotateRead(t)
    BY <1>1, TaskMoves DEF RotateRead, TaskState
  <1>2. CASE RotatePick(t)
    <2>1. CASE Stop(t)
      BY <2>1, TaskMoves
    <2>2. ASSUME NEW j \in Eligible(task[t].judge),
                 Become(t, [task[t] EXCEPT !.pc = "rotateUnready", !.judge = j])
          PROVE  Goal
      <3>1. j # task[t].judge
        BY <2>2 DEF Eligible, RotationInv
      <3>2. task[t].judge = room.judge
        BY <1>2 DEF RotatePick, At, RotationInv
      <3> QED
        BY <2>2, <3>1, <3>2, TaskMoves DEF TaskState
    <2> QED
      BY <1>2, <2>1, <2>2 DEF RotatePick
  <1>3. CASE RotateUnready(t)
    BY <1>3, TaskMoves DEF RotateUnready, At, RotationInv
  <1>4. CASE ~RotateRead(t) /\ ~RotatePick(t) /\ ~RotateUnready(t)
    <2>1. task'[t].pc \notin Turning
      <3> USE TaskMoves DEF Turning
      <3>1. CASE Claiming(t)
        BY <3>1 DEF Claiming, ClaimJudging, TimeToJudge, PickClaim, PickRecord, PickScore,
           PickReread, PickEnd, LastRoundEnd, Abort, RoundEnd, OpenRound, RoundStart, EndAbort,
           EndRoundEnd, AfterEndActiveRound
      <3>2. CASE Plain(t)
        BY <1>4, <3>2, PlainMoves
      <3> QED
        BY <3>1, <3>2
    <2> QED
      BY <2>1 DEF Turning
  <1> QED
    BY <1>1, <1>2, <1>3, <1>4

\* Nobody else turns while the Room moves.
LEMMA NobodyElseTurns ==
  ASSUME IInv, JudgeInv, NEW t \in Slots, StartClaim(t) \/ RotateRoom(t), NEW u \in Slots \ {t},
         task[u].pc \in Turning
  PROVE  UNCHANGED room
  <1>1. Opener(u, room.round + 1) /\ room.round # 0 /\ task[u].round = room.round
    BY DEF JudgeInv, OpenerGood, Turning, Opener, Starting, Rotation
  <1>2. CASE StartClaim(t)
    BY <1>1, <1>2 DEF StartClaim, JudgeInv, RoomOnTop
  <1>3. CASE RotateRoom(t)
    <2>1. task[t].pc = "rotateRoom" /\ task[t].round = room.round
      BY <1>3 DEF RotateRoom, At, JudgeInv, OpenerGood
    <2>2. Opener(t, room.round + 1)
      BY <2>1 DEF Opener, Rotation
    <2>3. room.round + 1 \in Openings
      BY <1>1, RoundNumberFacts DEF IInv, RowsTyped, Openings
    <2> QED
      BY <1>1, <2>2, <2>3 DEF JudgeInv, AloneGood
  <1> QED
    BY <1>2, <1>3

\* The Judges of the Room and of its Rounds.
JudgesDiffer ==
  /\ \A n \in RoundNumbers : room.round = n + 1 => room.judge # rounds[n].judge
  /\ \A n \in RoundNumbers : n + 1 \in RoundNumbers /\ rounds[n + 1].status # "NONE" =>
       rounds[n + 1].judge # rounds[n].judge

LEMMA JudgesDifferStill ==
  ASSUME IInv, IInv', JudgeInv, JudgesDiffer, RowsStay PROVE JudgesDiffer'
  <1>1. ASSUME NEW n \in RoundNumbers, room.round = n + 1 PROVE rounds'[n].judge = rounds[n].judge
    <2>1. n < room.round
      BY <1>1, RoundNumberFacts DEF RoundNumbers
    <2>2. rounds[n].status # "NONE"
      BY <2>1 DEF JudgeInv, RoomOnTop, Ended
    <2> QED
      BY <2>2 DEF RowsStay
  <1>2. ASSUME NEW n \in RoundNumbers, n + 1 \in RoundNumbers, rounds'[n + 1].status # "NONE"
        PROVE  rounds'[n + 1].judge # rounds'[n].judge
    <2>1. rounds[n + 1].status # "NONE"
      BY <1>2 DEF RowsStay
    <2>2. n < n + 1
      BY RoundNumberFacts DEF RoundNumbers
    <2>3. rounds[n].status \in Ended
      BY <1>2, <2>1, <2>2 DEF IInv, RowsGood, OneRoundInPlay
    <2>4. rounds[n].status # "NONE"
      BY <2>3 DEF Ended
    <2> QED
      BY <1>2, <2>1, <2>4 DEF RowsStay, JudgesDiffer
  <1> QED
    BY <1>1, <1>2 DEF JudgesDiffer, RowsStay

LEMMA JudgesDifferMoving ==
  ASSUME IInv, IInv', JudgeInv, RotationInv, JudgesDiffer, NEW t \in Slots,
         StartClaim(t) \/ RotateRoom(t)
  PROVE  JudgesDiffer'
  <1>1. UNCHANGED rounds
    BY PlainMoves DEF Plain
  <1>2. CASE UNCHANGED room
    BY <1>1, <1>2 DEF JudgesDiffer
  <1>3. CASE StartClaim(t) /\ ~UNCHANGED room
    <2>1. room'.round = 1
      BY <1>3 DEF StartClaim
    <2>2. \A n \in RoundNumbers : n + 1 # 1
      BY RoundNumberFacts DEF RoundNumbers
    <2> QED
      BY <1>1, <2>1, <2>2 DEF JudgesDiffer
  <1>4. CASE RotateRoom(t)
    <2>1. PICK n \in RoundNumbers : n = task[t].round
      BY <1>4, TaskFacts DEF RotateRoom, At, TaskGood, Roundless
    <2>2. task[t].pc = "rotateRoom" /\ room.round = n /\ rounds[n].status \in Ended
      BY <1>4, <2>1, TaskFacts DEF RotateRoom, At, TaskGood, RotationPcs, JudgeInv, OpenerGood
    <2>3. room.judge = rounds[n].judge
      BY <2>2 DEF JudgeInv, RoomOnTop, Ended
    <2>4. room'.round = n + 1 /\ room'.judge = task[t].judge
      BY <1>4, <2>1 DEF RotateRoom, N, IInv, RowsTyped
    <2>5. task[t].judge # room.judge
      BY <2>2 DEF RotationInv
    <2>6. \A m \in RoundNumbers : n + 1 = m + 1 => m = n
      BY <2>1, RoundNumberFacts DEF RoundNumbers
    <2> QED
      BY <1>1, <2>3, <2>4, <2>5, <2>6 DEF JudgesDiffer
  <1> QED
    BY <1>2, <1>3, <1>4

LEMMA JudgesDifferOpening ==
  ASSUME IInv, IInv', JudgeInv, JudgesDiffer, NEW t \in Slots, OpenRound(t)
  PROVE  JudgesDiffer'
  <1>1. UNCHANGED room
    BY DEF OpenRound
  <1>2. CASE UNCHANGED rounds
    BY <1>1, <1>2 DEF JudgesDiffer
  <1>3. CASE ~UNCHANGED rounds
    <2>1. PICK k \in RoundNumbers : k = task[t].round
      BY TaskFacts DEF OpenRound, At, TaskGood, Roundless
    <2>2. rounds' = [rounds EXCEPT ![k] =
            [status |-> "PLAYING", judge |-> task[t].judge, winner |-> NoPlayer]]
      BY <1>3, <2>1 DEF OpenRound, N
    <2>3. /\ \A m \in RoundNumbers \ {k} : rounds'[m] = rounds[m]
          /\ rounds'[k].judge = task[t].judge
      BY <2>2 DEF IInv, RowsTyped
    <2>4. room.round = k /\ room.judge = task[t].judge
      BY <2>1 DEF OpenRound, At, JudgeInv, OpenerGood, Starting
    <2>5. \A n \in RoundNumbers : n # n + 1 /\ n \in Nat
      BY RoundNumberFacts DEF RoundNumbers
    <2>6. k + 1 \in RoundNumbers => rounds[k + 1].status = "NONE"
      <3>1. k + 1 > k
        BY RoundNumberFacts DEF RoundNumbers
      <3> QED
        BY <2>4, <3>1 DEF JudgeInv, RoomOnTop
    <2>7. ASSUME NEW n \in RoundNumbers, room.round = n + 1
          PROVE  room.judge # rounds'[n].judge
      BY <2>3, <2>4, <2>5, <2>7 DEF JudgesDiffer
    <2>8. ASSUME NEW n \in RoundNumbers, n + 1 \in RoundNumbers, rounds'[n + 1].status # "NONE"
          PROVE  rounds'[n + 1].judge # rounds'[n].judge
      <3>1. CASE n + 1 = k
        BY <2>3, <2>4, <2>5, <3>1 DEF JudgesDiffer
      <3>2. CASE n = k
        BY <2>3, <2>5, <2>6, <2>8, <3>2
      <3>3. CASE n + 1 # k /\ n # k
        BY <2>3, <2>8, <3>3 DEF JudgesDiffer
      <3> QED
        BY <3>1, <3>2, <3>3
    <2> QED
      BY <1>1, <2>7, <2>8 DEF JudgesDiffer
  <1> QED
    BY <1>2, <1>3

LEMMA RotationKeeps ==
  ASSUME Requests \cap {"leave", "drop", "return", "join"} = {},
         IInv, IInv', JudgeInv, RotationInv, [Next]_vars
  PROVE  RotationInv'
  <1>1. \E p, q \in active' : p # q
    BY ActiveStays DEF RotationInv
  <1> DEFINE InHand(u) == /\ task[u].pc = "rotatePick" => task[u].judge = room.judge
                          /\ task[u].pc \in {"rotateUnready", "rotateRoom"} => task[u].judge # room.judge
  <1>2. JudgesDiffer /\ \A u \in Slots : InHand(u)
    BY DEF RotationInv, JudgesDiffer
  <1>3. CASE UNCHANGED <<room, rounds, task>>
    BY <1>1, <1>3 DEF RotationInv
  <1>4. ASSUME NEW t \in Slots, Plain(t) \/ Claiming(t) PROVE RotationInv'
    <2>1. Moved(t)
      BY <1>4, PlainMoves, ClaimMoves
    <2>2. CASE StartClaim(t) \/ RotateRoom(t)
      <3>1. task'[t].pc \notin Turning
        <4>1. CASE StartClaim(t)
          BY <4>1, TaskMoves DEF StartClaim, Turning
        <4>2. CASE RotateRoom(t)
          BY <4>2, TaskMoves, TaskFacts DEF RotateRoom, Turning, TaskState
        <4> QED
          BY <2>2, <4>1, <4>2
      <3>2. ASSUME NEW u \in Slots PROVE InHand(u)'
        <4>1. CASE u = t
          BY <3>1, <4>1 DEF Turning
        <4>2. CASE u # t
          BY <1>2, <2>1, <2>2, <4>2, NobodyElseTurns DEF Moved, Turning
        <4> QED
          BY <4>1, <4>2
      <3>3. JudgesDiffer'
        BY <1>2, <2>2, JudgesDifferMoving
      <3> QED
        BY <1>1, <3>2, <3>3 DEF RotationInv, JudgesDiffer
    <2>3. CASE ~(StartClaim(t) \/ RotateRoom(t))
      <3>1. JudgesDiffer'
        <4>1. CASE OpenRound(t)
          BY <1>2, <4>1, JudgesDifferOpening
        <4>2. CASE ~OpenRound(t)
          BY <1>2, <1>4, <2>3, <4>2, JudgeRowsStay, JudgesDifferStill
        <4> QED
          BY <4>1, <4>2
      <3>2. room'.judge = room.judge
        <4>1. OpenRound(t) => UNCHANGED room
          BY DEF OpenRound
        <4>2. ~OpenRound(t) => RowsStay
          BY <1>4, <2>3, JudgeRowsStay
        <4> QED
          BY <4>1, <4>2 DEF RowsStay
      <3>3. ASSUME NEW u \in Slots PROVE InHand(u)'
        <4>1. CASE u = t
          BY <1>4, <3>2, <4>1, JudgeInHand
        <4>2. CASE u # t
          BY <1>2, <2>1, <3>2, <4>2 DEF Moved
        <4> QED
          BY <4>1, <4>2
      <3> QED
        BY <1>1, <3>1, <3>3 DEF RotationInv, JudgesDiffer
    <2> QED
      BY <2>2, <2>3
  <1>5. ASSUME NEW p \in Players, Return(p) \/ Join(p) PROVE UNCHANGED <<room, rounds, task>>
    BY <1>5 DEF Return, Join, ledger
  <1>6. CASE UNCHANGED vars
    BY <1>3, <1>6 DEF vars, ledger
  <1> QED
    BY <1>3, <1>4, <1>5, <1>6, Handlers

LEMMA RotationInit ==
  ASSUME IsFiniteSet(Players), MinPlayers >= 2, Init PROVE RotationInv
  <1>1. \A n \in RoundNumbers : rounds[n].status = "NONE" /\ 0 # n + 1
    BY RoundNumberFacts DEF Init, RoundNumbers
  <1>2. \A t \in Slots : task[t].pc = "idle"
    BY DEF Init, Idle
  <1>3. \E p, q \in active : p # q
    <2>1. active \subseteq Players /\ Cardinality(active) >= MinPlayers
      BY DEF Init
    <2>2. IsFiniteSet(active) /\ Cardinality(active) \in Nat
      BY <2>1, FS_Subset, FS_CardinalityType
    <2>3. Cardinality(active) >= 2
      BY <2>1, <2>2, ParametersAssumption
    <2>4. active # {}
      BY <2>3, FS_EmptySet
    <2>5. PICK p \in active : TRUE
      BY <2>4
    <2>6. active # {p}
      BY <2>3, FS_Singleton
    <2> QED
      BY <2>5, <2>6
  <1>4. room.round = 0
    BY DEF Init
  <1> QED
    BY <1>1, <1>2, <1>3, <1>4 DEF RotationInv

\* "Excluding prevJudgeId let the same Player judge twice in a row": consecutive
\* Rounds have different Judges for any number of Rounds and of handlers, of
\* which any may die and be resumed by a sweep.  A game starts with at least two
\* Players (MIN_PLAYERS_TO_START is 3) and nobody's presence changes; one
\* instance sweeps, as for JudgeAgreement.
THEOREM JudgeRotatesHolds ==
  ASSUME ~SlowRotations, \A s, u \in Sweepers : s = u, IsFiniteSet(Players), MinPlayers >= 2,
         Requests \cap {"leave", "drop", "return", "join"} = {}
  PROVE  Spec => []JudgeRotates
  <1>1. Init => RotationInv
    BY RotationInit
  <1>2. IInv /\ IInv' /\ JudgeInv /\ RotationInv /\ [Next]_vars => RotationInv'
    BY RotationKeeps
  <1>3. RotationInv => JudgeRotates
    <2> SUFFICES ASSUME RotationInv, NEW k \in 2..MaxRound, rounds[k].status # "NONE"
                 PROVE  rounds[k].judge # rounds[k - 1].judge
      BY DEF JudgeRotates
    <2>1. k - 1 \in RoundNumbers /\ k \in RoundNumbers /\ (k - 1) + 1 = k
      BY RoundNumberFacts DEF RoundNumbers
    <2> QED
      BY <2>1 DEF RotationInv
  <1> QED
    BY <1>1, <1>2, <1>3, Invariance, JudgeInvariance, PTL DEF Spec
-----------------------------------------------------------------------------
\* The last answer opens judging.

\* The Round has every answer it waits for.
Answered(n) ==
  /\ faults = 0 /\ room.status = "IN_PROGRESS" /\ stray \cap active \subseteq {room.judge}
  /\ rounds[n].status = "PLAYING" /\ plays[n] # {} /\ plays[n] \subseteq seated
  /\ active \ {room.judge} \subseteq ready

\* A handler that will open judging for it, abort it or end the game.  A handler
\* that finds its Player or the new Host gone minds nothing: who left does.
Minding(t, n) ==
  LET concerned == task[t].kind = "leave" \/ task[t].player # rounds[n].judge IN
  \/ task[t].pc \in {"playRefill", "playReread"} /\ task[t].player \in seated
  \/ /\ task[t].pc = "hostLoss" /\ concerned
     /\ task[t].kind = "leave" \/ task[t].player \in seated
  \/ task[t].pc = "newHost" /\ concerned /\ task[t].seen \subseteq seated
  \/ task[t].pc = "findRoom" /\ concerned
  \/ task[t].pc = "findRound" /\ task[t].round = n /\ concerned
  \/ /\ task[t].pc \in {"readPlayers", "readPlays", "claimJudging", "abort"}
     /\ task[t].round = n
  \/ task[t].pc = "endGame"

AnswersInv ==
  /\ \A n \in RoundNumbers : rounds[n].status # "NONE" => rounds[n].judge \in Players
  /\ \A n \in RoundNumbers : Answered(n) => \E t \in Slots : Minding(t, n)

LEMMA CallFrom ==
  ASSUME NEW t \in Slots, Call(t) \/ Sweep(t)
  PROVE  task[t] = Idle
  BY DEF Call, StartCheck, EndRoom, Toggle, PlayCheck, Leave, Drop, PickRoom, ExpirePlay, ExpireJudge, Begin,
     Sweep, SweepExpired, SweepStalled

\* Who minds the Round goes on to the end, as long as it waits.
LEMMA MindingGoesOn ==
  ASSUME IInv, JudgeInv, AnswersInv, NEW t \in Slots, Plain(t) \/ Claiming(t),
         NEW n \in RoundNumbers, Minding(t, n), Answered(n), Answered(n)'
  PROVE  Minding(t, n)'
  <1>1. /\ task[t].pc \in {"playRefill", "playReread", "hostLoss", "newHost", "findRoom", "findRound",
                           "readPlayers", "readPlays", "claimJudging", "abort", "endGame"}
        /\ task[t] \in TaskState /\ rounds[n].status = "PLAYING" /\ rounds[n].judge # NoPlayer
        /\ room.status = "IN_PROGRESS" /\ room.round = n
    <2>1. room.round = n
      <3>1. rounds[n].status # "NONE" /\ rounds[n].status \notin Ended
        BY DEF Answered, Ended
      <3>2. room.round \in Nat /\ n \in Nat
        BY RoundNumberFacts DEF IInv, RowsTyped
      <3> QED
        BY <3>1, <3>2 DEF JudgeInv, RoomOnTop
    <2> QED
      BY <2>1, TaskFacts, ParametersAssumption DEF Minding, Answered, AnswersInv
  <1> USE TaskMoves DEF At, N
  <1>2. CASE PlayRefill(t)
    BY <1>2 DEF PlayRefill, Minding
  <1>3. CASE PlayReread(t)
    <2> DEFINE r == [Idle EXCEPT !.kind = "play", !.pc = "findRoom"]
    <2>1. r.pc = "findRoom" /\ r.player = NoPlayer
      BY DEF Idle
    <2>2. task[t].pc = "playReread" /\ task[t].player \in seated
      BY <1>3 DEF PlayReread, Minding
    <2> HIDE DEF r
    <2>3. Become(t, r) /\ UNCHANGED rounds
      BY <1>3, <2>2 DEF PlayReread, ledger, r
    <2> QED
      BY <1>1, <2>1, <2>3 DEF Minding
  <1>4. CASE HostLoss(t)
    <2>1. UNCHANGED <<rounds, seated>>
      BY <1>4 DEF HostLoss, ledger, seats
    <2>2. CASE Go(t, "findRoom") \/ Go(t, "endGame")
      BY <1>4, <2>1, <2>2 DEF HostLoss, Minding
    <2>3. CASE task[t].kind = "drop" /\ task[t].player \notin seated
      BY <1>4, <2>3 DEF HostLoss, Minding
    <2>4. ASSUME NEW heir \in active,
                 Become(t, [task[t] EXCEPT !.pc = "newHost", !.seen = {heir}])
          PROVE  Minding(t, n)'
      <3> DEFINE r == [task[t] EXCEPT !.pc = "newHost", !.seen = {heir}]
      <3>1. /\ r.pc = "newHost" /\ r.seen = {heir} /\ r.player = task[t].player
            /\ r.kind = task[t].kind
        BY <1>1 DEF TaskState
      <3>2. heir \in seated
        BY DEF IInv, RowsTyped
      <3> HIDE DEF r
      <3>3. Become(t, r)
        BY <2>4 DEF r
      <3> QED
        BY <1>4, <2>1, <3>1, <3>2, <3>3 DEF HostLoss, Minding
    <2> QED
      BY <1>4, <2>2, <2>3, <2>4 DEF HostLoss
  <1>14. CASE NewHost(t)
    <2> DEFINE r == [task[t] EXCEPT !.pc = "findRoom", !.seen = {}]
    <2>1. r.pc = "findRoom" /\ r.player = task[t].player /\ r.kind = task[t].kind
      BY <1>1 DEF TaskState
    <2> HIDE DEF r
    <2>2. Become(t, r) /\ UNCHANGED rounds
      BY <1>14 DEF NewHost, Minding, ledger, r
    <2> QED
      BY <1>14, <2>1, <2>2 DEF NewHost, Minding
  <1>5. CASE FindRoom(t)
    <2> DEFINE r == [task[t] EXCEPT !.pc = "findRound", !.round = room.round]
    <2>1. /\ r.pc = "findRound" /\ r.round = n /\ r.player = task[t].player
          /\ r.kind = task[t].kind
      BY <1>1 DEF TaskState
    <2> HIDE DEF r
    <2>2. Become(t, r) /\ UNCHANGED rounds
      BY <1>1, <1>5 DEF FindRoom, ledger, r
    <2> QED
      BY <1>5, <2>1, <2>2 DEF FindRoom, Minding
  <1>6. CASE FindRound(t)
    <2>1. task[t].round = n /\ UNCHANGED rounds
      BY <1>6 DEF FindRound, Minding, ledger
    <2>2. Go(t, "abort") \/ Go(t, "readPlayers")
      BY <1>1, <1>6, <2>1 DEF FindRound, Minding, Ongoing
    <2> QED
      BY <2>1, <2>2 DEF Minding
  <1>7. CASE ReadPlayers(t)
    BY <1>1, <1>7 DEF ReadPlayers, Minding, Answered
  <1>8. CASE ReadPlays(t)
    <2> DEFINE r == [task[t] EXCEPT !.pc = "claimJudging", !.seen = plays[N(t)]]
    <2>1. r.pc = "claimJudging" /\ r.round = task[t].round
      BY <1>1 DEF TaskState
    <2>2. task[t].round = n /\ plays[n] # {}
      BY <1>8 DEF ReadPlays, Minding, Answered
    <2> HIDE DEF r
    <2>3. Become(t, r)
      BY <1>8, <2>2 DEF ReadPlays, r
    <2> QED
      BY <2>1, <2>2, <2>3 DEF Minding
  <1>9. CASE ClaimJudging(t) \/ Abort(t)
    <2>1. task[t].round = n
      BY <1>9 DEF ClaimJudging, Abort, Minding
    <2>2. rounds'[n].status # "PLAYING"
      <3>1. rounds \in [RoundNumbers -> RoundRow]
        BY DEF IInv, RowsTyped
      <3> QED
        BY <1>1, <1>9, <2>1, <3>1 DEF ClaimJudging, Abort, Ongoing, RoundRow
    <2> QED
      BY <2>2 DEF Answered
  <1>10. CASE EndGame(t)
    BY <1>10 DEF EndGame, Answered, IInv, RowsTyped
  <1>11. CASE Call(t) \/ Sweep(t) \/ Fail(t)
    <2>1. task[t] # Idle
      BY <1>1 DEF Idle
    <2>2. Call(t) \/ Sweep(t) => task[t] = Idle
      BY CallFrom
    <2>3. Fail(t) => faults' # 0
      BY DEF Fail, IInv, RowsTyped
    <2> QED
      BY <1>11, <2>1, <2>2, <2>3 DEF Answered
  <1>12. CASE \/ ToggleRead(t) \/ ToggleWrite(t)
              \/ StartClaim(t) \/ StartUnready(t) \/ StartDeal(t) \/ StartDealt(t) \/ PlayInsert(t)
              \/ PickRound(t) \/ PickWinner(t) \/ RotateRead(t) \/ RotatePick(t) \/ RotateUnready(t)
              \/ RotateRoom(t) \/ ResumeRead(t) \/ EndFind(t)
    BY <1>1, <1>12 DEF ToggleRead, ToggleWrite, StartClaim, StartUnready, StartDeal, StartDealt,
       PlayInsert, PickRound,
       PickWinner, RotateRead, RotatePick, RotateUnready, RotateRoom, ResumeRead, EndFind
  <1>13. CASE \/ TimeToJudge(t) \/ PickClaim(t) \/ PickRecord(t) \/ PickScore(t) \/ PickReread(t)
              \/ PickEnd(t) \/ LastRoundEnd(t) \/ RoundEnd(t) \/ OpenRound(t) \/ RoundStart(t)
              \/ EndAbort(t) \/ EndRoundEnd(t)
    BY <1>1, <1>13 DEF TimeToJudge, PickClaim, PickRecord, PickScore, PickReread, PickEnd,
       LastRoundEnd, RoundEnd, OpenRound, RoundStart, EndAbort, EndRoundEnd
  <1> QED
    BY <1>2, <1>3, <1>4, <1>5, <1>6, <1>7, <1>8, <1>9, <1>10, <1>11, <1>12, <1>13, <1>14
    DEF Plain, Claiming

\* A call that completes the answers is a departure, and minds the Round itself.
LEMMA CallAnswers ==
  ASSUME IInv, JudgeInv, NEW t \in Slots, Call(t) \/ Sweep(t) \/ Fail(t),
         NEW n \in RoundNumbers, Answered(n)'
  PROVE  Answered(n) \/ Minding(t, n)'
  <1> USE TaskMoves DEF ledger, seats
  <1>1. CASE StartCheck(t) \/ EndRoom(t)
    BY <1>1 DEF StartCheck, EndRoom, Answered
  <1>2. ASSUME NEW p \in Players, Toggle(t, p) \/ PlayCheck(t, p) PROVE Answered(n)
    BY <1>2 DEF Toggle, PlayCheck, Answered
  <1>3. ASSUME NEW p \in Players, Leave(t, p) PROVE Minding(t, n)'
    <2> DEFINE r == [Idle EXCEPT !.kind = "leave", !.pc = "hostLoss", !.player = p]
    <2>1. r.pc = "hostLoss" /\ r.kind = "leave"
      BY DEF Idle
    <2> HIDE DEF r
    <2>2. Become(t, r)
      BY <1>3 DEF Leave, r
    <2> QED
      BY <2>1, <2>2 DEF Minding
  <1>4. ASSUME NEW p \in Players, Drop(t, p) PROVE Answered(n) \/ Minding(t, n)'
    <2> DEFINE r == [Idle EXCEPT !.kind = "drop", !.pc = "hostLoss", !.player = p]
    <2>1. r.pc = "hostLoss" /\ r.player = p
      BY DEF Idle
    <2> HIDE DEF r
    <2>2. Become(t, r) /\ UNCHANGED rounds /\ p \in seated'
      BY <1>4 DEF Drop, r
    <2>3. CASE p # rounds[n].judge
      BY <2>1, <2>2, <2>3 DEF Minding
    <2>4. CASE p = rounds[n].judge
      <3>1. rounds[n].status = "PLAYING" /\ rounds[n].status # "NONE" /\ rounds[n].status \notin Ended
        BY <2>2 DEF Answered, Ended
      <3>2. room.round \in Nat /\ n \in Nat
        BY RoundNumberFacts DEF IInv, RowsTyped
      <3>3. room.judge = p
        BY <2>4, <3>1, <3>2 DEF JudgeInv, RoomOnTop
      <3> QED
        BY <1>4, <3>3 DEF Drop, Answered
    <2> QED
      BY <2>3, <2>4
  <1>5. ASSUME NEW j \in Players, NEW w \in Players, PickRoom(t, j, w) PROVE Answered(n)
    BY <1>5 DEF PickRoom, Answered
  <1>6. ASSUME NEW m \in RoundNumbers,
               ExpirePlay(t, m) \/ ExpireJudge(t, m) \/ SweepExpired(t, m) \/ SweepStalled(t, m)
        PROVE  Answered(n)
    BY <1>6 DEF ExpirePlay, ExpireJudge, SweepExpired, SweepStalled, Answered
  <1>7. CASE Fail(t)
    BY <1>7 DEF Fail, IInv, RowsTyped, Answered
  <1> QED
    BY <1>1, <1>2, <1>3, <1>4, <1>5, <1>6, <1>7 DEF Call, Sweep

\* Only an answer, its record or a departure completes the answers.
LEMMA NewlyAnswered ==
  ASSUME IInv, IInv', JudgeInv, JudgeInv', NEW t \in Slots, Plain(t) \/ Claiming(t),
         NEW n \in RoundNumbers, Answered(n)'
  PROVE  Answered(n) \/ Minding(t, n)'
  <1> USE TaskMoves DEF At, N, ledger, seats, observed
  <1>1. rounds'[n].status = "PLAYING" /\ room'.round = n /\ room'.status = "IN_PROGRESS"
    <2>1. rounds'[n].status # "NONE" /\ rounds'[n].status \notin Ended
      BY DEF Answered, Ended
    <2>2. room'.round \in Nat /\ n \in Nat
      BY RoundNumberFacts DEF IInv, RowsTyped
    <2> QED
      BY <2>1, <2>2 DEF JudgeInv, RoomOnTop, Answered
  <1>2. CASE Call(t) \/ Sweep(t) \/ Fail(t)
    BY <1>2, CallAnswers
  <1>3. CASE StartClaim(t)
    <2>1. CASE UNCHANGED room
      BY <1>3, <2>1 DEF StartClaim, Answered
    <2>2. CASE ~UNCHANGED room
      <3>1. room.round = 0 /\ UNCHANGED rounds /\ n > 0
        BY <1>3, <2>2, RoundNumberFacts DEF StartClaim, JudgeInv, RoomOnTop, RoundNumbers
      <3> QED
        BY <1>1, <3>1 DEF JudgeInv, RoomOnTop
    <2> QED
      BY <2>1, <2>2
  <1>4. CASE StartUnready(t) \/ RotateUnready(t)
    BY <1>4 DEF StartUnready, RotateUnready, Answered
  <1>13. CASE ToggleWrite(t)
    <2> DEFINE p == task[t].player
    <2>1. UNCHANGED <<room, rounds, plays, seated, active, faults>>
      BY <1>13 DEF ToggleWrite
    <2>2. stray' = stray \cup ({p} \cap seated)
      BY <1>1, <1>13, <2>1 DEF ToggleWrite
    <2>3. \A q \in active \ {p} : q \in ready' => q \in ready
      <3>1. task[t].seen \subseteq {p}
        BY <1>13, TaskFacts DEF ToggleWrite, TaskGood
      <3> QED
        BY <1>13, <3>1 DEF ToggleWrite
    <2>4. p \notin active \ {room.judge} /\ stray \cap active \subseteq {room.judge}
      BY <2>1, <2>2 DEF Answered, IInv, RowsTyped
    <2> QED
      BY <2>1, <2>3, <2>4 DEF Answered
  <1>5. CASE RotateRoom(t)
    <2>1. /\ UNCHANGED rounds /\ task[t].pc = "rotateRoom" /\ task[t].round + 1 = n
      BY <1>1, <1>5 DEF RotateRoom, IInv, RowsTyped
    <2>2. Opener(t, n)
      BY <2>1 DEF Opener, Rotation
    <2> QED
      BY <1>1, <2>1, <2>2 DEF JudgeInv, OpenerGood
  <1>6. CASE PlayInsert(t)
    <2>1. CASE UNCHANGED plays
      BY <1>6, <2>1 DEF PlayInsert, Answered
    <2>2. CASE ~UNCHANGED plays
      <3>1. /\ plays' = [plays EXCEPT ![task[t].round] = @ \cup {task[t].player}]
            /\ task'[t].pc = "playRefill" /\ task'[t].player = task[t].player
        BY <1>6, <2>2 DEF PlayInsert
      <3>2. plays \in [RoundNumbers -> SUBSET Players]
        BY DEF IInv, RowsTyped
      <3>3. CASE n = task[t].round
        BY <3>1, <3>2, <3>3 DEF Answered, Minding
      <3>4. CASE n # task[t].round
        BY <1>6, <3>1, <3>2, <3>4 DEF PlayInsert, Answered
      <3> QED
        BY <3>3, <3>4
    <2> QED
      BY <2>1, <2>2
  <1>7. CASE PlayRefill(t)
    <2>1. CASE task[t].player \in seated
      BY <1>7, <2>1 DEF PlayRefill, Minding
    <2>2. CASE task[t].player \notin seated
      BY <1>7, <2>2 DEF PlayRefill, Answered, IInv, RowsTyped
    <2> QED
      BY <2>1, <2>2
  <1>8. CASE PickEnd(t) \/ EndGame(t)
    BY <1>1, <1>8 DEF PickEnd, EndGame, IInv, RowsTyped
  <1>9. CASE ClaimJudging(t) \/ PickClaim(t) \/ Abort(t) \/ EndAbort(t) \/ PickRecord(t)
    <2>1. rounds[n].status = "PLAYING"
      <3>1. rounds \in [RoundNumbers -> RoundRow]
        BY DEF IInv, RowsTyped
      <3>2. CASE ClaimJudging(t) \/ PickClaim(t)
        BY <1>1, <3>1, <3>2 DEF ClaimJudging, PickClaim, RoundRow
      <3>3. CASE Abort(t) \/ EndAbort(t)
        BY <1>1, <3>1, <3>3 DEF Abort, EndAbort, RoundRow
      <3>4. CASE PickRecord(t)
        BY <1>1, <3>1, <3>4 DEF PickRecord, RoundRow
      <3> QED
        BY <1>9, <3>2, <3>3, <3>4
    <2>2. UNCHANGED <<room, plays, seats, faults>>
      BY <1>9 DEF ClaimJudging, PickClaim, Abort, EndAbort, PickRecord
    <2> QED
      BY <2>1, <2>2 DEF Answered
  <1>10. CASE OpenRound(t)
    <2>1. CASE UNCHANGED rounds
      BY <1>10, <2>1 DEF OpenRound, Answered
    <2>2. CASE ~UNCHANGED rounds
      <3>1. /\ rounds[task[t].round].status = "NONE"
            /\ \E r : rounds' = [rounds EXCEPT ![task[t].round] = r]
        BY <1>10, <2>2 DEF OpenRound
      <3>2. n # task[t].round
        BY <1>10, <3>1 DEF OpenRound, Answered, IInv, RowsGood
      <3> QED
        BY <1>10, <3>1, <3>2 DEF OpenRound, Answered, IInv, RowsTyped
    <2> QED
      BY <2>1, <2>2
  <1>11. CASE \/ ToggleRead(t) \/ StartDeal(t) \/ StartDealt(t) \/ PlayReread(t)
              \/ HostLoss(t) \/ NewHost(t) \/ FindRoom(t) \/ FindRound(t) \/ ReadPlayers(t) \/ ReadPlays(t) \/ PickRound(t) \/ PickWinner(t)
              \/ RotateRead(t) \/ RotatePick(t) \/ ResumeRead(t) \/ EndFind(t)
    <2>1. UNCHANGED <<room, rounds, plays, seats, faults>>
      BY <1>11 DEF ToggleRead, StartDeal, StartDealt, PlayReread, HostLoss, NewHost, FindRoom,
         FindRound, ReadPlayers, ReadPlays, PickRound, PickWinner, RotateRead, RotatePick, ResumeRead, EndFind
    <2> QED
      BY <2>1 DEF Answered
  <1>12. CASE \/ TimeToJudge(t) \/ PickScore(t) \/ PickReread(t) \/ LastRoundEnd(t) \/ RoundEnd(t)
              \/ RoundStart(t) \/ EndRoundEnd(t)
    <2>1. UNCHANGED <<room, rounds, plays, seated, active, ready, stray, faults>>
      BY <1>12 DEF TimeToJudge, PickScore, PickReread, LastRoundEnd, RoundEnd, RoundStart, EndRoundEnd
    <2> QED
      BY <2>1 DEF Answered
  <1> QED
    BY <1>2, <1>3, <1>4, <1>5, <1>6, <1>7, <1>8, <1>9, <1>10, <1>11, <1>12, <1>13
    DEF Plain, Claiming

\* Who minds the Round is relieved only by a Player who leaves.
LEMMA OthersMind ==
  ASSUME IInv, NEW t \in Slots, Plain(t) \/ Claiming(t), NEW u \in Slots, task'[u] = task[u],
         NEW n \in RoundNumbers, rounds'[n].judge = rounds[n].judge, Minding(u, n)
  PROVE  Minding(u, n)' \/ Minding(t, n)'
  <1>1. CASE UNCHANGED seated
    BY <1>1 DEF Minding
  <1>2. ASSUME NEW p \in Players, Leave(t, p) PROVE Minding(t, n)'
    <2> DEFINE r == [Idle EXCEPT !.kind = "leave", !.pc = "hostLoss", !.player = p]
    <2>1. r.pc = "hostLoss" /\ r.kind = "leave"
      BY DEF Idle
    <2> HIDE DEF r
    <2>2. Become(t, r)
      BY <1>2 DEF Leave, r
    <2> QED
      BY <2>1, <2>2, TaskMoves DEF Minding
  <1>3. UNCHANGED seated \/ \E p \in Players : Leave(t, p)
    <2> USE DEF seats
    <2>1. CASE Call(t)
      BY <2>1 DEF Call, StartCheck, EndRoom, Toggle, PlayCheck, Drop, PickRoom, ExpirePlay, ExpireJudge
    <2>2. CASE Sweep(t) \/ Fail(t)
      BY <2>2 DEF Sweep, SweepExpired, SweepStalled, Fail
    <2>3. CASE Claiming(t)
      BY <2>3 DEF Claiming, ClaimJudging, TimeToJudge, PickClaim, PickRecord, PickScore,
         PickReread, PickEnd, LastRoundEnd, Abort, RoundEnd, OpenRound, RoundStart, EndAbort, EndRoundEnd
    <2>4. CASE Plain(t) /\ ~(Call(t) \/ Sweep(t) \/ Fail(t))
      BY <2>4 DEF Plain, ToggleRead, ToggleWrite, StartClaim, StartUnready, StartDeal, StartDealt,
         PlayInsert, PlayRefill, PlayReread, HostLoss, NewHost, FindRoom, FindRound, ReadPlayers,
         ReadPlays, PickRound, PickWinner, RotateRead, RotatePick, RotateUnready, RotateRoom, ResumeRead, EndFind, EndGame
    <2> QED
      BY <2>1, <2>2, <2>3, <2>4
  <1> QED
    BY <1>1, <1>2, <1>3

LEMMA JudgesKnown ==
  ASSUME IInv, JudgeInv, AnswersInv, NEW t \in Slots, Plain(t) \/ Claiming(t),
         NEW n \in RoundNumbers
  PROVE  /\ rounds'[n].status # "NONE" => rounds'[n].judge \in Players
         /\ rounds[n].status # "NONE" => rounds'[n].judge = rounds[n].judge
  <1>1. CASE UNCHANGED rounds
    BY <1>1 DEF AnswersInv
  <1>2. CASE Plain(t)
    BY <1>1, <1>2, PlainMoves
  <1>3. CASE Claiming(t) /\ ~OpenRound(t) /\ ~StartClaim(t) /\ ~RotateRoom(t)
    BY <1>3, JudgeRowsStay DEF RowsStay, AnswersInv
  <1>4. CASE OpenRound(t) /\ ~UNCHANGED rounds
    <2>1. task[t].judge \in Players
      BY <1>4, TaskFacts DEF OpenRound, At, TaskGood
    <2>2. /\ rounds[task[t].round].status = "NONE"
          /\ rounds' = [rounds EXCEPT ![task[t].round] =
               [status |-> "PLAYING", judge |-> task[t].judge, winner |-> NoPlayer]]
      BY <1>4 DEF OpenRound, N
    <2> QED
      BY <2>1, <2>2 DEF AnswersInv, IInv, RowsTyped
  <1>5. Claiming(t) => ~StartClaim(t) /\ ~RotateRoom(t)
    BY DEF Claiming, StartClaim, RotateRoom, At, ClaimJudging, TimeToJudge, PickClaim, PickRecord,
       PickScore, PickReread, PickEnd, LastRoundEnd, Abort, RoundEnd, OpenRound, RoundStart, EndAbort,
       EndRoundEnd
  <1> QED
    BY <1>1, <1>2, <1>3, <1>4, <1>5

LEMMA AnswersKeep ==
  ASSUME IInv, IInv', JudgeInv, JudgeInv', AnswersInv, [Next]_vars
  PROVE  AnswersInv'
  <1>1. ASSUME NEW t \in Slots, Plain(t) \/ Claiming(t) PROVE AnswersInv'
    <2>1. ASSUME NEW n \in RoundNumbers, Answered(n)' PROVE \E u \in Slots : Minding(u, n)'
      <3>1. CASE ~Answered(n)
        BY <1>1, <2>1, <3>1, NewlyAnswered
      <3>2. CASE Answered(n)
        <4>1. PICK u \in Slots : Minding(u, n)
          BY <3>2 DEF AnswersInv
        <4>2. CASE u = t
          BY <1>1, <2>1, <3>2, <4>1, <4>2, MindingGoesOn
        <4>3. CASE u # t
          <5>1. task'[u] = task[u]
            BY <1>1, <4>3, PlainMoves, ClaimMoves DEF Moved
          <5>2. rounds'[n].judge = rounds[n].judge
            BY <1>1, <3>2, JudgesKnown DEF Answered
          <5> QED
            BY <1>1, <4>1, <5>1, <5>2, OthersMind
        <4> QED
          BY <4>2, <4>3
      <3> QED
        BY <3>1, <3>2
    <2> QED
      BY <1>1, <2>1, JudgesKnown DEF AnswersInv
  <1>2. ASSUME NEW p \in Players, Return(p) \/ Join(p) PROVE AnswersInv'
    <2>1. UNCHANGED <<room, rounds, plays, ready, stray, task, faults>> /\ seated \subseteq seated'
          /\ active \subseteq active'
      BY <1>2 DEF Return, Join, ledger
    <2>2. ASSUME NEW n \in RoundNumbers, Answered(n)' PROVE plays[n] \subseteq seated
      <3>1. CASE Return(p)
        BY <2>1, <2>2, <3>1 DEF Return, Answered
      <3>2. CASE Join(p)
        <4>1. p \notin ready /\ p \in active' /\ seated' = seated \cup {p}
          BY <3>2 DEF Join, IInv, RowsTyped
        <4>2. p = room.judge
          BY <2>1, <2>2, <4>1 DEF Answered
        <4>3. rounds[n].status # "NONE" /\ rounds[n].status \notin Ended
          BY <2>1, <2>2 DEF Answered, Ended
        <4>4. room.round \in Nat /\ n \in Nat
          BY RoundNumberFacts DEF IInv, RowsTyped
        <4>5. room.judge = rounds[n].judge
          BY <4>3, <4>4 DEF JudgeInv, RoomOnTop
        <4>6. p \notin plays[n]
          BY <4>2, <4>5 DEF IInv, RowsGood
        <4> QED
          BY <2>1, <2>2, <4>1, <4>6 DEF Answered
      <3> QED
        BY <1>2, <3>1, <3>2
    <2>3. ASSUME NEW n \in RoundNumbers, Answered(n)' PROVE \E u \in Slots : Minding(u, n)'
      <3>1. Answered(n)
        BY <2>1, <2>2, <2>3 DEF Answered
      <3>2. PICK u \in Slots : Minding(u, n)
        BY <3>1 DEF AnswersInv
      <3> QED
        BY <2>1, <3>2 DEF Minding
    <2> QED
      BY <2>1, <2>3 DEF AnswersInv
  <1>3. CASE UNCHANGED vars
    BY <1>3 DEF vars, ledger, seats, AnswersInv, Answered, Minding
  <1> QED
    BY <1>1, <1>2, <1>3, Handlers

\* Issue #25: when nothing is in flight and no handler died, no Round stays
\* PLAYING with every awaited Player ready, for any number of Players, Rounds and
\* handlers in flight, unless the Player of an answer has left since or a lobby
\* toggle wrote an awaited Player's flag after the start.  A Round with all its
\* answers always has a handler that minds it: a play whose Player is still
\* seated, a departure that concerns it and that still finds its Player and the
\* new Host, a deadline, a claim, or an end of the game.  When one departure
\* stops at somebody who left, the departure of that one minds the Round.  One
\* instance sweeps, as for JudgeAgreement: the count leaves out the Room's Judge,
\* the rule the Round's.
THEOREM LastAnswerOpensJudgingHolds ==
  ASSUME ~SlowRotations, \A s, u \in Sweepers : s = u
  PROVE  Spec => []LastAnswerOpensJudging
  <1>1. Init => AnswersInv
    <2> SUFFICES ASSUME Init, NEW n \in RoundNumbers PROVE rounds[n].status = "NONE" /\ ~Answered(n)
      BY DEF AnswersInv
    <2>1. rounds[n].status = "NONE"
      BY DEF Init
    <2> QED
      BY <2>1 DEF Answered
  <1>2. IInv /\ IInv' /\ JudgeInv /\ JudgeInv' /\ AnswersInv /\ [Next]_vars => AnswersInv'
    BY AnswersKeep
  <1>3. AnswersInv => LastAnswerOpensJudging
    <2> SUFFICES ASSUME AnswersInv, Quiet, NEW n \in RoundNumbers, Answered(n) PROVE FALSE
      BY DEF LastAnswerOpensJudging, Answered
    <2>1. PICK t \in Slots : Minding(t, n)
      BY DEF AnswersInv
    <2>2. task[t].pc = "idle"
      BY DEF Quiet, Idle
    <2> QED
      BY <2>1, <2>2 DEF Minding
  <1> QED
    BY <1>1, <1>2, <1>3, Invariance, JudgeInvariance, PTL DEF Spec

=============================================================================
