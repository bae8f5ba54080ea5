------------------------- MODULE RoomMembershipProofs -------------------------
(***************************************************************************)
(* Theorems about RoomMembership, for any number of Players and handlers.   *)
(***************************************************************************)
EXTENDS RoomMembership, FiniteSetTheorems, TLAPS

USE DEF At, Go, Become, Begin, Stop, Unlocked

\* What a handler may still rely on: while it holds the lock nobody takes the
\* seat it counted as free or ends the Room, and an heir was a Player.
TaskGood(h) ==
  /\ At(h, "joinInsert") => /\ task[h].player \in Players
                            /\ lock = h
                            /\ status # "FINISHED"
                            /\ Cardinality(seated) < MaxPlayers
  /\ At(h, "heirWrite") => task[h].heir \in Players

TasksGood == \A h \in Handlers : TaskGood(h)

IInv == TypeOK /\ TasksGood

LEMMA IdleTyped == Idle \in TaskState
  BY DEF Idle, TaskState, Pcs

LEMMA IdlePc == Idle.pc = "idle"
  BY DEF Idle

LEMMA BeginTyped ==
  ASSUME NEW pc \in Pcs, NEW p \in Players, NEW late \in BOOLEAN
  PROVE  /\ [Idle EXCEPT !.pc = pc, !.player = p] \in TaskState
         /\ [Idle EXCEPT !.pc = pc, !.player = p, !.late = late] \in TaskState
  BY DEF Idle, TaskState

\* A handler that goes on keeps its type.
LEMMA GoTyped ==
  ASSUME TypeOK, NEW h \in Handlers, NEW pc \in Pcs, Go(h, pc)
  PROVE  task' \in [Handlers -> TaskState]
  BY DEF TypeOK, TaskState

\* The requests.
LEMMA RequestTyped == ASSUME TypeOK, NEW h \in Handlers, Request(h) PROVE TypeOK'
<1>1. CASE StartCheck(h) \/ EndRoom(h)
  <2>1. task' \in [Handlers -> TaskState]
    BY <1>1, BeginTyped DEF StartCheck, EndRoom, TypeOK, Pcs
  <2> QED
    BY <1>1, <2>1 DEF StartCheck, EndRoom, TypeOK, room, seats, ended
<1>2. ASSUME NEW p \in Players,
             JoinAdmit(h, p) \/ Toggle(h, p) \/ Leave(h, p) \/ Drop(h, p)
      PROVE  TypeOK'
  <2>1. task' \in [Handlers -> TaskState]
    BY <1>2, BeginTyped DEF JoinAdmit, Toggle, Leave, Drop, TypeOK, Pcs
  <2>2. CASE JoinAdmit(h, p) \/ Toggle(h, p)
    BY <2>1, <2>2 DEF JoinAdmit, Toggle, TypeOK, room, seats, ended
  <2>3. CASE Leave(h, p) \/ Drop(h, p)
    BY <2>1, <2>3 DEF Leave, Drop, TypeOK, room, ended
  <2> QED
    BY <1>2, <2>2, <2>3
<1> QED
  BY <1>1, <1>2 DEF Request

\* The steps that write seats.
LEMMA SeatsTyped ==
  ASSUME IInv, NEW h \in Handlers,
         CreateSeat(h) \/ JoinInsert(h) \/ JoinDeal(h) \/ ToggleWrite(h) \/ StartUnready(h)
  PROVE  TypeOK'
<1> USE DEF IInv
<1>1. task' \in [Handlers -> TaskState]
  BY IdleTyped, GoTyped
     DEF CreateSeat, JoinInsert, JoinDeal, ToggleWrite, StartUnready, TypeOK, Pcs
<1>2. CASE CreateSeat(h)
  BY <1>1, <1>2, MembershipAssumption DEF CreateSeat, TypeOK, room, ended
<1>3. CASE JoinInsert(h)
  BY <1>1, <1>3 DEF JoinInsert, TasksGood, TaskGood, TypeOK, room, ended
<1>4. CASE JoinDeal(h) \/ ToggleWrite(h) \/ StartUnready(h)
  BY <1>1, <1>4 DEF JoinDeal, ToggleWrite, StartUnready, TypeOK, room, ended
<1> QED
  BY <1>2, <1>3, <1>4

\* The steps of a start that deal.
LEMMA DealTyped ==
  ASSUME TypeOK, NEW h \in Handlers, StartDeal(h) \/ StartDone(h)
  PROVE  TypeOK'
<1>1. CASE StartDone(h)
  BY <1>1, IdleTyped DEF StartDone, TypeOK, room, seats, ended
<1>2. ASSUME StartDeal(h)
      PROVE  TypeOK'
  <2>1. task' \in [Handlers -> TaskState]
    <3>1. \A p : [task[h] EXCEPT !.list = @ \ {p}] \in TaskState
      BY DEF TypeOK, TaskState
    <3>2. \A p : [task EXCEPT ![h].list = @ \ {p}] \in [Handlers -> TaskState]
      BY <3>1 DEF TypeOK
    <3> QED
      BY <1>2, <3>2, IdleTyped DEF StartDeal, TypeOK
  <2> QED
    BY <1>2, <2>1 DEF StartDeal, TypeOK, room
<1> QED
  BY <1>1, <1>2

\* The steps that write the Room row.
LEMMA RoomTyped ==
  ASSUME IInv, NEW h \in Handlers, StartClaim(h) \/ HeirWrite(h) \/ EndGame(h)
  PROVE  TypeOK'
<1> USE DEF IInv
<1>1. task' \in [Handlers -> TaskState]
  BY IdleTyped, GoTyped DEF StartClaim, HeirWrite, EndGame, TypeOK, Pcs
<1>2. CASE StartClaim(h) \/ EndGame(h)
  BY <1>1, <1>2 DEF StartClaim, EndGame, TypeOK, seats, ended
<1>3. CASE HeirWrite(h)
  BY <1>1, <1>3 DEF HeirWrite, TasksGood, TaskGood, TypeOK, seats, ended
<1> QED
  BY <1>2, <1>3

\* The steps that only read.
LEMMA ReadsTyped ==
  ASSUME TypeOK, NEW h \in Handlers,
         \/ ToggleRead(h) \/ StartList(h) \/ DropRead(h) \/ HostLoss(h) \/ HeirRead(h)
  PROVE  TypeOK' /\ UNCHANGED <<room, seats, lock, ended>>
<1>1. task' \in [Handlers -> TaskState]
  <2>1. CASE ToggleRead(h)
    BY <2>1, IdleTyped DEF ToggleRead, TypeOK, TaskState, Pcs
  <2>2. CASE StartList(h)
    <3>1. [task[h] EXCEPT !.pc = "startDeal", !.list = seated] \in TaskState
      BY DEF TypeOK, TaskState, Pcs
    <3>2. task' = [task EXCEPT ![h] = [task[h] EXCEPT !.pc = "startDeal", !.list = seated]]
      BY <2>2 DEF StartList
    <3> QED
      BY <3>1, <3>2 DEF TypeOK
  <2>3. CASE DropRead(h) \/ HostLoss(h)
    BY <2>3, IdleTyped, GoTyped DEF DropRead, HostLoss, TypeOK, Pcs
  <2>4. CASE HeirRead(h)
    BY <2>4, GoTyped DEF HeirRead, TypeOK, TaskState, Pcs
  <2> QED
    BY <2>1, <2>2, <2>3, <2>4
<1>2. UNCHANGED <<room, seats, lock, ended>>
  BY DEF ToggleRead, StartList, DropRead, HostLoss, HeirRead
<1> QED
  BY <1>1, <1>2 DEF TypeOK, room, seats, ended

LEMMA FailTyped == ASSUME TypeOK, NEW h \in Handlers, Fail(h) PROVE TypeOK'
<1>1. task' \in [Handlers -> TaskState]
  BY IdleTyped DEF Fail, TypeOK
<1>2. faults' \in 0..MaxFaults
  BY MembershipAssumption DEF Fail, TypeOK
<1> QED
  BY <1>1, <1>2 DEF Fail, TypeOK, room, seats

LEMMA ReturnTyped == ASSUME TypeOK, NEW p \in Players, Return(p) PROVE TypeOK'
  BY DEF Return, TypeOK, room, ended

LEMMA NextTyped == ASSUME IInv, Next PROVE TypeOK'
<1>1. ASSUME NEW h \in Handlers, Request(h) \/ Resume(h) \/ Fail(h) PROVE TypeOK'
  BY <1>1, RequestTyped, SeatsTyped, DealTyped, RoomTyped, ReadsTyped, FailTyped
     DEF Resume, IInv
<1>2. ASSUME NEW p \in Players, Return(p) PROVE TypeOK'
  BY <1>2, ReturnTyped DEF IInv
<1> QED
  BY <1>1, <1>2 DEF Next

-----------------------------------------------------------------------------
LEMMA SeatsFinite ==
  ASSUME TypeOK, NEW p
  PROVE  /\ Cardinality(seated) \in Nat
         /\ Cardinality(seated \ {p}) \in Nat
         /\ Cardinality(seated \ {p}) <= Cardinality(seated)
         /\ Cardinality(seated \cup {p}) \in Nat
         /\ Cardinality(seated \cup {p}) <= Cardinality(seated) + 1
<1>1. IsFiniteSet(seated)
  BY MembershipAssumption, FS_Subset DEF TypeOK
<1>2. Cardinality(seated) \in Nat
  BY <1>1, FS_CardinalityType
<1>3. IsFiniteSet(seated \ {p}) /\ IsFiniteSet(seated \cup {p})
  BY <1>1, FS_AddElement, FS_RemoveElement
<1>4. Cardinality(seated \ {p}) \in Nat /\ Cardinality(seated \cup {p}) \in Nat
  BY <1>3, FS_CardinalityType
<1>5. Cardinality(seated \ {p}) = IF p \in seated THEN Cardinality(seated) - 1
                                                 ELSE Cardinality(seated)
  BY <1>1, FS_RemoveElement
<1>6. Cardinality(seated \cup {p}) = IF p \in seated THEN Cardinality(seated)
                                                     ELSE Cardinality(seated) + 1
  BY <1>1, FS_AddElement
<1> QED
  BY <1>2, <1>4, <1>5, <1>6

\* A step that leaves the row, its lock and the seats alone, and moves handler h
\* to a stage with nothing to rely on.
LEMMA Unaffected ==
  ASSUME IInv, NEW h \in Handlers, UNCHANGED <<status, seated, lock>>,
         \E r \in TaskState : /\ task' = [task EXCEPT ![h] = r]
                              /\ r.pc \notin {"joinInsert", "heirWrite"}
  PROVE  TasksGood'
<1>1. ASSUME NEW g \in Handlers PROVE TaskGood(g)'
  BY <1>1 DEF TasksGood, TaskGood, IInv, TypeOK
<1> QED
  BY <1>1 DEF TasksGood

LEMMA RequestGood == ASSUME IInv, NEW h \in Handlers, Request(h) PROVE TasksGood'
<1> USE DEF IInv
<1>1. CASE StartCheck(h) \/ EndRoom(h)
  <2>1. [Idle EXCEPT !.pc = "startClaim", !.player = host] \in TaskState
    BY BeginTyped DEF TypeOK, Pcs
  <2>2. [Idle EXCEPT !.pc = "end", !.player = host] \in TaskState
    BY BeginTyped DEF TypeOK, Pcs
  <2> QED
    BY <1>1, <2>1, <2>2, Unaffected DEF StartCheck, EndRoom, room, seats, Idle
<1>2. ASSUME NEW p \in Players, Toggle(h, p) \/ Drop(h, p) PROVE TasksGood'
  <2>1. [Idle EXCEPT !.pc = "toggleRead", !.player = p] \in TaskState
    BY BeginTyped DEF Pcs
  <2>2. [Idle EXCEPT !.pc = "dropRead", !.player = p] \in TaskState
    BY BeginTyped DEF Pcs
  <2> QED
    BY <1>2, <2>1, <2>2, Unaffected DEF Toggle, Drop, room, seats, Idle
<1>3. ASSUME NEW p \in Players, JoinAdmit(h, p) PROVE TasksGood'
  <2>1. ASSUME NEW g \in Handlers PROVE TaskGood(g)'
    <3>1. CASE g = h
      BY <1>3, <3>1 DEF JoinAdmit, TaskGood, TypeOK, Idle, room, seats
    <3>2. CASE g # h
      <4>1. task[g].pc # "joinInsert"
        BY <1>3, MembershipAssumption DEF JoinAdmit, TasksGood, TaskGood
      <4> QED
        BY <1>3, <3>2, <4>1 DEF JoinAdmit, TasksGood, TaskGood, TypeOK
    <3> QED
      BY <3>1, <3>2
  <2> QED
    BY <2>1 DEF TasksGood
<1>4. ASSUME NEW p \in Players, Leave(h, p) PROVE TasksGood'
  <2>1. ASSUME NEW g \in Handlers PROVE TaskGood(g)'
    <3>1. CASE g = h
      BY <1>4, <3>1 DEF Leave, TaskGood, TypeOK, Idle
    <3>2. CASE g # h
      <4>1. Cardinality(seated) < MaxPlayers => Cardinality(seated') < MaxPlayers
        <5>1. seated' = seated \ {p}
          BY <1>4 DEF Leave
        <5>2. /\ Cardinality(seated) \in Nat /\ Cardinality(seated \ {p}) \in Nat
              /\ Cardinality(seated \ {p}) <= Cardinality(seated)
              /\ MaxPlayers \in Nat
          BY SeatsFinite, MembershipAssumption
        <5> QED
          BY <5>1, <5>2
      <4> QED
        BY <1>4, <3>2, <4>1 DEF Leave, TasksGood, TaskGood, TypeOK, room
    <3> QED
      BY <3>1, <3>2
  <2> QED
    BY <2>1 DEF TasksGood
<1> QED
  BY <1>1, <1>2, <1>3, <1>4 DEF Request

\* While the row is unlocked no join is on its way to a seat.
LEMMA UnlockedNoJoin ==
  ASSUME IInv, lock = None, NEW g \in Handlers
  PROVE  task[g].pc # "joinInsert"
  BY MembershipAssumption DEF IInv, TasksGood, TaskGood

LEMMA ResumeGood == ASSUME IInv, NEW h \in Handlers, Resume(h) PROVE TasksGood'
<1> USE DEF IInv
<1>1. CASE CreateSeat(h) \/ StartClaim(h) \/ EndGame(h) \/ HeirWrite(h)
  <2>1. ASSUME NEW g \in Handlers PROVE TaskGood(g)'
    <3>1. task[g].pc # "joinInsert"
      BY <1>1, UnlockedNoJoin DEF CreateSeat, StartClaim, EndGame, HeirWrite
    <3>2. CASE g = h
      <4>1. task'[h].pc \notin {"joinInsert", "heirWrite"}
        BY <1>1, IdlePc DEF CreateSeat, StartClaim, EndGame, HeirWrite, TypeOK, TaskState
      <4> QED
        BY <3>2, <4>1 DEF TaskGood
    <3>3. CASE g # h
      BY <1>1, <3>1, <3>3
         DEF CreateSeat, StartClaim, EndGame, HeirWrite, TasksGood, TaskGood, TypeOK
    <3> QED
      BY <3>2, <3>3
  <2> QED
    BY <2>1 DEF TasksGood
<1>2. CASE JoinInsert(h)
  <2>1. ASSUME NEW g \in Handlers PROVE TaskGood(g)'
    <3>1. CASE g = h
      <4>1. task'[h].pc \notin {"joinInsert", "heirWrite"}
        BY <1>2, IdlePc DEF JoinInsert, TypeOK, TaskState
      <4> QED
        BY <3>1, <4>1 DEF TaskGood
    <3>2. CASE g # h
      <4>1. task[g].pc # "joinInsert"
        BY <1>2, <3>2 DEF JoinInsert, TasksGood, TaskGood
      <4> QED
        BY <1>2, <3>2, <4>1 DEF JoinInsert, TasksGood, TaskGood, TypeOK
    <3> QED
      BY <3>1, <3>2
  <2> QED
    BY <2>1 DEF TasksGood
<1>3. CASE HeirRead(h)
  <2>1. ASSUME NEW g \in Handlers PROVE TaskGood(g)'
    <3>1. CASE g = h
      BY <1>3, <3>1 DEF HeirRead, TaskGood, TypeOK, TaskState
    <3>2. CASE g # h
      BY <1>3, <3>2 DEF HeirRead, TasksGood, TaskGood, TypeOK, room, seats
    <3> QED
      BY <3>1, <3>2
  <2> QED
    BY <2>1 DEF TasksGood
<1>4. CASE \/ JoinDeal(h) \/ ToggleRead(h) \/ ToggleWrite(h) \/ StartUnready(h)
           \/ StartList(h) \/ StartDeal(h) \/ StartDone(h) \/ DropRead(h) \/ HostLoss(h)
  <2>1. UNCHANGED <<status, seated, lock>>
    BY <1>4 DEF JoinDeal, ToggleRead, ToggleWrite, StartUnready, StartList, StartDeal,
                StartDone, DropRead, HostLoss, room, seats
  <2>2. /\ task'[h].pc \notin {"joinInsert", "heirWrite"}
        /\ \A g \in Handlers \ {h} : task'[g] = task[g]
    <3>1. CASE JoinDeal(h) \/ ToggleWrite(h) \/ StartUnready(h) \/ StartDone(h)
      BY <1>4, <3>1
         DEF JoinDeal, ToggleWrite, StartUnready, StartDone, TypeOK, TaskState, Idle
    <3>2. CASE ToggleRead(h) \/ StartList(h) \/ DropRead(h) \/ HostLoss(h)
      BY <1>4, <3>2
         DEF ToggleRead, StartList, DropRead, HostLoss, TypeOK, TaskState, Idle
    <3>3. CASE StartDeal(h)
      BY <1>4, <3>3 DEF StartDeal, TypeOK, TaskState, Idle
    <3> QED
      BY <1>4, <3>1, <3>2, <3>3
  <2>3. ASSUME NEW g \in Handlers PROVE TaskGood(g)'
    BY <2>1, <2>2 DEF TasksGood, TaskGood
  <2> QED
    BY <2>3 DEF TasksGood
<1> QED
  BY <1>1, <1>2, <1>3, <1>4 DEF Resume

LEMMA FailGood == ASSUME IInv, NEW h \in Handlers, Fail(h) PROVE TasksGood'
<1>1. ASSUME NEW g \in Handlers PROVE TaskGood(g)'
  BY <1>1, MembershipAssumption
     DEF Fail, IInv, TasksGood, TaskGood, TypeOK, Idle, room, seats
<1> QED
  BY <1>1 DEF TasksGood

LEMMA NextGood == ASSUME IInv, Next PROVE TasksGood'
<1>1. ASSUME NEW h \in Handlers, Request(h) \/ Resume(h) \/ Fail(h) PROVE TasksGood'
  BY <1>1, RequestGood, ResumeGood, FailGood
<1>2. ASSUME NEW p \in Players, Return(p) PROVE TasksGood'
  BY <1>2 DEF Return, IInv, TasksGood, TaskGood, room
<1> QED
  BY <1>1, <1>2 DEF Next

LEMMA InitGood == Init => IInv
<1> SUFFICES ASSUME Init PROVE IInv
  OBVIOUS
<1>1. /\ task \in [Handlers -> TaskState]
      /\ \A g \in Handlers : task[g].pc \notin {"joinInsert", "heirWrite"}
  <2>1. Idle \in TaskState /\ Idle.pc = "idle"
    BY IdleTyped DEF Idle
  <2>2. /\ [Idle EXCEPT !.pc = "createSeat"] \in TaskState
        /\ [Idle EXCEPT !.pc = "createSeat"].pc = "createSeat"
    BY DEF Idle, TaskState, Pcs
  <2>3. PICK h \in Handlers :
          task = [g \in Handlers |-> IF g = h THEN [Idle EXCEPT !.pc = "createSeat"] ELSE Idle]
    BY DEF Init
  <2> QED
    BY <2>1, <2>2, <2>3
<1>2. 0 \in 0..MaxFaults
  BY MembershipAssumption
<1> QED
  BY <1>1, <1>2, MembershipAssumption DEF Init, IInv, TypeOK, TasksGood, TaskGood

\* The invariant the theorems rest on.
THEOREM Invariance == Spec => []IInv
<1>1. IInv /\ [Next]_vars => IInv'
  <2>1. IInv /\ UNCHANGED vars => IInv'
    BY DEF IInv, TypeOK, TasksGood, TaskGood, vars, room, seats, ended
  <2> QED
    BY <2>1, NextTyped, NextGood DEF IInv
<1> QED
  BY <1>1, InitGood, PTL DEF Spec

\* A Player's flags and Hand never outlive their seat, whoever leaves while a
\* handler writes them.
THEOREM MembershipTyped == Spec => []TypeOK
<1>1. IInv => TypeOK
  BY DEF IInv
<1> QED
  BY <1>1, Invariance, PTL

\* No join seats a Player past maxPlayers or in a Room that is over, whatever
\* joins, leaves, starts and ends run beside it.
THEOREM SeatsBounded == Spec => JoinsRespectRoom
<1> DEFINE Respects == \A p \in (seated' \ seated) \ {Creator} :
                         Cardinality(seated') <= MaxPlayers /\ status' # "FINISHED"
<1>1. ASSUME IInv, NEW h \in Handlers, JoinInsert(h) PROVE Respects
  <2>1. /\ seated' = seated \cup {task[h].player} /\ status' = status
        /\ status # "FINISHED" /\ Cardinality(seated) < MaxPlayers
    BY <1>1 DEF JoinInsert, IInv, TasksGood, TaskGood, room
  <2>2. /\ Cardinality(seated) \in Nat
        /\ Cardinality(seated \cup {task[h].player}) \in Nat
        /\ Cardinality(seated \cup {task[h].player}) <= Cardinality(seated) + 1
        /\ MaxPlayers \in Nat
    BY <1>1, SeatsFinite, MembershipAssumption DEF IInv
  <2> QED
    BY <2>1, <2>2
<1>2. ASSUME IInv, Next, ~\E h \in Handlers : JoinInsert(h) PROVE Respects
  <2>1. seated' \subseteq seated \cup {Creator}
    BY <1>2 DEF Next, Request, Resume, StartCheck, EndRoom, JoinAdmit, Toggle, Leave, Drop,
                CreateSeat, JoinDeal, ToggleRead, ToggleWrite, StartClaim, StartUnready,
                StartList, StartDeal, StartDone, DropRead, HostLoss, HeirRead, HeirWrite,
                EndGame, Fail, Return, seats
  <2> QED
    BY <2>1
<1>3. IInv /\ [Next]_vars => [Respects]_vars
  BY <1>1, <1>2
<1> QED
  BY <1>3, Invariance, PTL DEF Spec, JoinsRespectRoom

\* A Room starts at most once, and never again once it is over.
THEOREM StatusForward == Spec => StatusAdvances
<1>1. Next => (status' # status => \/ status' = "FINISHED"
                                   \/ status = "LOBBY" /\ status' = "IN_PROGRESS")
  BY DEF Next, Request, Resume, StartCheck, EndRoom, JoinAdmit, Toggle, Leave, Drop,
         CreateSeat, JoinInsert, JoinDeal, ToggleRead, ToggleWrite, StartClaim,
         StartUnready, StartList, StartDeal, StartDone, DropRead, HostLoss, HeirRead,
         HeirWrite, EndGame, Fail, Return, room
<1> QED
  BY <1>1, PTL DEF Spec, StatusAdvances
-----------------------------------------------------------------------------
\* Hosts and Hands.  Both rest on what the creator waits for, and on the lock.

\* Until the creator has a seat nobody can start or end the Room, nor lose its Host.
CreationGood ==
  \A h \in Handlers : At(h, "createSeat") =>
    /\ status = "LOBBY"
    /\ \A g \in Handlers :
         /\ task[g].pc \notin {"startClaim", "startUnready", "startList", "startDeal", "end",
                               "heirRead", "heirWrite", "joinDeal"}
         /\ task[g].pc \in {"hostLoss", "dropRead"} => task[g].player # Creator

\* A Room in LOBBY is the creator's, and nothing of a game runs in it.
LobbyGood ==
  status = "LOBBY" =>
    /\ host = Creator
    /\ \A h \in Handlers : task[h].pc \notin {"startUnready", "startList", "startDeal",
                                              "heirRead", "heirWrite", "joinDeal"}

\* A join's reading of the Room holds as long as its lock.
LateGood ==
  \A h \in Handlers : At(h, "joinInsert") => task[h].late = (status = "IN_PROGRESS")

HostInv ==
  status = "LOBBY" /\ faults = 0 =>
    \/ host \in seated
    \/ \E h \in Handlers : At(h, "createSeat") \/ At(h, "end")
    \/ \E h \in Handlers : At(h, "hostLoss") /\ task[h].player = host

\* A Player without a Hand is on a start's list or deals to themselves.
Awaits(p) ==
  \E h \in Handlers : \/ At(h, "startDeal") /\ p \in task[h].list
                      \/ At(h, "joinDeal") /\ task[h].player = p

HandsInv ==
  status = "IN_PROGRESS" /\ ~threw /\ faults = 0 =>
    \/ \E h \in Handlers : task[h].pc \in {"startUnready", "startList"}
    \/ \A p \in seated \ dealt : Awaits(p)

HInv == CreationGood /\ LobbyGood /\ LateGood /\ HostInv /\ HandsInv
\* What a handler's step does to its program counter.
Moves(h) ==
  /\ \A g \in Handlers \ {h} : task'[g] = task[g]
  /\ task'[h].pc # "createSeat"
  /\ task'[h].pc = "joinInsert" =>
       task'[h].late = (status = "IN_PROGRESS") /\ lock = None /\ At(h, "idle")
  /\ task'[h].pc = "startClaim" => Knows(host)
  /\ task'[h].pc = "startUnready" => At(h, "startClaim") /\ status' = "IN_PROGRESS"
  /\ task'[h].pc = "startList" => At(h, "startUnready")
  /\ task'[h].pc = "startDeal" => At(h, "startList") \/ At(h, "startDeal")
  /\ task'[h].pc = "joinDeal" => At(h, "joinInsert") /\ task[h].late
  /\ task'[h].pc = "end" =>
       \/ Knows(host) \/ At(h, "heirRead")
       \/ At(h, "hostLoss") /\ task[h].player = host
  /\ task'[h].pc = "heirRead" => At(h, "hostLoss") /\ status = "IN_PROGRESS"
  /\ task'[h].pc = "heirWrite" => At(h, "heirRead")
  /\ task'[h].pc \in {"hostLoss", "dropRead"} =>
       Knows(task'[h].player) \/ (At(h, "dropRead") /\ status # "LOBBY")

LEMMA HandlerMoves ==
  ASSUME IInv, NEW h \in Handlers, Request(h) \/ Resume(h) \/ Fail(h)
  PROVE  Moves(h)
<1> task \in [Handlers -> TaskState] /\ task[h] \in TaskState
  BY DEF IInv, TypeOK
<1> USE DEF Moves, Idle, TaskState
<1>1. CASE Knows(host) /\ (StartCheck(h) \/ EndRoom(h))
  <2>1. CASE StartCheck(h)
    BY <1>1, <2>1 DEF StartCheck
  <2>2. CASE EndRoom(h)
    BY <1>1, <2>2 DEF EndRoom
  <2> QED
    BY <1>1, <2>1, <2>2
<1>2. ASSUME NEW p \in Players, Knows(p), JoinAdmit(h, p) PROVE Moves(h)
  BY <1>2 DEF JoinAdmit
<1>3. ASSUME NEW p \in Players, Knows(p), Toggle(h, p) PROVE Moves(h)
  BY <1>3 DEF Toggle
<1>4. ASSUME NEW p \in Players, Knows(p), Leave(h, p) PROVE Moves(h)
  BY <1>4 DEF Leave
<1>5. ASSUME NEW p \in Players, Knows(p), Drop(h, p) PROVE Moves(h)
  BY <1>5 DEF Drop
<1>6. CASE CreateSeat(h)
  BY <1>6 DEF CreateSeat
<1>7. CASE JoinInsert(h)
  BY <1>7 DEF JoinInsert
<1>8. CASE JoinDeal(h)
  BY <1>8 DEF JoinDeal
<1>9. CASE ToggleRead(h)
  BY <1>9 DEF ToggleRead
<1>10. CASE ToggleWrite(h)
  BY <1>10 DEF ToggleWrite
<1>11. CASE StartClaim(h)
  BY <1>11 DEF StartClaim
<1>12. CASE StartUnready(h)
  BY <1>12 DEF StartUnready
<1>13. CASE StartList(h)
  BY <1>13 DEF StartList
<1>14. CASE StartDeal(h)
  BY <1>14 DEF StartDeal
<1>15. CASE StartDone(h)
  BY <1>15 DEF StartDone
<1>16. CASE DropRead(h)
  BY <1>16 DEF DropRead
<1>17. CASE HostLoss(h)
  BY <1>17 DEF HostLoss
<1>18. CASE HeirRead(h)
  BY <1>18 DEF HeirRead
<1>19. CASE HeirWrite(h)
  BY <1>19 DEF HeirWrite
<1>20. CASE EndGame(h)
  BY <1>20 DEF EndGame
<1>21. CASE Fail(h)
  BY <1>21 DEF Fail
<1> QED
  BY <1>1, <1>2, <1>3, <1>4, <1>5, <1>6, <1>7, <1>8, <1>9, <1>10, <1>11, <1>12, <1>13, <1>14, <1>15, <1>16, <1>17, <1>18, <1>19, <1>20, <1>21 DEF Request, Resume
\* The Room row is written by whoever was at a claim, an heir or the end.
LEMMA RowMoves ==
  ASSUME IInv, NEW h \in Handlers, Request(h) \/ Resume(h) \/ Fail(h)
  PROVE  /\ status' # status => lock = None /\ (At(h, "startClaim") \/ At(h, "end"))
         /\ status' # status => \/ status' = "FINISHED"
                                \/ status = "LOBBY" /\ status' = "IN_PROGRESS"
         /\ host' # host => At(h, "heirWrite")
<1> USE DEF room
<1>1. CASE Request(h)
  BY <1>1 DEF Request, StartCheck, EndRoom, JoinAdmit, Toggle, Leave, Drop
<1>2. CASE Fail(h)
  BY <1>2 DEF Fail
<1>3. CASE Resume(h)
  BY <1>3 DEF Resume, CreateSeat, JoinInsert, JoinDeal, ToggleRead, ToggleWrite, StartClaim,
     StartUnready, StartList, StartDeal, StartDone, DropRead, HostLoss, HeirRead, HeirWrite, EndGame
<1> QED
  BY <1>1, <1>2, <1>3

LEMMA CreationKeeps ==
  ASSUME IInv, CreationGood, LobbyGood, LateGood,
         NEW h \in Handlers, Request(h) \/ Resume(h) \/ Fail(h)
  PROVE  CreationGood'
<1> SUFFICES ASSUME NEW g \in Handlers, task'[g].pc = "createSeat", NEW k \in Handlers
             PROVE  /\ status' = "LOBBY"
                    /\ task'[k].pc \notin {"startClaim", "startUnready", "startList", "startDeal",
                                           "end", "heirRead", "heirWrite", "joinDeal"}
                    /\ task'[k].pc \in {"hostLoss", "dropRead"} => task'[k].player # Creator
  BY DEF CreationGood
<1>1. Moves(h)
  BY HandlerMoves
<1>2. task[g].pc = "createSeat" /\ ~Knows(Creator)
  BY <1>1 DEF Moves, Knows
<1>3. /\ status = "LOBBY" /\ host = Creator
      /\ \A f \in Handlers :
           /\ task[f].pc \notin {"startClaim", "startUnready", "startList", "startDeal", "end",
                                 "heirRead", "heirWrite", "joinDeal"}
           /\ task[f].pc \in {"hostLoss", "dropRead"} => task[f].player # Creator
           /\ task[f].pc = "joinInsert" => ~task[f].late
  BY <1>2 DEF CreationGood, LobbyGood, LateGood
<1>4. status' = "LOBBY"
  BY <1>3, RowMoves
<1>5. CASE k = h
  BY <1>1, <1>2, <1>3, <1>4, <1>5 DEF Moves
<1>6. CASE k # h
  BY <1>1, <1>3, <1>4, <1>6 DEF Moves
<1> QED
  BY <1>5, <1>6

LEMMA LobbyKeeps ==
  ASSUME IInv, LobbyGood, LateGood, NEW h \in Handlers, Request(h) \/ Resume(h) \/ Fail(h)
  PROVE  LobbyGood'
<1> SUFFICES ASSUME status' = "LOBBY"
             PROVE  /\ host' = Creator
                    /\ \A k \in Handlers : task'[k].pc \notin {"startUnready", "startList", "startDeal",
                                                               "heirRead", "heirWrite", "joinDeal"}
  BY DEF LobbyGood
<1>1. Moves(h)
  BY HandlerMoves
<1>2. /\ status = "LOBBY" /\ host = Creator
      /\ \A f \in Handlers :
           /\ task[f].pc \notin {"startUnready", "startList", "startDeal",
                                 "heirRead", "heirWrite", "joinDeal"}
           /\ task[f].pc = "joinInsert" => ~task[f].late
  BY RowMoves DEF LobbyGood, LateGood
<1>3. host' = Creator
  BY <1>2, RowMoves
<1>4. ASSUME NEW k \in Handlers
      PROVE  task'[k].pc \notin {"startUnready", "startList", "startDeal", "heirRead", "heirWrite", "joinDeal"}
  <2>1. CASE k = h
    BY <1>1, <1>2, <2>1 DEF Moves
  <2>2. CASE k # h
    BY <1>1, <1>2, <2>2 DEF Moves
  <2> QED
    BY <2>1, <2>2
<1> QED
  BY <1>3, <1>4

LEMMA LateKeeps ==
  ASSUME IInv, LateGood, NEW h \in Handlers, Request(h) \/ Resume(h) \/ Fail(h)
  PROVE  LateGood'
<1> SUFFICES ASSUME NEW k \in Handlers, task'[k].pc = "joinInsert"
             PROVE  task'[k].late = (status' = "IN_PROGRESS")
  BY DEF LateGood
<1>1. Moves(h)
  BY HandlerMoves
<1>2. CASE k = h
  <2>1. lock = None /\ task'[k].late = (status = "IN_PROGRESS")
    BY <1>1, <1>2 DEF Moves
  <2>2. status' = status
    BY <1>1, <1>2, RowMoves DEF Moves
  <2> QED
    BY <2>1, <2>2
<1>3. CASE k # h
  <2>1. task'[k] = task[k] /\ task[k].pc = "joinInsert"
    BY <1>1, <1>3 DEF Moves
  <2>2. task[k].late = (status = "IN_PROGRESS")
    BY <2>1 DEF LateGood
  <2>3. lock # None
    BY <2>1, UnlockedNoJoin
  <2>4. status' = status
    BY <2>3, RowMoves
  <2> QED
    BY <2>1, <2>2, <2>4
<1> QED
  BY <1>2, <1>3

\* A seat is lost only by leaving, and a Host who leaves in LOBBY is being replaced.
LEMMA HostKeeps ==
  ASSUME IInv, CreationGood, LobbyGood, HostInv,
         NEW h \in Handlers, Request(h) \/ Resume(h) \/ Fail(h)
  PROVE  HostInv'
<1> SUFFICES ASSUME status' = "LOBBY", faults' = 0
             PROVE  \/ host' \in seated'
                    \/ \E k \in Handlers : task'[k].pc \in {"createSeat", "end"}
                    \/ \E k \in Handlers : task'[k].pc = "hostLoss" /\ task'[k].player = host'
  BY DEF HostInv
<1>1. Moves(h)
  BY HandlerMoves
<1>2. status = "LOBBY" /\ host = Creator /\ host' = host /\ task \in [Handlers -> TaskState]
  BY RowMoves DEF LobbyGood, IInv, TypeOK
<1>3. ~Fail(h) /\ faults = 0
  <2>1. faults \in Nat /\ faults' \in Nat /\ (Fail(h) => faults' = faults + 1)
    BY MembershipAssumption DEF IInv, TypeOK, Fail
  <2>2. ~Fail(h)
    BY <2>1
  <2>3. faults' = faults
    BY <2>2 DEF Request, Resume, StartCheck, EndRoom, JoinAdmit, Toggle, Leave, Drop,
       CreateSeat, JoinInsert, JoinDeal, ToggleRead, ToggleWrite, StartClaim,
       StartUnready, StartList, StartDeal, StartDone, DropRead, HostLoss, HeirRead, HeirWrite, EndGame, ended
  <2> QED
    BY <2>2, <2>3
<1>4. CASE \E p \in Players : Leave(h, p)
  <2>1. PICK p \in Players : Leave(h, p)
    BY <1>4
  <2>2. CASE p = host
    BY <1>2, <2>1, <2>2 DEF Leave, Idle
  <2>3. CASE p # host
    <3>1. host \in seated => host' \in seated'
      BY <1>2, <2>1, <2>3 DEF Leave
    <3>2. task[h].pc = "idle"
      BY <2>1, IdlePc DEF Leave
    <3> QED
      BY <1>1, <1>2, <1>3, <3>1, <3>2 DEF Moves, HostInv
  <2> QED
    BY <2>2, <2>3
<1>5. CASE ~\E p \in Players : Leave(h, p)
  <2>1. seated \subseteq seated'
    BY <1>3, <1>5 DEF Request, Resume, StartCheck, EndRoom, JoinAdmit, Toggle, Drop,
       CreateSeat, JoinInsert, JoinDeal, ToggleRead, ToggleWrite, StartClaim,
       StartUnready, StartList, StartDeal, StartDone, DropRead, HostLoss, HeirRead, HeirWrite, EndGame, seats
  <2>2. CASE task[h].pc = "createSeat"
    <3>1. CreateSeat(h)
      BY <1>3, <2>2, IdlePc DEF Request, Resume, StartCheck, EndRoom, JoinAdmit, Toggle, Drop, Leave,
         JoinInsert, JoinDeal, ToggleRead, ToggleWrite, StartClaim,
         StartUnready, StartList, StartDeal, StartDone, DropRead, HostLoss, HeirRead, HeirWrite, EndGame
    <3> QED
      BY <1>2, <3>1 DEF CreateSeat
  <2>3. CASE task[h].pc = "end"
    <3>1. EndGame(h)
      BY <1>3, <2>3, IdlePc DEF Request, Resume, StartCheck, EndRoom, JoinAdmit, Toggle, Drop, Leave,
         CreateSeat, JoinInsert, JoinDeal, ToggleRead, ToggleWrite, StartClaim,
         StartUnready, StartList, StartDeal, StartDone, DropRead, HostLoss, HeirRead, HeirWrite
    <3> QED
      BY <3>1 DEF EndGame
  <2>4. CASE task[h].pc = "hostLoss" /\ task[h].player = host
    <3>1. HostLoss(h)
      BY <1>3, <2>4, IdlePc DEF Request, Resume, StartCheck, EndRoom, JoinAdmit, Toggle, Drop, Leave,
         CreateSeat, JoinInsert, JoinDeal, ToggleRead, ToggleWrite, StartClaim,
         StartUnready, StartList, StartDeal, StartDone, DropRead, EndGame, HeirRead, HeirWrite
    <3> QED
      BY <1>2, <2>4, <3>1 DEF HostLoss, TaskState
  <2>5. CASE task[h].pc \notin {"createSeat", "end"} /\ ~(task[h].pc = "hostLoss" /\ task[h].player = host)
    BY <1>1, <1>2, <1>3, <2>1, <2>5 DEF Moves, HostInv
  <2> QED
    BY <2>2, <2>3, <2>4, <2>5
<1> QED
  BY <1>4, <1>5
\* Who is seated without a Hand in a started Room: the joiners, who deal to
\* themselves, and those a start has still to deal to.
LEMMA HandsKeep ==
  ASSUME IInv, CreationGood, LobbyGood, LateGood, HandsInv,
         NEW h \in Handlers, Request(h) \/ Resume(h) \/ Fail(h)
  PROVE  HandsInv'
<1> SUFFICES ASSUME status' = "IN_PROGRESS", ~threw', faults' = 0,
                    ~\E k \in Handlers : task'[k].pc \in {"startUnready", "startList"},
                    NEW p \in seated' \ dealt'
             PROVE  \E k \in Handlers :
                      \/ task'[k].pc = "startDeal" /\ p \in task'[k].list
                      \/ task'[k].pc = "joinDeal" /\ task'[k].player = p
  BY DEF HandsInv, Awaits
<1>1. Moves(h) /\ task \in [Handlers -> TaskState] /\ task[h] \in TaskState
  BY HandlerMoves DEF IInv, TypeOK
<1>2. status = "IN_PROGRESS"
  <2>1. CASE StartClaim(h)
    <3>1. Go(h, "startUnready") \/ status' = status
      BY <2>1 DEF StartClaim
    <3>2. Go(h, "startUnready") => task'[h].pc = "startUnready"
      BY <1>1 DEF TaskState
    <3> QED
      BY <3>1, <3>2
  <2>2. CASE ~StartClaim(h)
    BY <2>2 DEF Request, Resume, Fail, StartCheck, EndRoom, JoinAdmit, Toggle, Leave, Drop,
       CreateSeat, JoinInsert, JoinDeal, ToggleRead, ToggleWrite,
       StartUnready, StartList, StartDeal, StartDone, DropRead, HostLoss, HeirRead, HeirWrite, EndGame, room
  <2> QED
    BY <2>1, <2>2
<1>3. ~Fail(h)
  <2>1. faults \in Nat /\ faults' \in Nat /\ (Fail(h) => faults' = faults + 1)
    BY MembershipAssumption DEF IInv, TypeOK, Fail
  <2> QED
    BY <2>1
<1>4. ~threw /\ faults = 0
  BY <1>3 DEF Request, Resume, StartCheck, EndRoom, JoinAdmit, Toggle, Leave, Drop,
     CreateSeat, JoinInsert, JoinDeal, ToggleRead, ToggleWrite, StartClaim,
     StartUnready, StartList, StartDeal, StartDone, DropRead, HostLoss, HeirRead, HeirWrite, EndGame, ended,
     IInv, TypeOK
<1>5. ~CreateSeat(h)
  BY <1>2 DEF CreateSeat, CreationGood
<1>6. CASE StartUnready(h)
  BY <1>1, <1>6 DEF StartUnready
<1>7. CASE StartList(h)
  <2>1. task'[h].pc = "startDeal" /\ task'[h].list = seated /\ seated' = seated
    BY <1>1, <1>7 DEF StartList, TaskState, seats
  <2> QED
    BY <2>1
<1>8. CASE JoinInsert(h) /\ p = task[h].player
  <2>1. task[h].late
    BY <1>2, <1>8 DEF JoinInsert, LateGood
  <2>2. task'[h].pc = "joinDeal" /\ task'[h].player = p
    BY <1>1, <1>8, <2>1 DEF JoinInsert, TaskState
  <2> QED
    BY <2>2
<1>9. CASE /\ ~StartUnready(h) /\ ~StartList(h)
           /\ ~(JoinInsert(h) /\ p = task[h].player)
  <2>1. p \in seated \ dealt
    BY <1>3, <1>5, <1>9 DEF Request, Resume, StartCheck, EndRoom, JoinAdmit, Toggle, Leave, Drop,
       JoinInsert, JoinDeal, ToggleRead, ToggleWrite, StartClaim,
       StartDeal, StartDone, DropRead, HostLoss, HeirRead, HeirWrite, EndGame, seats
  <2>2. ASSUME NEW k \in Handlers, task[k].pc \in {"startUnready", "startList"} PROVE FALSE
    <3>1. k = h
      BY <1>1, <2>2 DEF Moves
    <3> QED
      BY <1>3, <1>9, <2>2, <3>1, IdlePc
         DEF Request, Resume, StartCheck, EndRoom, JoinAdmit, Toggle, Leave, Drop,
             CreateSeat, JoinInsert, JoinDeal, ToggleRead, ToggleWrite, StartClaim,
             StartDeal, StartDone, DropRead, HostLoss, HeirRead, HeirWrite, EndGame
  <2>3. PICK k \in Handlers : \/ At(k, "startDeal") /\ p \in task[k].list
                              \/ At(k, "joinDeal") /\ task[k].player = p
    BY <1>2, <1>4, <2>1, <2>2 DEF HandsInv, Awaits
  <2>4. CASE k # h
    BY <1>1, <2>3, <2>4 DEF Moves
  <2>5. CASE k = h /\ At(h, "startDeal")
    <3>1. StartDeal(h) \/ StartDone(h)
      BY <1>3, <2>5, IdlePc DEF Request, Resume, StartCheck, EndRoom, JoinAdmit, Toggle, Leave, Drop,
         CreateSeat, JoinInsert, JoinDeal, ToggleRead, ToggleWrite, StartClaim,
         StartUnready, StartList, DropRead, HostLoss, HeirRead, HeirWrite, EndGame
    <3>2. p \in task[h].list
      BY <2>3, <2>5
    <3>3. CASE StartDone(h)
      BY <3>2, <3>3 DEF StartDone
    <3>4. CASE StartDeal(h)
      <4>1. PICK q \in task[h].list : /\ q \in seated /\ dealt' = dealt \cup {q}
                                      /\ task' = [task EXCEPT ![h].list = @ \ {q}]
        BY <3>4 DEF StartDeal
      <4>2. q # p
        BY <4>1
      <4>3. task'[h].pc = "startDeal" /\ task'[h].list = task[h].list \ {q}
        BY <1>1, <2>5, <4>1 DEF TaskState
      <4> QED
        BY <3>2, <4>2, <4>3
    <3> QED
      BY <3>1, <3>3, <3>4
  <2>6. CASE k = h /\ At(h, "joinDeal")
    <3>1. JoinDeal(h)
      BY <1>3, <2>6, IdlePc DEF Request, Resume, StartCheck, EndRoom, JoinAdmit, Toggle, Leave, Drop,
         CreateSeat, JoinInsert, ToggleRead, ToggleWrite, StartClaim, StartDeal, StartDone,
         StartUnready, StartList, DropRead, HostLoss, HeirRead, HeirWrite, EndGame
    <3> QED
      BY <2>1, <2>3, <2>6, <3>1 DEF JoinDeal
  <2> QED
    BY <2>3, <2>4, <2>5, <2>6
<1> QED
  BY <1>6, <1>7, <1>8, <1>9

LEMMA HInvInit == Init => HInv
<1> SUFFICES ASSUME Init PROVE HInv
  OBVIOUS
<1>1. PICK h \in Handlers :
        task = [g \in Handlers |-> IF g = h THEN [Idle EXCEPT !.pc = "createSeat"] ELSE Idle]
  BY DEF Init
<1>2. task[h].pc = "createSeat" /\ \A g \in Handlers : task[g].pc \in {"createSeat", "idle"}
  BY <1>1 DEF Idle
<1> QED
  BY <1>2 DEF Init, HInv, CreationGood, LobbyGood, LateGood, HostInv, HandsInv

LEMMA HInvKeeps == ASSUME IInv, HInv, [Next]_vars PROVE HInv'
<1>1. ASSUME NEW h \in Handlers, Request(h) \/ Resume(h) \/ Fail(h) PROVE HInv'
  BY <1>1, CreationKeeps, LobbyKeeps, LateKeeps, HostKeeps, HandsKeep DEF HInv
<1>2. ASSUME NEW p \in Players, Return(p) PROVE HInv'
  BY <1>2 DEF Return, room, ended, HInv, CreationGood, LobbyGood, LateGood, HostInv, HandsInv, Awaits
<1>3. CASE UNCHANGED vars
  BY <1>3 DEF vars, room, seats, ended, HInv, CreationGood, LobbyGood, LateGood, HostInv, HandsInv, Awaits
<1> QED
  BY <1>1, <1>2, <1>3 DEF Next

LEMMA HInvariance == Spec => []HInv
  BY Invariance, HInvInit, HInvKeeps, PTL DEF Spec

\* ADR-0002: the Host rules "avoid orphaned lobbies".  A Room that waits to start
\* has its Host among the seated, whoever leaves, drops, joins, starts or ends
\* beside it, as long as no handler dies between a departure and its fallout.
THEOREM LobbyHasItsHost == Spec => []NoOrphanedLobby
<1>1. HInv => NoOrphanedLobby
  BY DEF HInv, HostInv, NoOrphanedLobby, Quiet, Idle
<1> QED
  BY <1>1, HInvariance, PTL

\* dealLateJoiner: a Player "would otherwise hold no cards".  A start deals to
\* whom it finds and a late joiner to themselves; however joins, leaves and
\* starts overlap, nobody falls between the two, as long as none of them fails.
THEOREM EverybodyHasAHand == Spec => []NobodyWithoutHand
<1>1. HInv => NobodyWithoutHand
  BY DEF HInv, HandsInv, Awaits, NobodyWithoutHand, Quiet, Idle
<1> QED
  BY <1>1, HInvariance, PTL

=============================================================================
