-------------------------- MODULE RoundClocksProofs --------------------------
(* What RoundClocks keeps for any number of handlers and instances, any       *)
(* windows, and any number of presence changes.                               *)
EXTENDS RoundClocks, TLAPS

LEMMA WindowElapses == ASSUME NEW ttl \in Nat, NEW d \in Window(ttl)
                       PROVE  Elapse(d) \in Window(ttl)
  BY ClocksAssumption DEF Elapse, Window

LEMMA ColumnElapses == ASSUME NEW ttl \in Nat, NEW d \in 0..ttl
                       PROVE  Elapse(d) \in 0..ttl
  BY ClocksAssumption DEF Elapse

LEMMA EarliestFits ==
  ASSUME NEW d \in Window(Longest)
  PROVE  Earliest(d, GraceWindow) \in 0..Longest
  BY ClocksAssumption DEF Earliest, Window, Longest

LEMMA LongestFits ==
  Longest \in Nat /\ JudgeWindow \in 0..Longest /\ GraceWindow \in 0..Longest
  BY ClocksAssumption DEF Longest

LEMMA IdleTyped == Idle \in TaskState
  BY DEF Idle, TaskState, Pcs, Window

LEMMA InitTyped == Init => TypeOK
<1> SUFFICES ASSUME Init PROVE TypeOK
  OBVIOUS
<1> DEFINE opening  == [Idle EXCEPT !.pc = "armPlay"]
           dropping == [Idle EXCEPT !.pc = "dropFind"]
<1>1. PICK opener, dropper \in Handlers :
        task = [s \in Slots |-> CASE s = opener -> opening
                                  [] s = dropper /\ s # opener -> dropping
                                  [] s \notin {opener, dropper} -> Idle]
  BY DEF Init
<1>2. opening \in TaskState /\ dropping \in TaskState
  BY DEF Idle, TaskState, Pcs, Window
<1>3. task \in [Slots -> TaskState]
  BY <1>1, <1>2, IdleTyped
<1>4. /\ key \in [Keys -> Nat \cup {None}]
      /\ key["play"] \in Window(PlayWindow)
      /\ key["judge"] \in Window(JudgeWindow)
      /\ key["grace"] \in Window(GraceWindow)
  BY DEF Init, Keys, Window
<1>5. playDue \in 0..PlayWindow /\ judgeDue \in Window(Longest)
  BY ClocksAssumption DEF Init, Window
<1>6. /\ status = "PLAYING" /\ answered = FALSE /\ active \in BOOLEAN
      /\ changes = 0 /\ faults = 0 /\ unheard = FALSE /\ orderly = TRUE
  BY DEF Init
<1>7. changes \in 0..MaxChanges /\ faults \in 0..MaxFaults
  BY <1>6, ClocksAssumption
<1> QED
  BY <1>3, <1>4, <1>5, <1>6, <1>7 DEF TypeOK, Ongoing

\* A handler goes on and writes none of the rows, keys or columns.
LEMMA OnlyHandler ==
  ASSUME TypeOK, NEW h \in Slots, NEW r \in TaskState,
         task' = [task EXCEPT ![h] = r], UNCHANGED <<row, key, cols, count>>
  PROVE  TypeOK'
  BY DEF TypeOK, row, cols, count

\* A handler arms or clears a key.
LEMMA KeyWritten ==
  ASSUME TypeOK, NEW h \in Slots, NEW r \in TaskState, NEW k \in Keys, NEW ttl,
         task' = [task EXCEPT ![h] = r], key' = [key EXCEPT ![k] = ttl],
         \/ k = "play" /\ ttl \in Window(PlayWindow)
         \/ k = "judge" /\ ttl \in Window(JudgeWindow)
         \/ k = "grace" /\ ttl \in Window(GraceWindow),
         UNCHANGED <<row, cols, count>>
  PROVE  TypeOK'
<1>1. ttl \in Nat \cup {None}
  BY ClocksAssumption DEF Window, Keys
<1>2. task' \in [Slots -> TaskState]
  BY DEF TypeOK
<1>3. key' \in [Keys -> Nat \cup {None}]
  BY <1>1 DEF TypeOK
<1>4. /\ key'["play"] \in Window(PlayWindow)
      /\ key'["judge"] \in Window(JudgeWindow)
      /\ key'["grace"] \in Window(GraceWindow)
  BY DEF TypeOK, Keys
<1> QED
  BY <1>2, <1>3, <1>4 DEF TypeOK, row, cols, count

\* A handler writes the judgeDeadline column.
LEMMA ColumnWritten ==
  ASSUME TypeOK, NEW h \in Slots, NEW r \in TaskState,
         task' = [task EXCEPT ![h] = r], judgeDue' \in Window(Longest),
         UNCHANGED <<row, key, playDue, count>>
  PROVE  TypeOK'
  BY DEF TypeOK, row, count

\* A handler writes the Round's phase.
LEMMA PhaseWritten ==
  ASSUME TypeOK, NEW h \in Slots, NEW r \in TaskState,
         task' = [task EXCEPT ![h] = r], status' \in Ongoing \cup Ended,
         UNCHANGED <<answered, active, key, cols, count>>
  PROVE  TypeOK'
  BY DEF TypeOK, cols, count

\* Where a handler can go next, it is still a handler.
LEMMA Moved ==
  ASSUME TypeOK, NEW h \in Slots, NEW pc \in Pcs
  PROVE  /\ [task[h] EXCEPT !.pc = pc] \in TaskState
         /\ [task EXCEPT ![h].pc = pc] = [task EXCEPT ![h] = [task[h] EXCEPT !.pc = pc]]
  BY DEF TypeOK, TaskState

LEMMA Began ==
  ASSUME NEW pc \in Pcs, NEW phase \in Ongoing \cup {"none"}, NEW due \in Window(Longest)
  PROVE  [pc |-> pc, phase |-> phase, due |-> due] \in TaskState
  BY DEF TaskState

USE DEF At, Go, Become, Stop, Free, Arm

\* The handlers that only read.
LEMMA ReadsTyped ==
  ASSUME TypeOK, NEW h \in Slots,
         \/ (h \in Handlers /\ AllPlayed(h)) \/ DropFind(h) \/ ReturnFind(h) \/ Reread(h)
         \/ OnExpired(h) \/ ReadPlays(h) \/ SweepFind(h) \/ AdvanceExpired(h)
  PROVE  TypeOK'
<1>t. /\ UNCHANGED <<row, key, cols, count>>
      /\ \E r \in TaskState : task' = [task EXCEPT ![h] = r]
  <2>1. CASE AllPlayed(h) \/ ReturnFind(h)
    BY <2>1, IdleTyped DEF AllPlayed, ReturnFind, Idle, TaskState, Pcs, Ongoing
  <2>2. CASE DropFind(h) \/ SweepFind(h)
    BY <2>2, IdleTyped DEF DropFind, SweepFind, Idle, TaskState, Pcs, Ongoing, TypeOK
  <2>3. CASE Reread(h) \/ ReadPlays(h) \/ OnExpired(h) \/ AdvanceExpired(h)
    <3>1. \A pc \in {"armJudgeKey", "claimJudging", "abort", "readPlays"} :
            /\ [task[h] EXCEPT !.pc = pc] \in TaskState
            /\ [task EXCEPT ![h].pc = pc] = [task EXCEPT ![h] = [task[h] EXCEPT !.pc = pc]]
      BY Moved DEF Pcs
    <3> QED
      BY <2>3, <3>1, IdleTyped DEF Reread, ReadPlays, OnExpired, AdvanceExpired
  <2> QED
    BY <2>1, <2>2, <2>3
<1>r. PICK r \in TaskState : task' = [task EXCEPT ![h] = r]
  BY <1>t
<1> QED
  BY <1>t, <1>r, OnlyHandler

\* The handlers that arm or clear a key.
LEMMA KeysTyped ==
  ASSUME TypeOK, NEW h \in Slots,
         ArmPlay(h) \/ ArmJudgeKey(h) \/ ArmGraceKey(h) \/ ClearGrace(h)
  PROVE  TypeOK'
<1>m. \A pc \in {"armJudgeColumn", "armGraceColumn", "armJudgeKey", "forgetGrace"} :
        /\ [task[h] EXCEPT !.pc = pc] \in TaskState
        /\ [task EXCEPT ![h].pc = pc] = [task EXCEPT ![h] = [task[h] EXCEPT !.pc = pc]]
  BY Moved DEF Pcs
<1>k. /\ "play" \in Keys /\ "judge" \in Keys /\ "grace" \in Keys
      /\ PlayWindow \in Window(PlayWindow) /\ JudgeWindow \in Window(JudgeWindow)
      /\ GraceWindow \in Window(GraceWindow) /\ None \in Window(GraceWindow)
  BY ClocksAssumption DEF Keys, Window
<1>1. CASE ArmPlay(h)
  <2>1. /\ task' = [task EXCEPT ![h] = Idle] /\ key' = [key EXCEPT !["play"] = PlayWindow]
        /\ UNCHANGED <<row, cols, count>>
    BY <1>1 DEF ArmPlay
  <2> QED
    BY <2>1, <1>k, KeyWritten, IdleTyped
<1>2. CASE ArmJudgeKey(h)
  <2>1. PICK r \in TaskState : task' = [task EXCEPT ![h] = r]
    BY <1>2, <1>m DEF ArmJudgeKey
  <2>2. key' = [key EXCEPT !["judge"] = JudgeWindow] /\ UNCHANGED <<row, cols, count>>
    BY <1>2 DEF ArmJudgeKey
  <2> QED
    BY <2>1, <2>2, <1>k, KeyWritten
<1>3. CASE ArmGraceKey(h)
  <2>1. PICK r \in TaskState : task' = [task EXCEPT ![h] = r]
    BY <1>3, <1>m DEF ArmGraceKey
  <2>2. key' = [key EXCEPT !["grace"] = GraceWindow] /\ UNCHANGED <<row, cols, count>>
    BY <1>3 DEF ArmGraceKey
  <2> QED
    BY <2>1, <2>2, <1>k, KeyWritten
<1>4. CASE ClearGrace(h)
  <2>1. PICK r \in TaskState : task' = [task EXCEPT ![h] = r]
    BY <1>4, <1>m DEF ClearGrace
  <2>2. key' = [key EXCEPT !["grace"] = None] /\ UNCHANGED <<row, cols, count>>
    BY <1>4 DEF ClearGrace
  <2> QED
    BY <2>1, <2>2, <1>k, KeyWritten
<1> QED
  BY <1>1, <1>2, <1>3, <1>4

\* The handlers that write the column.
LEMMA ColumnsTyped ==
  ASSUME TypeOK, NEW h \in Slots,
         ArmJudgeColumn(h) \/ ArmGraceColumn(h) \/ ForgetGrace(h)
  PROVE  TypeOK'
<1>1. CASE ArmJudgeColumn(h)
  BY <1>1, ColumnWritten, IdleTyped, LongestFits DEF ArmJudgeColumn, Window
<1>2. CASE ArmGraceColumn(h)
  <2>1. task[h].due \in Window(Longest)
    BY DEF TypeOK, TaskState
  <2>2. judgeDue' \in Window(Longest)
    BY <1>2, <2>1, EarliestFits DEF ArmGraceColumn, Window
  <2> QED
    BY <1>2, <2>2, ColumnWritten, IdleTyped DEF ArmGraceColumn
<1>3. CASE ForgetGrace(h)
  <2>1. PICK r \in TaskState : task' = [task EXCEPT ![h] = r]
    BY <1>3, Moved DEF ForgetGrace, Pcs
  <2> QED
    BY <1>3, <2>1, ColumnWritten DEF ForgetGrace, Window
<1> QED
  BY <1>1, <1>2, <1>3

\* The claims.
LEMMA PhasesTyped ==
  ASSUME TypeOK, NEW h \in Slots, ClaimJudging(h) \/ Abort(h)
  PROVE  TypeOK'
<1>1. status' \in Ongoing \cup Ended
  BY DEF TypeOK, ClaimJudging, Abort, Ongoing, Ended
<1>2. PICK r \in TaskState : task' = [task EXCEPT ![h] = r]
  BY Moved, IdleTyped DEF ClaimJudging, Abort, Pcs
<1> QED
  BY <1>1, <1>2, PhaseWritten DEF ClaimJudging, Abort

\* The environment.
LEMMA TickTyped == ASSUME TypeOK, Tick PROVE TypeOK'
<1>1. key' \in [Keys -> Nat \cup {None}]
  BY DEF Tick, TypeOK, Elapse
<1>2. /\ key'["play"] = Elapse(key["play"])
      /\ key'["judge"] = Elapse(key["judge"])
      /\ key'["grace"] = Elapse(key["grace"])
  BY DEF Tick, Keys
<1>3. /\ key'["play"] \in Window(PlayWindow)
      /\ key'["judge"] \in Window(JudgeWindow)
      /\ key'["grace"] \in Window(GraceWindow)
  BY <1>2, WindowElapses, ClocksAssumption DEF TypeOK
<1>4. playDue' \in 0..PlayWindow
  BY ColumnElapses, ClocksAssumption DEF Tick, TypeOK
<1>5. judgeDue' \in Window(Longest)
  BY WindowElapses, LongestFits DEF Tick, TypeOK
<1>6. task' \in [Slots -> TaskState]
  <2>1. ASSUME NEW h \in Slots
        PROVE  [task[h] EXCEPT !.due = Elapse(@)] \in TaskState
    BY WindowElapses, LongestFits DEF TypeOK, TaskState
  <2> QED
    BY <2>1 DEF Tick
<1> QED
  BY <1>1, <1>3, <1>4, <1>5, <1>6 DEF Tick, TypeOK, row, count

LEMMA PresenceTyped ==
  ASSUME TypeOK, NEW h \in Handlers, Drop(h) \/ Return(h)
  PROVE  TypeOK'
<1>1. task' \in [Slots -> TaskState]
  BY DEF Drop, Return, TypeOK, Idle, TaskState, Pcs, Window
<1>2. PresenceChanges
  BY DEF Drop, Return
<1>3. changes' \in 0..MaxChanges
  BY <1>2, ClocksAssumption DEF PresenceChanges, TypeOK
<1>4. orderly' \in BOOLEAN
  BY <1>2 DEF PresenceChanges
<1> QED
  BY <1>1, <1>3, <1>4 DEF Drop, Return, TypeOK, cols

LEMMA ExpiryTyped ==
  ASSUME TypeOK, NEW k \in Keys, Expire(k)
  PROVE  TypeOK'
<1>1. task' \in [Slots -> TaskState]
  <2>1. [Idle EXCEPT !.pc = k] \in TaskState
    BY DEF Idle, TaskState, Pcs, Window
  <2> QED
    BY <2>1 DEF Expire, TypeOK
<1>2. key' \in [Keys -> Nat \cup {None}] /\ key' = [key EXCEPT ![k] = None]
  BY DEF Expire, TypeOK
<1>3. /\ key'["play"] \in Window(PlayWindow)
      /\ key'["judge"] \in Window(JudgeWindow)
      /\ key'["grace"] \in Window(GraceWindow)
  BY <1>2 DEF TypeOK, Keys, Window
<1>4. unheard' \in BOOLEAN
  BY DEF Expire, TypeOK
<1> QED
  BY <1>1, <1>2, <1>3, <1>4 DEF Expire, TypeOK, row, cols

LEMMA FailTyped == ASSUME TypeOK, NEW h \in Slots, Fail(h) PROVE TypeOK'
<1>1. task' \in [Slots -> TaskState]
  BY IdleTyped DEF Fail, TypeOK
<1> QED
  BY <1>1, ClocksAssumption DEF Fail, TypeOK, row, cols

LEMMA OthersTyped == ASSUME TypeOK, Answer \/ Pick PROVE TypeOK'
  BY DEF Answer, Pick, TypeOK, Ongoing, Ended, cols, count

LEMMA NextTyped == ASSUME TypeOK, Next PROVE TypeOK'
<1>1. CASE Tick
  BY <1>1, TickTyped
<1>2. CASE Answer \/ Pick
  BY <1>2, OthersTyped
<1>3. CASE \E h \in Handlers : AllPlayed(h) \/ Drop(h) \/ Return(h)
  BY <1>3, ReadsTyped, PresenceTyped DEF Slots
<1>4. CASE \E k \in Keys : Expire(k)
  BY <1>4, ExpiryTyped
<1>5. CASE \E s \in Sweepers : SweepFind(s)
  BY <1>5, ReadsTyped DEF Slots
<1>6. ASSUME NEW h \in Slots, Resume(h) PROVE TypeOK'
  BY <1>6, ReadsTyped, KeysTyped, ColumnsTyped, PhasesTyped DEF Resume
<1>7. CASE \E h \in Slots : Fail(h)
  BY <1>7, FailTyped
<1> QED
  BY <1>1, <1>2, <1>3, <1>4, <1>5, <1>6, <1>7 DEF Next

\* Deadlines stay within the windows they were armed with, whatever arms,
\* clears and mirrors them.
THEOREM DeadlinesTyped == Spec => []TypeOK
<1>1. TypeOK /\ UNCHANGED vars => TypeOK'
  BY DEF TypeOK, vars, row, cols, count
<1> QED
  BY <1>1, InitTyped, NextTyped, PTL DEF Spec

-----------------------------------------------------------------------------
\* JudgingHasDeadline needs no strengthening but the types: what makes it
\* inductive is that it counts the handlers on their way to the column.

\* Who can move handler g: a step of another leaves it where it is.
LEMMA Elsewhere ==
  ASSUME TypeOK, NEW g \in Slots, NEW h \in Slots, g # h,
         Resume(h) \/ SweepFind(h) \/ AllPlayed(h) \/ Drop(h) \/ Return(h)
  PROVE  task'[g] = task[g]
<1>1. (\E r : task' = [task EXCEPT ![h] = r]) \/ task' = task
        \/ \E pc : task' = [task EXCEPT ![h].pc = pc]
  BY DEF Resume, ArmPlay, ClaimJudging, ArmJudgeKey, ArmJudgeColumn, DropFind,
         ArmGraceKey, ArmGraceColumn, ReturnFind, ClearGrace, ForgetGrace, Reread,
         OnExpired, ReadPlays, Abort, AdvanceExpired, SweepFind, AllPlayed, Drop,
         Return
<1> QED
  BY <1>1 DEF TypeOK

\* A handler on its way to the column gets there, or hands over to a later stage.
LEMMA ArmingArrives ==
  ASSUME TypeOK, NEW g \in Slots, Arming(g), Resume(g)
  PROVE  Arming(g)' \/ judgeDue' # None \/ status' # "JUDGING"
<1>1. CASE ArmJudgeKey(g) \/ ArmGraceKey(g) \/ ForgetGrace(g)
  BY <1>1 DEF ArmJudgeKey, ArmGraceKey, ForgetGrace, Arming, TypeOK, TaskState
<1>2. CASE ArmJudgeColumn(g)
  BY <1>2, ClocksAssumption DEF ArmJudgeColumn
<1>3. CASE ArmGraceColumn(g)
  <2>1. task[g].due \in Window(Longest)
    BY DEF TypeOK, TaskState
  <2> QED
    BY <1>3, <2>1, EarliestFits, ClocksAssumption DEF ArmGraceColumn
<1>4. CASE Reread(g)
  BY <1>4 DEF Reread, Arming, TypeOK, TaskState, row
<1> QED
  BY <1>1, <1>2, <1>3, <1>4
     DEF Arming, Resume, ArmPlay, ClaimJudging, DropFind, ReturnFind, ClearGrace,
         OnExpired, ReadPlays, Abort, AdvanceExpired, Keys

\* Only releaseGrace clears the column, and it looks at the Round again.
LEMMA ColumnStays ==
  ASSUME TypeOK, NEW h \in Slots, judgeDue # None, Resume(h)
  PROVE  judgeDue' # None \/ Arming(h)'
<1>1. CASE ForgetGrace(h)
  BY <1>1 DEF ForgetGrace, Arming, TypeOK, TaskState
<1>2. CASE ArmJudgeColumn(h)
  BY <1>2, ClocksAssumption DEF ArmJudgeColumn
<1>3. CASE ArmGraceColumn(h)
  <2>1. task[h].due \in Window(Longest)
    BY DEF TypeOK, TaskState
  <2> QED
    BY <1>3, <2>1, EarliestFits, ClocksAssumption DEF ArmGraceColumn
<1> QED
  BY <1>1, <1>2, <1>3
     DEF Resume, ArmPlay, ClaimJudging, ArmJudgeKey, DropFind, ArmGraceKey,
         ReturnFind, ClearGrace, Reread, OnExpired, ReadPlays, Abort, AdvanceExpired, cols

\* Judging opens with a deadline or with a handler about to write one.
LEMMA OpensWithDeadline ==
  ASSUME TypeOK, NEW h \in Slots, status # "JUDGING", status' = "JUDGING", Resume(h)
  PROVE  judgeDue' # None \/ Arming(h)'
<1>1. CASE ClaimJudging(h)
  BY <1>1 DEF ClaimJudging, Arming, TypeOK, TaskState, cols
<1> QED
  BY <1>1
     DEF Resume, ArmPlay, ArmJudgeKey, ArmJudgeColumn, DropFind, ArmGraceKey,
         ArmGraceColumn, ReturnFind, ClearGrace, ForgetGrace, Reread, OnExpired,
         ReadPlays, Abort, AdvanceExpired, row

LEMMA DeadlineKept ==
  ASSUME TypeOK, JudgingHasDeadline, Next
  PROVE  JudgingHasDeadline'
<1> SUFFICES ASSUME faults' = 0, status' = "JUDGING"
             PROVE  judgeDue' # None \/ \E h \in Slots : Arming(h)'
  BY DEF JudgingHasDeadline
<1>1. CASE Tick
  <2>1. faults = 0 /\ status = "JUDGING"
    BY <1>1 DEF Tick, row, count
  <2>2. CASE judgeDue # None
    <3>1. judgeDue \in 0..Longest
      BY <2>2 DEF TypeOK, Window
    <3> QED
      BY <1>1, <3>1, ColumnElapses, LongestFits, ClocksAssumption DEF Tick
  <2>3. ASSUME NEW g \in Slots, Arming(g) PROVE Arming(g)'
    BY <1>1, <2>3 DEF Tick, Arming, TypeOK, TaskState
  <2> QED
    BY <2>1, <2>2, <2>3 DEF JudgingHasDeadline
<1>2. CASE Answer \/ Pick
  BY <1>2 DEF Answer, Pick, Arming, JudgingHasDeadline, cols, count
<1>3. ASSUME NEW h \in Slots,
             AllPlayed(h) \/ Drop(h) \/ Return(h) \/ SweepFind(h)
      PROVE  judgeDue' # None \/ \E g \in Slots : Arming(g)'
  <2>1. faults = 0 /\ status = "JUDGING" /\ judgeDue' = judgeDue
    BY <1>3 DEF AllPlayed, Drop, Return, SweepFind, row, cols, count
  <2>2. ASSUME NEW g \in Slots, Arming(g) PROVE Arming(g)'
    <3>1. task[h] = Idle \/ task' = task
      BY <1>3 DEF AllPlayed, Drop, Return, SweepFind
    <3>2. task'[g] = task[g]
      BY <1>3, <2>2, <3>1, Elsewhere DEF Arming, Idle
    <3> QED
      BY <2>2, <3>2 DEF Arming
  <2> QED
    BY <2>1, <2>2 DEF JudgingHasDeadline
<1>4. ASSUME NEW h \in Slots, Resume(h)
      PROVE  judgeDue' # None \/ \E g \in Slots : Arming(g)'
  <2>1. faults = 0
    BY <1>4 DEF Resume, ArmPlay, ClaimJudging, ArmJudgeKey, ArmJudgeColumn, DropFind,
                ArmGraceKey, ArmGraceColumn, ReturnFind, ClearGrace, ForgetGrace,
                Reread, OnExpired, ReadPlays, Abort, AdvanceExpired, count
  <2>2. CASE status # "JUDGING"
    BY <1>4, <2>2, OpensWithDeadline
  <2>3. CASE judgeDue # None
    BY <1>4, <2>3, ColumnStays
  <2>4. ASSUME NEW g \in Slots, Arming(g) PROVE judgeDue' # None \/ Arming(g)'
    <3>1. CASE g = h
      BY <1>4, <2>4, <3>1, ArmingArrives
    <3>2. CASE g # h
      BY <1>4, <2>4, <3>2, Elsewhere DEF Arming
    <3> QED
      BY <3>1, <3>2
  <2> QED
    BY <2>1, <2>2, <2>3, <2>4 DEF JudgingHasDeadline
<1>5. ~\E h \in Slots : Fail(h)
  BY DEF Fail, TypeOK
<1>6. ASSUME NEW k \in Keys, Expire(k)
      PROVE  judgeDue' # None \/ \E g \in Slots : Arming(g)'
  <2>1. faults = 0 /\ status = "JUDGING" /\ judgeDue' = judgeDue
    BY <1>6 DEF Expire, row, cols
  <2>2. ASSUME NEW g \in Slots, Arming(g) PROVE Arming(g)'
    BY <1>6, <2>2 DEF Expire, Arming, Free, Idle
  <2> QED
    BY <2>1, <2>2 DEF JudgingHasDeadline
<1>7. Handlers \subseteq Slots /\ Sweepers \subseteq Slots
  BY DEF Slots
<1> QED
  BY <1>1, <1>2, <1>3, <1>4, <1>5, <1>6, <1>7 DEF Next

\* "Without one the Round never ends": a Round in judging has a deadline the
\* sweep will find, or a handler about to write one, for any number of drops,
\* returns and handlers, as long as none of them dies.
THEOREM JudgingDeadline == Spec => []JudgingHasDeadline
<1>1. Init => JudgingHasDeadline
  BY DEF Init, JudgingHasDeadline
<1>2. TypeOK /\ JudgingHasDeadline /\ [Next]_vars => JudgingHasDeadline'
  <2>1. JudgingHasDeadline /\ UNCHANGED vars => JudgingHasDeadline'
    BY DEF JudgingHasDeadline, Arming, vars, row, cols, count
  <2> QED
    BY <2>1, DeadlineKept
<1> QED
  BY <1>1, <1>2, DeadlinesTyped, PTL DEF Spec
-----------------------------------------------------------------------------
\* The grace follows the Judge's presence.

HIDE DEF Go, Become, Stop

\* Where a handler of a drop, or of a return, can be.
Dropping == {"dropFind", "armGraceKey", "armGraceColumn"}
Returning == {"clearGrace", "forgetGrace", "reread", "armJudgeKey", "armJudgeColumn"}
JudgeArming == {"armJudgeKey", "armJudgeColumn"}

\* A handler that has come to one of these places.
Somewhere(places) == \E h \in Slots : task[h].pc \in places

\* What a handler read of the Round and of the Judge still holds for it.
PresenceRead(h) ==
  /\ task[h].pc \in Dropping \cup {"returnFind", "clearGrace", "forgetGrace", "reread"} \cup Keys =>
       h \in Handlers
  /\ h \in Handlers /\ task[h].phase # "none" => task[h].pc \in Returning
  /\ task[h].pc \in {"clearGrace", "forgetGrace", "reread"} => task[h].phase # "none"
  /\ task[h].pc = "forgetGrace" => task[h].phase = "PLAYING"
  /\ task[h].pc \in Dropping => ~active
  /\ task[h].pc = "returnFind" \/ (h \in Handlers /\ task[h].phase # "none") => active
  /\ task[h].pc \in JudgeArming => status # "PLAYING"
  /\ h \in Handlers /\ task[h].phase = "JUDGING" => status # "PLAYING"

\* A Judge who is away has a grace, or will have; one who is there has none, or
\* will be rid of it, and has the judging window for themselves.
DeadlinesFollow ==
  /\ ~active /\ changes > 0 =>
       \/ key["grace"] # None \/ unheard
       \/ Somewhere({"dropFind", "armGraceKey", "grace", "abort"})
  /\ active => key["grace"] = None \/ Somewhere({"returnFind", "clearGrace"})
  /\ active /\ status = "PLAYING" =>
       judgeDue = None \/ Somewhere({"returnFind", "clearGrace", "forgetGrace"})
  /\ status = "PLAYING" => key["judge"] = None
  /\ active /\ key["judge"] # None =>
       \/ judgeDue # None /\ judgeDue >= key["judge"]
       \/ Somewhere(Returning \cup {"returnFind"})

OneChange == \A g, h \in Handlers : ChangingPresence(g) /\ ChangingPresence(h) => g = h

PresenceInv ==
  orderly /\ faults = 0 /\ status \in Ongoing =>
    OneChange /\ DeadlinesFollow /\ \A h \in Slots : PresenceRead(h)

\* A handler's step, of those that leave the Judge's presence alone.
Others(h) == \A g \in Slots \ {h} : task'[g] = task[g]

\* The invariant survives if the handler itself keeps to it.
LEMMA HandlerKeeps ==
  ASSUME TypeOK, TypeOK', PresenceInv, orderly, faults = 0, status \in Ongoing, NEW h \in Slots,
         Others(h), UNCHANGED active, status' = status \/ status' = "JUDGING",
         PresenceRead(h)', ChangingPresence(h)' => ChangingPresence(h), DeadlinesFollow'
  PROVE  PresenceInv'
  <1>1. OneChange /\ \A g \in Slots : PresenceRead(g)
    BY DEF PresenceInv
  <1>2. ASSUME NEW g \in Slots, g # h PROVE PresenceRead(g)'
    BY <1>1, <1>2 DEF PresenceRead, Others
  <1>3. ASSUME NEW g \in Handlers, g # h PROVE ChangingPresence(g)' <=> ChangingPresence(g)
    BY <1>3 DEF ChangingPresence, Others, Slots
  <1>4. OneChange'
    BY <1>1, <1>3 DEF OneChange
  <1> QED
    BY <1>2, <1>4 DEF PresenceInv

\* Where a handler's step leads it; the rest of them stay.
LEMMA Steps ==
  ASSUME TypeOK, NEW h \in Slots, Resume(h)
  PROVE  /\ Others(h) /\ UNCHANGED <<active, count>>
         /\ \A pc : Go(h, pc) => task'[h].pc = pc /\ task'[h].phase = task[h].phase
         /\ \A r : Become(h, r) => task'[h] = r
         /\ Stop(h) => task'[h].pc = "idle" /\ task'[h].phase = "none"
  <1>1. Others(h)
    BY Elsewhere DEF Others
  <1>2. UNCHANGED <<active, count>>
    BY DEF Resume, ArmPlay, ClaimJudging, ArmJudgeKey, ArmJudgeColumn, DropFind, ArmGraceKey,
       ArmGraceColumn, ReturnFind, ClearGrace, ForgetGrace, Reread, OnExpired, ReadPlays, Abort,
       AdvanceExpired, row
  <1>3. task \in [Slots -> TaskState]
    BY DEF TypeOK
  <1> QED
    BY <1>1, <1>2, <1>3 DEF TaskState, Idle, Go, Become, Stop

LEMMA ResumeKeeps ==
  ASSUME TypeOK, TypeOK', PresenceInv, orderly, faults = 0, status \in Ongoing, status' \in Ongoing,
         NEW h \in Slots, Resume(h)
  PROVE  PresenceInv'
  <1> DEFINE Keeps == /\ PresenceRead(h)' /\ (ChangingPresence(h)' => ChangingPresence(h))
                      /\ DeadlinesFollow'
  <1>1. /\ Others(h) /\ UNCHANGED <<active, changes, faults, unheard, orderly>>
        /\ \A pc : Go(h, pc) => task'[h].pc = pc /\ task'[h].phase = task[h].phase
        /\ \A r : Become(h, r) => task'[h] = r
        /\ Stop(h) => task'[h].pc = "idle" /\ task'[h].phase = "none"
    BY Steps DEF count
  <1>2. DeadlinesFollow /\ PresenceRead(h)
    BY DEF PresenceInv
  <1>3. ASSUME NEW places, Somewhere(places), task[h].pc \notin places PROVE Somewhere(places)'
    BY <1>1, <1>3 DEF Somewhere, Others
  <1>4. ASSUME NEW places, task'[h].pc \in places PROVE Somewhere(places)'
    BY <1>4 DEF Somewhere
  <1> USE DEF row, cols
  <1>5. CASE ArmPlay(h)
    <2>1. /\ task[h].pc = "armPlay" /\ task'[h].pc = "idle" /\ task'[h].phase = "none"
          /\ UNCHANGED <<status, judgeDue>> /\ key'["grace"] = key["grace"] /\ key'["judge"] = key["judge"]
      BY <1>1, <1>5 DEF ArmPlay, TypeOK
    <2>2. Keeps
      BY <1>1, <1>2, <1>3, <1>4, <2>1 DEF PresenceRead, ChangingPresence, DeadlinesFollow, Dropping, Returning, JudgeArming, Keys
    <2> QED
      BY <1>1, <2>1, <2>2, HandlerKeeps
  <1>6. CASE ClaimJudging(h)
    <2>1. /\ task[h].pc = "claimJudging" /\ UNCHANGED <<judgeDue, key>>
          /\ status' = status \/ status' = "JUDGING"
          /\ \/ task'[h].pc = "idle" /\ task'[h].phase = "none"
             \/ /\ task'[h].pc = "armJudgeKey" /\ task'[h].phase = task[h].phase
                /\ status' = "JUDGING"
      BY <1>1, <1>6 DEF ClaimJudging, TypeOK, Ongoing
    <2>2. Keeps
      BY <1>1, <1>2, <1>3, <1>4, <2>1 DEF PresenceRead, ChangingPresence, DeadlinesFollow, Dropping, Returning, JudgeArming, Keys
    <2> QED
      BY <1>1, <2>1, <2>2, HandlerKeeps
  <1>7. CASE ArmJudgeKey(h)
    <2>1. /\ task[h].pc = "armJudgeKey" /\ task'[h].pc = "armJudgeColumn"
          /\ task'[h].phase = task[h].phase
          /\ UNCHANGED <<status, judgeDue>> /\ key'["grace"] = key["grace"]
      BY <1>1, <1>7 DEF ArmJudgeKey, TypeOK, Keys
    <2>2. Keeps
      BY <1>1, <1>2, <1>3, <1>4, <2>1 DEF PresenceRead, ChangingPresence, DeadlinesFollow, Dropping, Returning, JudgeArming, Keys
    <2> QED
      BY <1>1, <2>1, <2>2, HandlerKeeps
  <1>8. CASE ArmJudgeColumn(h)
    <2>1. /\ task[h].pc = "armJudgeColumn" /\ task'[h].pc = "idle" /\ task'[h].phase = "none"
          /\ UNCHANGED <<status, key>> /\ judgeDue' = JudgeWindow
          /\ key["judge"] # None => key["judge"] \in 0..JudgeWindow
          /\ JudgeWindow \in Nat /\ JudgeWindow # None
      BY <1>1, <1>8, ClocksAssumption DEF ArmJudgeColumn, TypeOK, Window
    <2>2. Keeps
      BY <1>1, <1>2, <1>3, <1>4, <2>1 DEF PresenceRead, ChangingPresence, DeadlinesFollow, Dropping, Returning, JudgeArming, Keys
    <2> QED
      BY <1>1, <2>1, <2>2, HandlerKeeps
  <1>9. CASE DropFind(h)
    <2>1. /\ task[h].pc = "dropFind" /\ UNCHANGED <<status, judgeDue, key>>
          /\ task'[h].pc = "armGraceKey" /\ task'[h].phase = "none"
      BY <1>1, <1>9 DEF DropFind, TypeOK, Idle, TaskState
    <2>2. Keeps
      BY <1>1, <1>2, <1>3, <1>4, <2>1 DEF PresenceRead, ChangingPresence, DeadlinesFollow, Dropping, Returning, JudgeArming, Keys
    <2> QED
      BY <1>1, <2>1, <2>2, HandlerKeeps
  <1>10. CASE ArmGraceKey(h)
    <2>1. /\ task[h].pc = "armGraceKey" /\ task'[h].pc = "armGraceColumn"
          /\ task'[h].phase = task[h].phase
          /\ UNCHANGED <<status, judgeDue>> /\ key'["judge"] = key["judge"]
          /\ key'["grace"] # None
      BY <1>1, <1>10, ClocksAssumption DEF ArmGraceKey, TypeOK, Keys
    <2>2. Keeps
      BY <1>1, <1>2, <1>3, <1>4, <2>1 DEF PresenceRead, ChangingPresence, DeadlinesFollow, Dropping, Returning, JudgeArming, Keys
    <2> QED
      BY <1>1, <2>1, <2>2, HandlerKeeps
  <1>11. CASE ArmGraceColumn(h)
    <2>1. /\ task[h].pc = "armGraceColumn" /\ task'[h].pc = "idle" /\ task'[h].phase = "none"
          /\ UNCHANGED <<status, key>>
      BY <1>1, <1>11 DEF ArmGraceColumn, TypeOK
    <2>2. Keeps
      BY <1>1, <1>2, <1>3, <1>4, <2>1 DEF PresenceRead, ChangingPresence, DeadlinesFollow, Dropping, Returning, JudgeArming, Keys
    <2> QED
      BY <1>1, <2>1, <2>2, HandlerKeeps
  <1>12. CASE ReturnFind(h)
    <2>1. /\ task[h].pc = "returnFind" /\ task'[h].pc = "clearGrace" /\ task'[h].phase = status
          /\ UNCHANGED <<status, key, judgeDue>> /\ status # "none"
      BY <1>1, <1>12 DEF ReturnFind, TypeOK, Idle, TaskState, Ongoing
    <2>2. Keeps
      BY <1>1, <1>2, <1>3, <1>4, <2>1 DEF PresenceRead, ChangingPresence, DeadlinesFollow, Dropping, Returning, JudgeArming, Keys
    <2> QED
      BY <1>1, <2>1, <2>2, HandlerKeeps
  <1>13. CASE ClearGrace(h)
    <2>1. /\ task[h].pc = "clearGrace" /\ task'[h].phase = task[h].phase
          /\ task'[h].pc = IF task[h].phase = "JUDGING" THEN "armJudgeKey" ELSE "forgetGrace"
          /\ task[h].phase \in {"JUDGING", "PLAYING"}
          /\ UNCHANGED <<status, judgeDue>> /\ key'["grace"] = None /\ key'["judge"] = key["judge"]
      BY <1>1, <1>13 DEF ClearGrace, TypeOK
    <2>2. Keeps
      BY <1>1, <1>2, <1>3, <1>4, <2>1 DEF PresenceRead, ChangingPresence, DeadlinesFollow, Dropping, Returning, JudgeArming, Keys
    <2> QED
      BY <1>1, <2>1, <2>2, HandlerKeeps
  <1>14. CASE ForgetGrace(h)
    <2>1. /\ task[h].pc = "forgetGrace" /\ task'[h].pc = "reread"
          /\ task'[h].phase = task[h].phase
          /\ UNCHANGED <<status, key>> /\ judgeDue' = None
      BY <1>1, <1>14 DEF ForgetGrace, TypeOK
    <2>2. Keeps
      BY <1>1, <1>2, <1>3, <1>4, <2>1 DEF PresenceRead, ChangingPresence, DeadlinesFollow, Dropping, Returning, JudgeArming, Keys
    <2> QED
      BY <1>1, <2>1, <2>2, HandlerKeeps
  <1>15. CASE Reread(h)
    <2>1. /\ task[h].pc = "reread" /\ UNCHANGED <<status, key, judgeDue>>
          /\ \/ status = "PLAYING" /\ task'[h].pc = "idle" /\ task'[h].phase = "none"
             \/ /\ status = "JUDGING" /\ task'[h].pc = "armJudgeKey"
                /\ task'[h].phase = task[h].phase
      BY <1>1, <1>15 DEF Reread, TypeOK, Ongoing
    <2>2. Keeps
      BY <1>1, <1>2, <1>3, <1>4, <2>1 DEF PresenceRead, ChangingPresence, DeadlinesFollow, Dropping, Returning, JudgeArming, Keys
    <2> QED
      BY <1>1, <2>1, <2>2, HandlerKeeps
  <1>16. CASE OnExpired(h)
    <2>1. /\ task[h].pc \in Keys /\ UNCHANGED <<status, key, judgeDue>>
          /\ \/ task'[h].pc \in {"readPlays", "abort"} /\ task'[h].phase = task[h].phase
             \/ task'[h].pc = "idle" /\ task'[h].phase = "none"
          /\ task[h].pc = "grace" /\ ~active => task'[h].pc = "abort"
      <3>1. Go(h, "abort") \/ Go(h, "readPlays") \/ Stop(h)
        BY <1>16 DEF OnExpired
      <3>2. task[h].pc \in Keys /\ UNCHANGED <<status, key, judgeDue>>
        BY <1>16 DEF OnExpired
      <3>3. task[h].pc = "grace" /\ ~active => Go(h, "abort")
        BY <1>16 DEF OnExpired
      <3> QED
        BY <1>1, <3>1, <3>2, <3>3
    <2>2. Keeps
      BY <1>1, <1>2, <1>3, <1>4, <2>1 DEF PresenceRead, ChangingPresence, DeadlinesFollow, Dropping, Returning, JudgeArming, Keys
    <2> QED
      BY <1>1, <2>1, <2>2, HandlerKeeps
  <1>17. CASE ReadPlays(h)
    <2>1. /\ task[h].pc = "readPlays" /\ task'[h].pc \in {"claimJudging", "abort"}
          /\ task'[h].phase = task[h].phase /\ UNCHANGED <<status, key, judgeDue>>
      BY <1>1, <1>17 DEF ReadPlays, TypeOK
    <2>2. Keeps
      BY <1>1, <1>2, <1>3, <1>4, <2>1 DEF PresenceRead, ChangingPresence, DeadlinesFollow, Dropping, Returning, JudgeArming, Keys
    <2> QED
      BY <1>1, <2>1, <2>2, HandlerKeeps
  <1>18. CASE AdvanceExpired(h)
    <2>1. /\ task[h].pc = "advanceExpired" /\ UNCHANGED <<status, key, judgeDue>>
          /\ \/ task'[h].pc \in {"readPlays", "abort"} /\ task'[h].phase = task[h].phase
             \/ task'[h].pc = "idle" /\ task'[h].phase = "none"
      <3>1. Go(h, "abort") \/ Go(h, "readPlays") \/ Stop(h)
        BY <1>18 DEF AdvanceExpired
      <3>2. task[h].pc = "advanceExpired" /\ UNCHANGED <<status, key, judgeDue>>
        BY <1>18 DEF AdvanceExpired
      <3> QED
        BY <1>1, <3>1, <3>2
    <2>2. Keeps
      BY <1>1, <1>2, <1>3, <1>4, <2>1 DEF PresenceRead, ChangingPresence, DeadlinesFollow, Dropping, Returning, JudgeArming, Keys
    <2> QED
      BY <1>1, <2>1, <2>2, HandlerKeeps
  <1>19. ~Abort(h)
    BY DEF Abort, Ongoing, Ended
  <1> QED
    BY <1>5, <1>6, <1>7, <1>8, <1>9, <1>10, <1>11, <1>12, <1>13, <1>14, <1>15, <1>16, <1>17, <1>18, <1>19 DEF Resume

LEMMA TickKeeps ==
  ASSUME TypeOK, PresenceInv, orderly, faults = 0, Tick
  PROVE  PresenceInv'
  <1>1. UNCHANGED <<status, active, changes, unheard>> /\ status \in Ongoing
    BY DEF Tick, row, count, InPlay
  <1>2. ASSUME NEW g \in Slots PROVE task'[g].pc = task[g].pc /\ task'[g].phase = task[g].phase
    BY DEF Tick, TypeOK, TaskState
  <1>3. \A places : Somewhere(places) => Somewhere(places)'
    BY <1>2 DEF Somewhere
  <1>4. /\ key["grace"] = None => key'["grace"] = None
        /\ key["grace"] # None => key'["grace"] # None
        /\ key["judge"] = None => key'["judge"] = None
        /\ judgeDue = None => judgeDue' = None
        /\ judgeDue # None /\ judgeDue >= key["judge"] /\ key'["judge"] # None =>
             judgeDue' # None /\ judgeDue' >= key'["judge"]
    <2>1. key' = [k \in Keys |-> Elapse(key[k])] /\ judgeDue' = Elapse(judgeDue)
      BY DEF Tick
    <2>2. /\ key["grace"] \in Nat \cup {None} /\ key["judge"] \in Nat \cup {None}
          /\ judgeDue \in Nat \cup {None}
      BY LongestFits DEF TypeOK, Keys, Window
    <2> QED
      BY <2>1, <2>2, ClocksAssumption DEF Elapse, Keys
  <1>5. OneChange /\ DeadlinesFollow /\ \A h \in Slots : PresenceRead(h)
    BY <1>1 DEF PresenceInv
  <1>6. OneChange'
    BY <1>2, <1>5 DEF OneChange, ChangingPresence, Slots
  <1>7. \A h \in Slots : PresenceRead(h)'
    BY <1>1, <1>2, <1>5 DEF PresenceRead
  <1>8. DeadlinesFollow'
    BY <1>1, <1>3, <1>4, <1>5 DEF DeadlinesFollow
  <1> QED
    BY <1>6, <1>7, <1>8 DEF PresenceInv

\* A handler that sets out, of no presence change.
LEMMA OutsetKeeps ==
  ASSUME TypeOK, TypeOK', PresenceInv, orderly, faults = 0, status \in Ongoing, NEW h \in Slots,
         SweepFind(h) \/ (h \in Handlers /\ AllPlayed(h))
  PROVE  PresenceInv'
  <1>1. /\ Others(h) /\ UNCHANGED <<status, active, changes, unheard, key, judgeDue>>
        /\ task[h].pc = "idle" /\ task'[h].pc \in {"advanceExpired", "claimJudging"}
        /\ h \in Handlers => task'[h].phase = "none"
    <2>1. Others(h)
      BY Elsewhere DEF Others
    <2>2. UNCHANGED <<status, active, changes, unheard, key, judgeDue>> /\ task[h].pc = "idle"
      <3>1. UNCHANGED <<row, cols, count, key>> /\ task[h] = Idle
        BY DEF SweepFind, AllPlayed
      <3> QED
        BY <3>1 DEF row, cols, count, Idle
    <2>3. CASE SweepFind(h)
      BY <2>1, <2>2, <2>3, ClocksAssumption DEF SweepFind, Become, TypeOK
    <2>4. CASE AllPlayed(h)
      BY <2>1, <2>2, <2>4 DEF AllPlayed, Become, TypeOK, Idle
    <2> QED
      BY <2>1, <2>2, <2>3, <2>4
  <1>2. DeadlinesFollow /\ PresenceRead(h)
    BY DEF PresenceInv
  <1>3. ASSUME NEW places, Somewhere(places), task[h].pc \notin places PROVE Somewhere(places)'
    BY <1>1, <1>3 DEF Somewhere, Others
  <1>4. /\ PresenceRead(h)' /\ (ChangingPresence(h)' => ChangingPresence(h))
        /\ DeadlinesFollow'
    BY <1>1, <1>2, <1>3 DEF PresenceRead, ChangingPresence, DeadlinesFollow, Dropping, Returning, JudgeArming, Keys
  <1> QED
    BY <1>1, <1>4, HandlerKeeps

\* A presence change in order meets no other.
LEMMA PresenceKeeps ==
  ASSUME TypeOK, TypeOK', PresenceInv, faults = 0, status \in Ongoing, orderly', NEW h \in Handlers,
         Drop(h) \/ Return(h)
  PROVE  PresenceInv'
  <1>1. h \in Slots
    BY DEF Slots
  <1>2. Others(h)
    BY <1>1, Elsewhere DEF Others
  <1>3. /\ UNCHANGED <<status, unheard, key, judgeDue>> /\ task'[h].phase = "none"
        /\ \/ Drop(h) /\ active' = FALSE /\ task'[h].pc = "dropFind"
           \/ Return(h) /\ active' = TRUE /\ task'[h].pc = "returnFind"
    BY <1>1 DEF Drop, Return, Become, TypeOK, Idle, cols
  <1>4. orderly /\ \A g \in Handlers : ~ChangingPresence(g)
    BY DEF Drop, Return, PresenceChanges
  <1>5. DeadlinesFollow /\ \A g \in Slots : PresenceRead(g)
    BY <1>4 DEF PresenceInv
  <1>6. ASSUME NEW g \in Slots \ {h}
        PROVE  /\ task'[g] = task[g] /\ task[g].pc \notin Dropping \cup {"returnFind"}
               /\ g \in Handlers => task[g].phase = "none"
    BY <1>2, <1>4, <1>5 DEF Others, ChangingPresence, PresenceRead, Dropping
  <1>7. OneChange'
    BY <1>6 DEF OneChange, ChangingPresence, Dropping, Slots
  <1>8. ASSUME NEW g \in Slots PROVE PresenceRead(g)'
    <2>1. CASE g = h
      BY <1>3, <2>1 DEF PresenceRead, Dropping, JudgeArming
    <2>2. CASE g # h
      BY <1>3, <1>5, <1>6, <2>2 DEF PresenceRead
    <2> QED
      BY <2>1, <2>2
  <1>9. DeadlinesFollow'
    <2>1. \A places : task'[h].pc \in places => Somewhere(places)'
      BY <1>1 DEF Somewhere
    <2> QED
      BY <1>3, <1>5, <2>1 DEF DeadlinesFollow, Returning
  <1> QED
    BY <1>7, <1>8, <1>9 DEF PresenceInv

\* A key that expires is heard by idle handlers, if any.
LEMMA ExpiryKeeps ==
  ASSUME TypeOK, TypeOK', PresenceInv, orderly, faults = 0, status \in Ongoing, NEW k \in Keys, Expire(k)
  PROVE  PresenceInv'
  <1>1. UNCHANGED <<status, active, judgeDue, changes>> /\ key' = [key EXCEPT ![k] = None]
    BY DEF Expire, row, cols
  <1>2. PICK heard \in SUBSET {h \in Handlers : Free(h)} :
          /\ task' = [h \in Slots |-> IF h \in heard THEN [Idle EXCEPT !.pc = k] ELSE task[h]]
          /\ unheard' = (unheard \/ (k = "grace" /\ heard = {}))
    BY DEF Expire
  <1>3. ASSUME NEW g \in Slots
        PROVE  \/ task'[g] = task[g]
               \/ /\ g \in heard /\ g \in Handlers /\ task[g].pc = "idle" /\ task[g].phase = "none"
                  /\ task'[g].pc = k /\ task'[g].phase = "none"
    BY <1>2 DEF Free, Idle
  <1>4. OneChange /\ DeadlinesFollow /\ \A g \in Slots : PresenceRead(g)
    BY DEF PresenceInv
  <1>5. OneChange'
    <2>1. ASSUME NEW g \in Handlers PROVE ChangingPresence(g)' => ChangingPresence(g)
      BY <1>3 DEF ChangingPresence, Keys, Slots
    <2> QED
      BY <1>4, <2>1 DEF OneChange
  <1>6. ASSUME NEW g \in Slots PROVE PresenceRead(g)'
    <2>1. CASE task'[g] = task[g]
      BY <1>1, <1>4, <2>1 DEF PresenceRead
    <2>2. CASE task'[g] # task[g]
      BY <1>3, <2>2 DEF PresenceRead, Dropping, JudgeArming, Keys
    <2> QED
      BY <2>1, <2>2
  <1>7. ASSUME NEW places, Somewhere(places), "idle" \notin places PROVE Somewhere(places)'
    BY <1>3, <1>7 DEF Somewhere
  <1>8. k = "grace" => unheard' \/ Somewhere({"dropFind", "armGraceKey", "grace", "abort"})'
    <2>1. ASSUME k = "grace", NEW g \in heard PROVE g \in Slots /\ task'[g].pc = "grace"
      BY <1>2, <2>1 DEF Slots, Idle
    <2> QED
      BY <1>2, <2>1 DEF Somewhere
  <1>9. unheard => unheard'
    BY <1>2
  <1>10. DeadlinesFollow'
    BY <1>1, <1>4, <1>7, <1>8, <1>9 DEF DeadlinesFollow, Returning, Keys, TypeOK
  <1> QED
    BY <1>5, <1>6, <1>10 DEF PresenceInv

LEMMA PresenceStep ==
  ASSUME TypeOK, TypeOK', PresenceInv, [Next]_vars
  PROVE  PresenceInv'
  <1> SUFFICES ASSUME orderly', faults' = 0, status' \in Ongoing PROVE PresenceInv'
    BY DEF PresenceInv
  <1>1. CASE UNCHANGED vars
    BY <1>1 DEF vars, row, cols, count, PresenceInv, OneChange, ChangingPresence, DeadlinesFollow,
       Somewhere, PresenceRead
  <1>2. CASE Tick
    BY <1>2, TickKeeps DEF Tick, count
  <1>3. CASE Answer
    BY <1>3 DEF Answer, cols, count, PresenceInv, OneChange, ChangingPresence, DeadlinesFollow,
       Somewhere, PresenceRead, Ongoing
  <1>4. CASE Pick
    BY <1>4 DEF Pick, Ongoing
  <1>5. ASSUME NEW h \in Handlers, AllPlayed(h) PROVE PresenceInv'
    BY <1>5, OutsetKeeps DEF AllPlayed, row, count, Slots
  <1>6. ASSUME NEW h \in Handlers, Drop(h) \/ Return(h) PROVE PresenceInv'
    BY <1>6, PresenceKeeps DEF Drop, Return, InPlay
  <1>7. ASSUME NEW k \in Keys, Expire(k) PROVE PresenceInv'
    BY <1>7, ExpiryKeeps DEF Expire, InPlay
  <1>8. ASSUME NEW s \in Sweepers, SweepFind(s) PROVE PresenceInv'
    BY <1>8, OutsetKeeps DEF SweepFind, row, count, Slots
  <1>9. ASSUME NEW h \in Slots, Resume(h) PROVE PresenceInv'
    <2>1. UNCHANGED count
      BY <1>9, Steps
    <2>2. status \in Ongoing
      BY <1>9 DEF Resume, ArmPlay, ClaimJudging, ArmJudgeKey, ArmJudgeColumn, DropFind, ArmGraceKey,
         ArmGraceColumn, ReturnFind, ClearGrace, ForgetGrace, Reread, OnExpired, ReadPlays, Abort,
         AdvanceExpired, row, Ongoing, Ended
    <2> QED
      BY <1>9, <2>1, <2>2, ResumeKeeps DEF count
  <1>10. ASSUME NEW h \in Slots, Fail(h) PROVE FALSE
    <2>1. faults \in Nat /\ faults' = faults + 1
      BY <1>10, ClocksAssumption DEF Fail, TypeOK
    <2> QED
      BY <2>1
  <1> QED
    BY <1>1, <1>2, <1>3, <1>4, <1>5, <1>6, <1>7, <1>8, <1>9, <1>10 DEF Next

LEMMA PresenceInit == Init => PresenceInv
  <1> SUFFICES ASSUME Init PROVE PresenceInv
    OBVIOUS
  <1> DEFINE opening  == [Idle EXCEPT !.pc = "armPlay"]
             dropping == [Idle EXCEPT !.pc = "dropFind"]
  <1>1. PICK opener, dropper \in Handlers :
          /\ active => dropper = opener
          /\ task = [s \in Slots |-> CASE s = opener -> opening
                                       [] s = dropper /\ s # opener -> dropping
                                       [] s \notin {opener, dropper} -> Idle]
    BY DEF Init
  <1>2. opening.pc = "armPlay" /\ opening.phase = "none" /\ dropping.pc = "dropFind" /\ dropping.phase = "none"
    BY DEF Idle
  <1>3. Idle.pc = "idle" /\ Idle.phase = "none"
    BY DEF Idle
  <1> HIDE DEF opening, dropping
  <1>4. ASSUME NEW g \in Slots
        PROVE  /\ task[g].phase = "none" /\ task[g].pc \in {"armPlay", "dropFind", "idle"}
               /\ task[g].pc = "dropFind" => g = dropper /\ ~active
    BY <1>1, <1>2, <1>3
  <1>5. OneChange /\ \A h \in Slots : PresenceRead(h)
    BY <1>4 DEF OneChange, ChangingPresence, PresenceRead, Dropping, JudgeArming, Keys, Slots
  <1>6. DeadlinesFollow
    BY ClocksAssumption DEF Init, DeadlinesFollow, Keys
  <1> QED
    BY <1>5, <1>6 DEF PresenceInv

\* ADR-0002: the Round is held for a Judge who is away, for the grace and no
\* longer, and not for one who is back, for any windows, any number of drops and
\* returns, of handlers and of instances, whatever else opens judging, lapses or
\* sweeps meanwhile; presence changes do not overlap and no handler dies.
THEOREM GraceFollows == Spec => []GraceFollowsPresence
  <1>1. TypeOK /\ PresenceInv => GraceFollowsPresence
    <2> SUFFICES ASSUME TypeOK, PresenceInv, Quiet, orderly, faults = 0, status \in Ongoing
                 PROVE  \/ /\ ~active
                           /\ changes > 0 => \/ key["grace"] # None /\ key["grace"] <= GraceWindow
                                             \/ unheard
                        \/ /\ active
                           /\ key["grace"] = None
                           /\ status = "PLAYING" => judgeDue = None
                           /\ key["judge"] # None => judgeDue >= key["judge"]
      BY DEF GraceFollowsPresence
    <2>1. \A places : "idle" \notin places => ~Somewhere(places)
      BY DEF Quiet, Idle, Somewhere
    <2>2. key["grace"] # None => key["grace"] <= GraceWindow
      BY ClocksAssumption DEF TypeOK, Window
    <2>3. active \in BOOLEAN
      BY DEF TypeOK
    <2> QED
      BY <2>1, <2>2, <2>3 DEF PresenceInv, DeadlinesFollow, Returning
  <1> QED
    BY <1>1, PresenceInit, PresenceStep, DeadlinesTyped, PTL DEF Spec

=============================================================================
