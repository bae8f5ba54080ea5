----------------------------- MODULE RoundClocks -----------------------------
(***************************************************************************)
(* The deadlines of one Round: three Redis keys that expire and are heard   *)
(* of once or never (play, judging window, dropped Judge's grace), and the *)
(* two columns of the Round row that the sweep reads in their place.        *)
(*                                                                         *)
(* A deadline is kept as the time left to it: None is no key or a null      *)
(* column, 0 has elapsed, and Tick lets all of them run down together, the  *)
(* copies that handlers hold included.  What a handler does to the Round    *)
(* itself is RoundLifecycle's subject; here a Round is its phase, whether   *)
(* somebody answered, and whether its Judge is connected.                   *)
(***************************************************************************)
EXTENDS Naturals

CONSTANTS
  Handlers,     \* slots for requests, presence changes and expiry events
  Sweepers,     \* one slot per server instance
  None,         \* no key; a null column
  PlayWindow,   \* playWindowSeconds
  GraceWindow,  \* judgeGraceSeconds
  JudgeWindow,  \* judgeWindowSeconds
  MaxChanges,   \* bound: how often the Judge's presence changes
  MaxFaults     \* bound: handlers that die part-way

ASSUME ClocksAssumption ==
  /\ Handlers \cap Sweepers = {}
  /\ None \notin Nat
  /\ PlayWindow \in Nat /\ GraceWindow \in Nat /\ JudgeWindow \in Nat
  /\ MaxChanges \in Nat /\ MaxFaults \in Nat

VARIABLES
  status,    \* the Round's phase
  answered,  \* it has a round_played_cards row
  active,    \* its Judge is connected (isActive)
  key,       \* time left to each Redis key
  playDue,   \* the playDeadline column
  judgeDue,  \* the judgeDeadline column
  task,      \* handlers in flight: where they are and what they read
  changes,   \* how often the Judge dropped or returned while the Round existed
  faults,    \* how many handlers died part-way
  unheard,   \* the event of the grace key was lost
  orderly    \* no presence change began while an earlier one was in flight

row   == <<status, answered, active>>
cols  == <<playDue, judgeDue>>
count == <<changes, faults, unheard, orderly>>
vars  == <<row, key, cols, task, count>>

Keys    == {"play", "judge", "grace"}
Ongoing == {"PLAYING", "JUDGING"}
Ended   == {"COMPLETE", "ABORTED"}
Slots   == Handlers \cup Sweepers
Idle    == [pc |-> "idle", phase |-> "none", due |-> None]

At(h, pc)    == task[h].pc = pc
Go(h, pc)    == task' = [task EXCEPT ![h].pc = pc]
Become(h, r) == task' = [task EXCEPT ![h] = r]
Stop(h)      == Become(h, Idle)
Free(h)      == h \in Handlers /\ task[h] = Idle
Arm(k, ttl)  == key' = [key EXCEPT ![k] = ttl]

\* What the environment does to a Round that has ended is not followed: its
\* handlers, keys and sweeps only meet claims that fail.
InPlay == status \in Ongoing

Elapse(d) == IF d \in {None, 0} THEN d ELSE d - 1

\* The sooner of a stored deadline, if any, and a new one.
Earliest(current, next) ==
  IF current # None /\ current < next THEN current ELSE next

-----------------------------------------------------------------------------
\* Time passes for the keys, the columns and the values handlers have read.
Tick ==
  /\ InPlay
  /\ \E d \in {playDue, judgeDue} \cup {key[k] : k \in Keys} : d \notin {None, 0}
  /\ key' = [k \in Keys |-> Elapse(key[k])]
  /\ playDue' = Elapse(playDue)
  /\ judgeDue' = Elapse(judgeDue)
  /\ task' = [h \in Slots |-> [task[h] EXCEPT !.due = Elapse(@)]]
  /\ UNCHANGED <<row, count>>

\* openRound after its INSERT, which stored the play deadline: armPlay.
ArmPlay(h) ==
  /\ At(h, "armPlay")
  /\ Arm("play", PlayWindow)
  /\ Stop(h)
  /\ UNCHANGED <<row, cols, count>>

\* A play is recorded.
Answer ==
  /\ status = "PLAYING"
  /\ answered' = TRUE
  /\ UNCHANGED <<status, active, key, cols, task, count>>

\* advanceIfAllPlayed: some play, drop or leave finds the answers complete.
AllPlayed(h) ==
  /\ Free(h)
  /\ status = "PLAYING" /\ answered
  /\ Become(h, [Idle EXCEPT !.pc = "claimJudging"])
  /\ UNCHANGED <<row, key, cols, count>>

\* advanceToJudging: the claim returns the row, and a Round that is held for
\* its Judge (judgeDeadline set while playing) keeps that deadline.
ClaimJudging(h) ==
  /\ At(h, "claimJudging")
  /\ \/ /\ status = "PLAYING" /\ judgeDue = None
        /\ status' = "JUDGING" /\ Go(h, "armJudgeKey")
     \/ /\ status = "PLAYING" /\ judgeDue # None
        /\ status' = "JUDGING" /\ Stop(h)
     \/ /\ status # "PLAYING"
        /\ Stop(h) /\ UNCHANGED status
  /\ UNCHANGED <<answered, active, key, cols, count>>

\* One key for the window and the grace, as it was before issue #25.
ArmJudgeKeyMutant(h) ==
  /\ At(h, "armJudgeKey")
  /\ Arm("grace", JudgeWindow)
  /\ Go(h, "armJudgeColumn")
  /\ UNCHANGED <<row, cols, count>>

\* armJudgingWindow: the key, then the column.
ArmJudgeKey(h) ==
  /\ At(h, "armJudgeKey")
  /\ Arm("judge", JudgeWindow)
  /\ Go(h, "armJudgeColumn")
  /\ UNCHANGED <<row, cols, count>>

ArmJudgeColumn(h) ==
  /\ At(h, "armJudgeColumn")
  /\ judgeDue' = JudgeWindow
  /\ Stop(h)
  /\ UNCHANGED <<row, key, playDue, count>>

-----------------------------------------------------------------------------
\* A handler of a presence change; nothing keeps a user's changes in order.
ChangingPresence(h) ==
  h \in Handlers /\ (task[h].phase # "none" \/
    task[h].pc \in {"dropFind", "armGraceKey", "armGraceColumn", "returnFind"})

PresenceChanges ==
  /\ changes < MaxChanges /\ changes' = changes + 1
  /\ orderly' = (orderly /\ ~\E h \in Handlers : ChangingPresence(h))

\* The Judge's connection drops: markPresence(false), then onPlayerDropped,
\* which reads the Round and arms the grace.
Drop(h) ==
  /\ InPlay /\ Free(h)
  /\ active
  /\ active' = FALSE
  /\ PresenceChanges
  /\ Become(h, [Idle EXCEPT !.pc = "dropFind"])
  /\ UNCHANGED <<status, answered, key, cols, faults, unheard>>

DropFind(h) ==
  /\ At(h, "dropFind")
  /\ \/ /\ status \in Ongoing
        /\ Become(h, [Idle EXCEPT !.pc = "armGraceKey", !.due = judgeDue])
     \/ status \notin Ongoing /\ Stop(h)
  /\ UNCHANGED <<row, key, cols, count>>

ArmGraceKey(h) ==
  /\ At(h, "armGraceKey")
  /\ Arm("grace", GraceWindow)
  /\ Go(h, "armGraceColumn")
  /\ UNCHANGED <<row, cols, count>>

\* armGrace mirrors the sooner deadline, of the row as it was read.
ArmGraceColumn(h) ==
  /\ At(h, "armGraceColumn")
  /\ judgeDue' = Earliest(task[h].due, GraceWindow)
  /\ Stop(h)
  /\ UNCHANGED <<row, key, playDue, count>>

\* The Judge reconnects: markPresence(true), then onPlayerReturned and
\* releaseGrace.
Return(h) ==
  /\ InPlay /\ Free(h)
  /\ ~active
  /\ active' = TRUE
  /\ PresenceChanges
  /\ Become(h, [Idle EXCEPT !.pc = "returnFind"])
  /\ UNCHANGED <<status, answered, key, cols, faults, unheard>>

ReturnFind(h) ==
  /\ At(h, "returnFind")
  /\ \/ /\ status \in Ongoing
        /\ Become(h, [Idle EXCEPT !.pc = "clearGrace", !.phase = status])
     \/ status \notin Ongoing /\ Stop(h)
  /\ UNCHANGED <<row, key, cols, count>>

\* The key is left to expire.
ClearGraceMutant(h) ==
  /\ At(h, "clearGrace")
  /\ \/ task[h].phase = "JUDGING" /\ Go(h, "armJudgeKey")
     \/ task[h].phase = "PLAYING" /\ Go(h, "forgetGrace")
  /\ UNCHANGED <<row, key, cols, count>>

ClearGrace(h) ==
  /\ At(h, "clearGrace")
  /\ Arm("grace", None)
  /\ \/ task[h].phase = "JUDGING" /\ Go(h, "armJudgeKey")
     \/ task[h].phase = "PLAYING" /\ Go(h, "forgetGrace")
  /\ UNCHANGED <<row, cols, count>>

\* The Round is not read again after the column is cleared.
ForgetGraceMutant(h) ==
  /\ At(h, "forgetGrace")
  /\ judgeDue' = None
  /\ Stop(h)
  /\ UNCHANGED <<row, key, playDue, count>>

ForgetGrace(h) ==
  /\ At(h, "forgetGrace")
  /\ judgeDue' = None
  /\ Go(h, "reread")
  /\ UNCHANGED <<row, key, playDue, count>>

\* Judging may have opened since the Round was read.
Reread(h) ==
  /\ At(h, "reread")
  /\ \/ status = "JUDGING" /\ Go(h, "armJudgeKey")
     \/ status # "JUDGING" /\ Stop(h)
  /\ UNCHANGED <<row, key, cols, count>>

-----------------------------------------------------------------------------
\* A key expires.  Redis publishes the event once, to every instance that
\* listens; each handles it, and there may be none.
Expire(k) ==
  /\ InPlay
  /\ key[k] = 0
  /\ Arm(k, None)
  /\ \E heard \in SUBSET {h \in Handlers : Free(h)} :
       /\ task' = [h \in Slots |-> IF h \in heard THEN [Idle EXCEPT !.pc = k] ELSE task[h]]
       /\ unheard' = (unheard \/ (k = "grace" /\ heard = {}))
  /\ UNCHANGED <<row, cols, changes, faults, orderly>>

\* onExpired, onPlayExpired: a play window that lapses after the phase ended is
\* ignored, and so is the grace of a Judge who is back.
OnExpired(h) ==
  LET pc == task[h].pc IN
  /\ pc \in Keys
  /\ \/ pc = "play" /\ status = "PLAYING" /\ Go(h, "readPlays")
     \/ pc = "judge" /\ Go(h, "abort")
     \/ pc = "grace" /\ ~active /\ Go(h, "abort")
     \/ pc = "play" /\ status # "PLAYING" /\ Stop(h)
     \/ pc = "grace" /\ active /\ Stop(h)
  /\ UNCHANGED <<row, key, cols, count>>

\* With plays, judge them; with none, abort.
ReadPlays(h) ==
  /\ At(h, "readPlays")
  /\ \/ answered /\ Go(h, "claimJudging")
     \/ ~answered /\ Go(h, "abort")
  /\ UNCHANGED <<row, key, cols, count>>

Abort(h) ==
  /\ At(h, "abort")
  /\ status' = IF status \in Ongoing THEN "ABORTED" ELSE status
  /\ Stop(h)
  /\ UNCHANGED <<answered, active, key, cols, count>>

\* The sweep looks at play deadlines only.
SweepFindMutant(s) ==
  /\ s \in Sweepers /\ task[s] = Idle
  /\ status \in Ongoing
  /\ playDue = 0
  /\ Become(s, [pc |-> "advanceExpired", phase |-> status, due |-> None])
  /\ UNCHANGED <<row, key, cols, count>>

\* findExpiredActive: a Round in play past either column.
SweepFind(s) ==
  /\ s \in Sweepers /\ task[s] = Idle
  /\ status \in Ongoing
  /\ playDue = 0 \/ judgeDue = 0
  /\ Become(s, [pc |-> "advanceExpired", phase |-> status, due |-> judgeDue])
  /\ UNCHANGED <<row, key, cols, count>>

\* advanceExpired, on the row as the sweep read it: a lapsed Judge deadline
\* takes precedence over the play deadline.
AdvanceExpired(s) ==
  LET r == task[s] IN
  /\ At(s, "advanceExpired")
  /\ \/ r.due = 0 /\ Go(s, "abort")
     \/ r.due # 0 /\ r.phase = "PLAYING" /\ Go(s, "readPlays")
     \/ r.due # 0 /\ r.phase # "PLAYING" /\ Stop(s)
  /\ UNCHANGED <<row, key, cols, count>>

\* The Judge picks, so the Round ends without a deadline.  (It also does when
\* the Judge leaves or the game ends; RoundLifecycle has those.)
Pick ==
  /\ status = "JUDGING" /\ status' = "COMPLETE"
  /\ UNCHANGED <<answered, active, key, cols, task, count>>

\* A handler dies, or an await of its rejects; what it wrote stays.
Fail(h) ==
  /\ task[h] # Idle
  /\ faults < MaxFaults
  /\ faults' = faults + 1
  /\ Stop(h)
  /\ UNCHANGED <<row, key, cols, changes, unheard, orderly>>

-----------------------------------------------------------------------------
\* A Round just inserted, its handler about to arm the play key.  The Judge may
\* have dropped since the rotation chose them, and the handler of that drop may
\* be done or about to look for the Round.
Init ==
  /\ status = "PLAYING" /\ answered = FALSE /\ active \in BOOLEAN
  /\ key = [k \in Keys |-> None]
  /\ playDue = PlayWindow /\ judgeDue = None
  /\ \E opener, dropper \in Handlers :
       /\ active => dropper = opener
       /\ task = [s \in Slots |->
                   CASE s = opener  -> [Idle EXCEPT !.pc = "armPlay"]
                     [] s = dropper /\ s # opener -> [Idle EXCEPT !.pc = "dropFind"]
                     [] s \notin {opener, dropper} -> Idle]
  /\ changes = 0 /\ faults = 0 /\ unheard = FALSE /\ orderly = TRUE

Resume(h) ==
  \/ ArmPlay(h) \/ ClaimJudging(h) \/ ArmJudgeKey(h) \/ ArmJudgeColumn(h)
  \/ DropFind(h) \/ ArmGraceKey(h) \/ ArmGraceColumn(h)
  \/ ReturnFind(h) \/ ClearGrace(h) \/ ForgetGrace(h) \/ Reread(h)
  \/ OnExpired(h) \/ ReadPlays(h) \/ Abort(h) \/ AdvanceExpired(h)

Next ==
  \/ Tick \/ Answer \/ Pick
  \/ \E h \in Handlers : AllPlayed(h) \/ Drop(h) \/ Return(h)
  \/ \E k \in Keys : Expire(k)
  \/ \E s \in Sweepers : SweepFind(s)
  \/ \E h \in Slots : Resume(h) \/ Fail(h)

Spec == Init /\ [][Next]_vars

\* Time passes, handlers go on, instances sweep.  Nobody need pick, play, come
\* back or hear an expiry event.
FairSpec ==
  /\ Spec
  /\ WF_vars(Tick)
  /\ \A h \in Slots : WF_vars(Resume(h))
  /\ \A s \in Sweepers : WF_vars(SweepFind(s))

-----------------------------------------------------------------------------
Pcs == {"idle", "armPlay", "claimJudging", "armJudgeKey", "armJudgeColumn",
        "dropFind", "armGraceKey", "armGraceColumn", "returnFind", "clearGrace",
        "forgetGrace", "reread", "readPlays", "abort", "advanceExpired"} \cup Keys

Window(ttl) == 0..ttl \cup {None}
Longest     == IF JudgeWindow >= GraceWindow THEN JudgeWindow ELSE GraceWindow

TaskState == [pc : Pcs, phase : Ongoing \cup {"none"}, due : Window(Longest)]

\* Every deadline is within the window it was armed with; the judgeDeadline
\* column serves the judging window and the grace.
TypeOK ==
  /\ status \in Ongoing \cup Ended /\ answered \in BOOLEAN /\ active \in BOOLEAN
  /\ key \in [Keys -> Nat \cup {None}]
  /\ key["play"] \in Window(PlayWindow)
  /\ key["judge"] \in Window(JudgeWindow)
  /\ key["grace"] \in Window(GraceWindow)
  /\ playDue \in 0..PlayWindow
  /\ judgeDue \in Window(Longest)
  /\ task \in [Slots -> TaskState]
  /\ changes \in 0..MaxChanges /\ faults \in 0..MaxFaults /\ unheard \in BOOLEAN
  /\ orderly \in BOOLEAN

\* Handlers that will still write the judgeDeadline column.
Arming(h) == task[h].pc \in {"armJudgeKey", "armJudgeColumn", "reread", "forgetGrace",
                             "armGraceColumn", "armGraceKey"}

\* releaseGrace: "without one the Round never ends".  A Round in judging has a
\* deadline the sweep will find, or a handler on its way to write one, however
\* drops, returns and the opening of judging interleave, unless a handler died.
JudgingHasDeadline ==
  faults = 0 /\ status = "JUDGING" => judgeDue # None \/ \E h \in Slots : Arming(h)

Quiet == \A h \in Slots : task[h] = Idle

\* ADR-0002 and deadlineKeys: the Round is held for a Judge who is away, for the
\* grace and no longer, and not for one who is back.  When no handler is in
\* flight, a Judge who dropped has a running grace, which judging opening
\* meanwhile has not replaced, or its event was lost; a Judge who is there has
\* none, and no sweep will end their Round before their own window does.  It
\* takes presence changes that do not overlap: the code does not order them.
GraceFollowsPresence ==
  Quiet /\ orderly /\ faults = 0 /\ status \in Ongoing =>
    \/ /\ ~active
       /\ changes > 0 => \/ key["grace"] # None /\ key["grace"] <= GraceWindow
                       \/ unheard
    \/ /\ active
       /\ key["grace"] = None
       /\ status = "PLAYING" => judgeDue = None
       /\ key["judge"] # None => judgeDue >= key["judge"]

\* ADR-0003: every missed expiry event is covered by the sweep, so a Round ends
\* even if no key is ever heard of, nobody picks and the Judge comes and goes.
RoundEnds == status \in Ongoing ~> status \in Ended

\* The same where a handler may die: the one Round that never ends is a Round
\* in judging whose deadline the dead handler was to write.
OnlyUndatedJudgingStalls ==
  status \in Ongoing ~> \/ status \in Ended
                        \/ faults > 0 /\ status = "JUDGING" /\ judgeDue = None

=============================================================================
