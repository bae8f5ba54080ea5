# caho: a formal model of the game server

caho is the backend of a card game played in Rooms. Players join a Room over
REST and listen on WebSockets; in each Round one Player is the Judge, the others
play White Cards on a Black Card, and the Judge picks a winner, who scores. The
server is TypeScript on Node: Postgres holds the state, Redis carries events and
deadlines (keys that expire), and several instances may run side by side.

Nothing in the server holds a lock across an `await`. Handlers of one process
interleave at every `await`, instances interleave at every statement, and what
keeps the game right is a handful of conditional UPDATEs ("claims"), two row
locks, unique indexes, and a sweep that repairs what died. That is what this
project models, checks with TLC and, for the core, proves with TLAPS.

## 1. Inventory

Sources are under `src/src/`.

### Round lifecycle: `services/round/RoundLifecycle.ts`
- *State*: the `rounds` rows (status PLAYING, JUDGING, COMPLETE or ABORTED;
  Judge; winner; deadlines), the `round_played_cards` rows, the Room's `round`
  and `judgeId`.
- *Operations*: `startFirstRound`, `playCards`, `judgePick`, `onPlayerDropped`,
  `onPlayerLeft`, `onPlayerReturned`, `onExpired`, `reconcile`, `endActiveRound`.
- *Interacts with* the Room rules (calls), the deadlines (keys and columns), the
  publisher (events), the sweep (callbacks).
- *Hard*: every operation is a chain of reads, one claim, more writes and
  events. Plays race deadlines, departures race plays, picks race picks, a
  process dies after its claim.
- *Correct when*: Rounds are played one at a time; a Round is decided at most
  once, by a play that was in time; each event of a Round goes out once; the
  last answer opens judging; a rotation that died is finished; the Room and the
  Round name the same Judge.

### Round sweep: `services/round/reconcileRounds.ts`, `repositories/round/`
- *State*: none of its own; it reads Rounds past a deadline and ended Rounds
  without a successor for 15s. *Operations*: `advanceExpired`, `resumeRotation`.
- *Hard*: it runs beside live handlers and beside the sweeps of other instances.
- *Correct when*: it finishes what died and never disturbs what is alive.

### Round deadlines: `services/round/RoundDeadlines.ts`
- *State*: Redis keys play, judge and grace per Round; columns `playDeadline`,
  `judgeDeadline`. *Operations*: `armPlay`, `armJudgingWindow`, `armGrace`,
  `releaseGrace`.
- *Hard*: two writes per operation in two stores, expiry events that get lost, a
  grace that must survive the opening of judging.
- *Correct when*: a Round in play always has a deadline that some expiry or
  sweep will act on; a Judge who is back is not aborted for having been away.

### Expiry subscriber, reconcile schedule
`subscribeRoundExpiry.ts`, `RoundReconcileSchedule.ts`
- *State*: the subscriber's connection, the handlers it has pending, the sweep in
  flight, the interval. *Operations*: `subscribeRoundExpiry`, `watchReconnects`,
  `runNow`, `startTimer`, `stop`.
- *Hard*: expiry events are fire-and-forget; a sweep runs at start-up, every 30s
  and on a Redis reconnect, single-flight per instance, and a trigger while one
  runs joins it.
- *Correct when*: a deadline that lapsed is acted on, heard of or not.

### Room service, rules and orchestrator: `services/room/`
- *State*: the Room row (status, Host, Judge, `maxPlayers`, `maxPoints`, card
  ledgers) and the `room_players` rows (score, isReady, isHost, isActive, Hand).
- *Operations*: create, join, ready, start, leave, end, presence, play, pick.
- *Hard*: a start races leaves and joins; the Host role is handed over by a
  read and three writes; the ready flag is "ready" in the lobby and "has played"
  in a Round.
- *Correct when*: a Room that is not over has a Host who can act; seats never
  exceed `maxPlayers`; one start wins; a started Room gets its Round 1.

### Card dealing: `services/CardService.ts`, `repositories/cards/`
- *State*: `pickedWhiteCards`, `pickedBlackCards`, `currentBlackCardId` on the
  Room, `cardIds` on a Player. *Operations*: draw White Cards, draw a Black Card,
  recycle, deal a Hand, refill it.
- *Hard*: a draw reads the ledger, picks, and writes the ledger back whole; a
  refill writes back a Hand it read before the play.
- *Correct when*: no card repeats in a Room until the pool has run dry, and a Hand
  stands at its size.

### Sockets and presence: `http/socket-session.ts`, `http/routes/ws.ts`
- *State*: live sessions, `isActive`. *Operations*: upgrade, `open`, `close`,
  `broadcastPresence`, `SocketSessions.close`.
- *Hard*: opening and closing are asynchronous, a socket may close while it opens,
  a user may have two.
- *Correct when*: a connected Player is active and one without a socket is not;
  closing waits for its cleanup.

### Pub/Sub: `lib/pub-sub.ts`
- *State*: per channel, one Redis subscription with its receivers.
  *Operations*: `subscribe`, `release`, `close`.
- *Hard*: sockets share a channel; its SUBSCRIBE may be pending, or fail, while
  others come and go.
- *Correct when*: an open socket hears its channel; a channel nobody is on goes.

### Cursors: `http/cursor-inbox.ts`, `services/cursor/`
- *State*: whether the socket's Player sits in the Room, whether their cursor is
  shown. *Operations*: move, hide, leave.
- *Correct when*: no cursor outlives its socket.

### Accounts and sessions: `services/auth/`, `repositories/auth/`
- *State*: `users`, `oauth_accounts`, `user_sessions`. *Operations*: sign-up, sign-in,
  provider sign-in, profile update, validate, renew, sign-out.
- *Hard*: a username is checked and later written; a validation deletes or renews
  the session it read; two callbacks of one provider account race.
- *Correct when*: a username is one user's, a user can sign in again, a session that
  was signed out stays out and any other lives as long as promised.

### Runtime: `runtime.ts`, `composition/`
- *State*: the boot steps, the drain. *Operations*: `bootApp`, `buildShutdown`,
  `closeApp` and its hooks.
- *Hard*: the drain has an order (sockets, sweep, expiry handlers, Pub/Sub,
  database, Redis) and a deadline that races it.
- *Correct when*: nothing that needs the database is left when it closes; a process
  that stops exits.

`PROJECT.json` lists every component, and under "hazards" everything in the code
that is hard to test, with the line where it bites.

## 2. Modules

| module | what it is |
| --- | --- |
| `RoundLedger` | abstract specification: what the Rounds of a Room promise |
| `RoundLifecycle` | one Room: rows, handlers in flight, every await a step |
| `MCRoundLifecycle`, `MCRound_*.cfg` | instances for TLC |
| `RoundLifecycleProofs` | theorems, for every value of the constants: types, Rounds, winners, the ledger |
| `RoundGameProofs` | theorems about the game: Judges, points, events, answers |
| `RoundClocks` | the deadlines of one Round: Redis keys, columns, expiry, sweep |
| `MCRoundClocks`, `MCClocks_*.cfg` | instances for TLC |
| `RoundClocksProofs` | theorems |
| `RoomMembership` | seats, Host, start and end of one Room |
| `MCRoomMembership`, `MCRoom_*.cfg` | instances for TLC |
| `RoomMembershipProofs` | theorems |
| `CardDraw` | the cards of one Room: ledgers, Hands, draws in flight |
| `MCCardDraw`, `MCCards_draws.cfg` | an instance for TLC |
| `CardDrawProofs` | theorems |
| `Sockets` | the WebSockets of one process: subscriptions, presence, cursors |
| `SocketsProofs` | theorems |
| `Server` | extends `Sockets` with boot, sweeps, expiry events and the drain |
| `ServerProofs` | theorems about the whole process, its sockets included |
| `MCServer`, `MCServer_server.cfg` | an instance of both for TLC |
| `Accounts` | users, provider accounts, sessions, requests in flight |
| `MCAccounts`, `MCAccounts_accounts.cfg` | an instance for TLC |
| `AccountsProofs` | theorems |

`RoundLifecycle`, `RoundClocks`, `RoomMembership` and `CardDraw` are four views of the
same handlers. What one abstracts another details: RoundLifecycle lets deadlines
fire at any time, RoundClocks says when they can; RoundLifecycle lets any departing
Player have been the Host, RoomMembership says who it is; CardDraw knows of a Round
its number and whether it takes plays, and of a game that it started. They share no
variable. What one reads of a row that another details, it lets every writer of that
row change: RoundLifecycle has its own lobby toggle, since that writes the flag which
tells who has played. What it does not read it leaves out (the Hands in RoundLifecycle,
the Rounds in RoomMembership). `Server` is composed with `Sockets` (it extends it, and
its drain closes the sockets and the Pub/Sub map); of a Round it keeps a deadline that
lapses once and is handled or due.

### RoundLifecycle

*Rows.* `room`, `rounds`, `plays`, and of `room_players` the sets `seated`,
`active`, `ready` and the function `score`. *Handlers.* `task` maps a slot to a
program counter, the handler's kind and what it has read (`round`, `player`,
`judge`, `seen`). There are `Tasks` slots for requests and expiry events and one
slot in `Sweepers` per instance, whose sweeps are single-flight. *History.*
`announced`, `prompt`, `picker` and `stray` are only written, for properties to read;
`stray` has the Players whose `isReady` a toggle wrote after the start.

An action is what happens between two awaits that touch these rows: a request
starts with a check (`StartCheck`, `PlayCheck`, `PickRoom`, ...), goes on by its
program counter (`PlayInsert`, `PlayRefill`, `PlayReread`, `FindRoom`, ...) and
ends in `Stop`. A claim (`ClaimJudging`, `PickClaim`, `Abort`, `EndAbort`,
`StartClaim`) has two disjuncts: the UPDATE matched, or it did not and the handler
is over. `OpenRound` has the unique index on (room, round number) as its guard,
`PlayInsert` the phase checked under the row lock and the unique index on
(round, player). Updates that match no row (a Player who left) change nothing.
`Fail` ends a handler anywhere: the process died, or an await rejected.

Only reads that later writes repeat under a lock are merged into the check
before them: `PlayCheck` is one step because `PlayInsert` checks the phase again
and the unique index stands behind the ready flag.

Deadlines may fire whenever their Round exists and, for a Judge's grace, the
Judge is away; how they are armed is the subject of RoundClocks. The Host is not
a variable here: `HostLoss` lets any departing Player have been the Host, and picks an
heir; `NewHost` reads the heir back, and when they have left as well the departure ends
there, before `onPlayerLeft`. `Toggle`, `ToggleRead` and `ToggleWrite` are
`togglePlayerReady`: only the LOBBY lets one begin, and its write may come after the
start. Publishing an event to Redis is one step, and a failing one is `Fail`.

### RoundClocks

*State.* `key` holds the time left to the three Redis keys of a Round, `playDue`
and `judgeDue` that of its two columns; a deadline that has elapsed is 0 and one
that is not there `None`. `Tick` takes one off all of them at once, and off the
copies that handlers have read. The Round is its phase, whether somebody answered,
and whether its Judge is connected. `unheard` and `orderly` are history.

*Actions.* Each Redis command and each UPDATE is a step: `ArmJudgeKey` then
`ArmJudgeColumn` is `armJudgingWindow`, `ArmGraceKey` then `ArmGraceColumn` is
`armGrace`, `ClearGrace`, `ForgetGrace`, `Reread` are `releaseGrace`. `Expire`
hands the event to any set of free handlers: several instances hear it, or none.
`SweepFind` reads the columns, `AdvanceExpired` acts on what was read. A Judge's
drop and return start handlers that nothing keeps in order.

### RoomMembership

*State.* The Room row (`status`, `host`), its row `lock`, and of `room_players` the
sets `seated`, `active`, `ready`, `dealt`. *Actions.* A join takes the lock with its
check (`JoinAdmit`) and gives it back with its insert (`JoinInsert`); the steps that
update the Room row, and the creator's own insert, wait for it (`Unlocked`).
Everything else interleaves: `Toggle`, `ToggleRead`, `ToggleWrite`; `StartCheck`,
`StartClaim`, `StartUnready`, `StartList`, `StartDeal` per Player; `Leave` or `Drop`,
then `HostLoss`, `HeirRead`, `HeirWrite`; `EndRoom`, `EndGame`. `Knows` is the one
assumption on clients: the creator acts on the Room after its creation was answered.
Card contents, passwords and the `isHost` flags are left out; a Round is not there,
so after the start `ready` only changes by what this module does to it.

### RoundLedger

Five actions on `rounds` and `plays`: a Round opens after every earlier one is
over; a Player answers once and only before judging; judging opens only with
answers; the Round is decided, and for somebody who answered, or it is void.
`RoundLifecycle` implements it: `INSTANCE RoundLedger WITH` its own `rounds` and
`plays`, whose specification is the property `ImplementsLedger`.

### CardDraw

*State.* The two ledgers, the Hands (how often a Player holds a card: a Hand is a list
and may hold one twice), the plays and the Black Card of each Round; of a Round, its
number and whether it takes plays. `odd` is history: that draws of White Cards
overlapped, that the pool ran dry, that a refill outlived its Round, and that two
rotations were in flight together ("twice").

*Actions.* `DrawWhite` is `getNewWhiteCards` up to its write (the card tables do not
change, so its queries are one step with the read of the ledger), `RecordWhite` the
write, `GiveHand` the update of the Player. `DealNext`, `Refill` and `DealJoiner` draw;
`Play` reads the Hand that `GiveHand` will write back, several awaits later, with the
new cards on top; `Keep` drops every copy of a played card. `DrawBlack` is
`getNewBlackCard` up to its write, `RecordBlack` that write, of the ledger as it was
read. `Rotate` may begin while another rotation of the Round is in flight, since
`resumeRotation` claims nothing; the unique Round number then lets one of them open the
next Round (`OpenRound`).

### Sockets

*State.* Per socket its connection and where its `SocketSession` is; `channels`,
`receivers` and `ready` are the map of `Pubsub`, `wire` the commands Redis has not
answered, in order. `seated` is chosen in `Init` and constant: whether a user has a
seat in a Room changes only what their cursor may do. `orderly` is history.

*Actions.* `Upgrade` opens a session with `subscribe`'s three cases (ready, pending,
none). `Subscribed` and `SubscribeFails` resolve the one promise all the waiting
sockets share, which run on together before anything else does. `Connected` announces
presence, or looks up the seat; `Close`, `Release`, `Unsubscribed`, `Leaving` are the
close handler, `Move` and `Hide` the cursor inbox, which takes messages until the socket
has closed. Each await may fail; `faults` counts. `active` is what sockets write of
`isActive`: a join or a create sets it with no socket (`playerFromUser.ts:26`), and
`broadcastPresence` writes the Rooms it read before (`ws.ts:47`). Both are outside this
module, and `NobodyLeftBehind` and `CleanExit` say so; the flag that a join sets is
`active` in RoomMembership.

### Server

*Boot.* `Configure` (notifications may be refused), the start-up sweep, `Listen`.
*Sweeps.* `Tick`, `Reconnect` and the boot begin one or join the one in flight;
`SweepReads` then `SweepEnds` acts on what was read; a Round that fails stays due and
stops neither the sweep nor the boot (`eachIsolated`). *Expiry.* A deadline lapses
(`Expire`), is heard if the subscriber is connected and Redis notifies, and its
handler runs. *Drain.* `Stop` (a signal or a crash) closes the sockets and arms the
deadline; then `SocketsDrained`, `SweepDrained`, `Unsubscribe`, `ExpiryDrained`,
`PubsubClosed`, `DatabaseClosed`, `Exit`, or `DeadlineExit` at any time. The order of
the hooks is Fastify's: `preClose` first, where `@fastify/websocket` closes its clients
and refuses upgrades, then `onClose` of child plugins before their parent's, and
the last added first. Telemetry and log flushing are part of `Exit`. `Unsubscribe`,
`PubsubClosed`, `DatabaseClosed` and `Exit` may fail: the drain goes on, and the exit code
is 1. Signals during boot are left out.

### Accounts

*State.* Users are named by the request that created them, and so are sessions: ids and
tokens are fresh. A username is a number, 0 for the base a provider suggests and n for
the base with a number behind. `told`, `ended`, `raced` and `straddled` are history.
*Actions.* Each statement of a request is a step: `SignUpReads`/`SignUpInserts`,
`OAuthReads`/`OAuthClaims`/`OAuthCreates` (one transaction), `Validate` then `Expire` or
`Renew`, `ProfileReads`/`ProfileWrites`, `SignOut`, `Issue`. The password check and the
other claims of a profile are guards without state.

## 3. Runs

| run | what it asks | bounds |
| --- | --- | --- |
| rotation | two handlers race plays, picks, expiry; one may die; a sweep resumes; the ledger is implemented | 3 Players, 2 handlers, 1 sweep, 1 fault, 2 Rounds |
| departures | toggles, leaves, drops, returns, joins, the end, against the start, plays and picks | 3 Players, 2 handlers, 1 Round, two active with a toggle |
| recovery | everything that ends a Round races the sweep; liveness of rotations | 3 Players, 1 handler, 1 sweep, 1 fault, 2 Rounds |
| twoSweeps | two instances resume one dead rotation (violation) | 2 sweeps, 1 fault |
| startAndLeave | a Player leaves while Hands are dealt (violation) | 2 handlers, no fault |
| clocks | drops, returns, the opening of judging and lost events race keys, columns and a sweep: does the Round end? | 2 handlers, 1 sweep, 1 presence change, 1 fault |
| crash | a handler dies before the judging window is armed (violation) | 2 handlers, 1 fault |
| members | joins, toggles, starts, departures, hand-overs, ends | 4 Players, `maxPlayers` 3, 2 handlers, 1 fault |
| heir | the heir leaves before becoming Host (violation) | 3 Players, 2 handlers, no fault |
| cards | Hands are dealt, played, refilled while others draw and the pool runs dry; rotations draw Black Cards, alone or two at a time | 2 Players, 5 White and 2 Black Cards, Hands of 2, 2 handlers, 3 Rounds, 1 join or leave, 1 fault |
| server | a process from boot to exit, with its sockets | 2 sockets, 1 Player, 1 Room, 1 deadline, 1 fault, 1 drop |
| accounts | sign-ups, sign-ins, renames, renewals and sign-outs race | 3 requests, 2 providers with 2 ids, 1 fault |

Three Players is `MIN_PLAYERS_TO_START`: a Judge and two answers, enough for one
to be late. Two handlers and a sweep are three actors, and no claim is contested
by more than the winner, one loser and a bystander. Two Rounds show a rotation
and what is left over from the Round before; a third shows that Judges go round.
Runs with departures stay inside one Round, since what a departure disturbs (the
answers awaited, the Judge) is reset by the next. In `departures` everybody may go, but
two Players stay active while a toggle is in flight or has written late
(`ToggledInCompany`): the Player whose flag it wrote, or who left since, and one who
plays or judges. Deadlock is not checked: a Room that is over, or whose Players are gone,
stops.

In RoundClocks a play window and a grace of one tick and a judging window of two
give every order of two deadlines, and keep the one that matters (the window
outlasts the grace, 90s and 30s in the code). One presence change is enough: a
Round may open with its Judge gone and the handler of that drop still to run, so that
a return races it, or with the Judge there, so that a drop races the rest. In
RoomMembership four Players compete for three seats, and `MinPlayers` is the code's
own three. Two handlers are enough for a straddle: one is in the middle while the
other runs whole requests.

In CardDraw five White Cards are two Hands of two and one spare: the first refill
takes the last unseen card, the next recycles. `Followed` stops at the first
overlap and at the second oddity, where no property of the White Cards applies any
more. In Server two sockets on one channel are the one that leaves and the one that
comes; a third would only repeat them, except for the one case where it opens a
channel that two others are leaving, which two sockets on a pending SUBSCRIBE cover.
With a second socket no deadline lapses and no connection drops (`Followed`): sockets
and sweeps meet only in the drain, which is checked with either. In Accounts three
requests are two that race for a name or an account and one that uses what came of
it; `Lifetime` 2 has a tick before and one after the halfway mark.

*Fairness in RoundClocks.* Time passes, handlers go on, and each instance keeps
sweeping. Nothing is assumed of Players or of events being heard: in `clocks` a Round
must end even if no key is ever heard of and nobody picks.

*Fairness in RoundLifecycle.* `FairSpec` assumes that a handler in flight goes on (the
event loop resumes it, or it fails, and `Fail` is not fair) and that each instance keeps
sweeping (a timer every 30s). It assumes nothing of Players. A Player who could
leave and come back for ever could starve nothing: rotations wait for nobody.

*Fairness in Server.* The boot goes on, the interval fires, a sweep and an expiry
handler get their answers, and an armed deadline fires. Not assumed: that Redis comes
back, that an event is heard, that a socket closes or a drain step ends.
`LapsedIsHandled` follows from the interval, `AlwaysExits` from the deadline.

*SlowRotations.* The sweep waits 15s for a rotation and takes it for dead then.
With `SlowRotations = FALSE` no live rotation is that slow, which is the code's
own assumption ("a Round's own rotation takes milliseconds"); `JudgeAgreement`
needs it, and so do the theorems about it and about `JudgeRotates` and
`LastAnswerOpensJudging`, which rest on it. All others hold for either value.

*What is found.* `twoSweeps`: `resumeRotation` has no claim, so two instances
can rotate the same Round, and the Room's Judge then differs from the Round's.
`startAndLeave`: a Player who leaves while the Host's start deals the Hands makes
the start throw after it claimed the Room; the Room has no Round and no sweep
repairs it. `crash`: a process that dies between the claim of JUDGING and the judging
window leaves a Round that no expiry and no sweep ends; `OnlyUndatedJudgingStalls`
shows it is the only such place. `heir`: the Host role is written to a Player chosen
by an earlier read, who may have left. All are findings of `PROJECT.json`.

*Premises.* Where the code does let something happen, the property says so.

- `GraceFollowsPresence` and `PresenceFollowsSockets` are about presence changes, and
  sockets of a user, that do not overlap (`orderly`): the code does not order a user's
  drop and return. With overlapping ones a grace stays on a Judge who is back, and a
  Player who reconnected before the old socket's close was handled is left inactive.
- `NobodyWithoutHand` excepts a start that threw (`startAndLeave`), `JoinsRespectRoom` the
  creator's own seat, which is inserted without a look at `maxPlayers`.
- `WinEndsGame` holds while no handler died: a process that dies between the point and
  the end of the game leaves a Room whose sweep opens another Round.
- `LastAnswerOpensJudging` has two exceptions. A Player who left while their play was
  recorded: reading them back fails, and the check after the play is skipped. And a lobby
  toggle that read before the start and wrote after it (`stray`): the last flag a Round
  waits for is then set by nobody who looks whether judging may open. The play deadline
  ends both.
- `BlackCardsGoRound` is about rotations that follow one another, without a fault. Two
  sweeps may rotate one Round without a fault: the winner leaves between the check and the
  score, `RoomService.ts:528` throws, and neither resumption claims anything. Both then
  draw, the later ledger write loses the earlier card, and that card may come again early
  or twice running. TLC shows it when the premise is dropped.
- `NoOrphanedLobby` asks that the Host has a seat, not that they are connected. ADR-0002
  would end the Room of a Host who drops in LOBBY; the code keeps it for them, as the
  comment at `RoomOrchestrator.ts:209-212` says, and nothing brings them back.
- `NobodyLeftBehind` and `CleanExit` are about what sockets write, and about processes
  where no call failed (`faults = 0`): a failed clean-up is logged and not repeated.
- `NeverRepeats` and `HandStandsFull` are about draws that do not overlap and a pool that
  lasts: overlapping draws put one card in two Hands, and a recycled card may be dealt to
  a Hand that holds it, which then shrinks when it is played. `PlayedOnce` also needs
  refills that end before the next Round: one that outlives its Round writes a played card
  back.
- `UsernamesUnique` excepts names two requests had found free: `users.username` has no
  unique index (`db/schema.ts:29`), so both writes succeed. `SessionSurvives` excepts
  sessions two validations straddled. `DrainedBeforeDatabase` excepts a sweep that a
  Redis reconnect begins after `stop()` looked.

*Other things the code lets happen*, confirmed with TLC but not kept as runs: a pick
by the Judge of the Round before (the check reads the Room twice); a ready flag
set after a rotation cleared it, or by a toggle that saw the lobby and writes after
the start, which marks a Player as having played Round 1 (against the comment at
`RoomService.ts:335-336`); a Black Card that comes again too soon after two rotations; a
Round opened in a FINISHED Room; a play that can win but was not shown to the Judge. And
read in the code while
modelling it: a crash while a signal already drains the server exits with 0
(`runtime.ts:86` returns) where `docs/deployment.md:68-71` has crashes exit non-zero; a
start-up that fails drains without a deadline; the unique index on
`provider_user_id` alone (`db/schema.ts:44`) refuses the account of one provider whose
id another provider uses. The hazards name the lines.

## 4. Proofs

`RoundLifecycleProofs` proves, for any number of Players, slots, instances, Rounds
and faults, and either value of `SlowRotations`:

- `TypeCorrect`: `Spec => []TypeOK`
- `RoundsOneAtATime`: `Spec => []OneRoundInPlay`
- `WinnersPlayed`: `Spec => []WinnerPlayed`
- `LedgerImplemented`: `Spec => ImplementsLedger`

They rest on `Invariance`: `Spec => []IInv`. None of the properties is inductive:
whether `OpenRound` is safe depends on what the handler read several awaits ago.
`IInv` therefore has three parts. `RowsTyped` and `RowsGood` speak of the rows.
`TaskGood` says for each program counter what its reads still guarantee, e.g. at
`openRound` that every earlier Round has ended, at `claimJudging` that the plays
read are still there, at `pickRecord` that the Round is COMPLETE and has no
winner yet. `OneRecorder` says that the handler at `pickRecord` is the only one of its
Round. The argument that reads do not go stale is `Forward`: no step takes back
that a Round exists, who judges it, that it has ended, or an answer. `GoodStays`
turns `Forward` into preservation of `TaskGood`, `StepKeepsInFlight` into that of
all handlers, and then there is one lemma per action, most of them by `ReadStep`
(only the handler moves), `RowStep` (rows other than Rounds) or `ClaimStep` (the status of
a Round). The only assumption is `ParametersAssumption`; that `MaxPoints` is at least 1 in
it is the schema's (`schemas/room.ts:7`).

The refinement needs `IInv` at four places: that a Round opens after all earlier
ones (`OpenRefines`), that an answer is not the Judge's (`AnswerRefines`), that
judging opens with answers (`JudgingRefines`), that a winner is recorded once
(`RecordRefines`).

`RoundGameProofs` builds on that invariant and proves the properties of the game, for
any number of Players, handlers, Rounds and faults. Three hold of every instance:

- `AnnouncedOnceHolds` (`Spec => []AnnouncedOnce`). `EventsInv` has the claims in it: a
  handler that is about to publish an event of a Round is the only one, the event is
  not out, and the Round is in the phase the event announces; `PromptGood` adds that
  judging is announced with answers.
- `ScoresBackedByWinsHolds`. `ScoresInv` bounds a score by the wins whose point has been
  given (`Paid`), leaving out those a handler at `pickScore` still owes. Counting them
  needs `EventsInv`: the handler that owes the point also owes the `round-end`, and only
  one does.
- `WinEndsGameHolds`. `WinInv`: who has reached `maxPoints` has a handler that will read
  the score back or end the game.

Three more assume what the run assumes: one instance sweeps (`s = u` for all `Sweepers`)
and `~SlowRotations`. Neither can be dropped: `twoSweeps` is the counterexample.

- `JudgeAgreementHolds`. `JudgeInv` relates the Room to the Rounds (`RoomOnTop`: the Room
  is on the last Round that has a row or on the next), says that at most one handler is
  on its way to open a Round (`AloneGood`, which two sweeps break), and what that one
  relies on (`OpenerGood`).
- `JudgeRotatesHolds` also assumes two Players to start with (the code has
  `MIN_PLAYERS_TO_START = 3`) and no presence changes (`Requests` without leave, drop,
  return and join, as in `rotation`): when all but one are gone the code lets the last
  one judge again. `RotationInv` follows the choice of a Judge from its read to the row.
- `LastAnswerOpensJudgingHolds`. `AnswersInv`: a Round with all its answers has a handler
  that minds it (`Minding`), be it a play that will count again, a departure that
  concerns it, a deadline, a claim or the end of the game. It needs `JudgeAgreement`,
  because the count leaves out the Room's Judge and the claim is for the Round's. A
  departure that ends at `NewHost` minds nothing, but then its heir left, and the heir's own
  departure does. The premise on `stray` is part of `AnswersInv`: a toggle that writes after
  the start makes the flag of its Player say nothing, until the next play of theirs,
  their departure or the next rotation.

`RoundClocksProofs` proves `DeadlinesTyped` (`Spec => []TypeOK`: every key and column
within the window it was armed with) and `JudgingDeadline`
(`Spec => []JudgingHasDeadline`). The latter needs no strengthening but the types,
because it counts the handlers that will still write the column: `OpensWithDeadline`
(judging opens with one or the other), `ColumnStays` (only `releaseGrace` clears it,
and looks again) and `ArmingArrives`. `GraceFollows` (`Spec => []GraceFollowsPresence`) holds when nothing is in
flight, so its invariant `PresenceInv` is about what is: one presence change at a time
(`OneChange`, what `orderly` says), for every way a key or column may be wrong a handler
on its way to mend it (`DeadlinesFollow`), and what each has read (`PresenceRead`), e.g.
that a handler about to clear a grace has a Judge who is still there. All of it is
claimed under the premises of the property only: no fault, Round in play, `orderly`.
The only assumption is `ClocksAssumption`.

`RoomMembershipProofs` proves `MembershipTyped` (`Spec => []TypeOK`), `SeatsBounded`
(`Spec => JoinsRespectRoom`) and `StatusForward` (`Spec => StatusAdvances`). The
invariant `IInv` adds to the types `TasksGood`: a join on its way to its insert holds
the lock, and the free seat and the open Room it saw are still there. That it lasts
is the row lock's doing (`UnlockedNoJoin`): leaves only free seats, and whatever else
seats or ends waits. `LobbyHasItsHost` (`[]NoOrphanedLobby`) and `EverybodyHasAHand`
(`[]NobodyWithoutHand`) speak of a Room where nothing is in flight; `HInv` says what holds
until then. A lobby without its Host has a handler that will end it (`HostInv`); that this
is the Host the departure read needs that the Host of a lobby is its creator (`LobbyGood`)
and that nobody acts before the creator has a seat (`CreationGood`). A Player without a
Hand is on the list of a start, or of a start that has not read it yet, or deals to
themselves (`HandsInv`): the two cover everybody because a join reads the status under its
lock and the start claims the Room under the same (`LateGood`). The only assumption is
`MembershipAssumption`.

`AccountsProofs` proves, for any number of requests, providers and faults and any
clock, `AccountsTyped` (`Spec => []TypeOK`), `NamesUnique` (`[]UsernamesUnique`),
`ProviderAccounts` (`[]AccountsWhole`), `SignOutIsFinal` (`[]SignedOutStaysOut`) and
`SessionsSurvive` (`[]SessionSurvives`). `IInv` adds two parts to them. `RequestGood` says
what a request may rely on: it has created nothing yet (`NothingYet`), holds what it
read (`Holds`), the name it found free still is or was raced (`FoundFree`), the session
it found expired still is or was straddled (`FoundExpired`). `SessionRowGood` relates
a session to the expiry last written for it. `ReadStep` covers every step that only
reads, `NamesStayUnique` those that write a username, `SessionStep` those that write a
session. The only assumption is `AccountsAssumption`.

`CardDrawProofs` proves, for any number of Players, cards, draws in flight, Rounds and
faults, every property of the run `cards`: `Cards_Typed` (`Spec => []TypeOK`),
`Cards_NeverRepeat` (`[]NeverRepeats`), `Cards_HandStandsFull` (`[]HandStandsFull`),
`Cards_PlayedOnce` (`[]PlayedOnce`), `Cards_BlackCardsGoRound` (`[]BlackCardsGoRound`) and
`Cards_RestartsWhenDry` (`Spec => RestartsWhenDry`). `IInv` layers what holds under ever
stronger premises. Always: types, one start, and rotations of the latest Round or of one
that has its successor (`OpenersGood`), and what a handler holds by its program counter
(`TaskGood`). Without
overlap: the ledger a draw will write is the one on the row and its cards (`DrawsGood`).
With a pool that lasts too: every card is one Player's and on the ledger, or drawn and
yet to be recorded (`OneHolder`), and what a handler keeps and draws makes a full Hand
(`HandsGood`). With refills in time too: what a handler will write to a Hand has not been
played (`PlaysGood`, which needs `OneHolder`). Two rotations at a time disturb none of
these. Apart from them, without faults and without two rotations in flight (`InTurn`): one
handler opens a Round (`OneOpener`), what it is about to record goes with the ledger as it
is (`RecordsGood`), and that ledger is what was shown, or everything was (`BlacksGood`).
`StepKinds` splits the steps into those with no business with White Cards, and draws,
plays and writes, which have a lemma each. The only assumption is `CardsAssumption`.

`SocketsProofs` proves, for any number of sockets, Players, Rooms and failed calls,
`DeliveryHolds`, `NobodyLeftBehindHolds`, `PresenceFollowsSocketsHolds` and
`NothingLeaksHolds` (`SocketsSpec => []` the property). `SocketsInv` relates three views of a
subscription: the session that waits for it or holds it (`SessionGood`, `SubGood`), the
map of `Pubsub` (`MapGood`), and the commands on the wire (`WireGood`: each is of the session
that waits for its answer, and a session has one). `HeardGood` ties the map to what Redis
will deliver once it has answered all of them, which is where a SUBSCRIBE overtaken by an
UNSUBSCRIBE would show. `SeenGood` names, for who is active or shows a cursor, the socket
that will undo it. The only assumption is `SocketsAssumption`.

`ServerProofs` carries them over to the process: `ServerInv` is `SocketsInv`, the types and
`DrainGood`, which says of each stage of the drain what is closed and stays so.
`ServerTypeCorrect` (`Spec => []ServerTypeOK`), `DrainedBeforeDatabaseHolds`,
`CleanExitHolds` and `SocketsOfServer` (the four properties of the sockets, of the whole
process) follow. The assumptions are `SocketsAssumption` and `ServerAssumption`.

With these, every safety property of the passing runs is a theorem. Only model-checked is
liveness, which needs fairness and is out of the prover's reach: `RotationCompletes`
(`recovery`), `OnlyUndatedJudgingStalls` (`clocks`), `LapsedIsHandled` and
`AlwaysExits` (`server`). The violations are TLC's counterexamples.

## 5. Not modelled

- *HTTP layer and rate limit.* Parsing, status codes, cookies; the rate limit is a plugin's
  counter per client in Redis. Every state change behind a route is an action above.
- *In-memory store.* The test double of the Postgres store, held to it by contract tests.
- *Views and schemas.* Pure shapes of rows and payloads.
- *Telemetry.* Logs and traces; their flushing at exit is part of `Exit`.
- *Card pack, migrations, scripts.* `cards/base-pack.ts` is 7,560 lines of card texts;
  migrations and seeds run once, before the server.
- Inside modelled components: passwords of Rooms, list filters, the `isHost` flags beside
  `hostId`, the payloads of events, `resetDeck` and `invalidateAllSessions` (no caller), the
  throttling of cursor moves.

What the map covers is nearly all of the code with state. It is still a small share of
the repository's lines: the card texts alone are two fifths of them, and most of the
rest are specs, contract tests, fixtures, schemas, views and documentation of routes.

## 6. Plan

1. Done: `RoundLedger`, `RoundLifecycle` and their proofs, those of the game included.
2. Done: `RoundClocks`, with its invariants proved.
3. Done: `RoomMembership`, with all its properties proved.
4. Done: `CardDraw`, with all its properties proved.
5. Done: `Sockets` and `Server`, checked together, with all their invariants proved.
6. Done: `Accounts`, with all its invariants proved.
7. Left: the theorems with hypotheses could do with weaker ones. `JudgeRotates` should
   survive presence changes as long as two Players are active when a Judge is chosen;
   `JudgeAgreement` should hold with two instances while no two of them resume the same
   Round.
