------------------------------ MODULE CardDraw ------------------------------
(***************************************************************************)
(* The cards of one Room: the White Cards in the Players' Hands, the Black  *)
(* Card of each Round, and the two ledgers on the Room row that say which   *)
(* cards were drawn.                                                        *)
(*                                                                         *)
(* A draw reads a ledger, picks cards that are not in it, and writes it     *)
(* back whole; two draws may overlap.  The card tables never change, so a   *)
(* draw's own queries are one step with the read of the ledger.  A Hand is  *)
(* a list that may hold a card twice: here it is how often it holds each.   *)
(* Of a Round only its number and whether it takes plays is kept: who may   *)
(* play and when it ends is RoundLifecycle's.                               *)
(***************************************************************************)
EXTENDS Naturals, FiniteSets

CONSTANTS
  Players, WhiteCards, BlackCards,
  Tasks,      \* slots for request handlers and rotations in flight
  NoPlayer,   \* null
  NoCard,     \* null
  HandSize,   \* HAND_SIZE
  Pick,       \* how many White Cards a Black Card asks for
  MaxRound,   \* bound: no Round past this number, and no plays in the last one
  MaxMoves,   \* bound: joins and leaves
  MaxFaults   \* bound: handlers that die part-way

ASSUME CardsAssumption ==
  /\ NoPlayer \notin Players /\ NoCard \notin BlackCards
  /\ IsFiniteSet(WhiteCards) /\ IsFiniteSet(BlackCards)
  /\ HandSize \in Nat /\ Pick \in 1..HandSize
  /\ HandSize <= Cardinality(WhiteCards)
  /\ MaxRound \in Nat \ {0} /\ MaxMoves \in Nat /\ MaxFaults \in Nat

VARIABLES
  started,       \* the Room is IN_PROGRESS
  round,         \* number of the latest Round, 0 before the first
  open,          \* it takes plays
  pickedWhite,   \* room.pickedWhiteCards
  pickedBlack,   \* room.pickedBlackCards
  currentBlack,  \* room.currentBlackCardId
  seated,        \* Players with a room_players row
  hand,          \* their cardIds
  black,         \* per Round, its blackCardId
  plays,         \* per Round and Player, the cards of their play
  task,          \* handlers in flight
  moves,         \* how often somebody joined or left
  faults,        \* how many handlers died part-way
  odd            \* history: which of Oddities came about

game    == <<started, round, open>>
whites  == <<pickedWhite, hand, plays>>
blacks  == <<pickedBlack, currentBlack, black>>
people  == <<seated, moves>>
vars    == <<game, whites, blacks, people, task, faults, odd>>

\* "overlap": a draw read the ledger while another was about to write it.
\* "dry":     a draw found too few cards left, and recycled.
\* "late":    a refill was not done when the next Round opened, or died.
\* "twice":   two rotations were in flight together.
Oddities == {"overlap", "dry", "late", "twice"}

Rounds == 1..MaxRound
Empty  == [c \in WhiteCards |-> 0]
Idle   == [pc |-> "idle", kind |-> "none", player |-> NoPlayer, round |-> 0,
           kept |-> Empty, played |-> {}, drawn |-> {}, ledger |-> {},
           todo |-> {}, black |-> NoCard, blacks |-> {}]

Cards(h) == {c \in WhiteCards : h[c] > 0}

At(t, pc)    == task[t].pc = pc
Become(t, r) == task' = [task EXCEPT ![t] = r]
Go(t, pc)    == Become(t, [task[t] EXCEPT !.pc = pc])
Stop(t)      == Become(t, Idle)
Happened(e, condition) == odd' = IF condition THEN odd \cup {e} ELSE odd

-----------------------------------------------------------------------------
\* The ledger starts anew with every draw.
LedgerAfterMutant(drawn, recycled) == drawn

\* The ledger a draw writes: what it read and what it drew, or, when the pool
\* ran dry, only what it drew.
LedgerAfter(drawn, recycled) ==
  IF recycled # {} THEN drawn ELSE pickedWhite \cup drawn

\* getNewWhiteCards up to its write, by handler r, which then is at recordWhite:
\* unseen cards as far as there are any, then any but those.
DrawWhite(t, r, count) ==
  LET unseen == WhiteCards \ pickedWhite IN
  \E fresh \in SUBSET unseen, recycled \in SUBSET WhiteCards :
    /\ \/ Cardinality(fresh) = count
       \/ fresh = unseen /\ Cardinality(unseen) < count
    /\ recycled \cap fresh = {}
    /\ Cardinality(recycled) + Cardinality(fresh) = count
    /\ Become(t, [r EXCEPT !.pc = "recordWhite", !.drawn = fresh \cup recycled,
                           !.ledger = LedgerAfter(fresh \cup recycled, recycled)])
    /\ odd' = odd \cup {e \in {"overlap", "dry"} :
                \/ e = "overlap" /\ \E u \in Tasks : At(u, "recordWhite")
                \/ e = "dry" /\ recycled # {}}

\* The draw is not recorded.
RecordWhiteMutant(t) ==
  /\ At(t, "recordWhite")
  /\ Become(t, [task[t] EXCEPT !.pc = "giveHand", !.ledger = {}])
  /\ UNCHANGED <<game, whites, blacks, people, faults, odd>>

RecordWhite(t) ==
  /\ At(t, "recordWhite")
  /\ pickedWhite' = task[t].ledger
  /\ Become(t, [task[t] EXCEPT !.pc = "giveHand", !.ledger = {}])
  /\ UNCHANGED <<game, hand, plays, blacks, people, faults, odd>>

\* Only the fresh cards are stored.
TopUpMutant(r) == [c \in WhiteCards |-> IF c \in r.drawn THEN 1 ELSE 0]

\* The Hand a handler writes: what it keeps and what was drawn.
TopUp(r) == [c \in WhiteCards |-> r.kept[c] + (IF c \in r.drawn THEN 1 ELSE 0)]

\* The row of a Player who left is written all the same.
GiveHandMutant(t) ==
  LET r == task[t] IN
  /\ At(t, "giveHand")
  /\ hand' = [hand EXCEPT ![r.player] = TopUp(r)]
  /\ IF r.kind = "start"
     THEN Become(t, [r EXCEPT !.pc = "deal", !.drawn = {}])
     ELSE Stop(t)
  /\ UNCHANGED <<game, pickedWhite, plays, blacks, people, faults, odd>>

\* updatePlayerInRoom.  A Player who left has no row; a start then throws.
GiveHand(t) ==
  LET r == task[t] IN
  /\ At(t, "giveHand")
  /\ \/ /\ r.player \in seated
        /\ hand' = [hand EXCEPT ![r.player] = TopUp(r)]
        /\ IF r.kind = "start"
           THEN Become(t, [r EXCEPT !.pc = "deal", !.drawn = {}])
           ELSE Stop(t)
     \/ r.player \notin seated /\ Stop(t) /\ UNCHANGED hand
  /\ UNCHANGED <<game, pickedWhite, plays, blacks, people, faults, odd>>

-----------------------------------------------------------------------------
\* A reshuffle may bring the current card back at once.
BlackChoicesMutant ==
  IF BlackCards \ pickedBlack # {} THEN BlackCards \ pickedBlack ELSE BlackCards

\* getNewBlackCard's choices: an unseen card, or any but the current one.
BlackChoices ==
  IF BlackCards \ pickedBlack # {} THEN BlackCards \ pickedBlack
  ELSE BlackCards \ {currentBlack}

\* The black ledger that goes with a choice: the cards shown before and this
\* one, or, after a reshuffle, this one.
BlackLedger(b) == IF b \in pickedBlack THEN {b} ELSE pickedBlack \cup {b}

\* getNewBlackCard up to its write.  With no card left it throws.
DrawBlack(t) ==
  /\ At(t, "drawBlack")
  /\ \/ \E b \in BlackChoices :
          Become(t, [task[t] EXCEPT !.pc = "recordBlack", !.black = b,
                                    !.blacks = BlackLedger(b)])
     \/ BlackChoices = {} /\ Stop(t)
  /\ UNCHANGED <<game, whites, blacks, people, faults, odd>>

\* ... and its write, of the ledger as it was read.
RecordBlack(t) ==
  LET r == task[t] IN
  /\ At(t, "recordBlack")
  /\ pickedBlack' = r.blacks /\ currentBlack' = r.black
  /\ Become(t, [r EXCEPT !.blacks = {},
                         !.pc = IF r.kind = "start" THEN "list" ELSE "openRound"])
  /\ UNCHANGED <<game, whites, black, people, faults, odd>>

-----------------------------------------------------------------------------
\* startGame, once the Host's checks passed: the claim of LOBBY, the first Black
\* Card, then a Hand for each Player it lists.
StartClaim(t) ==
  /\ task[t] = Idle
  /\ ~started /\ started' = TRUE
  /\ Become(t, [Idle EXCEPT !.kind = "start", !.pc = "drawBlack"])
  /\ UNCHANGED <<round, open, whites, blacks, people, faults, odd>>

List(t) ==
  /\ At(t, "list")
  /\ Become(t, [task[t] EXCEPT !.pc = "deal", !.todo = seated])
  /\ UNCHANGED <<game, whites, blacks, people, faults, odd>>

DealNext(t) ==
  LET r == task[t] IN
  /\ At(t, "deal")
  /\ \E p \in r.todo :
       DrawWhite(t, [r EXCEPT !.player = p, !.todo = @ \ {p}], HandSize)
  /\ UNCHANGED <<game, whites, blacks, people, faults>>

DealDone(t) ==
  /\ At(t, "deal") /\ task[t].todo = {}
  /\ Go(t, "openRound")
  /\ UNCHANGED <<game, whites, blacks, people, faults, odd>>

\* A rotation of the Round that has just ended, by the handler that ended it or
\* by a sweep that finds it without a successor.  A resumption claims nothing,
\* so several may be in flight: a slow one and a sweep, or two instances' sweeps.
Rotate(t) ==
  /\ task[t] = Idle
  /\ round \in 1..(MaxRound - 1)
  /\ open' = FALSE
  /\ Become(t, [Idle EXCEPT !.kind = "rotate", !.pc = "drawBlack", !.round = round])
  /\ Happened("twice", \E u \in Tasks : task[u].kind = "rotate")
  /\ UNCHANGED <<started, round, whites, blacks, people, faults>>

Refilling(r) ==
  r.kind = "play" /\ r.pc \in {"refill", "recordWhite", "giveHand"}

\* The row of the next Round.  Its number is unique in the Room: who comes
\* second fails.
OpenRound(t) ==
  /\ At(t, "openRound")
  /\ \/ /\ task[t].round = round
        /\ round' = round + 1 /\ open' = TRUE
        /\ black' = [black EXCEPT ![round + 1] = task[t].black]
        /\ Happened("late", \E u \in Tasks : Refilling(task[u]))
     \/ task[t].round # round /\ UNCHANGED <<round, open, black, odd>>
  /\ Stop(t)
  /\ UNCHANGED <<started, whites, pickedBlack, currentBlack, people, faults>>

-----------------------------------------------------------------------------
\* playCards: the checks, on the Hand as it is read here.  (Who has played is
\* told by the ready flag; the unique index of the plays stands behind it.)
Play(t, p) ==
  /\ task[t] = Idle
  /\ open /\ round < MaxRound
  /\ p \in seated /\ plays[round][p] = {}
  /\ \E cards \in SUBSET Cards(hand[p]) :
       /\ Cardinality(cards) = Pick
       /\ Become(t, [Idle EXCEPT !.kind = "play", !.pc = "insert", !.player = p,
                                 !.round = round, !.kept = hand[p], !.played = cards])
  /\ UNCHANGED <<game, whites, blacks, people, faults, odd>>

\* The row of the play, unless the Round takes none any more or has one of this
\* Player.
Insert(t) ==
  LET r == task[t]
      mayPlay == open /\ round = r.round /\ plays[round][r.player] = {}
  IN
  /\ At(t, "insert")
  /\ \/ /\ mayPlay
        /\ plays' = [plays EXCEPT ![round][r.player] = r.played]
        /\ Become(t, [r EXCEPT !.pc = "refill", !.round = 0])
     \/ ~mayPlay /\ Stop(t) /\ UNCHANGED plays
  /\ UNCHANGED <<game, pickedWhite, hand, blacks, people, faults, odd>>

\* The Hand is kept whole.
KeepMutant(r) == r.kept

\* What is left of a Hand: every copy of a played card goes.
Keep(r) == [c \in WhiteCards |-> IF c \in r.played THEN 0 ELSE r.kept[c]]

\* refillHand: as many cards as were played, on top of the Hand read before the
\* play.
Refill(t) ==
  LET r == task[t] IN
  /\ At(t, "refill")
  /\ DrawWhite(t, [r EXCEPT !.kept = Keep(r), !.played = {}], Cardinality(r.played))
  /\ UNCHANGED <<game, whites, blacks, people, faults>>

\* joinRoom: the row has no cards.  Who joins a started Room is dealt a Hand.
Join(t, p) ==
  /\ moves < MaxMoves /\ moves' = moves + 1
  /\ p \notin seated /\ seated' = seated \cup {p}
  /\ \/ ~started /\ UNCHANGED task
     \/ /\ started /\ task[t] = Idle
        /\ Become(t, [Idle EXCEPT !.kind = "join", !.pc = "dealJoiner", !.player = p])
  /\ UNCHANGED <<game, whites, blacks, faults, odd>>

DealJoiner(t) ==
  /\ At(t, "dealJoiner")
  /\ DrawWhite(t, task[t], HandSize)
  /\ UNCHANGED <<game, whites, blacks, people, faults>>

\* leaveRoom deletes the row, and the Hand with it.
Leave(p) ==
  /\ moves < MaxMoves /\ moves' = moves + 1
  /\ p \in seated /\ seated' = seated \ {p}
  /\ hand' = [hand EXCEPT ![p] = Empty]
  /\ UNCHANGED <<game, pickedWhite, plays, blacks, task, faults, odd>>

\* A handler dies, or an await of its rejects; what it wrote stays.
Fail(t) ==
  /\ task[t] # Idle
  /\ faults < MaxFaults /\ faults' = faults + 1
  /\ Stop(t)
  /\ Happened("late", Refilling(task[t]))
  /\ UNCHANGED <<game, whites, blacks, people>>

-----------------------------------------------------------------------------
\* A Room in LOBBY.
Init ==
  /\ started = FALSE /\ round = 0 /\ open = FALSE
  /\ pickedWhite = {} /\ pickedBlack = {} /\ currentBlack = NoCard
  /\ seated \in SUBSET Players
  /\ hand = [p \in Players |-> Empty]
  /\ black = [n \in Rounds |-> NoCard]
  /\ plays = [n \in Rounds |-> [p \in Players |-> {}]]
  /\ task = [t \in Tasks |-> Idle]
  /\ moves = 0 /\ faults = 0 /\ odd = {}

Next ==
  \/ \E p \in Players : Leave(p)
  \/ \E t \in Tasks :
       \/ StartClaim(t) \/ List(t) \/ DealNext(t) \/ DealDone(t)
       \/ Rotate(t) \/ DrawBlack(t) \/ RecordBlack(t) \/ OpenRound(t)
       \/ Insert(t) \/ Refill(t) \/ DealJoiner(t)
       \/ RecordWhite(t) \/ GiveHand(t) \/ Fail(t)
       \/ \E p \in Players : Play(t, p) \/ Join(t, p)

Spec == Init /\ [][Next]_vars

-----------------------------------------------------------------------------
Pcs == {"idle", "drawBlack", "recordBlack", "list", "deal", "openRound", "insert",
        "refill", "dealJoiner", "recordWhite", "giveHand"}

Hands == [WhiteCards -> Nat]

TaskState ==
  [pc : Pcs, kind : {"none", "start", "rotate", "play", "join"},
   player : Players \cup {NoPlayer}, round : 0..MaxRound, kept : Hands,
   played : SUBSET WhiteCards, drawn : SUBSET WhiteCards, ledger : SUBSET WhiteCards,
   todo : SUBSET Players, black : BlackCards \cup {NoCard}, blacks : SUBSET BlackCards]

\* Rows and handlers hold values of the code's types, and only a Player with a
\* seat holds cards.
TypeOK ==
  /\ started \in BOOLEAN /\ round \in 0..MaxRound /\ open \in BOOLEAN
  /\ pickedWhite \subseteq WhiteCards /\ pickedBlack \subseteq BlackCards
  /\ currentBlack \in BlackCards \cup {NoCard}
  /\ seated \subseteq Players
  /\ hand \in [Players -> Hands]
  /\ \A p \in Players \ seated : hand[p] = Empty
  /\ black \in [Rounds -> BlackCards \cup {NoCard}]
  /\ plays \in [Rounds -> [Players -> SUBSET WhiteCards]]
  /\ task \in [Tasks -> TaskState]
  /\ moves \in 0..MaxMoves /\ faults \in 0..MaxFaults /\ odd \subseteq Oddities

\* Cards that are a Player's: in the Hand, or in a play.
Owned(p) == Cards(hand[p]) \cup UNION {plays[n][p] : n \in Rounds}

\* "Recording each pick on the Room so a card never repeats within that Room":
\* nobody holds a card twice, or one that another Player holds or played, as
\* long as no two draws overlapped and the pool lasts.
NeverRepeats ==
  odd \subseteq {"late", "twice"} =>
    \A p \in Players :
      /\ \A c \in WhiteCards : hand[p][c] <= 1
      /\ \A q \in Players \ {p} : Owned(p) \cap Owned(q) = {}

\* refillHand: "the Hand tops back up to its standing size".  Whoever has a Hand
\* has HandSize cards, under the same conditions: a card held twice is played
\* twice and replaced once.
HandStandsFull ==
  odd \subseteq {"late", "twice"} =>
    \A p \in Players : hand[p] # Empty => Cardinality(Cards(hand[p])) = HandSize

\* A played card is gone: nobody plays the same card in two Rounds, under the
\* same conditions and unless a refill was still to come when the next Round
\* opened, or died.
PlayedOnce ==
  odd \subseteq {"twice"} =>
    \A p \in Players : \A m, n \in Rounds :
      m # n => plays[m][p] \cap plays[n][p] = {}

\* getNewWhiteCards: the ledger restarts only "when the pool runs dry", so it
\* forgets cards only when every card has been handed out since it began.
RestartsWhenDry ==
  [][~(pickedWhite \subseteq pickedWhite') /\ "overlap" \notin odd =>
       pickedWhite \cup pickedWhite' = WhiteCards]_vars

\* getNewBlackCard: "reshuffling the discards (all but the current card) once
\* every card has been shown".  A Black Card comes again only after all others
\* were shown, and never twice running, as long as no handler died and no two
\* rotations were in flight together: of two draws that overlap the later write
\* drops the other's card, which may then come again at once.
BlackCardsGoRound ==
  faults = 0 /\ "twice" \notin odd =>
    \A m, n \in Rounds : m < n /\ black[m] = black[n] /\ black[n] # NoCard =>
      /\ m # n - 1
      /\ BlackCards = {black[k] : k \in 1..(n - 1)}

=============================================================================
