---------------------------- MODULE CardDrawProofs ----------------------------
(***************************************************************************)
(* Theorems about CardDraw, for any number of Players, cards, handlers,     *)
(* Rounds, moves and faults.                                                *)
(***************************************************************************)
EXTENDS CardDraw, FiniteSetTheorems, TLAPS

USE DEF At, Become, Go, Stop

\* Handlers that open a Round: the start of the game, or a rotation.
Opening(t) == task[t].kind \in {"start", "rotate"}

\* One start, before the first Round; and a rotation of the latest Round, or of
\* one that has its successor by now.
OpenersGood ==
  /\ \A t, u \in Tasks : task[t].kind = "start" /\ task[u].kind = "start" => t = u
  /\ \A t \in Tasks :
       /\ task[t].kind = "start"  => started /\ round = 0 /\ task[t].round = 0
       /\ task[t].kind = "rotate" => task[t].round \in 1..(MaxRound - 1) /\ task[t].round <= round
  /\ round > 0 => started
  /\ open => round > 0

\* What a handler holds, by where it is.
TaskGood(r) ==
  /\ r.pc = "idle" => r = Idle
  /\ r.pc \in {"insert", "refill"} => r.kind = "play"
  /\ r.pc \in {"recordWhite", "giveHand"} => r.kind \in {"start", "play", "join"}
  /\ r.pc = "dealJoiner" => r.kind = "join"
  /\ r.pc \in {"list", "deal"} => r.kind = "start"
  /\ r.pc \in {"drawBlack", "recordBlack", "openRound"} => r.kind \in {"start", "rotate"}
  /\ r.pc \in {"insert", "refill", "recordWhite", "giveHand", "dealJoiner"} => r.player \in Players
  /\ r.kind # "play" => r.kept = Empty
  /\ r.pc \notin {"recordWhite", "giveHand"} => r.drawn = {}
  /\ r.pc \in {"insert", "refill"} =>
       r.played \subseteq Cards(r.kept) /\ Cardinality(r.played) = Pick

\* One draw at a time is between its read of the ledger and its write, which
\* will add to the ledger, or restart it when every card is in one of the two.
DrawsGood ==
  /\ \A t, u \in Tasks : At(t, "recordWhite") /\ At(u, "recordWhite") => t = u
  /\ \A t \in Tasks : At(t, "recordWhite") =>
       \/ task[t].ledger = pickedWhite \cup task[t].drawn
       \/ "dry" \in odd /\ pickedWhite \cup task[t].ledger = WhiteCards

\* c is p's: in the Hand, in a play, or kept by a handler that will write the
\* Hand; or drawn by it.
Has(p, c) ==
  \/ hand[p][c] > 0
  \/ \E n \in Rounds : c \in plays[n][p]
  \/ \E t \in Tasks : task[t].player = p /\ task[t].kept[c] > 0

Held(p, c) == Has(p, c) \/ \E t \in Tasks : task[t].player = p /\ c \in task[t].drawn

\* Every card is one Player's, and on the ledger unless its draw is yet to be
\* recorded; and what a handler has drawn is nowhere else yet.
OneHolder ==
  /\ \A p, q \in Players, c \in WhiteCards : Held(p, c) /\ Held(q, c) => p = q
  /\ \A p \in Players, c \in WhiteCards : Has(p, c) => c \in pickedWhite
  /\ \A t \in Tasks : At(t, "giveHand") => task[t].drawn \subseteq pickedWhite
  /\ \A t \in Tasks : \A c \in task[t].drawn :
       /\ \A p \in Players : ~Has(p, c)
       /\ \A u \in Tasks \ {t} : c \notin task[u].drawn

Single(h) == \A c \in WhiteCards : h[c] <= 1

\* Hands, and what they are made of, are of single cards and add up.
HandGood(h) == Single(h) /\ (h # Empty => Cardinality(Cards(h)) = HandSize)

CarriesGood(r) ==
  /\ Single(r.kept)
  /\ r.pc \in {"insert", "refill"} => Cardinality(Cards(r.kept)) = HandSize
  /\ r.pc \in {"recordWhite", "giveHand"} =>
       /\ Cards(r.kept) \cap r.drawn = {}
       /\ Cardinality(Cards(r.kept) \cup r.drawn) = HandSize

HandsGood ==
  /\ \A p \in Players : HandGood(hand[p])
  /\ \A t \in Tasks : CarriesGood(task[t])

Disjoint(p, S, n) == S \cap plays[n][p] = {}

\* What a handler will put into a Hand is not what the Player has played.
TaskPlays(r) ==
  /\ r.pc = "insert" =>
       r.round <= round /\ \A n \in Rounds : n < r.round => Disjoint(r.player, Cards(r.kept), n)
  /\ r.pc = "refill" =>
       /\ round \in Rounds /\ r.played = plays[round][r.player]
       /\ \A n \in Rounds : n < round => Disjoint(r.player, Cards(r.kept), n)
  /\ r.pc \in {"recordWhite", "giveHand"} =>
       /\ \A n \in Rounds : Disjoint(r.player, Cards(r.kept) \cup r.drawn, n)
       /\ r.kind = "play" => round \in Rounds /\ plays[round][r.player] # {}

\* No Hand holds a card its Player has played, but until the refill of this
\* Round is done.
PlaysGood ==
  /\ \A n \in Rounds, p \in Players : n > round => plays[n][p] = {}
  /\ \A n \in Rounds, p \in Players :
       \/ Disjoint(p, Cards(hand[p]), n)
       \/ n = round /\ \E t \in Tasks : Refilling(task[t]) /\ task[t].player = p
  /\ \A t \in Tasks : TaskPlays(task[t])

\* The Black Cards of the Rounds so far; and a start or rotation whose draw is
\* recorded.
Shown(n) == {black[k] : k \in 1..n}
Drew(t)  == Opening(t) /\ task[t].pc \notin {"drawBlack", "recordBlack"}

\* One handler opens a Round, the one after the latest, and what it is about to
\* record goes with the ledger as it is.
OneOpener ==
  /\ \A t, u \in Tasks : Opening(t) /\ Opening(u) => t = u
  /\ \A t \in Tasks : task[t].kind = "rotate" => task[t].round = round

RecordsGood ==
  \A t \in Tasks : At(t, "recordBlack") =>
    /\ task[t].black \in BlackCards /\ task[t].blacks = BlackLedger(task[t].black)
    /\ \/ task[t].black \notin pickedBlack
       \/ BlackCards \subseteq pickedBlack /\ task[t].black # currentBlack

\* Before the first Round nothing but its Black Card is drawn; later the ledger
\* holds what was shown, or has restarted when everything was.
BlacksGood ==
  /\ OneOpener /\ RecordsGood
  /\ \A n \in Rounds : black[n] # NoCard <=> n <= round
  /\ currentBlack # NoCard => currentBlack \in pickedBlack
  /\ \A t \in Tasks : Drew(t) => task[t].black = currentBlack /\ currentBlack \in BlackCards
  /\ round = 0 =>
       /\ pickedBlack \subseteq {currentBlack}
       /\ \A t \in Tasks : ~started \/ (Opening(t) /\ ~Drew(t)) =>
            pickedBlack = {} /\ currentBlack = NoCard
  /\ round > 0 /\ (\A t \in Tasks : ~Drew(t)) =>
       /\ currentBlack = black[round]
       /\ pickedBlack = Shown(round) \/ BlackCards = Shown(round)
  /\ round > 0 /\ (\E t \in Tasks : Drew(t)) =>
       /\ currentBlack # black[round]
       /\ currentBlack \in Shown(round) => BlackCards = Shown(round)
       /\ pickedBlack = Shown(round) \cup {currentBlack} \/ BlackCards = Shown(round)

Basic == TypeOK /\ OpenersGood /\ \A t \in Tasks : TaskGood(task[t])

IInv ==
  /\ Basic
  /\ "overlap" \notin odd => DrawsGood
  /\ odd \subseteq {"late", "twice"} => OneHolder /\ HandsGood
  /\ odd \subseteq {"twice"} => PlaysGood /\ PlayedOnce
  /\ faults = 0 /\ "twice" \notin odd => BlacksGood /\ BlackCardsGoRound

-----------------------------------------------------------------------------
LEMMA IdleGood == Idle \in TaskState /\ TaskGood(Idle)
<1>1. Empty \in Hands
  BY DEF Empty, Hands
<1> QED
  BY <1>1, CardsAssumption DEF Idle, TaskState, Pcs, TaskGood

\* One handler moves from task[t] to r.
Moves(t, r) == task' = [task EXCEPT ![t] = r]

LEMMA Moved ==
  ASSUME task \in [Tasks -> TaskState], NEW t \in Tasks, NEW r, Moves(t, r)
  PROVE  task'[t] = r /\ \A u \in Tasks \ {t} : task'[u] = task[u]
  BY DEF Moves

\* A handler that moves on, or is over.
LEMMA BasicStep ==
  ASSUME Basic, NEW t \in Tasks, NEW r \in TaskState, Moves(t, r), TaskGood(r),
         \/ r.kind = task[t].kind /\ r.round = task[t].round
         \/ r.kind \notin {"start", "rotate"},
         UNCHANGED game
  PROVE  OpenersGood' /\ task' \in [Tasks -> TaskState] /\ \A u \in Tasks : TaskGood(task'[u])
<1>1. task \in [Tasks -> TaskState]
  BY DEF Basic, TypeOK
<1>2. task'[t] = r /\ \A u \in Tasks \ {t} : task'[u] = task[u]
  BY <1>1, Moved
<1>3. OpenersGood'
  BY <1>2 DEF Basic, OpenersGood, Opening, game
<1> QED
  BY <1>1, <1>2, <1>3 DEF Basic, Moves

LEMMA DisjointSum ==
  ASSUME NEW S, NEW T, IsFiniteSet(S), IsFiniteSet(T), S \cap T = {}
  PROVE  IsFiniteSet(S \cup T) /\ Cardinality(S \cup T) = Cardinality(S) + Cardinality(T)
<1>1. Cardinality(S) \in Nat /\ Cardinality(T) \in Nat
  BY FS_CardinalityType
<1>2. Cardinality(S \cap T) = 0
  BY FS_EmptySet
<1>3. /\ IsFiniteSet(S \cup T)
      /\ Cardinality(S \cup T) = Cardinality(S) + Cardinality(T) - Cardinality(S \cap T)
  BY FS_Union
<1> QED
  BY <1>1, <1>2, <1>3

\* What a draw does: it picks cards d and the ledger l it will write.
Drawn(r, d, l) == [r EXCEPT !.pc = "recordWhite", !.drawn = d, !.ledger = l]

LEMMA Draws ==
  ASSUME TypeOK, NEW t \in Tasks, NEW r \in TaskState, NEW count \in Nat,
         DrawWhite(t, r, count)
  PROVE  \E d, l \in SUBSET WhiteCards :
           /\ Moves(t, Drawn(r, d, l)) /\ Drawn(r, d, l) \in TaskState
           /\ Cardinality(d) = count
           /\ \/ l = pickedWhite \cup d
              \/ "dry" \in odd' /\ pickedWhite \cup l = WhiteCards
           /\ "dry" \notin odd' => d \cap pickedWhite = {}
           /\ "overlap" \notin odd' => \A u \in Tasks : ~At(u, "recordWhite")
           /\ odd' \subseteq Oddities /\ odd \subseteq odd'
<1>1. PICK fresh \in SUBSET (WhiteCards \ pickedWhite), recycled \in SUBSET WhiteCards :
        /\ \/ Cardinality(fresh) = count
           \/ fresh = WhiteCards \ pickedWhite
        /\ recycled \cap fresh = {}
        /\ Cardinality(recycled) + Cardinality(fresh) = count
        /\ Moves(t, Drawn(r, fresh \cup recycled, LedgerAfter(fresh \cup recycled, recycled)))
        /\ odd' = odd \cup {e \in {"overlap", "dry"} :
                     \/ e = "overlap" /\ \E u \in Tasks : At(u, "recordWhite")
                     \/ e = "dry" /\ recycled # {}}
  BY DEF DrawWhite, Moves, Drawn
<1> DEFINE d == fresh \cup recycled
           l == LedgerAfter(d, recycled)
<1>2. IsFiniteSet(fresh) /\ IsFiniteSet(recycled)
  BY CardsAssumption, FS_Subset
<1>3. Cardinality(fresh) \in Nat /\ Cardinality(recycled) \in Nat
  BY <1>2, FS_CardinalityType
<1>4. Cardinality(d) = count
  BY <1>1, <1>2, <1>3, DisjointSum
<1>5. recycled # {} => fresh = WhiteCards \ pickedWhite
  BY <1>1, <1>2, <1>3, FS_EmptySet
<1>6. d \in SUBSET WhiteCards /\ l \in SUBSET WhiteCards
  BY DEF LedgerAfter, TypeOK
<1>7. l = pickedWhite \cup d \/ ("dry" \in odd' /\ pickedWhite \cup l = WhiteCards)
  BY <1>1, <1>5, <1>6 DEF LedgerAfter, TypeOK
<1>8. "dry" \notin odd' => d \cap pickedWhite = {}
  BY <1>1
<1>9. /\ "overlap" \notin odd' => \A u \in Tasks : ~At(u, "recordWhite")
      /\ odd' \subseteq Oddities /\ odd \subseteq odd'
  BY <1>1 DEF TypeOK, Oddities
<1>10. Drawn(r, d, l) \in TaskState
  BY <1>6 DEF Drawn, TaskState, Pcs
<1> QED
  BY <1>1, <1>4, <1>6, <1>7, <1>8, <1>9, <1>10

\* --- types, openers and what handlers hold, action by action

LEMMA TaskBasic ==
  ASSUME Basic, NEW t \in Tasks
  PROVE  task[t] \in TaskState /\ TaskGood(task[t])
  BY DEF Basic, TypeOK

LEMMA BasicLeave == ASSUME Basic, NEW p \in Players, Leave(p) PROVE Basic'
<1>1. Empty \in Hands
  BY DEF Empty, Hands
<1>2. moves' \in 0..MaxMoves
  BY CardsAssumption DEF Leave, Basic, TypeOK
<1>3. TypeOK'
  BY <1>1, <1>2 DEF Leave, Basic, TypeOK, game, blacks
<1> QED
  BY <1>3 DEF Leave, Basic, OpenersGood, Opening, game

\* A draw, by a handler that becomes r first.
LEMMA BasicDraw ==
  ASSUME Basic, NEW t \in Tasks, NEW r \in TaskState, NEW count \in Nat,
         DrawWhite(t, r, count), UNCHANGED <<game, whites, blacks, people, faults>>,
         r.kind = task[t].kind, r.round = task[t].round,
         r.kind \in {"start", "play", "join"}, r.player \in Players,
         r.kind # "play" => r.kept = Empty
  PROVE  Basic'
<1>1. PICK d, l \in SUBSET WhiteCards :
        /\ Moves(t, Drawn(r, d, l)) /\ Drawn(r, d, l) \in TaskState
        /\ odd' \subseteq Oddities
  BY Draws DEF Basic
<1>2. /\ Drawn(r, d, l).kind = r.kind /\ Drawn(r, d, l).round = r.round
      /\ TaskGood(Drawn(r, d, l))
  BY DEF Drawn, TaskGood, TaskState
<1>3. OpenersGood' /\ task' \in [Tasks -> TaskState] /\ \A u \in Tasks : TaskGood(task'[u])
  BY <1>1, <1>2, BasicStep
<1>4. TypeOK'
  BY <1>1, <1>3 DEF Basic, TypeOK, game, whites, blacks, people
<1> QED
  BY <1>3, <1>4 DEF Basic

\* A step that moves one handler and leaves the rows' types alone.
LEMMA BasicMove ==
  ASSUME Basic, NEW t \in Tasks, NEW r \in TaskState, Moves(t, r), TaskGood(r),
         \/ r.kind = task[t].kind /\ r.round = task[t].round
         \/ r.kind \notin {"start", "rotate"},
         UNCHANGED <<game, blacks>>,
         pickedWhite' \subseteq WhiteCards, seated' \subseteq Players,
         hand' \in [Players -> Hands], \A p \in Players \ seated' : hand'[p] = Empty,
         plays' \in [Rounds -> [Players -> SUBSET WhiteCards]],
         moves' \in 0..MaxMoves, faults' \in 0..MaxFaults, odd' \subseteq Oddities
  PROVE  Basic'
<1>1. OpenersGood' /\ task' \in [Tasks -> TaskState] /\ \A u \in Tasks : TaskGood(task'[u])
  BY BasicStep
<1>2. TypeOK'
  BY <1>1 DEF Basic, TypeOK, game, blacks
<1> QED
  BY <1>1, <1>2 DEF Basic

\* What the steps of one handler write, the drawing ones aside.
LEMMA BasicList == ASSUME Basic, NEW t \in Tasks, List(t) PROVE Basic'
<1> DEFINE r == [task[t] EXCEPT !.pc = "deal", !.todo = seated]
<1>1. r \in TaskState /\ r.kind = task[t].kind /\ r.round = task[t].round /\ TaskGood(r)
  BY TaskBasic DEF List, TaskState, TaskGood, Pcs, Basic, TypeOK
<1>2. Moves(t, r) /\ UNCHANGED <<game, whites, blacks, people, faults, odd>>
  BY DEF List, Moves
<1> HIDE DEF r
<1> QED
  BY <1>1, <1>2, BasicMove DEF Basic, TypeOK, whites, people

LEMMA BasicDealDone == ASSUME Basic, NEW t \in Tasks, DealDone(t) PROVE Basic'
<1> DEFINE r == [task[t] EXCEPT !.pc = "openRound"]
<1>1. r \in TaskState /\ r.kind = task[t].kind /\ r.round = task[t].round /\ TaskGood(r)
  BY TaskBasic DEF DealDone, TaskState, TaskGood, Pcs
<1>2. Moves(t, r) /\ UNCHANGED <<game, whites, blacks, people, faults, odd>>
  BY DEF DealDone, Moves
<1> HIDE DEF r
<1> QED
  BY <1>1, <1>2, BasicMove DEF Basic, TypeOK, whites, people

LEMMA BasicPlay == ASSUME Basic, NEW t \in Tasks, NEW p \in Players, Play(t, p) PROVE Basic'
<1>1. PICK cards \in SUBSET Cards(hand[p]) :
        /\ Cardinality(cards) = Pick
        /\ Moves(t, [Idle EXCEPT !.kind = "play", !.pc = "insert", !.player = p,
                                 !.round = round, !.kept = hand[p], !.played = cards])
  BY DEF Play, Moves
<1> DEFINE r == [Idle EXCEPT !.kind = "play", !.pc = "insert", !.player = p,
                             !.round = round, !.kept = hand[p], !.played = cards]
<1>2. r \in TaskState /\ r.kind = "play" /\ TaskGood(r)
  BY <1>1, IdleGood DEF Idle, TaskState, TaskGood, Pcs, Basic, TypeOK, Cards
<1>3. UNCHANGED <<game, whites, blacks, people, faults, odd>>
  BY DEF Play
<1> HIDE DEF r
<1> QED
  BY <1>1, <1>2, <1>3, BasicMove DEF Basic, TypeOK, whites, people, r

LEMMA BasicJoin == ASSUME Basic, NEW t \in Tasks, NEW p \in Players, Join(t, p) PROVE Basic'
<1>1. moves' \in 0..MaxMoves /\ seated' = seated \cup {p}
      /\ UNCHANGED <<game, whites, blacks, faults, odd>>
  BY CardsAssumption DEF Join, Basic, TypeOK
<1>2. CASE UNCHANGED task
  BY <1>1, <1>2 DEF Basic, TypeOK, OpenersGood, Opening, game, whites, blacks
<1>3. CASE Moves(t, [Idle EXCEPT !.kind = "join", !.pc = "dealJoiner", !.player = p])
  <2> DEFINE r == [Idle EXCEPT !.kind = "join", !.pc = "dealJoiner", !.player = p]
  <2>1. r \in TaskState /\ r.kind = "join" /\ TaskGood(r)
    BY IdleGood DEF Idle, TaskState, TaskGood, Pcs
  <2> HIDE DEF r
  <2> QED
    BY <1>1, <1>3, <2>1, BasicMove DEF Basic, TypeOK, whites, r
<1> QED
  BY <1>2, <1>3 DEF Join, Moves

LEMMA BasicInsert == ASSUME Basic, NEW t \in Tasks, Insert(t) PROVE Basic'
<1>1. /\ task[t] \in TaskState /\ TaskGood(task[t]) /\ task[t].pc = "insert"
      /\ UNCHANGED <<game, pickedWhite, hand, blacks, people, faults, odd>>
  BY TaskBasic DEF Insert
<1>2. CASE UNCHANGED plays /\ Moves(t, Idle)
  BY <1>1, <1>2, IdleGood, BasicMove DEF Basic, TypeOK, people, Idle
<1>3. CASE /\ open /\ plays' = [plays EXCEPT ![round][task[t].player] = task[t].played]
           /\ Moves(t, [task[t] EXCEPT !.pc = "refill", !.round = 0])
  <2> DEFINE r == [task[t] EXCEPT !.pc = "refill", !.round = 0]
  <2>1. r \in TaskState /\ r.kind = "play" /\ TaskGood(r)
    <3>1. 0 \in 0..MaxRound
      BY CardsAssumption
    <3>2. /\ r \in TaskState /\ r.pc = "refill" /\ r.kind = task[t].kind
          /\ r.player = task[t].player /\ r.kept = task[t].kept
          /\ r.played = task[t].played /\ r.drawn = task[t].drawn
      BY <1>1, <3>1 DEF TaskState, Pcs
    <3>3. task[t].kind = "play"
      BY <1>1 DEF TaskGood
    <3> QED
      BY <1>1, <3>2, <3>3 DEF TaskGood
  <2>2. plays' \in [Rounds -> [Players -> SUBSET WhiteCards]]
    BY <1>1, <1>3 DEF Basic, TypeOK, TaskState, TaskGood
  <2> HIDE DEF r
  <2> QED
    BY <1>1, <1>3, <2>1, <2>2, BasicMove DEF Basic, TypeOK, people, r
<1> QED
  BY <1>2, <1>3 DEF Insert, Moves

LEMMA BasicRecordWhite == ASSUME Basic, NEW t \in Tasks, RecordWhite(t) PROVE Basic'
<1> DEFINE r == [task[t] EXCEPT !.pc = "giveHand", !.ledger = {}]
<1>1. /\ r \in TaskState /\ r.kind = task[t].kind /\ r.round = task[t].round
      /\ TaskGood(r) /\ task[t] \in TaskState
  BY TaskBasic DEF RecordWhite, TaskState, TaskGood, Pcs
<1>2. /\ Moves(t, r) /\ UNCHANGED <<game, hand, plays, blacks, people, faults, odd>>
      /\ pickedWhite' \subseteq WhiteCards
  BY <1>1 DEF RecordWhite, Moves, TaskState
<1> HIDE DEF r
<1> QED
  BY <1>1, <1>2, BasicMove DEF Basic, TypeOK, people

\* What GiveHand does, in two cases.
LEMMA GiveHandCases ==
  ASSUME Basic, NEW t \in Tasks, GiveHand(t)
  PROVE  /\ task[t].pc = "giveHand" /\ task[t] \in TaskState /\ TaskGood(task[t])
         /\ task[t].player \in Players /\ TopUp(task[t]) \in Hands
         /\ UNCHANGED <<game, pickedWhite, plays, blacks, people, faults, odd>>
         /\ \/ task[t].player \notin seated /\ Moves(t, Idle) /\ UNCHANGED hand
            \/ /\ task[t].player \in seated
               /\ hand' = [hand EXCEPT ![task[t].player] = TopUp(task[t])]
               /\ \/ Moves(t, Idle) /\ task[t].kind # "start"
                  \/ /\ task[t].kind = "start"
                     /\ Moves(t, [task[t] EXCEPT !.pc = "deal", !.drawn = {}])
<1>1. task[t].pc = "giveHand" /\ task[t] \in TaskState /\ TaskGood(task[t])
  BY TaskBasic DEF GiveHand
<1>2. TopUp(task[t]) \in Hands
  BY <1>1 DEF TopUp, TaskState, Hands
<1> QED
  BY <1>1, <1>2 DEF GiveHand, Moves, TaskGood

LEMMA BasicGiveHand == ASSUME Basic, NEW t \in Tasks, GiveHand(t) PROVE Basic'
<1>1. /\ task[t].pc = "giveHand" /\ task[t] \in TaskState /\ TaskGood(task[t])
      /\ task[t].player \in Players /\ TopUp(task[t]) \in Hands
      /\ UNCHANGED <<game, pickedWhite, plays, blacks, people, faults, odd>>
  BY GiveHandCases
<1>2. hand' \in [Players -> Hands] /\ \A p \in Players \ seated' : hand'[p] = Empty
  BY <1>1, GiveHandCases DEF Basic, TypeOK, people
<1>3. CASE Moves(t, Idle)
  BY <1>1, <1>2, <1>3, IdleGood, BasicMove DEF Basic, TypeOK, people, Idle
<1>4. CASE Moves(t, [task[t] EXCEPT !.pc = "deal", !.drawn = {}]) /\ task[t].kind = "start"
  <2> DEFINE r == [task[t] EXCEPT !.pc = "deal", !.drawn = {}]
  <2>1. r \in TaskState /\ r.kind = task[t].kind /\ r.round = task[t].round /\ TaskGood(r)
    BY <1>1, <1>4 DEF TaskState, TaskGood, Pcs
  <2> HIDE DEF r
  <2> QED
    BY <1>1, <1>2, <1>4, <2>1, BasicMove DEF Basic, TypeOK, people, r
<1> QED
  BY <1>3, <1>4, GiveHandCases

LEMMA BasicFail == ASSUME Basic, NEW t \in Tasks, Fail(t) PROVE Basic'
<1>1. /\ Moves(t, Idle) /\ UNCHANGED <<game, whites, blacks, people>>
      /\ faults' \in 0..MaxFaults /\ odd' \subseteq Oddities
  BY CardsAssumption DEF Fail, Moves, Happened, Basic, TypeOK, Oddities
<1> QED
  BY <1>1, IdleGood, BasicMove DEF Basic, TypeOK, whites, people, Idle

\* The handlers that draw White Cards, as they are when they do.
LEMMA DealNextDraws ==
  ASSUME Basic, NEW t \in Tasks, DealNext(t)
  PROVE  /\ task[t].pc = "deal" /\ task[t].kind = "start" /\ task[t].kept = Empty
         /\ task[t].drawn = {} /\ task[t] \in TaskState
         /\ UNCHANGED <<game, whites, blacks, people, faults>>
         /\ \E p \in Players : LET r == [task[t] EXCEPT !.player = p, !.todo = @ \ {p}] IN
              r \in TaskState /\ DrawWhite(t, r, HandSize)
<1>1. task[t] \in TaskState /\ TaskGood(task[t]) /\ task[t].pc = "deal"
  BY TaskBasic DEF DealNext
<1>2. PICK p \in task[t].todo :
        DrawWhite(t, [task[t] EXCEPT !.player = p, !.todo = @ \ {p}], HandSize)
  BY DEF DealNext
<1>3. p \in Players /\ [task[t] EXCEPT !.player = p, !.todo = @ \ {p}] \in TaskState
  BY <1>1 DEF TaskState
<1> QED
  BY <1>1, <1>2, <1>3 DEF DealNext, TaskGood

LEMMA RefillDraws ==
  ASSUME Basic, NEW t \in Tasks, Refill(t)
  PROVE  /\ task[t].pc = "refill" /\ task[t].kind = "play" /\ task[t].player \in Players
         /\ task[t].drawn = {} /\ task[t] \in TaskState
         /\ task[t].played \subseteq Cards(task[t].kept) /\ Cardinality(task[t].played) = Pick
         /\ Keep(task[t]) \in Hands
         /\ UNCHANGED <<game, whites, blacks, people, faults>>
         /\ LET r == [task[t] EXCEPT !.kept = Keep(task[t]), !.played = {}] IN
              r \in TaskState /\ DrawWhite(t, r, Pick)
<1>1. task[t] \in TaskState /\ TaskGood(task[t]) /\ task[t].pc = "refill"
  BY TaskBasic DEF Refill
<1>2. Keep(task[t]) \in Hands
  BY <1>1 DEF Keep, TaskState, Hands
<1>3. [task[t] EXCEPT !.kept = Keep(task[t]), !.played = {}] \in TaskState
  BY <1>1, <1>2 DEF TaskState
<1> QED
  BY <1>1, <1>2, <1>3 DEF Refill, TaskGood

LEMMA BasicDraws ==
  ASSUME Basic, NEW t \in Tasks, DealNext(t) \/ Refill(t) \/ DealJoiner(t)
  PROVE  Basic'
<1> USE CardsAssumption
<1>1. CASE DealNext(t)
  <2>1. PICK p \in Players :
          LET r == [task[t] EXCEPT !.player = p, !.todo = @ \ {p}] IN
          r \in TaskState /\ DrawWhite(t, r, HandSize)
    BY <1>1, DealNextDraws
  <2> DEFINE r == [task[t] EXCEPT !.player = p, !.todo = @ \ {p}]
  <2>2. /\ task[t].kind = "start" /\ task[t].kept = Empty /\ task[t] \in TaskState
        /\ UNCHANGED <<game, whites, blacks, people, faults>>
    BY <1>1, DealNextDraws
  <2>3. r.kind = "start" /\ r.player = p /\ r.kept = Empty /\ r.round = task[t].round
    BY <2>2 DEF TaskState
  <2>4. r \in TaskState /\ DrawWhite(t, r, HandSize)
    BY <2>1
  <2> HIDE DEF r
  <2> QED
    BY <2>2, <2>3, <2>4, BasicDraw
<1>2. CASE Refill(t)
  <2> DEFINE r == [task[t] EXCEPT !.kept = Keep(task[t]), !.played = {}]
  <2>1. /\ task[t].kind = "play" /\ task[t].player \in Players /\ task[t] \in TaskState
        /\ UNCHANGED <<game, whites, blacks, people, faults>>
        /\ r \in TaskState /\ DrawWhite(t, r, Pick)
    BY <1>2, RefillDraws
  <2>2. r.kind = "play" /\ r.player = task[t].player /\ r.round = task[t].round
    BY <2>1 DEF TaskState
  <2>3. Pick \in Nat
    OBVIOUS
  <2> HIDE DEF r
  <2> QED
    BY <2>1, <2>2, <2>3, BasicDraw
<1>3. CASE DealJoiner(t)
  <2>1. task[t] \in TaskState /\ TaskGood(task[t])
    BY TaskBasic
  <2> QED
    BY <1>3, <2>1, BasicDraw DEF DealJoiner, TaskGood
<1> QED
  BY <1>1, <1>2, <1>3

LEMMA BasicStartClaim == ASSUME Basic, NEW t \in Tasks, StartClaim(t) PROVE Basic'
<1> DEFINE r == [Idle EXCEPT !.kind = "start", !.pc = "drawBlack"]
<1>1. r \in TaskState /\ r.kind = "start" /\ r.round = 0 /\ TaskGood(r)
  BY IdleGood DEF Idle, TaskState, TaskGood, Pcs
<1>2. /\ ~started /\ started' /\ started' \in BOOLEAN /\ Moves(t, r)
      /\ UNCHANGED <<round, open, whites, blacks, people, faults, odd>>
  BY DEF StartClaim, Moves
<1> HIDE DEF r
<1>3. task'[t] = r /\ \A u \in Tasks \ {t} : task'[u] = task[u]
  BY <1>2, Moved DEF Basic, TypeOK
<1>4. round = 0 /\ \A u \in Tasks : ~Opening(u)
  BY <1>2, CardsAssumption DEF Basic, OpenersGood, Opening, TypeOK
<1>5. OpenersGood'
  BY <1>1, <1>2, <1>3, <1>4 DEF Basic, OpenersGood, Opening
<1>6. TypeOK'
  BY <1>1, <1>2 DEF Basic, TypeOK, Moves, whites, blacks, people
<1> QED
  BY <1>1, <1>3, <1>5, <1>6 DEF Basic

LEMMA RotateFacts ==
  ASSUME Basic, NEW t \in Tasks, Rotate(t)
  PROVE  /\ round \in 1..(MaxRound - 1) /\ open' = FALSE /\ task[t] = Idle
         /\ \E r \in TaskState :
              /\ Moves(t, r) /\ TaskGood(r)
              /\ r.kind = "rotate" /\ r.pc = "drawBlack" /\ r.round = round
         /\ \A u \in Tasks : task[u].kind # "start"
         /\ UNCHANGED <<started, round, whites, blacks, people, faults>>
         /\ odd' \subseteq Oddities /\ odd \subseteq odd'
         /\ "twice" \notin odd' => \A u \in Tasks : task[u].kind # "rotate"
<1> DEFINE r == [Idle EXCEPT !.kind = "rotate", !.pc = "drawBlack", !.round = round]
<1>1. round \in 1..(MaxRound - 1) /\ round \in 0..MaxRound /\ Moves(t, r)
  BY CardsAssumption DEF Rotate, Moves, Basic, TypeOK
<1>2. r \in TaskState /\ r.kind = "rotate" /\ r.pc = "drawBlack" /\ r.round = round /\ TaskGood(r)
  BY <1>1, IdleGood DEF Idle, TaskState, TaskGood, Pcs
<1>3. \A u \in Tasks : task[u].kind # "start"
  BY <1>1, CardsAssumption DEF Basic, OpenersGood
<1>4. /\ odd' \subseteq Oddities /\ odd \subseteq odd'
      /\ "twice" \notin odd' => \A u \in Tasks : task[u].kind # "rotate"
  BY DEF Rotate, Happened, Basic, TypeOK, Oddities
<1> QED
  BY <1>1, <1>2, <1>3, <1>4 DEF Rotate

LEMMA BasicRotate == ASSUME Basic, NEW t \in Tasks, Rotate(t) PROVE Basic'
<1>1. /\ round \in 1..(MaxRound - 1) /\ open' = FALSE /\ odd' \subseteq Oddities
      /\ \A u \in Tasks : task[u].kind # "start"
      /\ UNCHANGED <<started, round, whites, blacks, people, faults>>
  BY RotateFacts
<1>2. PICK r \in TaskState : Moves(t, r) /\ TaskGood(r) /\ r.kind = "rotate" /\ r.round = round
  BY RotateFacts
<1>3. task'[t] = r /\ \A u \in Tasks \ {t} : task'[u] = task[u]
  BY <1>2, Moved DEF Basic, TypeOK
<1>4. OpenersGood'
  BY <1>1, <1>2, <1>3, CardsAssumption DEF Basic, OpenersGood
<1>5. TypeOK'
  BY <1>1, <1>2 DEF Basic, TypeOK, Moves, whites, blacks, people
<1> QED
  BY <1>2, <1>3, <1>4, <1>5 DEF Basic

\* The black draw up to its write, in two cases.
LEMMA DrawBlackCases ==
  ASSUME Basic, NEW t \in Tasks, DrawBlack(t)
  PROVE  /\ task[t].pc = "drawBlack" /\ task[t] \in TaskState /\ Opening(t)
         /\ UNCHANGED <<game, whites, blacks, people, faults, odd>>
         /\ \/ Moves(t, Idle)
            \/ \E b \in BlackCards, r \in TaskState :
                 /\ b \notin pickedBlack \/ (BlackCards \subseteq pickedBlack /\ b # currentBlack)
                 /\ Moves(t, r) /\ TaskGood(r)
                 /\ r.kind = task[t].kind /\ r.round = task[t].round
                 /\ r.pc = "recordBlack" /\ r.black = b /\ r.blacks = BlackLedger(b)
<1>1. task[t] \in TaskState /\ TaskGood(task[t]) /\ task[t].pc = "drawBlack"
  BY TaskBasic DEF DrawBlack
<1>2. Opening(t)
  BY <1>1 DEF TaskGood, Opening
<1>3. ASSUME NEW b \in BlackChoices,
             Moves(t, [task[t] EXCEPT !.pc = "recordBlack", !.black = b, !.blacks = BlackLedger(b)])
      PROVE  \E c \in BlackCards, r \in TaskState :
                 /\ c \notin pickedBlack \/ (BlackCards \subseteq pickedBlack /\ c # currentBlack)
                 /\ Moves(t, r) /\ TaskGood(r)
                 /\ r.kind = task[t].kind /\ r.round = task[t].round
                 /\ r.pc = "recordBlack" /\ r.black = c /\ r.blacks = BlackLedger(c)
  <2> DEFINE r == [task[t] EXCEPT !.pc = "recordBlack", !.black = b, !.blacks = BlackLedger(b)]
  <2>1. /\ b \in BlackCards
        /\ b \notin pickedBlack \/ (BlackCards \subseteq pickedBlack /\ b # currentBlack)
    BY DEF BlackChoices
  <2>2. BlackLedger(b) \in SUBSET BlackCards
    BY <2>1 DEF BlackLedger, Basic, TypeOK
  <2>3. /\ r \in TaskState /\ r.kind = task[t].kind /\ r.round = task[t].round
        /\ r.pc = "recordBlack" /\ r.black = b /\ r.blacks = BlackLedger(b)
        /\ r.kept = task[t].kept /\ r.drawn = task[t].drawn
    BY <1>1, <2>1, <2>2 DEF TaskState, Pcs
  <2>4. TaskGood(r)
    BY <1>1, <2>3 DEF TaskGood
  <2> QED
    BY <1>3, <2>1, <2>3, <2>4
<1> QED
  BY <1>1, <1>2, <1>3 DEF DrawBlack, Moves

LEMMA BasicDrawBlack == ASSUME Basic, NEW t \in Tasks, DrawBlack(t) PROVE Basic'
<1>1. UNCHANGED <<game, whites, blacks, people, faults, odd>>
  BY DrawBlackCases
<1>2. PICK r \in TaskState :
        /\ Moves(t, r) /\ TaskGood(r)
        /\ (r.kind = task[t].kind /\ r.round = task[t].round) \/ r.kind = "none"
  BY DrawBlackCases, IdleGood DEF Idle
<1> QED
  BY <1>1, <1>2, BasicMove DEF Basic, TypeOK, whites, people

\* ... and its write.
LEMMA RecordBlackFacts ==
  ASSUME Basic, NEW t \in Tasks, RecordBlack(t)
  PROVE  /\ task[t].pc = "recordBlack" /\ task[t] \in TaskState /\ Opening(t)
         /\ UNCHANGED <<game, whites, black, people, faults, odd>>
         /\ pickedBlack' = task[t].blacks /\ currentBlack' = task[t].black
         /\ \E r \in TaskState :
              /\ Moves(t, r) /\ TaskGood(r)
              /\ r.kind = task[t].kind /\ r.round = task[t].round /\ r.black = task[t].black
              /\ r.pc \in {"list", "openRound"}
<1>1. task[t] \in TaskState /\ TaskGood(task[t]) /\ task[t].pc = "recordBlack"
  BY TaskBasic DEF RecordBlack
<1>2. Opening(t)
  BY <1>1 DEF TaskGood, Opening
<1> DEFINE pc == IF task[t].kind = "start" THEN "list" ELSE "openRound"
           r  == [task[t] EXCEPT !.blacks = {}, !.pc = pc]
<1>3. Moves(t, r)
  BY DEF RecordBlack, Moves
<1>4. /\ r \in TaskState /\ r.kind = task[t].kind /\ r.round = task[t].round
      /\ r.black = task[t].black /\ r.pc = pc
      /\ r.kept = task[t].kept /\ r.drawn = task[t].drawn
  BY <1>1 DEF TaskState, Pcs
<1>5. TaskGood(r)
  BY <1>1, <1>4 DEF TaskGood
<1> QED
  BY <1>1, <1>2, <1>3, <1>4, <1>5 DEF RecordBlack

LEMMA BasicRecordBlack == ASSUME Basic, NEW t \in Tasks, RecordBlack(t) PROVE Basic'
<1>1. /\ UNCHANGED <<game, whites, black, people, faults, odd>> /\ task[t] \in TaskState
      /\ pickedBlack' = task[t].blacks /\ currentBlack' = task[t].black
  BY RecordBlackFacts
<1>2. PICK r \in TaskState :
        Moves(t, r) /\ TaskGood(r) /\ r.kind = task[t].kind /\ r.round = task[t].round
  BY RecordBlackFacts
<1>3. OpenersGood' /\ task' \in [Tasks -> TaskState] /\ \A u \in Tasks : TaskGood(task'[u])
  BY <1>1, <1>2, BasicStep
<1>4. pickedBlack' \subseteq BlackCards /\ currentBlack' \in BlackCards \cup {NoCard}
  BY <1>1 DEF TaskState
<1>5. TypeOK'
  BY <1>1, <1>3, <1>4 DEF Basic, TypeOK, game, whites, people
<1> QED
  BY <1>3, <1>5 DEF Basic

\* The next Round, or a number that is taken.
LEMMA OpenRoundFacts ==
  ASSUME Basic, NEW t \in Tasks, OpenRound(t)
  PROVE  /\ task[t].pc = "openRound" /\ task[t] \in TaskState /\ Opening(t) /\ Moves(t, Idle)
         /\ UNCHANGED <<started, whites, pickedBlack, currentBlack, people, faults>>
         /\ \/ task[t].round # round /\ UNCHANGED <<round, open, black, odd>>
            \/ /\ round \in 0..(MaxRound - 1) /\ round' = round + 1 /\ round' \in Rounds
               /\ black' = [black EXCEPT ![round'] = task[t].black]
               /\ task[t].round = round /\ started /\ open'
               /\ "late" \notin odd' => \A u \in Tasks : ~Refilling(task[u])
         /\ open' \in BOOLEAN /\ odd' \subseteq Oddities /\ odd \subseteq odd'
<1>1. task[t] \in TaskState /\ TaskGood(task[t]) /\ task[t].pc = "openRound"
  BY TaskBasic DEF OpenRound
<1>2. Opening(t)
  BY <1>1 DEF TaskGood, Opening
<1>3. /\ task[t].round = round => round \in 0..(MaxRound - 1) /\ started
      /\ open \in BOOLEAN /\ odd \subseteq Oddities
  BY <1>2, CardsAssumption DEF Basic, OpenersGood, Opening, TypeOK
<1>4. Moves(t, Idle) /\ UNCHANGED <<started, whites, pickedBlack, currentBlack, people, faults>>
  BY DEF OpenRound, Moves
<1>5. CASE task[t].round # round
  BY <1>1, <1>2, <1>3, <1>4, <1>5 DEF OpenRound
<1>6. CASE task[t].round = round
  <2>1. /\ round' = round + 1 /\ open' = TRUE /\ black' = [black EXCEPT ![round + 1] = task[t].black]
        /\ Happened("late", \E u \in Tasks : Refilling(task[u]))
    BY <1>6 DEF OpenRound
  <2>2. round \in 0..(MaxRound - 1) /\ round' \in Rounds /\ started
    BY <1>3, <1>6, <2>1, CardsAssumption DEF Rounds
  <2>3. /\ odd' \subseteq Oddities /\ odd \subseteq odd'
        /\ "late" \notin odd' => \A u \in Tasks : ~Refilling(task[u])
    BY <1>3, <2>1 DEF Happened, Oddities
  <2> QED
    BY <1>1, <1>2, <1>4, <1>6, <2>1, <2>2, <2>3
<1> QED
  BY <1>5, <1>6

LEMMA BasicOpenRound == ASSUME Basic, NEW t \in Tasks, OpenRound(t) PROVE Basic'
<1>1. /\ task[t] \in TaskState /\ Opening(t) /\ Moves(t, Idle)
      /\ UNCHANGED <<started, whites, pickedBlack, currentBlack, people, faults>>
      /\ open' \in BOOLEAN /\ odd' \subseteq Oddities
  BY OpenRoundFacts
<1>2. Idle \in TaskState /\ TaskGood(Idle) /\ Idle.kind = "none"
  BY IdleGood DEF Idle
<1>3. CASE UNCHANGED <<round, open, black, odd>>
  <2>1. UNCHANGED game /\ UNCHANGED blacks
    BY <1>1, <1>3 DEF game, blacks
  <2> QED
    BY <1>1, <1>2, <2>1, BasicMove DEF Basic, TypeOK, whites, people
<1>4. CASE /\ round \in 0..(MaxRound - 1) /\ round' = round + 1 /\ round' \in Rounds
           /\ black' = [black EXCEPT ![round'] = task[t].black]
           /\ task[t].round = round /\ started /\ open'
  <2>1. task'[t] = Idle /\ \A u \in Tasks \ {t} : task'[u] = task[u]
    BY <1>1, Moved DEF Basic, TypeOK
  <2>2. \A u \in Tasks : task'[u].kind # "start"
    BY <1>1, <1>2, <1>4, <2>1, CardsAssumption DEF Basic, OpenersGood, Opening
  <2>3. \A u \in Tasks : task'[u].kind = "rotate" =>
           task'[u].round \in 1..(MaxRound - 1) /\ task'[u].round <= round'
    BY <1>2, <1>4, <2>1, CardsAssumption DEF Basic, OpenersGood
  <2>4. OpenersGood'
    BY <1>1, <1>4, <2>2, <2>3 DEF OpenersGood
  <2>5. TypeOK'
    BY <1>1, <1>2, <1>4, CardsAssumption
       DEF Basic, TypeOK, Moves, whites, people, TaskState, Rounds
  <2> QED
    BY <1>2, <2>1, <2>4, <2>5 DEF Basic
<1> QED
  BY <1>3, <1>4, OpenRoundFacts

LEMMA BasicKeeps == ASSUME Basic, [Next]_vars PROVE Basic'
<1>1. CASE UNCHANGED vars
  BY <1>1 DEF vars, game, whites, blacks, people, Basic, TypeOK, OpenersGood, Opening
<1>2. ASSUME NEW p \in Players, Leave(p) PROVE Basic'
  BY <1>2, BasicLeave
<1>3. ASSUME NEW t \in Tasks, NEW p \in Players, Play(t, p) \/ Join(t, p) PROVE Basic'
  BY <1>3, BasicPlay, BasicJoin
<1>4. ASSUME NEW t \in Tasks,
             \/ StartClaim(t) \/ Rotate(t) \/ DrawBlack(t) \/ RecordBlack(t) \/ OpenRound(t)
             \/ List(t) \/ DealDone(t) \/ Insert(t)
      PROVE Basic'
  BY <1>4, BasicStartClaim, BasicRotate, BasicDrawBlack, BasicRecordBlack, BasicOpenRound,
     BasicList, BasicDealDone, BasicInsert
<1>5. ASSUME NEW t \in Tasks,
             \/ DealNext(t) \/ Refill(t) \/ DealJoiner(t)
             \/ RecordWhite(t) \/ GiveHand(t) \/ Fail(t)
      PROVE Basic'
  BY <1>5, BasicDraws, BasicRecordWhite, BasicGiveHand, BasicFail
<1> QED
  BY <1>1, <1>2, <1>3, <1>4, <1>5 DEF Next

-----------------------------------------------------------------------------
\* --- draws and the ledger

Draw(t) == DealNext(t) \/ Refill(t) \/ DealJoiner(t)

\* A handler t that draws becomes n.
DrawsTo(t, n) ==
  /\ Moves(t, n) /\ n.pc = "recordWhite" /\ n.player \in Players /\ n.kind = task[t].kind
  /\ n.black = task[t].black
  /\ n.drawn \subseteq WhiteCards
  /\ task[t].pc \in {"deal", "refill", "dealJoiner"}
  /\ \/ n.kept = Empty /\ n.kind # "play" /\ Cardinality(n.drawn) = HandSize
     \/ /\ task[t].pc = "refill" /\ n.kept = Keep(task[t]) /\ n.player = task[t].player
        /\ Cardinality(n.drawn) = Pick
  /\ \/ n.ledger = pickedWhite \cup n.drawn
     \/ "dry" \in odd' /\ pickedWhite \cup n.ledger = WhiteCards
  /\ "dry" \notin odd' => n.drawn \cap pickedWhite = {}
  /\ "overlap" \notin odd' => \A u \in Tasks : ~At(u, "recordWhite")

LEMMA DrawnFields ==
  ASSUME NEW r \in TaskState, NEW d \in SUBSET WhiteCards, NEW l \in SUBSET WhiteCards
  PROVE  LET n == Drawn(r, d, l) IN
         /\ n.pc = "recordWhite" /\ n.player = r.player /\ n.kind = r.kind
         /\ n.kept = r.kept /\ n.drawn = d /\ n.ledger = l /\ n.black = r.black
  BY DEF Drawn, TaskState

LEMMA DrawFacts ==
  ASSUME Basic, NEW t \in Tasks, Draw(t)
  PROVE  /\ \E n \in TaskState : DrawsTo(t, n)
         /\ odd \subseteq odd'
         /\ UNCHANGED <<game, whites, blacks, people, faults>>
<1> USE CardsAssumption
<1>0. TypeOK /\ HandSize \in Nat /\ Pick \in Nat
  BY DEF Basic
<1>1. CASE DealNext(t)
  <2>1. PICK p \in Players :
          LET r == [task[t] EXCEPT !.player = p, !.todo = @ \ {p}] IN
          r \in TaskState /\ DrawWhite(t, r, HandSize)
    BY <1>1, DealNextDraws
  <2> DEFINE r == [task[t] EXCEPT !.player = p, !.todo = @ \ {p}]
  <2>2. /\ task[t].kind = "start" /\ task[t].kept = Empty /\ task[t] \in TaskState
        /\ task[t].pc = "deal" /\ UNCHANGED <<game, whites, blacks, people, faults>>
    BY <1>1, DealNextDraws
  <2>3. r.kind = "start" /\ r.player = p /\ r.kept = Empty /\ r.black = task[t].black
    BY <2>2 DEF TaskState
  <2>4. r \in TaskState /\ DrawWhite(t, r, HandSize)
    BY <2>1
  <2> HIDE DEF r
  <2>5. PICK d, l \in SUBSET WhiteCards :
           /\ Moves(t, Drawn(r, d, l)) /\ Drawn(r, d, l) \in TaskState
           /\ Cardinality(d) = HandSize
           /\ \/ l = pickedWhite \cup d
              \/ "dry" \in odd' /\ pickedWhite \cup l = WhiteCards
           /\ "dry" \notin odd' => d \cap pickedWhite = {}
           /\ "overlap" \notin odd' => \A u \in Tasks : ~At(u, "recordWhite")
           /\ odd' \subseteq Oddities /\ odd \subseteq odd'
    BY <1>0, <2>4, Draws
  <2>6. DrawsTo(t, Drawn(r, d, l))
    BY <2>2, <2>3, <2>4, <2>5, DrawnFields DEF DrawsTo
  <2> QED
    BY <2>2, <2>5, <2>6
<1>2. CASE Refill(t)
  <2> DEFINE r == [task[t] EXCEPT !.kept = Keep(task[t]), !.played = {}]
  <2>1. /\ task[t].kind = "play" /\ task[t].player \in Players /\ task[t] \in TaskState
        /\ task[t].pc = "refill" /\ UNCHANGED <<game, whites, blacks, people, faults>>
        /\ r \in TaskState /\ DrawWhite(t, r, Pick) /\ Keep(task[t]) \in Hands
    BY <1>2, RefillDraws
  <2>2. r.kind = "play" /\ r.player = task[t].player /\ r.kept = Keep(task[t])
        /\ r.black = task[t].black
    BY <2>1 DEF TaskState
  <2> HIDE DEF r
  <2>3. PICK d, l \in SUBSET WhiteCards :
           /\ Moves(t, Drawn(r, d, l)) /\ Drawn(r, d, l) \in TaskState
           /\ Cardinality(d) = Pick
           /\ \/ l = pickedWhite \cup d
              \/ "dry" \in odd' /\ pickedWhite \cup l = WhiteCards
           /\ "dry" \notin odd' => d \cap pickedWhite = {}
           /\ "overlap" \notin odd' => \A u \in Tasks : ~At(u, "recordWhite")
           /\ odd' \subseteq Oddities /\ odd \subseteq odd'
    BY <1>0, <2>1, Draws
  <2>4. DrawsTo(t, Drawn(r, d, l))
    BY <2>1, <2>2, <2>3, DrawnFields DEF DrawsTo
  <2> QED
    BY <2>1, <2>3, <2>4
<1>3. CASE DealJoiner(t)
  <2>1. /\ task[t] \in TaskState /\ TaskGood(task[t]) /\ task[t].pc = "dealJoiner"
        /\ DrawWhite(t, task[t], HandSize) /\ UNCHANGED <<game, whites, blacks, people, faults>>
    BY <1>3, TaskBasic DEF DealJoiner
  <2>2. task[t].kind = "join" /\ task[t].kept = Empty /\ task[t].player \in Players
    BY <2>1 DEF TaskGood
  <2>3. PICK d, l \in SUBSET WhiteCards :
           /\ Moves(t, Drawn(task[t], d, l)) /\ Drawn(task[t], d, l) \in TaskState
           /\ Cardinality(d) = HandSize
           /\ \/ l = pickedWhite \cup d
              \/ "dry" \in odd' /\ pickedWhite \cup l = WhiteCards
           /\ "dry" \notin odd' => d \cap pickedWhite = {}
           /\ "overlap" \notin odd' => \A u \in Tasks : ~At(u, "recordWhite")
           /\ odd' \subseteq Oddities /\ odd \subseteq odd'
    BY <1>0, <2>1, Draws
  <2>4. DrawsTo(t, Drawn(task[t], d, l))
    BY <2>1, <2>2, <2>3, DrawnFields DEF DrawsTo
  <2> QED
    BY <2>1, <2>3, <2>4
<1> QED
  BY <1>1, <1>2, <1>3 DEF Draw

\* A step that has nothing to do with White Cards, or only discards some.
Plain ==
  /\ UNCHANGED <<pickedWhite, plays>> /\ odd \subseteq odd'
  /\ \A p \in Players : hand'[p] = hand[p] \/ hand'[p] = Empty
  /\ \A u \in Tasks :
       \/ task'[u] = task[u]
       \/ task'[u].kind # "play" /\ task'[u].pc \notin {"recordWhite", "giveHand"}
  /\ "late" \notin odd' =>
       \/ UNCHANGED round /\ \A u \in Tasks : Refilling(task[u]) => task'[u] = task[u]
       \/ round' = round + 1 /\ \A u \in Tasks : ~Refilling(task[u])

LEMMA PlainMove ==
  ASSUME Basic, NEW t \in Tasks, NEW r, Moves(t, r),
         r.kind # "play", r.pc \notin {"recordWhite", "giveHand"},
         UNCHANGED whites, odd \subseteq odd',
         "late" \notin odd' =>
           \/ UNCHANGED round /\ ~Refilling(task[t])
           \/ round' = round + 1 /\ \A u \in Tasks : ~Refilling(task[u])
  PROVE  Plain
  BY Moved DEF Basic, TypeOK, Plain, whites

Deals(t) == Draw(t) \/ RecordWhite(t) \/ GiveHand(t) \/ Insert(t) \/ \E p \in Players : Play(t, p)

LEMMA StepKinds ==
  ASSUME Basic, [Next]_vars
  PROVE  Plain \/ \E t \in Tasks : Deals(t)
<1> USE DEF Deals
<1>1. CASE UNCHANGED vars
  BY <1>1 DEF vars, game, whites, Plain
<1>2. ASSUME NEW p \in Players, Leave(p) PROVE Plain
  BY <1>2 DEF Leave, Plain, Basic, TypeOK, game
<1>3. ASSUME NEW t \in Tasks, NEW p \in Players, Join(t, p) PROVE Plain
  <2>1. UNCHANGED <<round, whites>> /\ odd' = odd
    BY <1>3 DEF Join, game
  <2>2. CASE UNCHANGED task
    BY <2>1, <2>2 DEF Plain, whites
  <2>3. CASE Moves(t, [Idle EXCEPT !.kind = "join", !.pc = "dealJoiner", !.player = p])
    <3>1. LET r == [Idle EXCEPT !.kind = "join", !.pc = "dealJoiner", !.player = p] IN
          r.kind = "join" /\ r.pc = "dealJoiner"
      BY DEF Idle
    <3>2. ~Refilling(task[t]) \/ UNCHANGED task
      BY <1>3 DEF Join, Refilling, Idle
    <3> QED
      BY <2>1, <2>2, <2>3, <3>1, <3>2, PlainMove
  <2> QED
    BY <1>3, <2>2, <2>3 DEF Join, Moves
<1>4. ASSUME NEW t \in Tasks,
             \/ StartClaim(t) \/ Rotate(t) \/ DrawBlack(t) \/ RecordBlack(t) \/ OpenRound(t)
             \/ List(t) \/ DealDone(t) \/ Fail(t)
      PROVE  Plain
  <2>1. task[t] \in TaskState /\ TaskGood(task[t])
    BY TaskBasic
  <2>2. UNCHANGED whites /\ odd \subseteq odd'
    BY <1>4 DEF StartClaim, Rotate, DrawBlack, RecordBlack, OpenRound, List, DealDone, Fail,
                Happened
  <2>3. ASSUME NEW r, Moves(t, r), r.kind # "play", r.pc \notin {"recordWhite", "giveHand"}
        PROVE  Plain
    <3>1. Refilling(task[t]) => Fail(t)
      <4>1. Idle.kind = "none"
        BY DEF Idle
      <4>2. CASE StartClaim(t) \/ Rotate(t)
        BY <4>1, <4>2 DEF StartClaim, Rotate, Refilling
      <4>3. CASE DrawBlack(t) \/ RecordBlack(t) \/ OpenRound(t)
        BY <4>3 DEF DrawBlack, RecordBlack, OpenRound, Refilling
      <4>4. CASE List(t) \/ DealDone(t)
        BY <4>4 DEF List, DealDone, Refilling
      <4> QED
        BY <1>4, <4>2, <4>3, <4>4
    <3>2. Fail(t) => UNCHANGED round /\ (Refilling(task[t]) => "late" \in odd')
      BY DEF Fail, Happened, game
    <3>3. CASE OpenRound(t)
      <4>1. "late" \notin odd' =>
               \/ UNCHANGED round /\ ~Refilling(task[t])
               \/ round' = round + 1 /\ \A u \in Tasks : ~Refilling(task[u])
        BY <3>1, <3>3, OpenRoundFacts DEF OpenRound, Refilling
      <4> QED
        BY <2>2, <2>3, <4>1, PlainMove
    <3>4. CASE ~OpenRound(t)
      <4>1. UNCHANGED round
        BY <1>4, <3>4 DEF StartClaim, Rotate, DrawBlack, RecordBlack, List, DealDone, Fail, game
      <4> QED
        BY <2>2, <2>3, <3>1, <3>2, <4>1, PlainMove
    <3> QED
      BY <3>3, <3>4
  <2>4. Idle.pc = "idle" /\ Idle.kind = "none"
    BY DEF Idle
  <2>5. CASE StartClaim(t) \/ Rotate(t)
    <3>1. LET r == [Idle EXCEPT !.kind = "start", !.pc = "drawBlack"] IN
          r.pc = "drawBlack" /\ r.kind = "start"
      BY DEF Idle
    <3> QED
      BY <2>3, <2>5, <3>1, RotateFacts DEF StartClaim, Moves
  <2>6. CASE OpenRound(t) \/ Fail(t)
    BY <2>3, <2>4, <2>6 DEF OpenRound, Fail, Moves
  <2>7. CASE List(t)
    <3>1. LET r == [task[t] EXCEPT !.pc = "deal", !.todo = seated] IN
          r.pc = "deal" /\ r.kind = "start"
      BY <2>1, <2>7 DEF TaskState, TaskGood, List
    <3> QED
      BY <2>3, <2>7, <3>1 DEF List, Moves
  <2>8. CASE DealDone(t)
    <3>1. LET r == [task[t] EXCEPT !.pc = "openRound"] IN r.pc = "openRound" /\ r.kind = "start"
      BY <2>1, <2>8 DEF TaskState, TaskGood, DealDone
    <3> QED
      BY <2>3, <2>8, <3>1 DEF DealDone, Moves
  <2>9. CASE DrawBlack(t)
    <3>1. task[t].kind # "play"
      BY <2>9, DrawBlackCases DEF Opening
    <3> QED
      BY <2>3, <2>4, <2>9, <3>1, DrawBlackCases
  <2>10. CASE RecordBlack(t)
    <3>1. task[t].kind # "play"
      BY <2>10, RecordBlackFacts DEF Opening
    <3> QED
      BY <2>3, <2>10, <3>1, RecordBlackFacts
  <2> QED
    BY <1>4, <2>5, <2>6, <2>7, <2>8, <2>9, <2>10
<1> QED
  BY <1>1, <1>2, <1>3, <1>4 DEF Next, Draw

\* What the steps that play and store Hands make of their handler.
LEMMA PlayFacts ==
  ASSUME Basic, NEW t \in Tasks, NEW p \in Players, Play(t, p)
  PROVE  \E r \in TaskState :
           /\ task[t] = Idle
           /\ Moves(t, r) /\ r.pc = "insert" /\ r.player = p /\ r.kept = hand[p]
           /\ r.drawn = {} /\ r.round = round /\ round \in Rounds /\ plays[round][p] = {}
           /\ hand[p] # Empty
           /\ UNCHANGED <<game, whites, blacks, people, faults, odd>>
<1>1. PICK cards \in SUBSET Cards(hand[p]) :
        /\ Cardinality(cards) = Pick
        /\ Moves(t, [Idle EXCEPT !.kind = "play", !.pc = "insert", !.player = p,
                                 !.round = round, !.kept = hand[p], !.played = cards])
  BY DEF Play, Moves
<1> DEFINE r == [Idle EXCEPT !.kind = "play", !.pc = "insert", !.player = p,
                             !.round = round, !.kept = hand[p], !.played = cards]
<1>2. /\ r \in TaskState /\ r.pc = "insert" /\ r.player = p /\ r.kept = hand[p]
      /\ r.drawn = {} /\ r.round = round
  BY <1>1, IdleGood DEF Idle, TaskState, Pcs, Basic, TypeOK, Cards
<1>3. task[t] = Idle /\ round \in Rounds /\ plays[round][p] = {}
  BY DEF Play, Basic, OpenersGood, TypeOK, Rounds
<1>4. hand[p] # Empty
  <2>1. cards # {}
    BY <1>1, FS_EmptySet, CardsAssumption
  <2> QED
    BY <1>1, <2>1 DEF Cards, Empty
<1>5. UNCHANGED <<game, whites, blacks, people, faults, odd>>
  BY DEF Play
<1> QED
  BY <1>1, <1>2, <1>3, <1>4, <1>5

LEMMA InsertFacts ==
  ASSUME Basic, NEW t \in Tasks, Insert(t)
  PROVE  /\ task[t].pc = "insert" /\ task[t].player \in Players /\ task[t] \in TaskState
         /\ task[t].played \subseteq Cards(task[t].kept)
         /\ UNCHANGED <<game, pickedWhite, hand, blacks, people, faults, odd>>
         /\ \/ Moves(t, Idle) /\ UNCHANGED plays
            \/ /\ round \in Rounds /\ round = task[t].round /\ plays[round][task[t].player] = {}
               /\ plays' = [plays EXCEPT ![round][task[t].player] = task[t].played]
               /\ \E r \in TaskState :
                    /\ Moves(t, r) /\ r.pc = "refill" /\ r.player = task[t].player
                    /\ r.kind = "play" /\ r.kept = task[t].kept
                    /\ r.played = task[t].played /\ r.drawn = {}
<1>1. task[t] \in TaskState /\ TaskGood(task[t]) /\ task[t].pc = "insert"
  BY TaskBasic DEF Insert
<1>2. UNCHANGED <<game, pickedWhite, hand, blacks, people, faults, odd>>
  BY DEF Insert
<1>3. CASE Moves(t, Idle) /\ UNCHANGED plays
  BY <1>1, <1>2, <1>3 DEF TaskGood
<1>4. CASE ~(Moves(t, Idle) /\ UNCHANGED plays)
  <2> DEFINE r == [task[t] EXCEPT !.pc = "refill", !.round = 0]
  <2>1. /\ open /\ round = task[t].round /\ plays[round][task[t].player] = {}
        /\ plays' = [plays EXCEPT ![round][task[t].player] = task[t].played]
        /\ Moves(t, r)
    BY <1>4 DEF Insert, Moves
  <2>2. round \in Rounds
    BY <2>1 DEF Basic, OpenersGood, TypeOK, Rounds
  <2>3. 0 \in 0..MaxRound
    BY CardsAssumption
  <2>4. /\ r \in TaskState /\ r.pc = "refill" /\ r.player = task[t].player
        /\ r.kind = task[t].kind /\ r.kept = task[t].kept
        /\ r.played = task[t].played /\ r.drawn = task[t].drawn
    BY <1>1, <2>3 DEF TaskState, Pcs
  <2>5. /\ task[t].kind = "play" /\ task[t].drawn = {} /\ task[t].player \in Players
        /\ task[t].played \subseteq Cards(task[t].kept)
    BY <1>1 DEF TaskGood
  <2> QED
    BY <1>1, <1>2, <2>1, <2>2, <2>4, <2>5
<1> QED
  BY <1>3, <1>4

LEMMA RecordFacts ==
  ASSUME Basic, NEW t \in Tasks, RecordWhite(t)
  PROVE  /\ task[t].pc = "recordWhite" /\ pickedWhite' = task[t].ledger
         /\ UNCHANGED <<game, hand, plays, blacks, people, faults, odd>>
         /\ \E r \in TaskState :
              /\ Moves(t, r) /\ r.pc = "giveHand" /\ r.player = task[t].player
              /\ r.kind = task[t].kind /\ r.kept = task[t].kept /\ r.drawn = task[t].drawn
              /\ r.black = task[t].black
<1> DEFINE r == [task[t] EXCEPT !.pc = "giveHand", !.ledger = {}]
<1>1. task[t] \in TaskState
  BY TaskBasic
<1>2. /\ r \in TaskState /\ r.pc = "giveHand" /\ r.player = task[t].player
      /\ r.kind = task[t].kind /\ r.kept = task[t].kept /\ r.drawn = task[t].drawn
      /\ r.black = task[t].black
  BY <1>1 DEF TaskState, Pcs
<1> QED
  BY <1>2 DEF RecordWhite, Moves

LEMMA GiveFacts ==
  ASSUME Basic, NEW t \in Tasks, GiveHand(t)
  PROVE  /\ task[t].pc = "giveHand" /\ task[t].player \in Players /\ task[t] \in TaskState
         /\ UNCHANGED <<game, pickedWhite, plays, blacks, people, faults, odd>>
         /\ \/ UNCHANGED hand /\ hand[task[t].player] = Empty
            \/ hand' = [hand EXCEPT ![task[t].player] = TopUp(task[t])]
         /\ \E r \in TaskState :
              /\ Moves(t, r) /\ r.pc \in {"idle", "deal"} /\ r.kind # "play"
              /\ r.kept = Empty /\ r.drawn = {}
              /\ \/ r.kind = task[t].kind /\ r.black = task[t].black
                 \/ r.kind = "none" /\ task[t].kind # "rotate"
<1>1. task[t].pc = "giveHand" /\ task[t].player \in Players /\ task[t] \in TaskState
      /\ TaskGood(task[t])
      /\ UNCHANGED <<game, pickedWhite, plays, blacks, people, faults, odd>>
  BY GiveHandCases
<1>2. \/ UNCHANGED hand /\ hand[task[t].player] = Empty
      \/ hand' = [hand EXCEPT ![task[t].player] = TopUp(task[t])]
  BY <1>1, GiveHandCases DEF Basic, TypeOK
<1> DEFINE r == [task[t] EXCEPT !.pc = "deal", !.drawn = {}]
<1>3. task[t].kind = "start" =>
        /\ r \in TaskState /\ r.pc = "deal" /\ r.kind = "start" /\ r.kept = Empty /\ r.drawn = {}
        /\ r.black = task[t].black
  BY <1>1 DEF TaskState, TaskGood, Pcs
<1>4. Idle \in TaskState /\ Idle.pc = "idle" /\ Idle.kind = "none" /\ Idle.kept = Empty
      /\ Idle.drawn = {}
  BY IdleGood DEF Idle
<1>5. Moves(t, Idle) \/ (Moves(t, r) /\ task[t].kind = "start")
  BY GiveHandCases
<1>6. task[t].kind # "rotate"
  BY <1>1 DEF TaskGood
<1> QED
  BY <1>1, <1>2, <1>3, <1>4, <1>5, <1>6

LEMMA DrawsKeep ==
  ASSUME Basic, [Next]_vars, "overlap" \notin odd => DrawsGood
  PROVE  /\ odd \subseteq odd' /\ ("overlap" \notin odd' => DrawsGood')
         /\ ~(pickedWhite \subseteq pickedWhite') /\ "overlap" \notin odd =>
              pickedWhite \cup pickedWhite' = WhiteCards
<1>1. ASSUME UNCHANGED pickedWhite, odd \subseteq odd',
             \A u \in Tasks : At(u, "recordWhite")' => task'[u] = task[u]
      PROVE  odd \subseteq odd' /\ ("overlap" \notin odd' => DrawsGood')
  BY <1>1 DEF DrawsGood
<1>4. CASE Plain
  BY <1>1, <1>4 DEF Plain
<1>5. ASSUME NEW t \in Tasks, GiveHand(t) \/ Insert(t) \/ \E p \in Players : Play(t, p)
      PROVE  odd \subseteq odd' /\ ("overlap" \notin odd' => DrawsGood') /\ UNCHANGED pickedWhite
  <2>1. UNCHANGED pickedWhite /\ odd' = odd
    BY <1>5 DEF GiveHand, Insert, Play, whites
  <2>2. \E r : Moves(t, r) /\ r.pc # "recordWhite"
    <3>1. Idle.pc # "recordWhite"
      BY DEF Idle
    <3> QED
      BY <1>5, <3>1, GiveFacts, InsertFacts, PlayFacts
  <2>3. \A u \in Tasks : At(u, "recordWhite")' => task'[u] = task[u]
    BY <2>2, Moved DEF Basic, TypeOK
  <2> QED
    BY <1>1, <2>1, <2>3
<1>2. ASSUME NEW t \in Tasks, Draw(t)
      PROVE  /\ odd \subseteq odd' /\ ("overlap" \notin odd' => DrawsGood')
             /\ UNCHANGED pickedWhite
  <2>1. PICK n \in TaskState : DrawsTo(t, n)
    BY <1>2, DrawFacts
  <2>2. odd \subseteq odd' /\ UNCHANGED pickedWhite
    BY <1>2, DrawFacts DEF whites
  <2>3. task'[t] = n /\ \A u \in Tasks \ {t} : task'[u] = task[u]
    BY <2>1, Moved DEF Basic, TypeOK, DrawsTo
  <2> QED
    BY <2>1, <2>2, <2>3 DEF DrawsTo, DrawsGood
<1>3. ASSUME NEW t \in Tasks, RecordWhite(t)
      PROVE  /\ odd \subseteq odd' /\ ("overlap" \notin odd' => DrawsGood')
             /\ "overlap" \notin odd => \/ pickedWhite \subseteq pickedWhite'
                                        \/ pickedWhite \cup pickedWhite' = WhiteCards
  <2>1. task[t].pc = "recordWhite" /\ pickedWhite' = task[t].ledger /\ odd' = odd
    BY <1>3, RecordFacts
  <2>2. task'[t].pc = "giveHand" /\ \A u \in Tasks \ {t} : task'[u] = task[u]
    BY <1>3, RecordFacts, Moved DEF Basic, TypeOK
  <2> QED
    BY <2>1, <2>2 DEF DrawsGood
<1> QED
  BY <1>2, <1>3, <1>4, <1>5, StepKinds DEF Plain, Deals

-----------------------------------------------------------------------------
\* --- every card is one Player's, and Hands add up

Clean     == odd \subseteq {"late", "twice"}
CardsGood == OneHolder /\ HandsGood

\* Nobody gets a card from this step that was not theirs: one handler t moves,
\* to a state n that keeps and carries no more than t did.
LEMMA HolderStep ==
  ASSUME Basic, OneHolder, NEW t \in Tasks, NEW n \in TaskState, Moves(t, n),
         pickedWhite \subseteq pickedWhite',
         \A p \in Players, c \in WhiteCards : hand'[p][c] > 0 =>
            Has(p, c) \/ (task[t].player = p /\ c \in task[t].drawn /\ At(t, "giveHand")),
         \A p \in Players, c \in WhiteCards : (\E m \in Rounds : c \in plays'[m][p]) => Has(p, c),
         \A p \in Players, c \in WhiteCards : n.player = p /\ n.kept[c] > 0 => Has(p, c),
         \A c \in n.drawn : n.player = task[t].player /\ c \in task[t].drawn,
         n.pc = "giveHand" => n.drawn \subseteq pickedWhite',
         At(t, "giveHand") => n.drawn = {}
  PROVE  OneHolder'
<1>1. task'[t] = n /\ \A u \in Tasks \ {t} : task'[u] = task[u]
  BY Moved DEF Basic, TypeOK
<1>2. ASSUME NEW p \in Players, NEW c \in WhiteCards, Has(p, c)'
      PROVE  Has(p, c) \/ (task[t].player = p /\ c \in task[t].drawn /\ At(t, "giveHand"))
  <2>1. CASE hand'[p][c] > 0 \/ \E m \in Rounds : c \in plays'[m][p]
    BY <2>1
  <2>2. CASE \E u \in Tasks : task'[u].player = p /\ task'[u].kept[c] > 0
    <3>1. PICK u \in Tasks : task'[u].player = p /\ task'[u].kept[c] > 0
      BY <2>2
    <3> QED
      BY <1>1, <3>1 DEF Has
  <2> QED
    BY <1>2, <2>1, <2>2 DEF Has
<1>3. ASSUME NEW p \in Players, NEW c \in WhiteCards, Held(p, c)' PROVE Held(p, c)
  BY <1>1, <1>2, <1>3 DEF Held
<1>4. ASSUME NEW p \in Players, NEW c \in WhiteCards, Has(p, c)' PROVE c \in pickedWhite'
  BY <1>2, <1>4 DEF OneHolder
<1>5. ASSUME NEW u \in Tasks, At(u, "giveHand")' PROVE task'[u].drawn \subseteq pickedWhite'
  BY <1>1, <1>5 DEF OneHolder
<1>6. ASSUME NEW u \in Tasks, NEW c \in task'[u].drawn
      PROVE  /\ c \in task[u].drawn
             /\ \A p \in Players : ~Has(p, c)'
             /\ \A v \in Tasks \ {u} : c \notin task'[v].drawn
  <2>1. c \in task[u].drawn /\ c \in WhiteCards
    BY <1>1, <1>6 DEF Basic, TypeOK, TaskState
  <2>2. /\ \A p \in Players : ~Has(p, c)
        /\ \A v \in Tasks \ {u} : c \notin task[v].drawn
    BY <2>1 DEF OneHolder
  <2>3. u = t => ~At(t, "giveHand")
    BY <1>1, <1>6
  <2>4. \A p \in Players : ~Has(p, c)'
    BY <1>2, <2>1, <2>2, <2>3
  <2>5. \A v \in Tasks \ {u} : c \notin task'[v].drawn
    BY <1>1, <2>2
  <2> QED
    BY <2>1, <2>4, <2>5
<1> QED
  BY <1>3, <1>4, <1>5, <1>6 DEF OneHolder

LEMMA EmptyGood ==
  /\ HandGood(Empty) /\ Cards(Empty) = {} /\ \A c \in WhiteCards : ~(Empty[c] > 0)
  BY DEF HandGood, Empty, Single, Cards

LEMMA PlainCards == ASSUME Basic, Basic', CardsGood, Plain PROVE CardsGood'
<1>1. \A u \in Tasks : task'[u] = task[u] \/ (task'[u].kept = Empty /\ task'[u].drawn = {}
                                             /\ task'[u].pc \notin {"recordWhite", "giveHand"})
  BY DEF Plain, Basic, TaskGood
<1>2. ASSUME NEW p \in Players, NEW c \in WhiteCards
      PROVE  (Has(p, c)' => Has(p, c)) /\ (Held(p, c)' => Held(p, c))
  <2>1. hand'[p][c] > 0 => hand[p][c] > 0
    BY EmptyGood DEF Plain
  <2>2. ASSUME NEW u \in Tasks, task'[u].kept[c] > 0 \/ c \in task'[u].drawn
        PROVE  task'[u] = task[u]
    BY <1>1, <2>2, EmptyGood
  <2> QED
    BY <2>1, <2>2 DEF Has, Held, Plain
<1>3. OneHolder'
  <2>1. ASSUME NEW u \in Tasks, NEW c \in task'[u].drawn
        PROVE  /\ \A p \in Players : ~Has(p, c)'
               /\ \A v \in Tasks \ {u} : c \notin task'[v].drawn
    <3>1. task'[u] = task[u] /\ c \in WhiteCards
      BY <1>1, <2>1 DEF Basic, TypeOK, TaskState
    <3> QED
      BY <1>1, <1>2, <2>1, <3>1 DEF CardsGood, OneHolder
  <2> QED
    BY <1>1, <1>2, <2>1 DEF CardsGood, OneHolder, Plain
<1>4. \A p \in Players : HandGood(hand'[p])
  BY EmptyGood DEF Plain, CardsGood, HandsGood
<1>5. ASSUME NEW u \in Tasks PROVE CarriesGood(task'[u])
  <2>1. CASE task'[u] = task[u]
    BY <2>1 DEF CardsGood, HandsGood
  <2>2. CASE task'[u] # task[u]
    <3>1. task'[u].kept = Empty /\ task'[u].pc \notin {"recordWhite", "giveHand", "insert", "refill"}
      BY <1>1, <2>2 DEF Plain, Basic, TaskGood
    <3> QED
      BY <3>1, EmptyGood DEF CarriesGood, HandGood
  <2> QED
    BY <2>1, <2>2
<1> QED
  BY <1>3, <1>4, <1>5 DEF CardsGood, HandsGood

\* HandsGood when one handler moves.
LEMMA HandsStep ==
  ASSUME Basic, HandsGood, NEW t \in Tasks, NEW n, Moves(t, n), CarriesGood(n),
         \A p \in Players : HandGood(hand'[p])
  PROVE  HandsGood'
<1>1. task'[t] = n /\ \A u \in Tasks \ {t} : task'[u] = task[u]
  BY Moved DEF Basic, TypeOK
<1> QED
  BY <1>1 DEF HandsGood

LEMMA PlayCards ==
  ASSUME Basic, CardsGood, NEW t \in Tasks, NEW p \in Players, Play(t, p)
  PROVE  CardsGood'
<1>1. PICK n \in TaskState :
        /\ Moves(t, n) /\ n.pc = "insert" /\ n.player = p /\ n.kept = hand[p]
        /\ n.drawn = {} /\ hand[p] # Empty
        /\ UNCHANGED whites
  BY PlayFacts
<1>2. \A c \in WhiteCards : n.kept[c] > 0 => Has(p, c)
  BY <1>1 DEF Has
<1>3. OneHolder'
  BY <1>1, <1>2, HolderStep DEF CardsGood, whites, Has
<1>4. HandGood(hand[p]) /\ CarriesGood(n)
  BY <1>1 DEF CardsGood, HandsGood, HandGood, CarriesGood
<1>5. HandsGood'
  BY <1>1, <1>4, HandsStep DEF CardsGood, HandsGood, whites
<1> QED
  BY <1>3, <1>5 DEF CardsGood

LEMMA InsertCards ==
  ASSUME Basic, CardsGood, NEW t \in Tasks, Insert(t)
  PROVE  CardsGood'
<1>1. /\ task[t].pc = "insert" /\ task[t].player \in Players /\ task[t] \in TaskState
      /\ task[t].played \subseteq Cards(task[t].kept)
      /\ UNCHANGED <<pickedWhite, hand>>
  BY InsertFacts
<1>2. CASE Moves(t, Idle) /\ UNCHANGED plays
  <2>1. Idle.kept = Empty /\ Idle.drawn = {} /\ Idle.pc = "idle"
    BY DEF Idle
  <2>2. OneHolder'
    BY <1>1, <1>2, <2>1, IdleGood, EmptyGood, HolderStep DEF CardsGood, Has
  <2>3. CarriesGood(Idle)
    BY <2>1, EmptyGood DEF CarriesGood, HandGood
  <2> QED
    BY <1>1, <1>2, <2>2, <2>3, HandsStep DEF CardsGood, HandsGood
<1>3. CASE ~(Moves(t, Idle) /\ UNCHANGED plays)
  <2>1. /\ round \in Rounds
        /\ plays' = [plays EXCEPT ![round][task[t].player] = task[t].played]
    BY <1>3, InsertFacts
  <2>2. PICK n \in TaskState :
           /\ Moves(t, n) /\ n.pc = "refill" /\ n.player = task[t].player
           /\ n.kind = "play" /\ n.kept = task[t].kept
           /\ n.played = task[t].played /\ n.drawn = {}
    BY <1>3, InsertFacts
  <2>3. \A c \in WhiteCards : task[t].kept[c] > 0 => Has(task[t].player, c)
    BY DEF Has
  <2>4. ASSUME NEW p \in Players, NEW c \in WhiteCards, NEW m \in Rounds, c \in plays'[m][p]
        PROVE  Has(p, c)
    <3>1. CASE m = round /\ p = task[t].player
      <4>1. c \in task[t].played
        BY <1>1, <2>1, <2>4, <3>1 DEF Basic, TypeOK
      <4> QED
        BY <1>1, <2>3, <3>1, <4>1 DEF Cards
    <3>2. CASE ~(m = round /\ p = task[t].player)
      <4>1. plays'[m][p] = plays[m][p]
        BY <1>1, <2>1, <3>2 DEF Basic, TypeOK
      <4> QED
        BY <2>4, <4>1 DEF Has
    <3> QED
      BY <3>1, <3>2
  <2>5. \A p \in Players, c \in WhiteCards : hand'[p][c] > 0 => Has(p, c)
    BY <1>1 DEF Has
  <2>6. OneHolder'
    BY <1>1, <2>2, <2>3, <2>4, <2>5, HolderStep DEF CardsGood
  <2>7. CarriesGood(n)
    BY <1>1, <2>2 DEF CardsGood, HandsGood, CarriesGood
  <2> QED
    BY <1>1, <2>2, <2>6, <2>7, HandsStep DEF CardsGood, HandsGood
<1> QED
  BY <1>2, <1>3

\* The write of a ledger that was not restarted.
LEMMA RecordCards ==
  ASSUME Basic, CardsGood, DrawsGood, "dry" \notin odd, NEW t \in Tasks, RecordWhite(t)
  PROVE  CardsGood'
<1>1. /\ task[t].pc = "recordWhite" /\ pickedWhite' = task[t].ledger
      /\ UNCHANGED <<hand, plays>>
  BY RecordFacts
<1>2. PICK n \in TaskState :
              /\ Moves(t, n) /\ n.pc = "giveHand" /\ n.player = task[t].player
              /\ n.kind = task[t].kind /\ n.kept = task[t].kept /\ n.drawn = task[t].drawn
  BY RecordFacts
<1>3. pickedWhite' = pickedWhite \cup task[t].drawn
  BY <1>1 DEF DrawsGood
<1>4. OneHolder'
  BY <1>1, <1>2, <1>3, HolderStep DEF CardsGood, Has
<1>5. CarriesGood(n)
  BY <1>1, <1>2 DEF CardsGood, HandsGood, CarriesGood
<1> QED
  BY <1>1, <1>2, <1>4, <1>5, HandsStep DEF CardsGood, HandsGood

LEMMA TopUpCards ==
  ASSUME NEW r \in TaskState
  PROVE  /\ Cards(TopUp(r)) = Cards(r.kept) \cup r.drawn
         /\ Single(r.kept) /\ Cards(r.kept) \cap r.drawn = {} => Single(TopUp(r))
<1>1. r.kept \in [WhiteCards -> Nat] /\ r.drawn \subseteq WhiteCards
  BY DEF TaskState, Hands
<1>2. \A c \in WhiteCards : TopUp(r)[c] = r.kept[c] + (IF c \in r.drawn THEN 1 ELSE 0)
  BY DEF TopUp
<1> QED
  BY <1>1, <1>2 DEF Cards, Single

LEMMA GiveCards ==
  ASSUME Basic, CardsGood, NEW t \in Tasks, GiveHand(t)
  PROVE  CardsGood'
<1>1. /\ task[t].pc = "giveHand" /\ task[t].player \in Players /\ task[t] \in TaskState
      /\ UNCHANGED <<pickedWhite, plays>>
      /\ \/ UNCHANGED hand
         \/ hand' = [hand EXCEPT ![task[t].player] = TopUp(task[t])]
  BY GiveFacts
<1>2. PICK n \in TaskState :
              /\ Moves(t, n) /\ n.pc \in {"idle", "deal"} /\ n.kind # "play"
              /\ n.kept = Empty /\ n.drawn = {}
  BY GiveFacts
<1>3. CarriesGood(task[t])
  BY DEF CardsGood, HandsGood
<1>4. ASSUME NEW p \in Players, hand'[p] # hand[p]
      PROVE  p = task[t].player /\ hand'[p] = TopUp(task[t])
  BY <1>1, <1>4 DEF Basic, TypeOK
<1>5. HandGood(TopUp(task[t]))
  BY <1>1, <1>3, TopUpCards DEF HandGood, CarriesGood
<1>6. \A p \in Players : HandGood(hand'[p])
  BY <1>4, <1>5 DEF CardsGood, HandsGood
<1>7. ASSUME NEW p \in Players, NEW c \in WhiteCards, hand'[p][c] > 0
      PROVE  Has(p, c) \/ (task[t].player = p /\ c \in task[t].drawn /\ At(t, "giveHand"))
  <2>1. CASE hand'[p] = hand[p]
    BY <1>7, <2>1 DEF Has
  <2>2. CASE hand'[p] # hand[p]
    <3>1. p = task[t].player /\ c \in Cards(task[t].kept) \cup task[t].drawn
      BY <1>1, <1>4, <1>7, <2>2, TopUpCards DEF Cards
    <3> QED
      BY <1>1, <3>1 DEF Has, Cards
  <2> QED
    BY <2>1, <2>2
<1>8. OneHolder'
  BY <1>1, <1>2, <1>7, EmptyGood, HolderStep DEF CardsGood, Has
<1>9. CarriesGood(n)
  BY <1>2, EmptyGood DEF CarriesGood, HandGood
<1> QED
  BY <1>2, <1>6, <1>8, <1>9, HandsStep DEF CardsGood

LEMMA KeepCards ==
  ASSUME NEW r \in TaskState
  PROVE  /\ Cards(Keep(r)) = Cards(r.kept) \ r.played
         /\ Single(r.kept) => Single(Keep(r))
<1>1. r.kept \in [WhiteCards -> Nat]
  BY DEF TaskState, Hands
<1>2. \A c \in WhiteCards : Keep(r)[c] = IF c \in r.played THEN 0 ELSE r.kept[c]
  BY DEF Keep
<1> QED
  BY <1>1, <1>2 DEF Cards, Single

\* A draw that neither overlaps nor recycles.
LEMMA DrawCards ==
  ASSUME Basic, CardsGood, NEW t \in Tasks, Draw(t), "overlap" \notin odd', "dry" \notin odd'
  PROVE  CardsGood'
<1>1. PICK n \in TaskState : DrawsTo(t, n)
  BY DrawFacts
<1>2. UNCHANGED whites
  BY DrawFacts
<1>3. /\ n.pc = "recordWhite" /\ n.player \in Players /\ n.drawn \subseteq WhiteCards
      /\ n.drawn \cap pickedWhite = {} /\ Moves(t, n)
      /\ \A u \in Tasks : ~At(u, "recordWhite")
  BY <1>1 DEF DrawsTo
<1>4. task'[t] = n /\ \A u \in Tasks \ {t} : task'[u] = task[u]
  BY <1>3, Moved DEF Basic, TypeOK
<1>5. task[t] \in TaskState /\ TaskGood(task[t]) /\ CarriesGood(task[t])
  BY TaskBasic DEF CardsGood, HandsGood
<1>6. ASSUME NEW c \in WhiteCards, n.kept[c] > 0
      PROVE  task[t].kept[c] > 0 /\ n.player = task[t].player
  <2>1. n.kept # Empty
    BY <1>6, EmptyGood
  <2>2. n.kept = Keep(task[t]) /\ n.player = task[t].player
    BY <1>1, <2>1 DEF DrawsTo
  <2> QED
    BY <1>5, <1>6, <2>2, KeepCards DEF Cards
<1>7. \A p \in Players, c \in WhiteCards : Has(p, c)' => Has(p, c)
  BY <1>2, <1>4, <1>6 DEF Has, whites
<1>8. \A p \in Players, c \in WhiteCards : Held(p, c) => c \in pickedWhite
  <2>1. ASSUME NEW u \in Tasks, NEW c \in task[u].drawn PROVE c \in pickedWhite
    BY <1>3, <2>1 DEF CardsGood, OneHolder, Basic, TaskGood
  <2> QED
    BY <2>1 DEF CardsGood, OneHolder, Held
<1>9. \A p \in Players, c \in WhiteCards :
        Held(p, c)' => Held(p, c) \/ (p = n.player /\ c \in n.drawn)
  BY <1>4, <1>7 DEF Held
<1>10. OneHolder'
  <2>1. \A p, q \in Players, c \in WhiteCards : Held(p, c)' /\ Held(q, c)' => p = q
    BY <1>3, <1>8, <1>9 DEF CardsGood, OneHolder
  <2>2. ASSUME NEW u \in Tasks, NEW c \in task'[u].drawn
        PROVE  /\ \A p \in Players : ~Has(p, c)'
               /\ \A v \in Tasks \ {u} : c \notin task'[v].drawn
    <3>1. CASE u = t
      <4>1. c \in n.drawn /\ c \notin pickedWhite /\ c \in WhiteCards
        BY <1>3, <1>4, <2>2, <3>1
      <4>2. \A v \in Tasks : c \notin task[v].drawn
        BY <1>3, <4>1 DEF CardsGood, OneHolder, Basic, TaskGood
      <4> QED
        BY <1>4, <1>7, <3>1, <4>1, <4>2 DEF CardsGood, OneHolder
    <3>2. CASE u # t
      <4>1. c \in task[u].drawn /\ c \in WhiteCards /\ At(u, "giveHand")
        BY <1>3, <1>4, <2>2, <3>2 DEF Basic, TypeOK, TaskState, TaskGood
      <4>2. c \in pickedWhite /\ c \notin n.drawn
        BY <1>3, <4>1 DEF CardsGood, OneHolder
      <4> QED
        BY <1>4, <1>7, <4>1, <4>2 DEF CardsGood, OneHolder
    <3> QED
      BY <3>1, <3>2
  <2> QED
    BY <1>2, <1>3, <1>4, <1>7, <2>1, <2>2 DEF CardsGood, OneHolder, whites
<1>11. CarriesGood(n)
  <2>1. Cards(n.kept) \cap n.drawn = {}
    BY <1>3, <1>6 DEF CardsGood, OneHolder, Cards, Has
  <2>2. IsFiniteSet(n.drawn) /\ IsFiniteSet(Cards(n.kept))
    BY <1>3, CardsAssumption, FS_Subset DEF Cards
  <2>3. Cardinality(Cards(n.kept) \cup n.drawn) = Cardinality(Cards(n.kept)) + Cardinality(n.drawn)
    BY <2>1, <2>2, DisjointSum
  <2>4. CASE n.kept = Empty /\ Cardinality(n.drawn) = HandSize
    <3>1. Cardinality(Cards(n.kept)) = 0
      BY <2>4, EmptyGood, FS_EmptySet
    <3> QED
      BY <1>3, <2>1, <2>3, <2>4, <3>1, EmptyGood, CardsAssumption DEF CarriesGood, HandGood
  <2>5. CASE /\ task[t].pc = "refill" /\ n.kept = Keep(task[t]) /\ Cardinality(n.drawn) = Pick
    <3>1. /\ Cardinality(Cards(task[t].kept)) = HandSize /\ Single(task[t].kept)
          /\ task[t].played \subseteq Cards(task[t].kept) /\ Cardinality(task[t].played) = Pick
      BY <1>5, <2>5 DEF CarriesGood, TaskGood
    <3>2. IsFiniteSet(Cards(task[t].kept))
      BY CardsAssumption, FS_Subset DEF Cards
    <3>3. Cards(task[t].kept) \cap task[t].played = task[t].played
      BY <3>1
    <3>4. Cardinality(Cards(task[t].kept) \ task[t].played)
            = Cardinality(Cards(task[t].kept)) - Cardinality(task[t].played)
      BY <3>2, <3>3, FS_Difference
    <3>5. Cardinality(Cards(n.kept)) = HandSize - Pick /\ Single(n.kept)
      BY <1>5, <2>5, <3>1, <3>4, KeepCards
    <3> QED
      BY <1>3, <2>1, <2>3, <2>5, <3>5, CardsAssumption DEF CarriesGood
  <2> QED
    BY <1>1, <2>4, <2>5 DEF DrawsTo
<1> QED
  BY <1>2, <1>3, <1>10, <1>11, HandsStep DEF CardsGood, HandsGood, whites

LEMMA CardsKeep ==
  ASSUME Basic, [Next]_vars, "overlap" \notin odd => DrawsGood, Clean => CardsGood
  PROVE  Clean' => CardsGood'
<1>1. odd \subseteq odd' /\ Basic'
  BY DrawsKeep, BasicKeeps
<1> SUFFICES ASSUME Clean' PROVE CardsGood'
  OBVIOUS
<1>2. Clean /\ DrawsGood /\ CardsGood /\ "dry" \notin odd
      /\ "overlap" \notin odd' /\ "dry" \notin odd'
  BY <1>1 DEF Clean
<1> QED
  BY <1>1, <1>2, StepKinds, PlainCards, PlayCards, InsertCards, RecordCards, GiveCards, DrawCards
     DEF Deals

-----------------------------------------------------------------------------
\* --- what a Player has played does not come back

Once == \A p \in Players : \A m, n \in Rounds : m # n => plays[m][p] \cap plays[n][p] = {}

Busy(p) == \E t \in Tasks : Refilling(task[t]) /\ task[t].player = p

\* One handler moves, and no play is made.
LEMMA PlaysStep ==
  ASSUME Basic, PlaysGood, Once, NEW t \in Tasks, NEW n, Moves(t, n),
         UNCHANGED <<round, plays>>, TaskPlays(n)',
         \A p \in Players :
           \/ /\ hand'[p] = hand[p]
              /\ Refilling(task[t]) /\ task[t].player = p => Refilling(n) /\ n.player = p
           \/ \A m \in Rounds : Disjoint(p, Cards(hand'[p]), m)
  PROVE  PlaysGood' /\ Once'
<1>1. task'[t] = n /\ \A u \in Tasks \ {t} : task'[u] = task[u]
  BY Moved DEF Basic, TypeOK
<1>2. Once' /\ \A m \in Rounds, p \in Players : m > round' => plays'[m][p] = {}
  BY DEF Once, PlaysGood
<1>3. ASSUME NEW m \in Rounds, NEW p \in Players
      PROVE  Disjoint(p, Cards(hand[p]), m)' \/ (m = round' /\ Busy(p)')
  <2>1. CASE \A k \in Rounds : Disjoint(p, Cards(hand'[p]), k)
    BY <2>1 DEF Disjoint
  <2>2. CASE /\ hand'[p] = hand[p]
             /\ Refilling(task[t]) /\ task[t].player = p => Refilling(n) /\ n.player = p
    <3>1. Busy(p) => Busy(p)'
      BY <1>1, <2>2 DEF Busy
    <3>2. Disjoint(p, Cards(hand[p]), m) \/ (m = round /\ Busy(p))
      BY DEF PlaysGood, Busy
    <3> QED
      BY <2>2, <3>1, <3>2 DEF Disjoint
  <2> QED
    BY <2>1, <2>2
<1>4. ASSUME NEW u \in Tasks PROVE TaskPlays(task[u])'
  <2>1. CASE u = t
    BY <1>1, <2>1 DEF TaskPlays, Disjoint
  <2>2. CASE u # t
    <3>1. task'[u] = task[u] /\ TaskPlays(task[u])
      BY <1>1, <2>2 DEF PlaysGood
    <3> QED
      BY <3>1 DEF TaskPlays, Disjoint
  <2> QED
    BY <2>1, <2>2
<1> QED
  BY <1>2, <1>3, <1>4 DEF PlaysGood, Busy

LEMMA PlainPlays ==
  ASSUME Basic, Basic', PlaysGood, Once, Plain, "late" \notin odd'
  PROVE  PlaysGood' /\ Once'
<1>1. round \in Nat /\ Once' /\ UNCHANGED plays
  BY DEF Basic, TypeOK, Plain, Once
<1>2. /\ round' \in {round, round + 1}
      /\ \A u \in Tasks : Refilling(task[u]) => round' = round /\ task'[u] = task[u]
  BY DEF Plain
<1>3. ASSUME NEW m \in Rounds, NEW p \in Players
      PROVE  Disjoint(p, Cards(hand[p]), m)' \/ (m = round' /\ Busy(p)')
  <2>1. CASE hand'[p] = Empty
    BY <2>1, EmptyGood DEF Disjoint
  <2>2. CASE hand'[p] = hand[p]
    <3>1. Disjoint(p, Cards(hand[p]), m) \/ (m = round /\ Busy(p))
      BY DEF PlaysGood, Busy
    <3>2. Busy(p) => Busy(p)' /\ round' = round
      BY <1>2 DEF Busy
    <3> QED
      BY <1>1, <2>2, <3>1, <3>2 DEF Disjoint
  <2> QED
    BY <2>1, <2>2 DEF Plain
<1>4. ASSUME NEW u \in Tasks PROVE TaskPlays(task[u])'
  <2>1. CASE task'[u] = task[u]
    <3>1. TaskPlays(task[u]) /\ task[u] \in TaskState /\ TaskGood(task[u])
      BY TaskBasic DEF PlaysGood
    <3>2. task[u].round \in Nat
      BY <3>1 DEF TaskState
    <3>3. task[u].pc = "refill" => round' = round
      BY <1>2, <3>1 DEF Refilling, TaskGood
    <3>4. task[u].pc \in {"recordWhite", "giveHand"} /\ task[u].kind = "play" => round' = round
      BY <1>2 DEF Refilling
    <3>5. task[u].round <= round => task[u].round <= round'
      BY <1>1, <1>2, <3>2
    <3> QED
      BY <1>1, <2>1, <3>1, <3>3, <3>4, <3>5 DEF TaskPlays, Disjoint
  <2>2. CASE task'[u] # task[u]
    <3>1. task'[u].kind # "play" /\ task'[u].pc \notin {"recordWhite", "giveHand"}
      BY <2>2 DEF Plain
    <3>2. task'[u].pc \notin {"insert", "refill"}
      BY <3>1 DEF Basic, TaskGood
    <3> QED
      BY <3>1, <3>2 DEF TaskPlays
  <2> QED
    BY <2>1, <2>2
<1>5. ASSUME NEW m \in Rounds, NEW p \in Players, m > round' PROVE plays'[m][p] = {}
  <2>1. m > round
    BY <1>1, <1>2, <1>5 DEF Rounds
  <2> QED
    BY <1>1, <2>1 DEF PlaysGood
<1> QED
  BY <1>1, <1>3, <1>4, <1>5 DEF PlaysGood, Busy

LEMMA PlayPlays ==
  ASSUME Basic, PlaysGood, Once, NEW t \in Tasks, NEW p \in Players, Play(t, p)
  PROVE  PlaysGood' /\ Once'
<1>1. PICK n \in TaskState :
        /\ task[t] = Idle
        /\ Moves(t, n) /\ n.pc = "insert" /\ n.player = p /\ n.kept = hand[p]
        /\ n.round = round /\ round \in Rounds /\ UNCHANGED <<game, whites>>
  BY PlayFacts
<1>2. round \in Nat
  BY DEF Basic, TypeOK
<1>3. \A m \in Rounds : m < round => Disjoint(p, Cards(hand[p]), m)
  BY <1>2 DEF PlaysGood, Rounds
<1>4. TaskPlays(n)'
  BY <1>1, <1>2, <1>3 DEF TaskPlays, Disjoint, game, whites
<1>5. ~Refilling(task[t])
  BY <1>1 DEF Refilling, Idle
<1> QED
  BY <1>1, <1>4, <1>5, PlaysStep DEF game, whites

LEMMA RecordPlays ==
  ASSUME Basic, PlaysGood, Once, NEW t \in Tasks, RecordWhite(t)
  PROVE  PlaysGood' /\ Once'
<1>1. task[t].pc = "recordWhite" /\ UNCHANGED <<game, hand, plays>>
  BY RecordFacts
<1>2. PICK n \in TaskState :
              /\ Moves(t, n) /\ n.pc = "giveHand" /\ n.player = task[t].player
              /\ n.kind = task[t].kind /\ n.kept = task[t].kept /\ n.drawn = task[t].drawn
  BY RecordFacts
<1>3. TaskPlays(n)'
  BY <1>1, <1>2 DEF PlaysGood, TaskPlays, Disjoint, game
<1>4. Refilling(task[t]) => Refilling(n) /\ n.player = task[t].player
  BY <1>2 DEF Refilling
<1> QED
  BY <1>1, <1>2, <1>3, <1>4, PlaysStep DEF game

LEMMA GivePlays ==
  ASSUME Basic, PlaysGood, Once, NEW t \in Tasks, GiveHand(t)
  PROVE  PlaysGood' /\ Once'
<1>1. /\ task[t].pc = "giveHand" /\ task[t].player \in Players /\ task[t] \in TaskState
      /\ UNCHANGED <<game, plays>>
      /\ \/ UNCHANGED hand /\ hand[task[t].player] = Empty
         \/ hand' = [hand EXCEPT ![task[t].player] = TopUp(task[t])]
  BY GiveFacts
<1>2. PICK n \in TaskState : Moves(t, n) /\ n.pc \in {"idle", "deal"}
  BY GiveFacts
<1>3. TaskPlays(n)'
  BY <1>2 DEF TaskPlays
<1>4. \A m \in Rounds : Disjoint(task[t].player, Cards(TopUp(task[t])), m)
  BY <1>1, TopUpCards DEF PlaysGood, TaskPlays
<1>5. ASSUME NEW p \in Players
      PROVE  \/ hand'[p] = hand[p] /\ p # task[t].player
             \/ \A m \in Rounds : Disjoint(p, Cards(hand'[p]), m)
  <2>1. CASE p = task[t].player
    <3>1. hand'[p] = Empty \/ hand'[p] = TopUp(task[t])
      BY <1>1, <2>1 DEF Basic, TypeOK
    <3> QED
      BY <1>4, <2>1, <3>1, EmptyGood DEF Disjoint
  <2>2. CASE p # task[t].player
    BY <1>1, <2>2 DEF Basic, TypeOK
  <2> QED
    BY <2>1, <2>2
<1> QED
  BY <1>1, <1>2, <1>3, <1>5, PlaysStep DEF game

\* Cards that were played are on the ledger, so no draw finds them.
LEMMA DrawPlays ==
  ASSUME Basic, OneHolder, PlaysGood, Once, NEW t \in Tasks, Draw(t), "dry" \notin odd'
  PROVE  PlaysGood' /\ Once'
<1>1. PICK n \in TaskState : DrawsTo(t, n)
  BY DrawFacts
<1>2. UNCHANGED <<game, whites>>
  BY DrawFacts
<1>3. /\ n.pc = "recordWhite" /\ n.player \in Players /\ n.drawn \subseteq WhiteCards
      /\ n.drawn \cap pickedWhite = {} /\ Moves(t, n) /\ n.kind = task[t].kind
      /\ task[t].pc \in {"deal", "refill", "dealJoiner"}
  BY <1>1 DEF DrawsTo
<1>4. task[t] \in TaskState /\ TaskGood(task[t]) /\ TaskPlays(task[t]) /\ round \in Nat
  BY TaskBasic DEF PlaysGood, Basic, TypeOK
<1>5. \A m \in Rounds : Disjoint(n.player, n.drawn, m)
  <2>1. ASSUME NEW m \in Rounds, NEW c \in n.drawn, c \in plays[m][n.player] PROVE FALSE
    BY <1>3, <2>1 DEF OneHolder, Has
  <2> QED
    BY <2>1 DEF Disjoint
<1>6. CASE task[t].pc # "refill"
  <2>1. n.kept = Empty /\ n.kind # "play"
    BY <1>1, <1>6 DEF DrawsTo
  <2>2. TaskPlays(n)'
    BY <1>2, <1>3, <1>5, <2>1, EmptyGood DEF TaskPlays, Disjoint, whites
  <2>3. ~Refilling(task[t])
    BY <1>3, <1>6 DEF Refilling
  <2> QED
    BY <1>2, <1>3, <2>2, <2>3, PlaysStep DEF game, whites
<1>7. CASE task[t].pc = "refill"
  <2>1. task[t].kind = "play" /\ Cardinality(task[t].played) = Pick
    BY <1>4, <1>7 DEF TaskGood
  <2>2. n.kept = Keep(task[t]) /\ n.player = task[t].player
    BY <1>1, <1>3, <2>1 DEF DrawsTo
  <2>3. /\ round \in Rounds /\ task[t].played = plays[round][n.player]
        /\ \A m \in Rounds : m < round => Disjoint(n.player, Cards(task[t].kept), m)
    BY <1>4, <1>7, <2>2 DEF TaskPlays
  <2>4. plays[round][n.player] # {}
    BY <2>1, <2>3, FS_EmptySet, CardsAssumption
  <2>5. Cards(n.kept) = Cards(task[t].kept) \ plays[round][n.player]
    BY <1>4, <2>2, <2>3, KeepCards
  <2>6. ASSUME NEW m \in Rounds PROVE Disjoint(n.player, Cards(n.kept) \cup n.drawn, m)
    <3>1. CASE m < round
      BY <1>5, <2>3, <2>5, <3>1 DEF Disjoint
    <3>2. CASE m = round
      BY <1>5, <2>5, <3>2 DEF Disjoint
    <3>3. CASE m > round
      <4>1. plays[m][n.player] = {}
        BY <1>3, <3>3 DEF PlaysGood
      <4> QED
        BY <4>1 DEF Disjoint
    <3> QED
      BY <1>4, <3>1, <3>2, <3>3 DEF Rounds
  <2>7. TaskPlays(n)'
    BY <1>2, <1>3, <2>3, <2>4, <2>6 DEF TaskPlays, Disjoint, whites, game
  <2>8. Refilling(n)
    BY <1>3, <2>1 DEF Refilling
  <2> QED
    BY <1>2, <1>3, <2>2, <2>7, <2>8, PlaysStep DEF game, whites
<1> QED
  BY <1>6, <1>7

LEMMA InsertPlays ==
  ASSUME Basic, OneHolder, PlaysGood, Once, NEW t \in Tasks, Insert(t)
  PROVE  PlaysGood' /\ Once'
<1> DEFINE q == task[t].player
           played == task[t].played
<1>1. /\ task[t].pc = "insert" /\ q \in Players /\ task[t] \in TaskState
      /\ played \subseteq Cards(task[t].kept) /\ UNCHANGED <<game, hand>>
  BY InsertFacts
<1>2. ~Refilling(task[t]) /\ round \in Nat
  BY <1>1 DEF Refilling, Basic, TypeOK
<1>3. CASE Moves(t, Idle) /\ UNCHANGED plays
  <2>1. TaskPlays(Idle)'
    BY DEF TaskPlays, Idle
  <2> QED
    BY <1>1, <1>2, <1>3, <2>1, PlaysStep DEF game
<1>4. CASE ~(Moves(t, Idle) /\ UNCHANGED plays)
  <2>1. /\ round \in Rounds /\ round = task[t].round /\ plays[round][q] = {}
        /\ plays' = [plays EXCEPT ![round][q] = played]
    BY <1>4, InsertFacts
  <2>2. PICK n \in TaskState :
           /\ Moves(t, n) /\ n.pc = "refill" /\ n.player = q
           /\ n.kind = "play" /\ n.kept = task[t].kept /\ n.played = played
    BY <1>4, InsertFacts
  <2>3. task'[t] = n /\ \A u \in Tasks \ {t} : task'[u] = task[u]
    BY <2>2, Moved DEF Basic, TypeOK
  <2>4. /\ plays'[round][q] = played
        /\ \A m \in Rounds, p \in Players : m # round \/ p # q => plays'[m][p] = plays[m][p]
    BY <1>1, <2>1 DEF Basic, TypeOK
  <2>5. \A m \in Rounds : m < round => Disjoint(q, Cards(task[t].kept), m)
    BY <1>1, <2>1 DEF PlaysGood, TaskPlays
  <2> HIDE DEF played
  <2>6. Once'
    <3>1. ASSUME NEW m \in Rounds, m # round PROVE played \cap plays[m][q] = {}
      <4>1. m < round \/ plays[m][q] = {}
        BY <1>1, <1>2, <3>1 DEF PlaysGood, Rounds
      <4> QED
        BY <1>1, <2>5, <4>1 DEF Disjoint
    <3>2. ASSUME NEW p \in Players, NEW m \in Rounds, NEW k \in Rounds, m # k
          PROVE  plays'[m][p] \cap plays'[k][p] = {}
      <4>1. CASE p # q \/ (m # round /\ k # round)
        BY <2>4, <3>2, <4>1 DEF Once
      <4>2. CASE p = q /\ m = round
        BY <2>4, <3>1, <3>2, <4>2
      <4>3. CASE p = q /\ k = round
        BY <2>4, <3>1, <3>2, <4>3
      <4> QED
        BY <4>1, <4>2, <4>3
    <3> QED
      BY <3>2 DEF Once
  <2>7. ASSUME NEW m \in Rounds, NEW p \in Players, m > round' PROVE plays'[m][p] = {}
    BY <1>1, <1>2, <2>4, <2>7 DEF PlaysGood, game
  <2>8. ASSUME NEW m \in Rounds, NEW p \in Players
        PROVE  Disjoint(p, Cards(hand[p]), m)' \/ (m = round' /\ Busy(p)')
    <3>1. Disjoint(p, Cards(hand[p]), m) \/ (m = round /\ Busy(p))
      BY DEF PlaysGood, Busy
    <3>2. Busy(p) => Busy(p)'
      BY <1>2, <2>3 DEF Busy
    <3>3. p = q => Busy(p)'
      BY <2>2, <2>3 DEF Busy, Refilling
    <3> QED
      BY <1>1, <2>4, <3>1, <3>2, <3>3 DEF Disjoint, game
  <2>9. ASSUME NEW u \in Tasks PROVE TaskPlays(task[u])'
    <3>1. CASE u = t
      <4>1. \A m \in Rounds : m < round => Cards(n.kept) \cap plays'[m][q] = {}
        BY <1>1, <1>2, <2>2, <2>4, <2>5 DEF Disjoint, Rounds
      <4> QED
        BY <1>1, <2>1, <2>2, <2>3, <2>4, <3>1, <4>1 DEF TaskPlays, game, Disjoint
    <3>2. CASE u # t
      <4>1. /\ task'[u] = task[u] /\ TaskPlays(task[u]) /\ task[u] \in TaskState
            /\ TaskGood(task[u]) /\ task[u].round \in Nat
        BY <2>3, <3>2, TaskBasic DEF PlaysGood, TaskState
      <4>2. CASE task[u].pc = "insert"
        <5>1. \A m \in Rounds : m < task[u].round => m # round
          BY <1>2, <4>1, <4>2 DEF TaskPlays, Rounds
        <5>2. task[u].player \in Players
          BY <4>1, <4>2 DEF TaskGood
        <5>3. \A m \in Rounds : m < task[u].round => Disjoint(task[u].player, Cards(task[u].kept), m)'
          BY <2>4, <4>1, <4>2, <5>1, <5>2 DEF TaskPlays, Disjoint
        <5> QED
          BY <1>1, <4>1, <4>2, <5>3 DEF TaskPlays, game
      <4>3. CASE task[u].pc = "refill"
        <5>1. task[u].player # q
          <6>1. Cardinality(task[u].played) # 0
            BY <4>1, <4>3, CardsAssumption DEF TaskGood
          <6> QED
            BY <2>1, <4>1, <4>3, <6>1, FS_EmptySet DEF TaskPlays
        <5>2. task[u].player \in Players
          BY <4>1, <4>3 DEF TaskGood
        <5>3. \A m \in Rounds : plays'[m][task[u].player] = plays[m][task[u].player]
          BY <2>4, <5>1, <5>2
        <5> QED
          BY <1>1, <4>1, <4>3, <5>3 DEF TaskPlays, Disjoint, game
      <4>4. CASE task[u].pc \in {"recordWhite", "giveHand"}
        <5>1. task[u].player \in Players
          BY <4>1, <4>4 DEF TaskGood
        <5>2. CASE task[u].player # q
          <6>1. \A m \in Rounds : plays'[m][task[u].player] = plays[m][task[u].player]
            BY <2>4, <5>1, <5>2
          <6> QED
            BY <1>1, <4>1, <4>4, <6>1 DEF TaskPlays, Disjoint, game
        <5>3. CASE task[u].player = q
          <6>1. task[u].kind # "play" /\ Cards(task[u].kept) = {}
            BY <2>1, <4>1, <4>4, <5>3, EmptyGood DEF TaskPlays, TaskGood
          <6>2. task[u].drawn \cap played = {}
            <7>1. \A c \in played : c \in WhiteCards /\ Has(q, c)
              BY <1>1 DEF Has, Cards
            <7> QED
              BY <1>1, <7>1 DEF OneHolder
          <6>3. ASSUME NEW m \in Rounds
                PROVE  (Cards(task[u].kept) \cup task[u].drawn) \cap plays'[m][q] = {}
            <7>1. CASE m = round
              BY <2>4, <6>1, <6>2, <7>1
            <7>2. CASE m # round
              BY <1>1, <2>4, <4>1, <4>4, <5>3, <7>2 DEF TaskPlays, Disjoint
            <7> QED
              BY <7>1, <7>2
          <6> QED
            BY <4>1, <4>4, <5>3, <6>1, <6>3 DEF TaskPlays, Disjoint
        <5> QED
          BY <5>2, <5>3
      <4> QED
        BY <4>1, <4>2, <4>3, <4>4 DEF TaskPlays
    <3> QED
      BY <3>1, <3>2
  <2> QED
    BY <2>6, <2>7, <2>8, <2>9 DEF PlaysGood, Busy
<1> QED
  BY <1>3, <1>4

LEMMA PlaysKeep ==
  ASSUME Basic, [Next]_vars, "overlap" \notin odd => DrawsGood, Clean => CardsGood,
         odd \subseteq {"twice"} => PlaysGood /\ Once
  PROVE  odd' \subseteq {"twice"} => PlaysGood' /\ Once'
<1>1. odd \subseteq odd' /\ Basic'
  BY DrawsKeep, BasicKeeps
<1> SUFFICES ASSUME odd' \subseteq {"twice"} PROVE PlaysGood' /\ Once'
  OBVIOUS
<1>2. PlaysGood /\ Once /\ OneHolder /\ "late" \notin odd' /\ "dry" \notin odd'
  BY <1>1 DEF Clean, CardsGood
<1> QED
  BY <1>1, <1>2, StepKinds, PlainPlays, PlayPlays, InsertPlays, RecordPlays, GivePlays, DrawPlays
     DEF Deals

-----------------------------------------------------------------------------
\* --- the Black Cards

GoRound ==
  \A m, n \in Rounds : m < n /\ black[m] = black[n] /\ black[n] # NoCard =>
    /\ m # n - 1
    /\ BlackCards = Shown(n - 1)

\* No handler died, and rotations followed one another.
InTurn == faults = 0 /\ "twice" \notin odd

LEMMA GoRoundIs == BlackCardsGoRound <=> (InTurn => GoRound)
  BY DEF BlackCardsGoRound, GoRound, InTurn, Shown

\* A step that draws no Black Card and opens no Round: none that had drawn is
\* lost after the first Round, and none is new.
LEMMA BlacksFrame ==
  ASSUME Basic, BlacksGood, GoRound, UNCHANGED <<round, blacks>>,
         OneOpener', RecordsGood',
         \A u \in Tasks : Drew(u)' => Drew(u) /\ task'[u].black = task[u].black,
         round = 0 \/ \A u \in Tasks : Drew(u) => Drew(u)',
         round = 0 => \A u \in Tasks :
           ~started' \/ (Opening(u)' /\ ~Drew(u)') => ~started \/ (Opening(u) /\ ~Drew(u))
  PROVE  BlacksGood' /\ GoRound'
<1>1. UNCHANGED <<black, pickedBlack, currentBlack>> /\ \A n : Shown(n)' = Shown(n)
  BY DEF blacks, Shown
<1>2. GoRound'
  BY <1>1 DEF GoRound
<1>3. /\ \A n \in Rounds : black'[n] # NoCard <=> n <= round'
      /\ currentBlack' # NoCard => currentBlack' \in pickedBlack'
      /\ \A t \in Tasks : Drew(t)' => task'[t].black = currentBlack' /\ currentBlack' \in BlackCards
  BY <1>1 DEF BlacksGood
<1>4. round' = 0 =>
       /\ pickedBlack' \subseteq {currentBlack'}
       /\ \A t \in Tasks : ~started' \/ (Opening(t)' /\ ~Drew(t)') =>
            pickedBlack' = {} /\ currentBlack' = NoCard
  BY <1>1 DEF BlacksGood
<1>5. round > 0 => ((\E t \in Tasks : Drew(t)') <=> \E t \in Tasks : Drew(t))
  BY DEF Basic, TypeOK
<1>6. round' > 0 /\ (\A t \in Tasks : ~Drew(t)') =>
       /\ currentBlack' = black'[round']
       /\ pickedBlack' = Shown(round)' \/ BlackCards = Shown(round)'
  BY <1>1, <1>5 DEF BlacksGood, Shown
<1>7. round' > 0 /\ (\E t \in Tasks : Drew(t)') =>
       /\ currentBlack' # black'[round']
       /\ currentBlack' \in Shown(round)' => BlackCards = Shown(round)'
       /\ pickedBlack' = Shown(round)' \cup {currentBlack'} \/ BlackCards = Shown(round)'
  BY <1>1, <1>5 DEF BlacksGood, Shown
<1> QED
  BY <1>2, <1>3, <1>4, <1>6, <1>7 DEF BlacksGood

\* ... when one handler moves.
LEMMA BlacksMove ==
  ASSUME Basic, BlacksGood, GoRound, NEW t \in Tasks, NEW n, Moves(t, n),
         UNCHANGED <<round, started, blacks>>, n.pc # "recordBlack",
         \/ /\ n.kind = task[t].kind /\ n.black = task[t].black
            /\ n.kind # "rotate" \/ n.round = task[t].round
            /\ n.pc # "drawBlack" /\ task[t].pc \notin {"drawBlack", "recordBlack"}
         \/ /\ n.kind \notin {"start", "rotate"}
            /\ task[t].kind # "rotate" \/ task[t].pc = "drawBlack"
  PROVE  BlacksGood' /\ GoRound'
<1>1. task'[t] = n /\ \A u \in Tasks \ {t} : task'[u] = task[u]
  BY Moved DEF Basic, TypeOK
<1>2. \A u \in Tasks \ {t} : /\ Opening(u)' <=> Opening(u)
                             /\ Drew(u)' <=> Drew(u)
                             /\ task'[u].black = task[u].black
  BY <1>1 DEF Opening, Drew
<1>3. RecordsGood'
  BY <1>1 DEF BlacksGood, RecordsGood, BlackLedger, blacks
<1>4. OneOpener'
  BY <1>1 DEF BlacksGood, OneOpener, Opening
<1>5. CASE /\ n.kind = task[t].kind /\ n.black = task[t].black
           /\ n.pc # "drawBlack" /\ task[t].pc \notin {"drawBlack", "recordBlack"}
  <2>1. (Opening(t)' <=> Opening(t)) /\ (Drew(t)' <=> Drew(t)) /\ task'[t].black = task[t].black
    BY <1>1, <1>5 DEF Opening, Drew
  <2> QED
    BY <1>2, <1>3, <1>4, <2>1, BlacksFrame
<1>6. CASE /\ n.kind \notin {"start", "rotate"}
           /\ task[t].kind # "rotate" \/ task[t].pc = "drawBlack"
  <2>1. ~Opening(t)' /\ ~Drew(t)'
    BY <1>1, <1>6 DEF Opening, Drew
  <2>2. round = 0 \/ ~Drew(t)
    BY <1>6 DEF Basic, OpenersGood, Opening, Drew
  <2> QED
    BY <1>2, <1>3, <1>4, <2>1, <2>2, BlacksFrame
<1> QED
  BY <1>5, <1>6

LEMMA ShownCards ==
  ASSUME Basic, BlacksGood
  PROVE  /\ Shown(round) \subseteq BlackCards
         /\ round \in Nat /\ (round > 0 => black[round] \in Shown(round))
<1>1. round \in 0..MaxRound /\ MaxRound \in Nat /\ black \in [Rounds -> BlackCards \cup {NoCard}]
  BY CardsAssumption DEF Basic, TypeOK
<1>2. \A k \in 1..round : black[k] \in BlackCards
  BY <1>1 DEF BlacksGood, Rounds
<1> QED
  BY <1>1, <1>2 DEF Shown

\* A black draw, up to its write.
LEMMA DrawBlackBlacks ==
  ASSUME Basic, BlacksGood, GoRound, NEW t \in Tasks, DrawBlack(t)
  PROVE  BlacksGood' /\ GoRound'
<1>1. task[t].pc = "drawBlack" /\ Opening(t) /\ UNCHANGED <<game, blacks>>
  BY DrawBlackCases
<1>2. CASE Moves(t, Idle)
  <2>1. Idle.kind = "none" /\ Idle.pc = "idle"
    BY DEF Idle
  <2> QED
    BY <1>1, <1>2, <2>1, BlacksMove DEF game
<1>3. CASE ~Moves(t, Idle)
  <2>1. PICK b \in BlackCards, r \in TaskState :
          /\ b \notin pickedBlack \/ (BlackCards \subseteq pickedBlack /\ b # currentBlack)
          /\ Moves(t, r) /\ r.kind = task[t].kind /\ r.round = task[t].round
          /\ r.pc = "recordBlack" /\ r.black = b /\ r.blacks = BlackLedger(b)
    BY <1>3, DrawBlackCases
  <2>2. task'[t] = r /\ \A u \in Tasks \ {t} : task'[u] = task[u]
    BY <2>1, Moved DEF Basic, TypeOK
  <2>3. \A u \in Tasks \ {t} : ~Opening(u)
    BY <1>1 DEF BlacksGood, OneOpener
  <2>4. \A u \in Tasks \ {t} : ~At(u, "recordBlack")
    BY <2>3, TaskBasic DEF TaskGood, Opening
  <2>5. RecordsGood'
    BY <1>1, <2>1, <2>2, <2>4 DEF RecordsGood, BlackLedger, blacks
  <2>6. OneOpener'
    BY <1>1, <2>1, <2>2 DEF BlacksGood, OneOpener, Opening, game
  <2>7. \A u \in Tasks : (Drew(u)' <=> Drew(u)) /\ (Opening(u)' <=> Opening(u))
    BY <1>1, <2>1, <2>2 DEF Drew, Opening
  <2>8. \A u \in Tasks : Drew(u)' => task'[u].black = task[u].black
    BY <1>1, <2>1, <2>2 DEF Drew
  <2> QED
    BY <1>1, <2>5, <2>6, <2>7, <2>8, BlacksFrame DEF game
<1> QED
  BY <1>2, <1>3

\* ... and the write, when nothing came between.
LEMMA RecordBlackBlacks ==
  ASSUME Basic, BlacksGood, GoRound, NEW t \in Tasks, RecordBlack(t)
  PROVE  BlacksGood' /\ GoRound'
<1> DEFINE b == task[t].black
<1>1. /\ task[t].pc = "recordBlack" /\ Opening(t) /\ UNCHANGED <<game, black>>
      /\ pickedBlack' = task[t].blacks /\ currentBlack' = b
  BY RecordBlackFacts
<1>2. /\ b \in BlackCards
      /\ b \notin pickedBlack \/ (BlackCards \subseteq pickedBlack /\ b # currentBlack)
      /\ pickedBlack' = IF b \in pickedBlack THEN {b} ELSE pickedBlack \cup {b}
  BY <1>1 DEF BlacksGood, RecordsGood, BlackLedger
<1>3. PICK r \in TaskState :
        /\ Moves(t, r) /\ r.kind = task[t].kind /\ r.round = task[t].round /\ r.black = b
        /\ r.pc \in {"list", "openRound"}
  BY RecordBlackFacts
<1>4. task'[t] = r /\ \A u \in Tasks \ {t} : task'[u] = task[u]
  BY <1>3, Moved DEF Basic, TypeOK
<1>5. \A u \in Tasks \ {t} : ~Opening(u) /\ ~Opening(u)'
  BY <1>1, <1>4 DEF BlacksGood, OneOpener, Opening
<1>6. (\A u \in Tasks : ~Drew(u)) /\ Drew(t)' /\ \A u \in Tasks \ {t} : ~Drew(u)'
  BY <1>1, <1>3, <1>4, <1>5 DEF Drew, Opening
<1>7. RecordsGood'
  <2>1. \A u \in Tasks : task'[u].pc # "recordBlack"
    BY <1>3, <1>4, <1>5, TaskBasic DEF TaskGood, Opening
  <2> QED
    BY <2>1 DEF RecordsGood
<1>8. OneOpener'
  BY <1>1, <1>3, <1>4 DEF BlacksGood, OneOpener, Opening, game
<1>9. /\ UNCHANGED <<round, started, black>> /\ NoCard \notin BlackCards
      /\ \A n : Shown(n)' = Shown(n)
  BY <1>1, CardsAssumption DEF game, Shown
<1>10. GoRound'
  BY <1>9 DEF GoRound
<1>11. round = 0 => started /\ pickedBlack = {}
  <2>1. round = 0 => started
    BY <1>1 DEF Basic, OpenersGood, Opening
  <2> QED
    BY <1>1, <1>6, <2>1 DEF BlacksGood
<1>12. round = 0 => pickedBlack' \subseteq {b}
  BY <1>1, <1>2, <1>11
<1>13. /\ \A n \in Rounds : black'[n] # NoCard <=> n <= round'
       /\ currentBlack' # NoCard => currentBlack' \in pickedBlack'
       /\ \A u \in Tasks : Drew(u)' => task'[u].black = currentBlack' /\ currentBlack' \in BlackCards
  BY <1>1, <1>2, <1>3, <1>4, <1>6, <1>9 DEF BlacksGood
<1>14. round' = 0 =>
        /\ pickedBlack' \subseteq {currentBlack'}
        /\ \A u \in Tasks : ~started' \/ (Opening(u)' /\ ~Drew(u)') =>
             pickedBlack' = {} /\ currentBlack' = NoCard
  BY <1>1, <1>2, <1>5, <1>6, <1>9, <1>11, <1>12
<1>15. round > 0 =>
        /\ b # black[round]
        /\ b \in Shown(round) => BlackCards = Shown(round)
        /\ pickedBlack' = Shown(round) \cup {b} \/ BlackCards = Shown(round)
  <2> SUFFICES ASSUME round > 0
               PROVE  /\ b # black[round]
                      /\ b \in Shown(round) => BlackCards = Shown(round)
                      /\ pickedBlack' = Shown(round) \cup {b} \/ BlackCards = Shown(round)
    OBVIOUS
  <2>1. currentBlack = black[round] /\ (pickedBlack = Shown(round) \/ BlackCards = Shown(round))
    BY <1>6 DEF BlacksGood
  <2>2. Shown(round) \subseteq BlackCards /\ black[round] \in Shown(round)
    BY ShownCards
  <2>3. currentBlack \in pickedBlack
    BY <1>9, <2>1, <2>2 DEF BlacksGood
  <2> QED
    BY <1>1, <1>2, <2>1, <2>2, <2>3
<1>16. round' > 0 /\ (\E u \in Tasks : Drew(u)') =>
        /\ currentBlack' # black'[round']
        /\ currentBlack' \in Shown(round)' => BlackCards = Shown(round)'
        /\ pickedBlack' = Shown(round)' \cup {currentBlack'} \/ BlackCards = Shown(round)'
  BY <1>1, <1>2, <1>9, <1>15 DEF Shown
<1> QED
  BY <1>6, <1>7, <1>8, <1>10, <1>13, <1>14, <1>16 DEF BlacksGood
LEMMA OpenRoundBlacks ==
  ASSUME Basic, BlacksGood, GoRound, NEW t \in Tasks, OpenRound(t)
  PROVE  BlacksGood' /\ GoRound'
<1> DEFINE b == currentBlack
<1>1. /\ task[t].pc = "openRound" /\ Opening(t)
      /\ round \in 0..(MaxRound - 1) /\ round' = round + 1 /\ round' \in Rounds
      /\ black' = [black EXCEPT ![round'] = task[t].black]
      /\ Moves(t, Idle) /\ UNCHANGED <<pickedBlack, currentBlack>>
  <2>1. Opening(t) /\ task[t].round = round
    BY OpenRoundFacts DEF Basic, OpenersGood, BlacksGood, OneOpener, Opening
  <2> QED
    BY <2>1, OpenRoundFacts
<1>2. Drew(t) /\ task[t].black = b /\ b \in BlackCards /\ b \in pickedBlack /\ b # NoCard
  BY <1>1, CardsAssumption DEF Drew, BlacksGood
<1>3. black'[round'] = b /\ \A n \in Rounds : n # round' => black'[n] = black[n]
  BY <1>1, <1>2 DEF Basic, TypeOK
<1>4. task'[t] = Idle /\ \A u \in Tasks \ {t} : task'[u] = task[u]
  BY <1>1, Moved DEF Basic, TypeOK
<1>5. \A u \in Tasks : ~Opening(u)' /\ ~Drew(u)'
  BY <1>1, <1>4 DEF BlacksGood, OneOpener, Opening, Drew, Idle
<1>6. round \in Nat /\ MaxRound \in Nat /\ round' \in Nat /\ round < MaxRound
  BY <1>1, CardsAssumption
<1>7. \A n \in Nat : n <= round => {black'[k] : k \in 1..n} = Shown(n)
  <2>1. \A n \in Nat : \A k \in 1..n : n <= round => k \in Rounds /\ k # round'
    BY <1>1, <1>6 DEF Rounds
  <2>2. \A n \in Nat : \A k \in 1..n : n <= round => black'[k] = black[k]
    BY <1>3, <2>1
  <2> QED
    BY <2>2 DEF Shown
<1>8. {black'[k] : k \in 1..round'} = Shown(round) \cup {b}
  <2>1. 1..round' = 1..round \cup {round'}
    BY <1>1, <1>6
  <2>2. {black'[k] : k \in 1..round'} = {black'[k] : k \in 1..round} \cup {b}
    BY <1>3, <2>1
  <2> QED
    BY <1>6, <1>7, <2>2
<1>9. Shown(round) \subseteq BlackCards
  BY ShownCards
<1>10. round > 0 =>
        /\ b # black[round]
        /\ b \in Shown(round) => BlackCards = Shown(round)
        /\ pickedBlack = Shown(round) \cup {b} \/ BlackCards = Shown(round)
  BY <1>2 DEF BlacksGood
<1>11. pickedBlack = Shown(round) \cup {b} \/ BlackCards = Shown(round) \cup {b}
  <2>1. CASE round > 0
    BY <1>2, <1>9, <1>10, <2>1
  <2>2. CASE round = 0
    <3>1. pickedBlack = {b}
      BY <1>2, <2>2 DEF BlacksGood
    <3>2. Shown(round) = {}
      BY <2>2 DEF Shown
    <3> QED
      BY <3>1, <3>2
  <2> QED
    BY <1>6, <2>1, <2>2
<1>12. GoRound'
  <2>1. ASSUME NEW m \in Rounds, NEW n \in Rounds, m < n, black'[m] = black'[n], black'[n] # NoCard
        PROVE  m # n - 1 /\ BlackCards = {black'[k] : k \in 1..(n - 1)}
    <3>1. m \in Nat /\ n \in Nat /\ n - 1 \in Nat
      BY <1>6, <2>1 DEF Rounds
    <3>2. n <= round'
      BY <1>1, <1>3, <1>6, <2>1, <3>1 DEF BlacksGood
    <3>3. CASE n = round'
      <4>1. /\ m <= round /\ m \in 1..round /\ n - 1 = round /\ round > 0 /\ black'[m] = black[m]
        BY <1>1, <1>3, <1>6, <2>1, <3>1, <3>3 DEF Rounds
      <4>2. black[m] = b /\ b \in Shown(round)
        BY <1>3, <2>1, <3>3, <4>1 DEF Shown
      <4> QED
        BY <1>6, <1>7, <1>10, <4>1, <4>2
    <3>4. CASE n # round'
      <4>1. n <= round /\ n - 1 <= round /\ m # round'
        BY <1>1, <1>6, <2>1, <3>1, <3>2, <3>4
      <4>2. black[m] = black[n] /\ black[n] # NoCard
        BY <1>3, <2>1, <3>4, <4>1
      <4> QED
        BY <1>7, <2>1, <3>1, <4>1, <4>2 DEF GoRound
    <3> QED
      BY <3>3, <3>4
  <2> QED
    BY <2>1 DEF GoRound, Shown
<1>13. \A n \in Rounds : black'[n] # NoCard <=> n <= round'
  <2>1. ASSUME NEW n \in Rounds PROVE black'[n] # NoCard <=> n <= round'
    <3>1. n \in Nat
      BY <1>6 DEF Rounds
    <3>2. CASE n = round'
      BY <1>2, <1>3, <1>6, <3>2
    <3>3. CASE n # round'
      BY <1>1, <1>3, <1>6, <3>1, <3>3 DEF BlacksGood
    <3> QED
      BY <3>2, <3>3
  <2> QED
    BY <2>1
<1>14. /\ currentBlack' # NoCard => currentBlack' \in pickedBlack'
       /\ \A u \in Tasks : Drew(u)' => task'[u].black = currentBlack' /\ currentBlack' \in BlackCards
       /\ round' # 0
  BY <1>1, <1>2, <1>5, <1>6
<1>15. /\ currentBlack' = black'[round']
       /\ pickedBlack' = Shown(round)' \/ BlackCards = Shown(round)'
  BY <1>1, <1>3, <1>8, <1>11 DEF Shown
<1>16. OneOpener' /\ RecordsGood'
  <2>1. \A u \in Tasks \ {t} : ~Opening(u)
    BY <1>1 DEF BlacksGood, OneOpener
  <2>2. \A u \in Tasks : task'[u].pc # "recordBlack"
    BY <1>4, <2>1, TaskBasic DEF TaskGood, Opening, Idle
  <2>3. RecordsGood'
    BY <2>2 DEF RecordsGood
  <2>4. OneOpener'
    BY <1>5 DEF OneOpener, Opening
  <2> QED
    BY <2>3, <2>4
<1> QED
  BY <1>5, <1>12, <1>13, <1>14, <1>15, <1>16 DEF BlacksGood

\* The steps of one handler that are about White Cards.
LEMMA WhitesBlacks ==
  ASSUME Basic, BlacksGood, GoRound, NEW t \in Tasks, Deals(t)
  PROVE  BlacksGood' /\ GoRound'
<1>1. CASE Draw(t)
  <2>1. PICK n \in TaskState : DrawsTo(t, n)
    BY <1>1, DrawFacts
  <2>2. UNCHANGED <<game, blacks>>
    BY <1>1, DrawFacts
  <2>3. task[t].kind # "rotate"
    BY <2>1, TaskBasic DEF DrawsTo, TaskGood
  <2>4. /\ Moves(t, n) /\ n.kind = task[t].kind /\ n.black = task[t].black
        /\ n.pc = "recordWhite" /\ task[t].pc \in {"deal", "refill", "dealJoiner"}
    BY <2>1 DEF DrawsTo
  <2> QED
    BY <2>2, <2>3, <2>4, BlacksMove DEF game
<1>2. CASE RecordWhite(t)
  <2>1. PICK n \in TaskState :
          /\ Moves(t, n) /\ n.pc = "giveHand" /\ n.kind = task[t].kind /\ n.black = task[t].black
    BY <1>2, RecordFacts
  <2>2. task[t].pc = "recordWhite" /\ UNCHANGED <<game, blacks>> /\ task[t].kind # "rotate"
    BY <1>2, RecordFacts, TaskBasic DEF TaskGood
  <2> QED
    BY <2>1, <2>2, BlacksMove DEF game
<1>3. CASE GiveHand(t)
  <2>1. PICK n \in TaskState :
          /\ Moves(t, n) /\ n.pc \in {"idle", "deal"}
          /\ \/ n.kind = task[t].kind /\ n.black = task[t].black
             \/ n.kind = "none" /\ task[t].kind # "rotate"
    BY <1>3, GiveFacts
  <2>2. task[t].pc = "giveHand" /\ UNCHANGED <<game, blacks>> /\ task[t].kind # "rotate"
    BY <1>3, GiveFacts, TaskBasic DEF TaskGood
  <2> QED
    BY <2>1, <2>2, BlacksMove DEF game
<1>4. CASE Insert(t)
  <2>1. task[t].kind = "play" /\ UNCHANGED <<game, blacks>>
    BY <1>4, InsertFacts, TaskBasic DEF TaskGood
  <2>2. Idle.kind = "none" /\ Idle.pc = "idle"
    BY DEF Idle
  <2>3. \E n : Moves(t, n) /\ n.kind \notin {"start", "rotate"} /\ n.pc # "recordBlack"
    BY <1>4, <2>2, InsertFacts
  <2> QED
    BY <2>1, <2>3, BlacksMove DEF game
<1>5. ASSUME NEW p \in Players, Play(t, p) PROVE BlacksGood' /\ GoRound'
  <2>1. PICK cards \in SUBSET Cards(hand[p]) :
          Moves(t, [Idle EXCEPT !.kind = "play", !.pc = "insert", !.player = p,
                                !.round = round, !.kept = hand[p], !.played = cards])
    BY <1>5 DEF Play, Moves
  <2> DEFINE n == [Idle EXCEPT !.kind = "play", !.pc = "insert", !.player = p,
                               !.round = round, !.kept = hand[p], !.played = cards]
  <2>2. n.kind = "play" /\ n.pc = "insert" /\ Idle.kind = "none"
    BY DEF Idle
  <2>3. task[t] = Idle /\ UNCHANGED <<game, blacks>>
    BY <1>5 DEF Play
  <2> HIDE DEF n
  <2>4. Moves(t, n)
    BY <2>1 DEF n
  <2> QED
    BY <2>2, <2>3, <2>4, BlacksMove DEF game
<1> QED
  BY <1>1, <1>2, <1>3, <1>4, <1>5 DEF Deals

LEMMA BlacksKeep ==
  ASSUME Basic, [Next]_vars, odd \subseteq odd', InTurn => BlacksGood /\ GoRound
  PROVE  InTurn' => BlacksGood' /\ GoRound'
<1> USE DEF Deals, Draw
<1>1. Idle.kind = "none" /\ faults \in Nat
  BY DEF Idle, Basic, TypeOK
<1>2. ASSUME NEW t \in Tasks, Fail(t) PROVE faults' # 0
  BY <1>1, <1>2 DEF Fail
<1>3. (\A t \in Tasks : ~Fail(t)) => faults' = faults
  BY DEF Next, vars, people, Leave, StartClaim, List, DealNext, DealDone, Rotate, DrawBlack,
         RecordBlack, OpenRound, Insert, Refill, DealJoiner, RecordWhite, GiveHand, Play, Join
<1> SUFFICES ASSUME InTurn' PROVE BlacksGood' /\ GoRound'
  OBVIOUS
<1>4. BlacksGood /\ GoRound /\ \A t \in Tasks : ~Fail(t)
  BY <1>2, <1>3 DEF InTurn
<1>5. ASSUME UNCHANGED <<task, round, started, blacks>> PROVE BlacksGood' /\ GoRound'
  <2>1. \A u \in Tasks : (Opening(u)' <=> Opening(u)) /\ (Drew(u)' <=> Drew(u))
    BY <1>5 DEF Opening, Drew
  <2>2. OneOpener' /\ RecordsGood'
    BY <1>4, <1>5 DEF BlacksGood, OneOpener, Opening, RecordsGood, BlackLedger, blacks
  <2> QED
    BY <1>4, <1>5, <2>1, <2>2, BlacksFrame
<1>6. CASE UNCHANGED vars
  BY <1>5, <1>6 DEF vars, game
<1>7. ASSUME NEW p \in Players, Leave(p) PROVE BlacksGood' /\ GoRound'
  BY <1>5, <1>7 DEF Leave, game
<1>8. ASSUME NEW t \in Tasks, NEW p \in Players, Join(t, p) PROVE BlacksGood' /\ GoRound'
  <2>1. UNCHANGED <<game, blacks>>
    BY <1>8 DEF Join
  <2>2. CASE UNCHANGED task
    BY <1>5, <2>1, <2>2 DEF game
  <2>3. CASE ~UNCHANGED task
    <3> DEFINE n == [Idle EXCEPT !.kind = "join", !.pc = "dealJoiner", !.player = p]
    <3>1. task[t] = Idle /\ Moves(t, n)
      BY <1>8, <2>3 DEF Join, Moves
    <3>2. n.kind = "join" /\ n.pc = "dealJoiner"
      BY DEF Idle
    <3> HIDE DEF n
    <3> QED
      BY <1>1, <1>4, <2>1, <3>1, <3>2, BlacksMove DEF game
  <2> QED
    BY <2>2, <2>3
<1>9. ASSUME NEW t \in Tasks, Deals(t) PROVE BlacksGood' /\ GoRound'
  BY <1>4, <1>9, WhitesBlacks
<1>10. ASSUME NEW t \in Tasks, List(t) \/ DealDone(t) PROVE BlacksGood' /\ GoRound'
  <2>1. task[t] \in TaskState /\ task[t].kind # "rotate"
    BY <1>10, TaskBasic DEF List, DealDone, TaskGood
  <2>2. \E n : /\ Moves(t, n) /\ n.kind = task[t].kind /\ n.black = task[t].black
               /\ n.kind # "rotate" /\ n.pc \notin {"drawBlack", "recordBlack"}
               /\ task[t].pc \notin {"drawBlack", "recordBlack"}
    <3>1. CASE List(t)
      <4> DEFINE n == [task[t] EXCEPT !.pc = "deal", !.todo = seated]
      <4>1. n.kind = task[t].kind /\ n.black = task[t].black /\ n.pc = "deal"
        BY <2>1 DEF TaskState
      <4> QED
        BY <2>1, <3>1, <4>1 DEF List, Moves
    <3>2. CASE DealDone(t)
      <4> DEFINE n == [task[t] EXCEPT !.pc = "openRound"]
      <4>1. n.kind = task[t].kind /\ n.black = task[t].black /\ n.pc = "openRound"
        BY <2>1 DEF TaskState
      <4> QED
        BY <2>1, <3>2, <4>1 DEF DealDone, Moves
    <3> QED
      BY <1>10, <3>1, <3>2
  <2>3. UNCHANGED <<game, blacks>>
    BY <1>10 DEF List, DealDone
  <2> QED
    BY <1>4, <2>2, <2>3, BlacksMove DEF game
<1>11. ASSUME NEW t \in Tasks, StartClaim(t) \/ Rotate(t) PROVE BlacksGood' /\ GoRound'
  <2>1. \E n : /\ Moves(t, n) /\ task[t] = Idle /\ n.pc = "drawBlack"
               /\ n.kind # "rotate" \/ n.round = round
    <3>1. CASE StartClaim(t)
      <4>1. LET n == [Idle EXCEPT !.kind = "start", !.pc = "drawBlack"] IN
            n.pc = "drawBlack" /\ n.kind = "start"
        BY DEF Idle
      <4> QED
        BY <3>1, <4>1 DEF StartClaim, Moves
    <3> QED
      BY <1>11, <3>1, RotateFacts
  <2>2. PICK n : /\ Moves(t, n) /\ task[t] = Idle /\ n.pc = "drawBlack"
                 /\ n.kind # "rotate" \/ n.round = round
    BY <2>1
  <2>3. task'[t] = n /\ \A u \in Tasks \ {t} : task'[u] = task[u]
    BY <2>2, Moved DEF Basic, TypeOK
  <2>4. /\ ~Drew(t) /\ ~Drew(t)'
        /\ \A u \in Tasks \ {t} : /\ Drew(u)' <=> Drew(u)
                                  /\ Opening(u)' <=> Opening(u)
                                  /\ task'[u].black = task[u].black
    BY <1>1, <2>2, <2>3 DEF Drew, Opening
  <2>5. /\ UNCHANGED <<round, blacks>>
        /\ ~started \/ (round # 0 /\ started' = started)
    <3>1. CASE StartClaim(t)
      BY <3>1 DEF StartClaim
    <3>2. CASE Rotate(t)
      <4>1. round # 0
        <5>1. round \in 1..(MaxRound - 1) /\ MaxRound \in Nat
          BY <3>2, CardsAssumption DEF Rotate
        <5> QED
          BY <5>1
      <4> QED
        BY <3>2, <4>1 DEF Rotate
    <3> QED
      BY <1>11, <3>1, <3>2
  <2>6. \A u \in Tasks : ~Opening(u)
    <3>1. CASE StartClaim(t)
      BY <3>1, CardsAssumption DEF StartClaim, Basic, OpenersGood, Opening, TypeOK
    <3>2. CASE Rotate(t)
      BY <3>2, RotateFacts DEF InTurn, Opening
    <3> QED
      BY <1>11, <3>1, <3>2
  <2>7. OneOpener'
    BY <2>2, <2>3, <2>5, <2>6 DEF OneOpener, Opening
  <2>8. RecordsGood'
    BY <1>4, <2>2, <2>3, <2>5 DEF BlacksGood, RecordsGood, BlackLedger, blacks
  <2> QED
    BY <1>4, <2>4, <2>5, <2>7, <2>8, BlacksFrame
<1>12. ASSUME NEW t \in Tasks, DrawBlack(t) \/ RecordBlack(t) \/ OpenRound(t)
       PROVE  BlacksGood' /\ GoRound'
  BY <1>4, <1>12, DrawBlackBlacks, RecordBlackBlacks, OpenRoundBlacks
<1> QED
  BY <1>4, <1>6, <1>7, <1>8, <1>9, <1>10, <1>11, <1>12 DEF Next

-----------------------------------------------------------------------------
\* --- the theorems

LEMMA InitGood == Init => IInv
<1> SUFFICES ASSUME Init PROVE IInv
  OBVIOUS
<1>1. Empty \in Hands /\ Idle \in TaskState /\ TaskGood(Idle)
  BY IdleGood DEF Empty, Hands
<1>2. /\ Idle.pc = "idle" /\ Idle.kind = "none" /\ Idle.kept = Empty /\ Idle.drawn = {}
      /\ \A t \in Tasks : task[t] = Idle
  BY DEF Idle, Init
<1>3. TypeOK
  <2>1. /\ 0 \in 0..MaxRound /\ 0 \in 0..MaxMoves /\ 0 \in 0..MaxFaults
    BY CardsAssumption
  <2>2. hand \in [Players -> Hands] /\ \A p \in Players \ seated : hand[p] = Empty
    BY <1>1 DEF Init
  <2>3. /\ black \in [Rounds -> BlackCards \cup {NoCard}]
        /\ plays \in [Rounds -> [Players -> SUBSET WhiteCards]]
    BY DEF Init
  <2>4. task \in [Tasks -> TaskState]
    BY <1>1 DEF Init
  <2>5. /\ started \in BOOLEAN /\ open \in BOOLEAN /\ pickedWhite = {} /\ pickedBlack = {}
        /\ currentBlack = NoCard /\ seated \subseteq Players /\ odd = {}
        /\ round = 0 /\ moves = 0 /\ faults = 0
    BY DEF Init
  <2> QED
    BY <2>1, <2>2, <2>3, <2>4, <2>5 DEF TypeOK
<1>4. Basic
  BY <1>1, <1>2, <1>3 DEF Init, Basic, OpenersGood, Opening
<1>5. DrawsGood
  BY <1>2 DEF DrawsGood
<1>6. OneHolder
  <2>1. \A p \in Players, c \in WhiteCards : ~Has(p, c) /\ ~Held(p, c)
    BY <1>2, EmptyGood DEF Init, Has, Held
  <2> QED
    BY <1>2, <2>1 DEF OneHolder
<1>7. HandsGood
  BY <1>2, EmptyGood DEF Init, HandsGood, CarriesGood, HandGood
<1>8. PlaysGood
  BY <1>2, EmptyGood DEF Init, PlaysGood, TaskPlays, Disjoint
<1>9. PlayedOnce
  BY DEF Init, PlayedOnce
<1>10. BlacksGood
  <2>1. \A n \in Rounds : ~(n <= 0)
    BY CardsAssumption DEF Rounds
  <2> QED
    BY <1>2, <2>1 DEF Init, BlacksGood, OneOpener, RecordsGood, Drew, Opening
<1>11. BlackCardsGoRound
  BY DEF Init, BlackCardsGoRound
<1> QED
  BY <1>4, <1>5, <1>6, <1>7, <1>8, <1>9, <1>10, <1>11 DEF IInv

LEMMA StepKeeps == ASSUME IInv, [Next]_vars PROVE IInv'
<1>1. /\ Basic /\ ("overlap" \notin odd => DrawsGood) /\ (Clean => CardsGood)
      /\ (odd \subseteq {"twice"} => PlaysGood /\ Once) /\ (InTurn => BlacksGood /\ GoRound)
  BY GoRoundIs DEF IInv, Clean, CardsGood, PlayedOnce, Once, InTurn
<1>2. Basic'
  BY <1>1, BasicKeeps
<1>3. "overlap" \notin odd' => DrawsGood'
  BY <1>1, DrawsKeep
<1>4. odd' \subseteq {"late", "twice"} => OneHolder' /\ HandsGood'
  BY <1>1, CardsKeep DEF Clean, CardsGood
<1>5. odd' \subseteq {"twice"} => PlaysGood' /\ PlayedOnce'
  BY <1>1, PlaysKeep DEF PlayedOnce, Once
<1>6. (faults = 0 /\ "twice" \notin odd)' => BlacksGood' /\ BlackCardsGoRound'
  <2>1. InTurn' => BlacksGood' /\ GoRound'
    BY <1>1, DrawsKeep, BlacksKeep
  <2> QED
    BY <2>1 DEF InTurn, GoRound, BlackCardsGoRound, Shown
<1> QED
  BY <1>2, <1>3, <1>4, <1>5, <1>6 DEF IInv

LEMMA Cards_Invariant == Spec => []IInv
  BY InitGood, StepKeeps, PTL DEF Spec

\* Rows and handlers hold values of the code's types, and only who has a row in
\* room_players has cards.
THEOREM Cards_Typed == Spec => []TypeOK
<1>1. IInv => TypeOK
  BY DEF IInv, Basic
<1> QED
  BY <1>1, Cards_Invariant, PTL

\* The ledger of the Room does what its comment says: as long as no two draws
\* overlapped and the pool lasted, nobody holds a White Card twice, or one that
\* another Player holds or has played.
THEOREM Cards_NeverRepeat == Spec => []NeverRepeats
<1>1. IInv => NeverRepeats
  <2> SUFFICES ASSUME IInv, odd \subseteq {"late", "twice"}, NEW p \in Players
               PROVE  /\ \A c \in WhiteCards : hand[p][c] <= 1
                      /\ \A q \in Players \ {p} : Owned(p) \cap Owned(q) = {}
    BY DEF NeverRepeats
  <2>1. OneHolder /\ HandsGood /\ TypeOK
    BY DEF IInv, Basic
  <2>2. ASSUME NEW q \in Players, NEW c \in Owned(q) PROVE c \in WhiteCards /\ Has(q, c)
    BY <2>1, <2>2 DEF Owned, Cards, Has, TypeOK
  <2>3. \A q \in Players \ {p} : Owned(p) \cap Owned(q) = {}
    BY <2>1, <2>2 DEF OneHolder, Held
  <2> QED
    BY <2>1, <2>3 DEF HandsGood, HandGood, Single
<1> QED
  BY <1>1, Cards_Invariant, PTL

\* Under the same conditions refillHand tops every Hand up to its standing size:
\* whoever has a Hand has HandSize different cards.
THEOREM Cards_HandStandsFull == Spec => []HandStandsFull
<1>1. IInv => HandStandsFull
  BY DEF IInv, HandStandsFull, HandsGood, HandGood
<1> QED
  BY <1>1, Cards_Invariant, PTL

\* Nobody plays one card in two Rounds, when besides every refill is done before
\* the next Round opens: the Hand a play is made from is read before the refill.
THEOREM Cards_PlayedOnce == Spec => []PlayedOnce
<1>1. IInv => PlayedOnce
  BY DEF IInv, PlayedOnce
<1> QED
  BY <1>1, Cards_Invariant, PTL

\* As long as no handler died part-way and no two rotations were in flight
\* together, a Black Card comes again only when every other was shown, and never
\* twice running: getNewBlackCard, at a start and at every rotation.
THEOREM Cards_BlackCardsGoRound == Spec => []BlackCardsGoRound
<1>1. IInv => BlackCardsGoRound
  BY DEF IInv, BlackCardsGoRound
<1> QED
  BY <1>1, Cards_Invariant, PTL

\* Without overlapping draws the ledger forgets a White Card only when every card
\* was handed out since it began: getNewWhiteCards, "when the pool runs dry".
THEOREM Cards_RestartsWhenDry == Spec => RestartsWhenDry
<1>1. IInv /\ [Next]_vars =>
        [~(pickedWhite \subseteq pickedWhite') /\ "overlap" \notin odd =>
           pickedWhite \cup pickedWhite' = WhiteCards]_vars
  BY DrawsKeep DEF IInv
<1> QED
  BY <1>1, Cards_Invariant, PTL DEF Spec, RestartsWhenDry
=============================================================================
