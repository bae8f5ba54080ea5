---------------------------- MODULE RoundLedger ----------------------------
(***************************************************************************)
(* What the Rounds of a Room promise to the Players, with no handler,      *)
(* process or deadline in sight: Rounds are played one at a time, answers  *)
(* come in only before judging, and a Round is decided once or not at all. *)
(* RoundLifecycle implements it.                                           *)
(***************************************************************************)
EXTENDS Naturals

CONSTANTS Players, NoPlayer, MaxRound

VARIABLES rounds, plays
ledgerVars == <<rounds, plays>>

Numbers == 1..MaxRound
Over    == {"COMPLETE", "ABORTED"}

\* A Round opens after every earlier one is over.
Open(n, j) ==
  /\ rounds[n].status = "NONE"
  /\ \A m \in 1..(n - 1) : rounds[m].status \in Over
  /\ rounds' = [rounds EXCEPT ![n] =
                  [status |-> "PLAYING", judge |-> j, winner |-> NoPlayer]]
  /\ UNCHANGED plays

\* Every Player but the Judge answers at most once.
Answer(n, p) ==
  /\ rounds[n].status = "PLAYING"
  /\ p \notin plays[n] \cup {rounds[n].judge}
  /\ plays' = [plays EXCEPT ![n] = @ \cup {p}]
  /\ UNCHANGED rounds

\* There is something to judge, and no answer is added from here on.
OpenJudging(n) ==
  /\ rounds[n].status = "PLAYING"
  /\ plays[n] # {}
  /\ rounds' = [rounds EXCEPT ![n].status = "JUDGING"]
  /\ UNCHANGED plays

\* The Round is decided ...
Decide(n) ==
  /\ rounds[n].status = "JUDGING"
  /\ rounds' = [rounds EXCEPT ![n].status = "COMPLETE"]
  /\ UNCHANGED plays

\* ... for one of those who answered ...
Record(n, w) ==
  /\ rounds[n].status = "COMPLETE" /\ rounds[n].winner = NoPlayer
  /\ w \in plays[n]
  /\ rounds' = [rounds EXCEPT ![n].winner = w]
  /\ UNCHANGED plays

\* ... or it is void.
Void(n) ==
  /\ rounds[n].status \in {"PLAYING", "JUDGING"}
  /\ rounds' = [rounds EXCEPT ![n].status = "ABORTED"]
  /\ UNCHANGED plays

Init ==
  /\ rounds = [n \in Numbers |->
                 [status |-> "NONE", judge |-> NoPlayer, winner |-> NoPlayer]]
  /\ plays = [n \in Numbers |-> {}]

Next ==
  \E n \in Numbers :
    \/ OpenJudging(n) \/ Decide(n) \/ Void(n)
    \/ \E p \in Players : Open(n, p) \/ Answer(n, p) \/ Record(n, p)

Spec == Init /\ [][Next]_ledgerVars

=============================================================================
