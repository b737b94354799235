------------------------------- MODULE Scores -------------------------------
(***************************************************************************)
(* The score of a match, as parseDemo derives it from the sides that won   *)
(* the rounds.  The game (PlayRound, external) knows which team plays on   *)
(* which side; the demo tells only the side that wins a round, and the     *)
(* sides the teams end on.  getScore goes from the last round to the first *)
(* and swaps the sides where it takes half-time to be; that depends on the *)
(* length of the match, which is guessed from the score.                   *)
(***************************************************************************)
EXTENDS Integers, Sequences, FiniteSets

CONSTANTS
    Half,       \* rounds of a half of a long match (15)
    ShortHalf,  \* rounds of a half of a short match (8)
    MaxRounds   \* bound: rounds played

\* A long match is won with as many rounds as a short one has.
ASSUME HalvesAssumption ==
    /\ Half \in Nat /\ Half % 3 = 0 /\ Half > 0
    /\ ShortHalf \in Nat /\ Half + 1 = 2 * ShortHalf
    /\ MaxRounds \in Nat

Sides == {"CT", "T"}
Teams == {"first CT", "first T"}
Kinds == {"long", "short"}

VARIABLES
    kind,    \* of the match
    played,  \* the team that won each round
    rounds   \* prd.rounds after the crop: the side that won each round

vars == <<kind, played, rounds>>

TypeOK ==
    /\ kind \in Kinds
    /\ played \in Seq(Teams) /\ Len(played) <= MaxRounds
    /\ rounds \in Seq(Sides) /\ Len(rounds) = Len(played)

Other(side) == IF side = "CT" THEN "T" ELSE "CT"

-----------------------------------------------------------------------------
(* The game.                                                               *)

HalfLength(k) == IF k = "short" THEN ShortHalf ELSE Half

Wins(team, n) == Cardinality({i \in 1..n : played[i] = team})

\* Overtime is played in sets of six rounds.  Sides change after a half, and after
\* the first three rounds of a set, but not between sets.
Changes(n) ==
    LET half == HalfLength(kind)
    IN  IF n <= half THEN 0
        ELSE IF n <= 2 * half THEN 1
        ELSE 1 + (n - 2 * half + 2) \div 6

PlaysOn(team, n) ==
    IF (team = "first CT") = (Changes(n) % 2 = 0) THEN "CT" ELSE "T"

\* Rounds that win the match, when n are played.
Target(n) ==
    LET half == HalfLength(kind)
    IN  IF n <= 2 * half THEN half + 1 ELSE half + 3 * ((n - 2 * half - 1) \div 6) + 4

Won == \E team \in Teams : Wins(team, Len(played)) = Target(Len(played))

Drawn == ~Won /\ Len(played) = 2 * HalfLength(kind)

Over == Won \/ Drawn

\* Deviation: the switch of RoundEnd has no case for terrorists.
RecordedWithoutT(side) == IF side = "CT" THEN "CT" ELSE ""

\* What RoundEnd records of the side that wins.
Recorded(side) == side

\* A short match has no overtime (the code takes it not to occur).
PlayRound(team) ==
    /\ Len(played) < MaxRounds
    /\ ~Won
    /\ kind = "short" => Len(played) < 2 * ShortHalf
    /\ played' = Append(played, team)
    /\ rounds' = Append(rounds, Recorded(PlaysOn(team, Len(played) + 1)))
    /\ UNCHANGED kind

-----------------------------------------------------------------------------
(* The parser.                                                             *)

\* Deviation: the sides change before overtime and not in it.
SwitchesBetweenSets(i, half) == i = half \/ (i > 2 * half /\ i % 6 = 0)

Switches(i, half) == i = half \/ (i > 2 * half /\ (i - 3) % 6 = 0)

\* currSide when the loop of getScore counts round i.
CurrSide(endSide, half) ==
    LET n == Len(rounds)
        side[i \in 1..n] ==
            LET later == IF i = n THEN endSide ELSE side[i + 1]
            IN  IF Switches(i, half) THEN Other(later) ELSE later
    IN  side

\* getScore: the score up to a round, and the side the team is on in that round.
GetScore(endSide, toRound, half) ==
    LET side == CurrSide(endSide, half)
    IN  Cardinality({i \in 1..toRound : rounds[i] = side[i]})

RoundSide(endSide, toRound, half) == CurrSide(endSide, half)[toRound]

\* The match is taken for a short one: at most 16 rounds, and no 16 to 0.
GuessesShort ==
    LET ct == GetScore("CT", Len(rounds), Half)
        t == GetScore("T", Len(rounds), Half)
    IN  ct + t <= Half + 1 /\ Half + 1 \notin {ct, t}

GuessedHalf == IF GuessesShort THEN ShortHalf ELSE Half

\* The score of the team that ends on a side.
FinalScore(endSide) == GetScore(endSide, Len(rounds), GuessedHalf)

\* computeStartSides
StartSide(endSide) == RoundSide(endSide, 1, GuessedHalf)

\* computeRoundByRound, for the team that ends on a side.
RoundByRound(endSide) ==
    [n \in DOMAIN rounds |-> <<GetScore(endSide, n, GuessedHalf),
                               RoundSide(endSide, n, GuessedHalf)>>]

-----------------------------------------------------------------------------

Init ==
    /\ kind \in Kinds
    /\ played = <<>>
    /\ rounds = <<>>

Next == \E team \in Teams : PlayRound(team)

Spec == Init /\ [][Next]_vars

-----------------------------------------------------------------------------
(* Properties.                                                             *)

EndSide(team) == PlaysOn(team, Len(played))

\* A short match that the sides make look like the shut-out of a long one: all
\* rounds but the last won by one side, which loses the last.
LooksShutOut ==
    /\ kind = "short"
    /\ Len(rounds) = Half + 1
    /\ \A i \in 1..Half : rounds[i] # rounds[Half + 1]

\* A match that was played to its end and is no such exception.
Scored == Over /\ ~LooksShutOut

\* Both teams get the score they played, in regular time and in any number of
\* overtimes, in long matches and short ones (util.go:144, parse.go:384).
FinalScoreRight ==
    Scored => \A team \in Teams : FinalScore(EndSide(team)) = Wins(team, Len(played))

=============================================================================
