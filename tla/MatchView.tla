----------------------------- MODULE MatchView -----------------------------
(***************************************************************************)
(* What the match page shows of the rounds of a match.  The page gets the  *)
(* record that module Scores derives and works out once more who played    *)
(* where, four times over: for the kill feed, for the list of rounds, for  *)
(* the grid of results and for the grid of a player's kills.  Team A is    *)
(* the team that ends on side CT.                                          *)
(***************************************************************************)
EXTENDS Scores, FiniteSetsExt

halfLength == GuessedHalf

\* data.startTeams, for the players of the team that ends on a side.
StartTeam(endSide) == StartSide(endSide)

Rounds == DOMAIN rounds

CeilSixth(n) == (n + 5) \div 6

-----------------------------------------------------------------------------
(* The list of rounds and the kill feed.                                   *)

\* Deviation: overtime starts on the side the match started on.
PlayerSideFresh(start, round) ==
    IF round <= halfLength THEN start
    ELSE IF round <= 2 * halfLength THEN Other(start)
    ELSE LET ot == CeilSixth(round - 2 * halfLength)
             first == ((round - 1) % 6) + 1 <= 3
         IN  IF (ot % 2 = 1) = first THEN start ELSE Other(start)

\* playerColor: the side a player is taken to be on in a round.
PlayerSide(start, round) ==
    IF round <= halfLength THEN start
    ELSE IF round <= 2 * halfLength THEN Other(start)
    ELSE LET ot == CeilSixth(round - 2 * halfLength)
             first == ((round - 1) % 6) + 1 <= 3
         IN  IF (ot % 2 = 0) = first THEN start ELSE Other(start)

\* The killer, the assister and the victim of a kill in the feed under the entry of
\* index i, by the sides their teams end on.
FeedSides(i) == [endSide \in Sides |-> PlayerSide(StartTeam(endSide), i + 1)]

\* An entry of the list: the score, the colours of its numbers, and beside which of
\* them the icon of the result is shown.
ListEntry(i) ==
    LET a == RoundByRound("CT")[i + 1]
        b == RoundByRound("T")[i + 1]
    IN  [score |-> <<a[1], b[1]>>, sides |-> <<a[2], b[2]>>,
         icon |-> <<rounds[i + 1] = a[2], rounds[i + 1] = b[2]>>]

-----------------------------------------------------------------------------
(* The grids.  A section shows the rounds of a slice.                      *)

Slice(from, to) == {n \in Rounds : from < n /\ n <= to}

Overtimes ==
    IF Len(rounds) > 2 * halfLength THEN 0..(CeilSixth(Len(rounds) - 2 * halfLength) - 1) ELSE {}

\* Deviation: each overtime starts on the sides the first one starts on.
ResultSectionsAlike ==
    LET a == RoundByRound("CT")[1][2]
        b == RoundByRound("T")[1][2]
    IN  {[rounds |-> Slice(0, halfLength), top |-> a],
         [rounds |-> Slice(halfLength, 2 * halfLength), top |-> b]}
        \union UNION {LET i == 2 * halfLength + ot * 6
                      IN  {[rounds |-> Slice(i, i + 3), top |-> b],
                           [rounds |-> Slice(i + 3, i + 6), top |-> a]} : ot \in Overtimes}

\* RoundsVisualization: the sections, with the side whose rounds are in the top row.
ResultSections ==
    LET a == RoundByRound("CT")[1][2]
        b == RoundByRound("T")[1][2]
    IN  {[rounds |-> Slice(0, halfLength), top |-> a],
         [rounds |-> Slice(halfLength, 2 * halfLength), top |-> b]}
        \union UNION {LET i == 2 * halfLength + ot * 6
                          sideA == IF ot % 2 = 0 THEN b ELSE a
                          sideB == IF ot % 2 = 0 THEN a ELSE b
                      IN  {[rounds |-> Slice(i, i + 3), top |-> sideA],
                           [rounds |-> Slice(i + 3, i + 6), top |-> sideB]} : ot \in Overtimes}

\* RoundResultIcon: of the two icons of a round one is hidden.
TopRow(section) == {n \in section.rounds : rounds[n] = section.top}
BottomRow(section) == {n \in section.rounds : rounds[n] # section.top}

\* ScoreNumber of the upper and of the lower team in a section.
SectionScore(section) ==
    LET won(side) == Cardinality({n \in section.rounds : rounds[n] = side})
    IN  <<won(section.top), won(Other(section.top))>>

\* KillsVisualization, for a player who starts on a side: the sections, in its colours.
KillSections(start) ==
    {[rounds |-> Slice(0, halfLength), side |-> start],
     [rounds |-> Slice(halfLength, 2 * halfLength), side |-> Other(start)]}
    \union UNION {LET i == 2 * halfLength + ot * 6
                      side == IF ot % 2 = 0 THEN Other(start) ELSE start
                  IN  {[rounds |-> Slice(i, i + 3), side |-> side],
                       [rounds |-> Slice(i + 3, i + 6), side |-> Other(side)]} : ot \in Overtimes}

-----------------------------------------------------------------------------
(* Properties.                                                             *)

TeamA == CHOOSE team \in Teams : EndSide(team) = "CT"
TeamB == CHOOSE team \in Teams : EndSide(team) = "T"

\* In every round the feed gives every player the colour of the side he played on then
\* (playerColor counts forwards from the start, getScore backwards from the end), and
\* the list shows the score of the time with the icon beside the team that won.
FeedRight ==
    Scored => \A n \in Rounds :
        LET entry == ListEntry(n - 1)
        IN  /\ \A team \in Teams : FeedSides(n - 1)[EndSide(team)] = PlaysOn(team, n)
            /\ entry.score = <<Wins(TeamA, n), Wins(TeamB, n)>>
            /\ entry.icon = <<played[n] = TeamA, played[n] = TeamB>>

\* Every round is in the grid of results once, in team A's row, the upper one, just when
\* team A won it, and the numbers of the sections add up to the final score.
ResultsInGrid ==
    /\ \A n \in Rounds : Cardinality({s \in ResultSections : n \in s.rounds}) = 1
    /\ UNION {TopRow(s) : s \in ResultSections} = {n \in Rounds : played[n] = TeamA}
    /\ UNION {BottomRow(s) : s \in ResultSections} = {n \in Rounds : played[n] = TeamB}
    /\ MapThenSumSet(LAMBDA s : SectionScore(s)[1], ResultSections) = FinalScore("CT")
    /\ MapThenSumSet(LAMBDA s : SectionScore(s)[2], ResultSections) = FinalScore("T")

\* Every round is in a player's grid of kills once, in the colour of his side.
KillsInGrid ==
    \A team \in Teams, n \in Rounds :
        LET shown == {s \in KillSections(StartTeam(EndSide(team))) : n \in s.rounds}
        IN  Cardinality(shown) = 1 /\ \A s \in shown : s.side = PlaysOn(team, n)

\* The two grids cut a match with any number of overtimes at the same places, and swap
\* the sides where they were swapped (RoundsVisualization.tsx:116, PlayerInfo.tsx:114).
GridsRight == Scored => ResultsInGrid /\ KillsInGrid

=============================================================================
