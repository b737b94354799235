------------------------------- MODULE Rounds -------------------------------
(***************************************************************************)
(* The rounds of a demo, as parseDemo collects them.  The parser library   *)
(* calls a handler for every game event; RoundStart appends an entry to    *)
(* each of some twenty arrays (PerRoundData), the other handlers write to  *)
(* the last entries, and when the demo ends CropToRealRounds throws the    *)
(* entries of warm-up, knife and restarted rounds away.                    *)
(*                                                                         *)
(* Which rounds are real is told by MatchStart events in demos of ESEA and *)
(* of Valve's servers, and by three rounds without a kill in all others.   *)
(*                                                                         *)
(* Every entry carries the number of the round it was made for, which no   *)
(* code sees.  The array kills stands for the arrays the handlers count    *)
(* in, counts of more than MaxKills being the same to the crop; of what a  *)
(* round ended with only the planter is kept, and of its winners whether   *)
(* there is a list of them.                                                *)
(***************************************************************************)
EXTENDS Naturals, Sequences, SequencesExt

CONSTANTS
    MaxRoundStarts,  \* bound: RoundStart events, for each mode
    MaxStarts,       \* bound: MatchStart events that are heeded
    MaxKills         \* bound: kills counted in a round

Modes == {"esea", "valve", "other"}

ASSUME BoundsAssumption ==
    MaxRoundStarts \in [Modes -> Nat] /\ MaxStarts \in Nat /\ MaxKills \in Nat \ {0}

VARIABLES
    mode,       \* of the demo, by its file name
    phase,      \* parsing, or how it ended
    kills,      \* prd.kills, and all its likes
    allRounds,  \* prd.rounds: the zero Round until RoundEnd
    winners,    \* prd.winners: nil, or the players whose team is the winner's
    isLive,     \* prd.isLive
    live,       \* the flag a new round starts with
    starts,     \* consecutiveMatchStarts
    planter,    \* bombPlanter and its likes: the round it was set in, or 0
    heard       \* history: MatchStart events by the end of each round

parseVars == <<mode, phase, kills, allRounds, winners, isLive, live, starts, planter, heard>>

Phases == {"parsing", "done", "error", "noWinners", "outOfRange"}

Numbered == 1..MaxRoundStarts[mode]

ParseTypeOK ==
    /\ mode \in Modes
    /\ phase \in Phases
    /\ kills \in Seq([no: Numbered, total: 0..MaxKills])
    /\ allRounds \in Seq([no: Numbered, ended: BOOLEAN, planter: Numbered \union {0}])
    /\ winners \in Seq([no: Numbered, nil: BOOLEAN])
    /\ isLive \in Seq(BOOLEAN)
    /\ live \in BOOLEAN
    /\ starts \in 0..3
    /\ planter \in Numbered \union {0}
    /\ heard \in Seq(0..MaxStarts) /\ Len(heard) <= MaxRoundStarts[mode]

-----------------------------------------------------------------------------

Parsing == phase = "parsing"

UseLiveMode == mode \in {"esea", "valve"}

SetLast(s, e) == [s EXCEPT ![Len(s)] = e]

ZeroRound(n) == [no |-> n, ended |-> FALSE, planter |-> 0]

\* Deviation: nothing is reset between rounds.
ResetsNothing == planter' = planter

ResetRoundState == planter' = 0

\* NewRound appends to every array.
RoundStart ==
    LET n == Len(kills) + 1
    IN  /\ Parsing
        /\ n <= MaxRoundStarts[mode]
        /\ kills' = Append(kills, [no |-> n, total |-> 0])
        /\ allRounds' = Append(allRounds, ZeroRound(n))
        /\ winners' = Append(winners, [no |-> n, nil |-> TRUE])
        /\ isLive' = Append(isLive, live)
        /\ heard' = Append(heard, IF heard = <<>> THEN 0 ELSE Last(heard))
        /\ ResetRoundState
        /\ UNCHANGED <<mode, phase, live, starts>>

Kill ==
    /\ Parsing
    /\ kills # <<>>
    /\ Last(kills).total < MaxKills
    /\ kills' = SetLast(kills, [Last(kills) EXCEPT !.total = @ + 1])
    /\ UNCHANGED <<mode, phase, allRounds, winners, isLive, live, starts, planter, heard>>

BombPlanted ==
    /\ Parsing
    /\ planter' = Len(kills)
    /\ UNCHANGED <<mode, phase, kills, allRounds, winners, isLive, live, starts, heard>>

GoLive(flag) == live' = flag /\ isLive' = SetLast(isLive, flag)

\* Deviation: the count goes on.
CountStartOn == starts' = starts + 1

CountStart == starts' = (starts + 1) % 4

\* Comes after the RoundStart of the round it is about.  In ESEA demos three of
\* them announce the one that counts; demos of other kinds heed none.
MatchStart ==
    /\ Parsing
    /\ isLive # <<>>
    /\ Last(heard) < MaxStarts
    /\ \/ mode = "valve" /\ GoLive(TRUE) /\ UNCHANGED starts
       \/ mode = "esea" /\ GoLive(starts = 3) /\ CountStart
    /\ heard' = SetLast(heard, Last(heard) + 1)
    /\ UNCHANGED <<mode, phase, kills, allRounds, winners, planter>>

\* players: there are any whose team is the winner's.  There need not be, of a side
\* that has no players left; and of a round without a winner there may be, for the
\* "team" of such a round is the empty one, which a leaver without a teammate gets.
RoundEnd(players) ==
    /\ Parsing
    /\ allRounds # <<>>
    /\ allRounds' = SetLast(allRounds, [Last(allRounds) EXCEPT !.ended = TRUE, !.planter = planter])
    /\ winners' = SetLast(winners, [Last(winners) EXCEPT !.nil = ~players])
    /\ UNCHANGED <<mode, phase, kills, isLive, live, starts, planter, heard>>

-----------------------------------------------------------------------------
(* The end of the demo.                                                    *)

FilterByLiveRounds(data) ==
    FoldLeftDomain(LAMBDA kept, i : IF isLive[i] THEN Append(kept, data[i]) ELSE kept,
                   <<>>, data)

\* Deviation: the winners are filtered like the rest.
UncheckedWinners == FALSE

\* The filter of the winners panics.
LiveWithoutWinners == \E i \in DOMAIN isLive : isLive[i] /\ winners[i].nil

\* Where three rounds without a kill begin.
QuietRounds ==
    {n \in DOMAIN kills : n + 2 \in DOMAIN kills /\ \A i \in n..(n + 2) : kills[i].total = 0}

\* Deviation: the loop stops at what it finds first, the last such rounds.
StartRoundOfLast == IF QuietRounds = {} THEN 0 ELSE Max(QuietRounds) + 1

\* An index from 0.  The loop goes down and overwrites what it has found, so the
\* first such rounds of the demo count.
StartRound == IF QuietRounds = {} THEN 0 ELSE Min(QuietRounds) + 1

\* data[startRound+1:]
FromStart(data) == SubSeq(data, StartRound + 2, Len(data))

\* Deviation: an array is forgotten.
CropWithoutWinners ==
    /\ UNCHANGED winners
    /\ IF UseLiveMode
         THEN kills' = FilterByLiveRounds(kills) /\ allRounds' = FilterByLiveRounds(allRounds)
         ELSE kills' = FromStart(kills) /\ allRounds' = FromStart(allRounds)

Crop ==
    IF UseLiveMode
      THEN /\ kills' = FilterByLiveRounds(kills)
           /\ allRounds' = FilterByLiveRounds(allRounds)
           /\ winners' = FilterByLiveRounds(winners)
      ELSE /\ kills' = FromStart(kills)
           /\ allRounds' = FromStart(allRounds)
           /\ winners' = FromStart(winners)

\* The recording may stop at any point of a round.
EndOfDemo ==
    /\ Parsing
    /\ CASE UseLiveMode /\ LiveWithoutWinners ->
              phase' = "noWinners" /\ UNCHANGED <<kills, allRounds, winners>>
         [] ~UseLiveMode /\ kills = <<>> ->
              phase' = "outOfRange" /\ UNCHANGED <<kills, allRounds, winners>>
         [] OTHER ->
              phase' = "done" /\ Crop
    /\ UNCHANGED <<mode, isLive, live, starts, planter, heard>>

\* ParseToEnd returns an error.
ParseError ==
    /\ Parsing
    /\ phase' = "error"
    /\ UNCHANGED <<mode, kills, allRounds, winners, isLive, live, starts, planter, heard>>

-----------------------------------------------------------------------------

ParseInit ==
    /\ mode \in Modes
    /\ phase = "parsing"
    /\ kills = <<>>
    /\ allRounds = <<>>
    /\ winners = <<>>
    /\ isLive = <<>>
    /\ live = (mode = "other")
    /\ starts = 0
    /\ planter = 0
    /\ heard = <<>>

ParseNext ==
    \/ RoundStart
    \/ Kill
    \/ BombPlanted
    \/ MatchStart
    \/ \E players \in BOOLEAN : RoundEnd(players)
    \/ EndOfDemo
    \/ ParseError

ParseSpec == ParseInit /\ [][ParseNext]_parseVars

-----------------------------------------------------------------------------
(* Properties.                                                             *)

Numbers(data) == [i \in DOMAIN data |-> data[i].no]

\* An index means the same round in every array, before the crop and after it: the
\* statistics go by that (compute.go reads winners[i], rounds[i] and damage[i]).
Aligned ==
    /\ Numbers(kills) = Numbers(allRounds)
    /\ Numbers(kills) = Numbers(winners)
    /\ Parsing => Len(isLive) = Len(kills) /\ Numbers(kills) = [i \in DOMAIN kills |-> i]

\* A bomb recorded for a round was planted in it, and not in one that never ended
\* (parse.go:270, :326).
BombInItsRound ==
    \A i \in DOMAIN allRounds : allRounds[i].planter \in {0, allRounds[i].no}

\* The match is on, by the MatchStart events heard: in ESEA demos every fourth
\* counts, in Valve's every one.
OnAir(n) ==
    CASE mode = "valve" -> heard[n] > 0
      [] mode = "esea"  -> heard[n] > 0 /\ heard[n] % 4 = 0

\* What is kept of a demo of a live mode are the rounds on air, each once, in order
\* and every one was played to its end (per_round_data.go:101, filter_rounds.go:64).
KeptRoundsAreReal ==
    phase = "done" /\ UseLiveMode
        => /\ {allRounds[i].no : i \in DOMAIN allRounds} = {n \in DOMAIN heard : OnAir(n)}
           /\ \A i, j \in DOMAIN allRounds : i < j => allRounds[i].no < allRounds[j].no
           /\ \A i \in DOMAIN allRounds : allRounds[i].ended

\* Of any other demo the first round is lost, and every round up to the end of the
\* first three without a kill; no round that comes after such three is, however
\* often the match was restarted (per_round_data.go:130).
NoPlayedRoundLost ==
    [][phase' = "done" /\ ~UseLiveMode
        => \A n \in DOMAIN kills :
              n \notin {kills'[i].no : i \in DOMAIN kills'} =>
                  \/ n = 1
                  \/ QuietRounds # {} /\ \A q \in QuietRounds : n <= q + 2]_parseVars

=============================================================================
