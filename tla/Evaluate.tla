------------------------------ MODULE Evaluate ------------------------------
(***************************************************************************)
(* The "Evaluate game" page (analyze.js): the replay's frames and the      *)
(* analysis of one seat, two answers of the server computed separately     *)
(* from the log of a finished game, laid side by side.  A deal of the rail *)
(* is a hand of the replay plus one, and each decision shown under it must *)
(* be the one the frames show being made.                                  *)
(***************************************************************************)
EXTENDS ReplayFrames, Analysis

Over == winner # NoSeat

Frames == BuildFrames(ReplayResponse(log))

\* How many of the first n events make a frame.  The frame after the last of
\* them is one further on, since the first frame is the table before the game.
FramedUpTo(n) == Cardinality({i \in 1..n : Framed(WireType(log[i].type))})

\* The table of a frame is the engine's game after the same event.
Pictures(f, g, dealt) ==
  /\ f.dealer = g.dealer
  /\ f.hand = dealt
  /\ f.scores = g.scores
  /\ f.hands = g.hands
  /\ f.crib = g.thrown[0] \cup g.thrown[1]
  /\ f.starter = g.starter
  /\ \A s \in Seat : {f.played[s][i] : i \in DOMAIN f.played[s]} = g.played[s]
  /\ f.pile = g.pile
  /\ f.count = g.count
  /\ f.phase = "play" => g.phase # "discard"
  /\ f.phase = "done" <=> g.phase = "complete"

-----------------------------------------------------------------------------
(* Properties.                                                             *)

(***************************************************************************)
(* Every frame of a finished game's replay is the game the engine had      *)
(* after that event: the page's reducer resets, clamps and counts as the   *)
(* engine does, whatever a command emitted, to the last card.              *)
(***************************************************************************)
FramesTellTheGame ==
  Over =>
    LET frames == Frames
    IN  /\ Len(frames) = FramedUpTo(Len(log)) + 1
        /\ \A n \in DOMAIN log :
             Framed(WireType(log[n].type)) =>
               Pictures(frames[FramedUpTo(n) + 1], Folded(Target, SubSeq(log, 1, n)),
                        DealsBefore(log, n + 1))

(***************************************************************************)
(* Deal d of the analysis is hand d + 1 of the replay: each hand of the    *)
(* replay is graded, and the frame the rail jumps to has the dealer, the   *)
(* six cards and the start scores of the deal it is listed under, although *)
(* the analysis adds the scores up without a target.                       *)
(***************************************************************************)
RailLinesUp ==
  Over =>
    LET frames == Frames
        starts == HandStarts(frames)
    IN  \A s \in Seat :
      LET deals == AnalyzeGame(log, s).deals
      IN  /\ {st.hand : st \in starts} = {deals[i].deal + 1 : i \in DOMAIN deals}
          /\ \A i \in DOMAIN deals :
               LET f == frames[FrameIndexForDeal(starts, deals[i].deal)]
               IN  /\ f.dealer = deals[i].dealer
                   /\ f.hands[s] = deals[i].hand
                   /\ f.scores = deals[i].startScores
                   /\ f.crib = {}

(***************************************************************************)
(* The plays listed under a deal are the real choices the player had in    *)
(* it, in order, each graded against the view it was made from - noted     *)
(* while the game was played - and each is the play of one frame, whose    *)
(* predecessor shows the count, the pile and the hand it is listed with.   *)
(***************************************************************************)
DecisionsAreTheFrames ==
  Over =>
    LET frames == Frames IN \A s \in Seat :
      LET deals  == AnalyzeGame(log, s).deals
          shown  == UNION {{<<deals[i].deal, deals[i].plays[j]>> : j \in DOMAIN deals[i].plays} :
                             i \in DOMAIN deals}
          chosen == {d \in decided : d.seat = s /\ NonForced(d.view)}
      IN  /\ Cardinality(shown) = Cardinality(chosen)
          /\ \A d \in chosen : \E p \in shown :
               /\ p[1] = d.deal
               /\ p[2].played = d.played
               /\ p[2].legal = d.view.legalPlays
               /\ \A e \in Engines : (e \in p[2].optimal) <=> OptimalPlay(e, d.view, d.played)
          /\ \A p \in shown : \E k \in DOMAIN frames :
               /\ k > 1
               /\ frames[k - 1].hand = p[1] + 1
               /\ frames[k - 1].hands[s] = p[2].hand
               /\ frames[k - 1].pile = p[2].pile
               /\ frames[k - 1].count = p[2].count
               /\ frames[k].hands[s] = p[2].hand \ {p[2].played}

(***************************************************************************)
(* The discard-only analysis and the exact-ev column of the other one are  *)
(* the same verdicts on the same discards, in the same order: one walks    *)
(* the whole game keeping scores and deals, the other only the cards.      *)
(***************************************************************************)
AnalysesAgree ==
  Over =>
    \A s \in Seat :
      LET deals    == AnalyzeGame(log, s).deals
          discards == AnalyzeDiscards(log, s)
      IN  discards = [i \in DOMAIN deals |->
            [hand |-> deals[i].hand, dealer |-> deals[i].dealer = s,
             throw |-> deals[i].throw, keep |-> deals[i].keep,
             optimal |-> ExactEV \in deals[i].discardOptimal]]

(***************************************************************************)
(* The summary line, the rail's marks and the decisions under them tell    *)
(* one story: every deal's mark is clean exactly when the summary misses   *)
(* none, and a player who made only the engine's choices from the live     *)
(* views is graded without a miss.                                         *)
(***************************************************************************)
MarksMatchTheSummary ==
  Over =>
    \A s \in Seat, e \in Engines :
      LET a     == AnalyzeGame(log, s)
          sum   == a.summary[e]
          clean == \A d \in decided : d.seat = s => OptimalPlay(e, d.view, d.played)
      IN  /\ (sum.optimalDiscards = sum.hands) =
               (\A i \in DOMAIN a.deals : e \in a.deals[i].discardOptimal)
          /\ (sum.optimalPlays = sum.playDecisions) =
               (\A i \in DOMAIN a.deals : e \in a.deals[i].peggingOptimal)
          /\ clean => sum.optimalPlays = sum.playDecisions

(***************************************************************************)
(* The page tells the game: its frames, and what it lays beside them - the *)
(* rail, the plays under a deal and the marks, read from two answers - are *)
(* the game's.                                                             *)
(***************************************************************************)
PageTellsTheGame ==
  FramesTellTheGame /\ RailLinesUp /\ DecisionsAreTheFrames /\ MarksMatchTheSummary

(***************************************************************************)
(* Both analyses are of the game that was played: the log gives back every *)
(* view a card was played from, accepts every play, and yields the same    *)
(* verdicts on the discards either way.                                    *)
(***************************************************************************)
AnalysisIsOfTheGame == AnalysisSeesWhatThePlayerSaw /\ AnalysesAgree
=============================================================================
