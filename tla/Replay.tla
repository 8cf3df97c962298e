------------------------------- MODULE Replay -------------------------------
(***************************************************************************)
(* What is kept of a table's hands and who may read it: the hands dealt    *)
(* (Deal), the recorder of hand-history.js, the few seconds in which cards *)
(* may still be turned over (engine.js), and the hands each page is sent   *)
(* (wireTable, bind and unbind of tournament-registry.js).                 *)
(*                                                                         *)
(* A handler runs to completion and is an action. A page gets what it is   *)
(* sent at once and in order. Of an offer to show it is left open when it  *)
(* lapses: a person may always not answer, and the next deal ends it.      *)
(*                                                                         *)
(* A definition marked Slip is a plausible mistake in the one below it.    *)
(***************************************************************************)
EXTENDS Deal, TLC

VARIABLES
  table,     \* the table, one of Tables
  felt,      \* the cards of its hand
  socket,    \* how often each seat's person came back: its id is a new one
  online,    \* the people who are connected
  current,   \* the record of the hand being played
  hands,     \* the records of the hands played, and the game's own copies
  offers,    \* showWindow: by id, which of their cards they turned over
  version,   \* handHistory.version
  sent,      \* _historySentTo: the ids with the hands of this version
  page,      \* the hands on each page
  shows,     \* how often cards were turned over, and connections lost: bounds
  drops,
  turned     \* every card turned over, hand by hand, and by which id

spent == <<shows, drops>>
vars == <<table, felt, socket, online, current, hands, offers, version, sent, page, spent, turned>>

\* A seat's id is its person's connection; somebody at the rail has a page too.
Rail == 0
IdOf(i) == <<i, IF i = Rail THEN 1 ELSE socket[i]>>
Viewers == table.people \cup {Rail}
Recipients == online \cup {Rail}

\* No hand yet.
NoRecord == [number |-> 0, who |-> {}, hole |-> <<>>, shown |-> {}]

-----------------------------------------------------------------------------
(* The recorder *)

\* The cards of everybody in the hand, by id.
RecordHoleCards(record, f) ==
  [record EXCEPT !.hole =
     [id \in {IdOf(i) : i \in f.live} |-> f.hole[id[1]]] @@ @]

StartHand(f) ==
  RecordHoleCards([NoRecord EXCEPT !.number = f.number, !.who = {IdOf(i) : i \in f.live}], f)

MarkShown(record, id, indices) ==
  [record EXCEPT !.shown = @ \cup {<<id, k>> : k \in indices}]

\* The hands are recorded again when a street deals to the seats, and when
\* the last of a draw has chosen.
Recorded(f, g) ==
  IF \/ g.street # f.street /\ StreetOf(g).hole > 0
     \/ f.phase = "drawing" /\ g.phase # "drawing"
  THEN RecordHoleCards(current, g) ELSE current

\* A showdown turns over every hand still in.
Showdown(record, f) ==
  IF Cardinality(f.live) = 1 THEN record
  ELSE [record EXCEPT !.shown = @ \cup UNION {{<<IdOf(i), k>> : k \in DOMAIN f.hole[i]} : i \in f.live}]

-----------------------------------------------------------------------------
(* Who may see what *)

SeatIdsFor(record, viewer) == {id \in record.who : id[1] = viewer}

\* A hand's cards as the holder of some seats may see them.
VisibleCardsFor(record, mine) ==
  [id \in {id \in DOMAIN record.hole :
             id \in mine \/ \E k \in DOMAIN record.hole[id] : <<id, k>> \in record.shown} |->
     [k \in DOMAIN record.hole[id] |->
        IF id \in mine \/ <<id, k>> \in record.shown THEN record.hole[id][k] ELSE NoCard]]

HistoryIdsForViewer(record, viewer) == SeatIdsFor(record, viewer) \cup {IdOf(viewer)}

\* The last hands, as the page of a viewer gets them.
RecentHandsFor(viewer) ==
  LET last == SubSeq(hands, Len(hands) - Min({Recent, Len(hands)}) + 1, Len(hands))
  IN  [k \in DOMAIN last |->
         [number |-> last[k].number,
          hole   |-> VisibleCardsFor(last[k], HistoryIdsForViewer(last[k], viewer))]]

\* The hands as one person may take them away: only those they were dealt in.
ExportFor(viewer) ==
  LET own == SelectSeq(hands, LAMBDA h : SeatIdsFor(h, viewer) # {})
  IN  [k \in DOMAIN own |->
         [number |-> own[k].number,
          hole   |-> VisibleCardsFor(own[k], SeatIdsFor(own[k], viewer))]]

\* What the felt shows the others of a seat: all of it face up, or the cards
\* dealt up while it is in, and those turned over since.
HandsFaceUp == (felt.phase = "showdown" \/ felt.exposed) /\ Cardinality(felt.live) >= 2

TurnedOver(id) == IF id \in DOMAIN offers THEN offers[id] ELSE {}

VisibleHoleCards(i) ==
  {felt.hole[i][k] : k \in {k \in DOMAIN felt.hole[i] :
     \/ i \in felt.live /\ (HandsFaceUp \/ felt.hole[i][k] \in felt.up[i])
     \/ k \in TurnedOver(IdOf(i))}}

\* The cards a push of the table carries to a viewer, seat by seat: their own,
\* and of the others what the felt shows.
GetStateForPlayer(viewer) ==
  [i \in Seat(felt) |-> IF IdOf(i) = IdOf(viewer) THEN ToSet(felt.hole[i]) ELSE VisibleHoleCards(i)]

-----------------------------------------------------------------------------
(* The hands go out with the first push after they change, to each page *)

EmitUpdate ==
  LET had  == IF version' = version THEN sent ELSE {}
      owed == {v \in Recipients' : IdOf(v)' \notin had}
  IN  /\ sent' = had \cup {IdOf(v)' : v \in owed}
      /\ page' = [v \in Viewers |-> IF v \in owed THEN RecentHandsFor(v)' ELSE page[v]]

-----------------------------------------------------------------------------
(* Hands *)

\* Whoever is there and whose cards the hand did not turn over may turn them.
OpenShowWindow(f) ==
  LET facedUp == IF Cardinality(f.live) >= 2 THEN f.live ELSE {}
  IN  [id \in {IdOf(i) : i \in online \ facedUp} |-> {}]

Holdings(f) == UNION {{<<IdOf(i), c>> : c \in ToSet(f.hole[i])} : i \in f.live}

\* The felt moves on to g; the end of a hand files it.
Moves(g) ==
  LET record == Recorded(felt, g)
      filed  == Showdown(record, g)
  IN  /\ felt' = g
      /\ IF g.phase = "showdown"
         THEN /\ hands' = Append(hands, filed)
              /\ current' = NoRecord
              /\ version' = version + 1
              /\ offers' = OpenShowWindow(g)
              /\ turned' = [turned EXCEPT ![g.number] =
                              IF Cardinality(g.live) = 1 THEN {} ELSE Holdings(g)]
         ELSE current' = record /\ UNCHANGED <<hands, version, offers, turned>>
      /\ UNCHANGED <<table, socket, online, spent>>
      /\ EmitUpdate

Begin ==
  LET g == StartRound(felt, table) IN
  /\ felt.phase \in {"none", "showdown"} /\ felt.number < Len(table.decks)
  /\ felt' = g
  /\ current' = StartHand(g)
  /\ offers' = <<>>
  /\ UNCHANGED <<table, socket, online, hands, version, spent, turned>>
  /\ EmitUpdate

\* The seats nobody sits at call whatever is bet, and so does a person who
\* does not fold and has chips left.
BetStreet ==
  /\ felt.phase = "betting"
  /\ \E folding \in SUBSET (CanAct(felt) \cap table.people) :
     \E shoving \in SUBSET ((CanAct(felt) \cap table.people) \ folding) :
       folding # felt.live /\ Moves(Bet(felt, folding, shoving))

RunOut == felt.phase = "runout" /\ Moves(NextPhase(felt))

HandleDraw ==
  /\ felt.phase = "drawing"
  /\ \E thrown \in SUBSET ToSet(felt.hole[felt.drawing]) :
       /\ IF felt.drawing \in online
          THEN Cardinality(thrown) \in StreetOf(felt).draw.min..Min({StreetOf(felt).draw.max, table.throws})
          ELSE thrown = AutoDraw(felt)
       /\ \E g \in Draw(felt, thrown) : Moves(g)

-----------------------------------------------------------------------------
(* Cards turned over after a hand *)

\* Slip: the hand is amended and nobody is told.
AmendedQuietly == version

Amended == version + 1

\* The hand was filed before this: its record is amended, if it is one of it.
RecordShownOnLast(id, indices) ==
  LET last == hands[Len(hands)] IN
  IF id \in DOMAIN last.hole
  THEN /\ hands' = [hands EXCEPT ![Len(hands)] = MarkShown(@, id, indices)]
       /\ version' = Amended
  ELSE UNCHANGED <<hands, version>>

\* One card or all that are still down.
ShowHoleCards(i) ==
  LET id   == IdOf(i)
      down == {k \in DOMAIN felt.hole[i] : felt.hole[i][k] \notin felt.up[i]} \ TurnedOver(id)
  IN
  /\ id \in DOMAIN offers /\ Len(felt.hole[i]) >= 2 /\ shows < table.shows
  /\ shows' = shows + 1
  /\ \E wanted \in {down} \cup {{k} : k \in down} :
       /\ wanted # {}
       /\ offers' = [offers EXCEPT ![id] = @ \cup wanted]
       /\ RecordShownOnLast(id, offers'[id])
       /\ turned' = [turned EXCEPT ![felt.number] = @ \cup {<<id, felt.hole[i][k]>> : k \in wanted}]
  /\ UNCHANGED <<table, felt, socket, online, current, drops>>
  /\ EmitUpdate

DeclineShow(i) ==
  /\ IdOf(i) \in DOMAIN offers
  /\ offers' = [id \in DOMAIN offers \ {IdOf(i)} |-> offers[id]]
  /\ UNCHANGED <<table, felt, socket, online, current, hands, version, spent, turned>>
  /\ EmitUpdate

-----------------------------------------------------------------------------
(* Connections *)

Unbind(i) ==
  /\ i \in online /\ drops < table.drops
  /\ drops' = drops + 1
  /\ online' = online \ {i}
  /\ UNCHANGED <<table, felt, socket, current, hands, offers, version, shows, turned>>
  /\ EmitUpdate

\* The seat takes the id of the new connection.
Bind(i) ==
  /\ i \in table.people \ online
  /\ online' = online \cup {i}
  /\ socket' = [socket EXCEPT ![i] = @ + 1]
  /\ UNCHANGED <<table, felt, current, hands, offers, version, spent, turned>>
  /\ EmitUpdate

-----------------------------------------------------------------------------
Init ==
  /\ table \in Tables
  /\ felt = NoFelt(table.seats)
  /\ socket = [i \in 1..table.seats |-> 1]
  /\ online = table.people
  /\ current = NoRecord
  /\ hands = <<>> /\ offers = <<>> /\ version = 0 /\ sent = {}
  /\ shows = 0 /\ drops = 0
  /\ page = [v \in Viewers |-> <<>>]
  /\ turned = [n \in DOMAIN table.decks |-> {}]

Over ==
  /\ felt.phase = "showdown" /\ felt.number = Len(table.decks)
  /\ UNCHANGED vars

Next ==
  \/ Begin \/ BetStreet \/ RunOut \/ HandleDraw
  \/ \E i \in table.people : ShowHoleCards(i) \/ DeclineShow(i) \/ Unbind(i) \/ Bind(i)
  \/ Over

Spec == Init /\ [][Next]_vars
-----------------------------------------------------------------------------
(* What a better hand is, said without looking at how hands are scored *)

Held(five, v, value(_)) == Cardinality({c \in five : value(c.value) = v})
PairsIn(five, value(_)) ==
  Cardinality({s \in kSubset(2, five) : \A c, d \in s : value(c.value) = value(d.value)})
HasTimes(five, n, value(_)) == {v \in 1..14 : Held(five, v, value) = n}

\* The top of five in a row, an ace at either end.
RunTop(five) ==
  LET values == {c.value : c \in five} IN
  CASE Cardinality(values) = 5 /\ Max(values) - Min(values) = 4 -> Max(values)
    [] values = {2, 3, 4, 5, 14} -> 5
    [] OTHER -> 0

\* Four of a kind make six pairs, a full house four, three of a kind three.
Class(five) ==
  LET run   == RunTop(five) > 0
      suit  == Cardinality({c.suit : c \in five}) = 1
      pairs == PairsIn(five, HighValue)
  IN  CASE run /\ suit -> 8 [] pairs = 6 -> 7 [] pairs = 4 -> 6 [] suit /\ ~run -> 5
        [] run /\ ~suit -> 4 [] OTHER -> pairs

Sizes(five, value(_)) ==
  <<HasTimes(five, 1, value), HasTimes(five, 2, value),
    HasTimes(five, 3, value), HasTimes(five, 4, value)>>

Facts(five) ==
  [five |-> five, class |-> Class(five), top |-> RunTop(five), pairs |-> PairsIn(five, LowValue),
   high |-> Sizes(five, HighValue), low |-> Sizes(five, LowValue)]

\* Of the largest groups that differ, the largest value that is only one's is
\* ours.
Outranks(ours, theirs) ==
  \E n \in 1..4 :
    /\ ours[n] # theirs[n] /\ Max(SymDiff(ours[n], theirs[n])) \in ours[n]
    /\ \A m \in (n + 1)..4 : ours[m] = theirs[m]

Beats(a, b) ==
  \/ a.class > b.class
  \/ a.class = b.class /\ IF a.top > 0 /\ b.top > 0 THEN a.top > b.top ELSE Outranks(a.high, b.high)

BeatsLow(a, b) == a.pairs < b.pairs \/ (a.pairs = b.pairs /\ Outranks(b.low, a.low))

\* The same of cards that are showing, fewer than five.
ShowsMore(game, a, b) ==
  LET value(v) == IF game.scoresLow THEN LowValue(v) ELSE v
      pairs == PairsIn(a, value) - PairsIn(b, value)
  IN  IF game.scoresLow THEN pairs < 0 \/ (pairs = 0 /\ Outranks(Sizes(b, value), Sizes(a, value)))
      ELSE pairs > 0 \/ (pairs = 0 /\ Outranks(Sizes(a, value), Sizes(b, value)))

Agrees(compared, beats, beaten) ==
  (compared > 0 <=> beats) /\ (compared < 0 <=> beaten)

\* The fives of these cards are scored as they beat each other.
ScoredRight(cards) ==
  LET fives == {[facts |-> Facts(f), high |-> Evaluate5Cards(f), low |-> LowOf(f)] :
                  f \in kSubset(5, cards)}
  IN  \A a, b \in fives :
        /\ Agrees(CompareHands(a.high, b.high), Beats(a.facts, b.facts), Beats(b.facts, a.facts))
        /\ Agrees(CompareHands(a.low, b.low), BeatsLow(a.facts, b.facts), BeatsLow(b.facts, a.facts))

\* The fives a seat may make at the showdown, and the lows among them.
FivesOf(i) ==
  {Facts(f) : f \in Fives(ToSet(felt.hole[i]), ToSet(felt.board), felt.game.use)}

EightOrBetter(fives) ==
  {a \in fives : a.pairs = 0 /\ \A c \in a.five : LowValue(c.value) <= 8}

\* Those with a five that nobody's five beats.
Unbeaten(seats, fives(_), beats(_, _)) ==
  LET best == {[seat |-> i, five |-> CHOOSE a \in fives(i) : \A b \in fives(i) : ~beats(b, a)] :
                 i \in seats}
  IN  {b.seat : b \in {b \in best : \A other \in best : ~beats(other.five, b.five)}}

-----------------------------------------------------------------------------
(* Properties *)

\* Hands are ranked by the rules of poker: of any two fives the scores
\* (Evaluate5Cards, LowOf, CompareHands) prefer the one that beats the other;
\* the seats a showdown pays are those nobody beats, high and low, with as
\* many cards from the hand as the game says and no low above an eight; and
\* the seat that brings in a stud hand shows a card no other seat's is worse
\* than, and later the first from the button of those showing best opens.
\* Checked of the decks before they are dealt, and at tables where
\* nobody sits, which play one hand to its showdown.
RankedByTheRules ==
  /\ felt.phase = "none" => ScoredRight(ToSet(SubSeq(table.decks[1], 1, 9)))
  /\ felt.phase = "showdown" /\ table.people = {} =>
       LET lows(i) == EightOrBetter(FivesOf(i))
       IN  /\ Highs(felt) = IF felt.game.scoresLow THEN Unbeaten(felt.live, FivesOf, BeatsLow)
                            ELSE Unbeaten(felt.live, FivesOf, Beats)
           /\ Lows(felt) = IF felt.game.qualify = None THEN {}
                           ELSE Unbeaten({i \in felt.live : lows(i) # {}}, lows, BeatsLow)
  /\ felt.game.stud /\ felt.phase = "betting" =>
       LET best == {i \in felt.live :
                      \A j \in felt.live : ~ShowsMore(felt.game, felt.up[j], felt.up[i])}
           seat == FirstOf(felt, best, felt.dealer)
       IN  IF felt.street = 1
           THEN \A i \in felt.live : ~ShowsMore(felt.game, felt.up[felt.bring], felt.up[i])
           ELSE seat \in felt.able => felt.opens = seat

\* No card is in two places and no street deals cards that are not there: at
\* every table a game seats, each hand still in it has the cards the streets
\* so far deal, whatever was thrown away and shuffled back in.
DealtInFull ==
  LET holes  == [i \in Seat(felt) |-> Len(felt.hole[i])]
      inPlay == Len(felt.deck) + Len(felt.board) + Cardinality(felt.muck) + SumFunction(holes)
      cards  == ToSet(felt.deck) \cup ToSet(felt.board) \cup felt.muck \cup
                UNION {ToSet(felt.hole[i]) : i \in Seat(felt)}
      due(k) == LET s == Streets(felt)[k]
                IN  s.hole - (IF s.draw.replace THEN 0 ELSE s.draw.min)
  IN  /\ NoCard \notin cards /\ Cardinality(cards) = inPlay
      /\ felt.phase \notin {"none", "drawing"} =>
           \A i \in felt.live : holes[i] = MapThenSumSet(due, 1..felt.street)

\* Nobody reads a card its owner did not have to show or choose to: what a
\* page or a taken-away hand has of another's cards was turned over in that
\* hand (visibleCardsFor, historyIdsForViewer, exportRowFor), and on the felt
\* only cards dealt up, turned over, or of hands nobody can bet against and
\* with nothing left to throw away (_exposeHands, _visibleHoleCards).
Seen(row, viewer) ==
  UNION {{<<id, row.hole[id][k]>> : k \in DOMAIN row.hole[id]} :
           id \in {id \in DOMAIN row.hole : id[1] # viewer}}
  \ {<<id, NoCard>> : id \in DOMAIN row.hole}

Public(i) ==
  LET choosing == \/ felt.phase = "drawing"
                  \/ \E k \in DOMAIN Streets(felt) : k > felt.street /\ IsDraw(Streets(felt)[k])
      settled  == Cardinality(CanAct(felt)) <= 1 /\ ~choosing
  IN  felt.up[i] \cup {t[2] : t \in {t \in turned[felt.number] : t[1][1] = i}} \cup
      (IF /\ i \in felt.live /\ Cardinality(felt.live) >= 2
          /\ settled \/ felt.phase = "showdown"
       THEN ToSet(felt.hole[i]) ELSE {})

NobodyReadsAFold ==
  /\ \A v \in Viewers : \A row \in ToSet(page[v]) \cup ToSet(ExportFor(v)) :
       Seen(row, v) \subseteq turned[row.number]
  /\ felt.number > 0 => \A v \in Viewers : \A i \in Seat(felt) \ {v} :
       GetStateForPlayer(v)[i] \subseteq Public(i)

\* A page in reach of the server has the last hands as they stand: what is
\* left out of most pushes (wireTable) is never what the page lacks, a card
\* turned over after its hand was filed included, and all that was turned over
\* by the ids a hand was dealt to is on it.
PageIsCurrent ==
  \A v \in Recipients :
    /\ page[v] = RecentHandsFor(v)
    /\ \A k \in DOMAIN page[v] : \A t \in turned[page[v][k].number] :
         LET record == CHOOSE h \in ToSet(hands) : h.number = page[v][k].number
         IN  t[1] \in record.who /\ t[1][1] # v => t \in Seen(page[v][k], v)
=============================================================================
