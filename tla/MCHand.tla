------------------------------- MODULE MCHand -------------------------------
(* Small tables for TLC. *)
EXTENDS Hand, TLC

\* Crazy Pineapple with a big-blind ante, the flop and turn in one street:
\* stacks deep and short, both blinds all in from the deal, equal stacks.
Discard == [stacks |-> {<<4, 2, 6>>, <<4, 1, 2>>, <<3, 3, 3>>},
            ante |-> 1, stud |-> FALSE, streets |-> <<"bet", "bet", "draw", "bet">>,
            bigBetFrom |-> 2, limit |-> "no", lows |-> 0, bots |-> {},
            offers |-> {"drop", "sitOut", "arm"}]

\* Fixed-limit stud with a low, two streets shorter, and a bot: enough for a
\* bring-in and a bet, with one seat or two short of it.
StudHiLo == [stacks |-> {<<4, 3, 2>>, <<2, 5, 1>>},
             ante |-> 0, stud |-> TRUE, streets |-> <<"bet", "bet", "bet">>,
             bigBetFrom |-> 2, limit |-> "fixed", lows |-> 1, bots |-> {3},
             offers |-> {"sitOut", "sitIn"}]

\* Four seats and two streets, stacks that go all in by different raises: what
\* three seats are too few for.
FourHanded == "four" :>
  [stacks |-> {<<4, 6, 5, 4>>},
   ante |-> 0, stud |-> FALSE, streets |-> <<"bet", "bet">>,
   bigBetFrom |-> 2, limit |-> "no", lows |-> 0, bots |-> {}, offers |-> {}]

BothGames == "discard" :> Discard @@ "stud" :> StudHiLo

=============================================================================
