----------------------------- MODULE MCCapital -----------------------------
EXTENDS Sweeps

Binary(pb, pa, kb, ka) == [p_yb |-> pb, p_ya |-> pa, k_yb |-> kb, k_ya |-> ka]
Game(b, a, ka, kb)     == [pm_b |-> b, pm_a |-> a, ka |-> ka, kb |-> kb]

\* Two buckets of one city and day, a game, a release without a date, a bucket the dear venue led; thin and fat edges, deep and shallow.
Five == {
  [market |-> "w1", cat |-> "weather", net |-> 312, c2 |-> 3, life |-> 2, dir |-> "P",
   px |-> Binary(40, 42, 48, 50), cls |-> "mixed", flat |-> FALSE],
  [market |-> "w2", cat |-> "weather", net |-> 687, c2 |-> 2, life |-> 4, dir |-> "K",
   px |-> Binary(52, 54, 40, 42), cls |-> "cheap_made", flat |-> FALSE],
  [market |-> "g1", cat |-> "sports", net |-> 500, c2 |-> 1, life |-> 3, dir |-> "KP",
   px |-> Game(61, 63, 52, 50), cls |-> "mixed", flat |-> FALSE],
  [market |-> "x1", cat |-> "econ", net |-> 905, c2 |-> 2, life |-> 1, dir |-> "P",
   px |-> Binary(30, None, 41, 43), cls |-> "dear_made", flat |-> FALSE],
  [market |-> "b1", cat |-> "weather", net |-> 400, c2 |-> 1, life |-> 5, dir |-> "K",
   px |-> Binary(60, 62, 52, 54), cls |-> "dear_made", flat |-> FALSE]}

TwoAdds == {[market |-> "w1", cat |-> "weather", net |-> 500, c2 |-> 2, dir |-> "P", px |-> Binary(38, 40, 49, 51)],
             [market |-> "g1", cat |-> "sports", net |-> 800, c2 |-> 1, dir |-> "KP", px |-> Game(60, 62, 48, 50)]}

Slugs   == {e.market : e \in Five}
Events  == [m \in Slugs |-> CASE m \in {"w1", "w2"} -> 5 [] m \in {"g1", "b1"} -> 7 [] OTHER -> 0]
City    == [m \in Slugs |-> IF m \in {"w1", "w2"} THEN "nyc" ELSE m]
Names   == [m \in Slugs |-> CASE m = "g1" -> 1 [] m = "w1" -> 2 [] m = "w2" -> 3 [] m = "x1" -> 4 [] OTHER -> 5]
Cats    == {"weather", "sports", "econ"}
Voids   == [c \in Cats |-> IF c = "sports" THEN 100 ELSE 0]
CatCaps == [c \in Cats |-> 20000]
Passive == [weather |-> 12, sports |-> 150, econ |-> 210]

\* Of the instances for which SizedAsTheBot is proved (Caps_proofs), this is one.
ASSUME BotMoney
=============================================================================
