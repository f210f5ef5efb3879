------------------------------ MODULE MCRecon ------------------------------
EXTENDS Summaries

Low(y)    == [gte |-> NA, lt |-> y]
Mid(x, y) == [gte |-> x, lt |-> y]
High(x)   == [gte |-> x, lt |-> NA]
K(f, c)   == [floor |-> f, cap |-> c]

Rules(st, so) == [stations |-> st, sources |-> so]
Cli == Rules({"a"}, {"cli"})

Wx(pm, k, pr, kr, entries, issues, lapses) ==
  [topic |-> "weather", entries |-> entries, issues |-> issues, maxima |-> Maxima, faults |-> lapses, pm |-> pm, k |-> k, pr |-> pr, kr |-> kr, league |-> "wx", want |-> NA, results |-> {}]

\* The ladders agree; one venue is a degree off; one lists a bucket twice and part of the ladder.
Agreed(entries, issues) ==
  Wx(<<Low(2), Mid(2, 3), High(4)>>, <<K(NA, 2), K(2, 3), K(3, NA)>>, Cli, Cli, entries, issues, 0)
Ladders == {
  Agreed(2, 0), Agreed(1, 2), [Wx(<<Mid(2, 3)>>, <<K(2, 3)>>, Cli, Cli, 0, 3, 1) EXCEPT !.maxima = {1, 3, 4}],
  Wx(<<Low(2), Mid(2, 3), High(4)>>, <<K(NA, 3), K(3, 4), K(3, NA)>>, Cli, Cli, 0, 2, 1),
  Wx(<<Mid(1, 2), Mid(3, 4)>>, <<K(3, 4), K(3, 4), K(0, 1)>>, Cli, Cli, 0, 2, 1)}

WxTexts == [stations : SUBSET {"a", "b"}, sources : {{}, {"cli"}, {"metar"}, {"nonnws"}, {"cli", "metar"}}]
WxRules == {Wx(<<Mid(2, 3)>>, <<K(2, 3)>>, p, k, 0, 0, 0) : p \in WxTexts, k \in WxTexts}

\* Names of four letters and one with a letter more; codes of three.
Ana  == <<1, 2, 3, 4>>
Anas == <<1, 2, 3, 4, 5>>
Bob  == <<6, 7, 8, 9>>
Cal  == <<1, 2, 9, 9>>
A == <<1, 1, 1>>
B == <<2, 2, 2>>
C == <<3, 3, 3>>

Game(r, a, b, x, y, slugDate, utcDate) ==
  [real |-> r, a |-> a, b |-> b, teamA |-> x, teamB |-> y, slugDate |-> slugDate, utcDate |-> utcDate]
Event(i, r, date, keys, teams) ==
  [id |-> i, real |-> r, date |-> date, keys |-> keys, teams |-> teams, tie |-> FALSE]

Timed == [window |-> 14, fallback |-> {"last"}, timing |-> {"regulation"}, sides |-> {"yes", "no"}]

Sport(topic, league, pm, k, pr, kr, results) ==
  [topic |-> topic, entries |-> 0, issues |-> 0, faults |-> 0, pm |-> pm, k |-> k, pr |-> pr, kr |-> kr, league |-> league, want |-> NA, results |-> results]

Wins(n) == [1..n -> {"x", "y"}]
Plays(pm, k, n) == Sport("sports", "mlb", pm, k, Timed, Timed, Wins(n))

\* A doubleheader; a series of three days; games without a date in the slug; names a letter apart; a pair of brothers.
Cards == {
  Plays(<<Game(1, A, B, "x", "y", 1, 1), Game(2, A, B, "x", "y", 1, 2)>>,
        <<Event(1, 1, 1, <<A, B>>, <<"x", "y">>), Event(2, 2, 1, <<B, A>>, <<"y", "x">>)>>, 2),
  Plays(<<Game(2, B, A, "y", "x", 2, 3), Game(1, A, B, "x", "y", 1, 2), Game(3, A, B, "x", "y", 3, 3)>>,
        <<Event(1, 1, 1, <<A, B>>, <<"x", "y">>), Event(2, 2, 2, <<B, A>>, <<"y", "x">>), Event(3, 3, 3, <<A, B>>, <<"x", "y">>)>>, 3),
  Plays(<<Game(1, A, B, "x", "y", NA, 2)>>,
        <<Event(1, 1, 1, <<A, B>>, <<"x", "y">>), Event(2, 2, 4, <<A, B>>, <<"x", "y">>)>>, 2),
  Plays(<<Game(1, A, B, "x", "y", NA, 2)>>,
        <<Event(1, 1, 1, <<A, B>>, <<"x", "y">>), Event(2, 2, 3, <<A, B>>, <<"x", "y">>)>>, 2),
  Plays(<<Game(1, Ana, Bob, "x", "y", 1, 1), Game(2, Cal, Bob, "x", "y", 2, 2)>>,
        <<Event(1, 1, 1, <<Anas, Bob>>, <<"x", "y">>), Event(2, 2, 2, <<Ana, Bob>>, <<"z", "y">>)>>, 2),
  Plays(<<Game(1, Anas, Ana, "x", "y", 1, 1)>>, <<Event(1, 1, 1, <<Ana, Anas>>, <<"y", "x">>)>>, 1)}

Soc(r, a, b, na, nb, date, outs) ==
  [real |-> r, a |-> a, b |-> b, nameA |-> na, nameB |-> nb, teamA |-> na, teamB |-> nb,
   slugDate |-> date, utcDate |-> date, outs |-> outs]
SocEvent(i, r, date, keys, names, tie) ==
  [id |-> i, real |-> r, date |-> date, keys |-> keys, teams |-> names, tie |-> tie,
   names |-> [k \in Range(keys) |-> names[SelectInSeq(keys, LAMBDA x : x = k)]]]
Three == {"a", "b", "draw"}

\* A code the other venue does not use, a code it uses for another team, a game without its draw, an event without a tie.
Cups == {Sport("soccer", "fwc", pm, k, Timed, Timed, {}) :
  pm \in {<<Soc(1, A, B, "x", "y", 1, Three), Soc(2, C, B, "z", "y", 2, Three)>>,
          <<Soc(1, <<9, 9, 9>>, B, "x", "y", 1, Three)>>, <<Soc(1, C, B, "x", "y", 1, Three), Soc(3, A, B, "x", "y", 3, {"a", "b"})>>},
  k \in {<<SocEvent(1, 1, 1, <<A, B>>, <<"x", "y">>, TRUE), SocEvent(2, 2, 2, <<B, C>>, <<"y", "z">>, TRUE)>>,
         <<SocEvent(1, 1, 1, <<A, B>>, <<"x", "y">>, TRUE), SocEvent(4, 4, 1, <<C, <<8, 8, 8>>>>, <<"z", "w">>, TRUE)>>,
         <<SocEvent(1, 1, 1, <<A, B>>, <<"x", "y">>, FALSE)>>}}

Text(w, f, t, s) == [window |-> w, fallback |-> f, timing |-> t, sides |-> s]
Two == {"a", "b"}
Voids2 == {Text(w, f, {"regulation"}, Two) : w \in {NA, 2, 14}, f \in SUBSET {"fair", "last"}}
Times  == {Text(14, {"last"}, t, s) :
            t \in {{}, {"regulation"}, {"extended"}, {"regulation", "extended", "excluded"}}, s \in {{}, Two, {"a", "b", "tie"}}}
OneGame(l, p, k, d) == Sport("sports", l, <<Game(1, A, B, "x", "y", d, 1)>>, <<Event(1, 1, 1, <<A, B>>, <<"x", "y">>)>>, p, k, {})
GameRules ==
  {OneGame(l, p, k, d) : l \in {"mlb", "fwc", "kbo"}, p \in Voids2, k \in Voids2, d \in {1, NA}}
  \cup {OneGame(l, p, k, 1) : l \in {"mlb", "fwc"}, p \in Times, k \in Times}
LeagueCost == [l \in {"mlb", "fwc", "kbo"} |-> IF l = "kbo" THEN 0 ELSE 26]

Dec == [year |-> 25, month |-> 12]
Jan == [year |-> 26, month |-> 1]
NextDec == [year |-> 26, month |-> 12]
Fig(ineq, thr, dm, real) ==
  [ineq |-> ineq, thr |-> thr, label |-> NA, on |-> NA, year |-> 26, month |-> IF dm = 12 THEN 1 ELSE 2, dataMonth |-> dm, real |-> real]
Choice(label, on) == [Fig("cat", NA, 1, Jan) EXCEPT !.label = label, !.on = on]
Above(f, per, strike) == [floor |-> f, label |-> NA, on |-> NA, strike |-> strike, period |-> per, void |-> FALSE]
Called(l, on) == [floor |-> NA, label |-> l, on |-> on, strike |-> NA, period |-> Jan, void |-> FALSE]
Agencies(s) == [agencies |-> s]

Release(pm, k, p, kk, results) ==
  [topic |-> "econ", entries |-> 0, issues |-> 0, faults |-> 0, pm |-> pm, k |-> k, pr |-> Agencies(p), kr |-> Agencies(kk), league |-> "us", want |-> "bls", results |-> results]
Prints == [{Dec, Jan, NextDec} -> 1..4]
Figures == <<Fig(">=", 3, 12, Dec), Fig(">=", 2, 1, Jan), Fig("<=", 2, 1, Jan)>>
Points  == <<Fig("==", 2, 1, Jan), Fig("==", 3, 1, Jan), Fig("==", 4, 1, Jan)>>
Floors(s) == <<Above(2, NextDec, s), Above(2, Dec, s), Above(1, Jan, s), Above(2, Jan, s), Above(3, Jan, s)>>

\* A market that is settled without a result.
Voided(s, i) == [s EXCEPT ![i].void = TRUE]

\* A decision, one that Kalshi does not list, one whose suffix is unknown; sub-titles that are worded otherwise.
Decisions == <<Choice("maintains", "hold"), Choice("cut25bps", "cut"), Choice(NA, "jumbo"), Choice("hikegt25bps", "hike")>>
Listed    == <<Called("fed maintains rate", "hold"), Called("hike >25bps", "hike"), Called("hike 50bps", "jumbo")>>
Reworded  == <<Called("fed holds rate", "hold"), Called("hike >25bps", "hike")>>

\* Thresholds of two releases, exact prints, decisions, markets without a result; the texts of the agencies.
Releases ==
  {Release(Figures, Floors("greater"), {}, {"bls"}, Prints), Release(Points, Floors("greater"), {}, {"bls"}, Prints)}
  \cup {Release(pm, Voided(Floors("greater"), i), {}, {"bls"}, Prints) : pm \in {Figures, Points}, i \in {2, 4}}
  \cup {Release(Decisions, k, p, {"bls"}, [{Jan} -> {"hold", "cut", "hike", "jumbo"}]) :
          p \in SUBSET {"bls", "bea"}, k \in {Listed, Reworded, Voided(Listed, 1)}}
  \cup {Release(<<Fig(">=", 3, 1, Jan)>>, <<Above(2, Jan, s)>>, p, k, {[x \in {Dec, Jan} |-> v] : v \in 1..4}) :
          s \in {"greater", "greater_or_equal"}, p \in SUBSET {"bls", "bea"}, k \in SUBSET {"bls", "bea"}}

Texts == WxRules \cup GameRules \cup Releases
AllScenarios == Ladders \cup Cards \cup Cups \cup Texts

Px(pb, pa, kb, ka) == [p_yb |-> pb, p_ya |-> pa, k_yb |-> kb, k_ya |-> ka]
FiveBooks == {Px(40, 42, 50, 52), Px(60, 62, 48, 50), Px(46, 48, 45, None), Px(46, 52, 40, 48), Px(52, 50, 40, 42)}
=============================================================================
