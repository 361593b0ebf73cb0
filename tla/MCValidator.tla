----------------------------- MODULE MCValidator -----------------------------
(* Instances of Validator for TLC.                                         *)
EXTENDS Validator, TLC

CONSTANTS p1, p2, k, fits, forged, long, gone, junk

TwoPages == {p1, p2}
OneKey   == {k}
Cids     == {fits, forged, long, gone}
Fitting  == {<<k, fits>>, <<k, long>>}
Other    == {junk}
TooLong  == {<<k, long>>}
Nobodys  == {gone}

Good   == Format(k, fits)
TwoGood == {Good \o Good}
InARow  == {<<1, 4>>, <<5, 8>>}

(* A good entry; two of them; a forged one, a torn record that runs into   *)
(* the next, and two good ones; one with a long message, texts of anything *)
(* else, one whose message nobody has, and an end without delimiter; a     *)
(* flood.                                                                  *)
Texts ==
    {Good, Good \o Good,
     Format(k, forged) \o <<k, Comma>> \o Good \o Good \o Good,
     Format(k, long) \o <<junk, Semicolon, Semicolon>>
        \o <<k, junk, Semicolon>> \o Format(k, gone) \o <<k, Comma, fits>>,
     Good \o <<Flood>>}

(* The places at which these have entries.                                 *)
Places == {<<1, 4>>, <<5, 8>>, <<11, 14>>, <<15, 18>>}

Errors == {"error"}

(* Bound: of the two pages, which nothing else tells apart, the second has *)
(* no more entries than the first, and never more than two.                *)
LongFirst ==
    /\ Cardinality(Population(p2)) <= Cardinality(Population(p1))
    /\ Cardinality(Population(p2)) <= 2

LongFirstInit == Init /\ LongFirst

LongFirstSpec == LongFirstInit /\ [][Next]_vars /\ WF_vars(Next)
=============================================================================
