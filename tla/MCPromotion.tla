----------------------------- MODULE MCPromotion -----------------------------
(* One well over two months: two revisions of the first month's workbook   *)
(* and one workbook of the second.                                         *)
EXTENDS Promotion, TLC

CONSTANTS jan1, jan2, feb, january, february, upper, lower

MCMonthOf == [w \in Workbook |-> IF w = feb THEN february ELSE january]
MCRank == [m \in Month |-> IF m = january THEN 1 ELSE 2]

Of(x, v) == [pool |-> x, volume |-> v]

(* Two filings under one label, corrected to two pools whose sum equals    *)
(* the first filing.                                                       *)
MCFilings ==
    [w \in Workbook |->
        CASE w = jan1 -> <<Of(upper, 1), Of(upper, 0)>>
          [] w = jan2 -> <<Of(upper, 1), Of(lower, 0)>>
          [] w = feb  -> <<Of(lower, 1)>>]

Symmetric == Permutations(Run)
=============================================================================
