-------------------------- MODULE MCSearchPaging --------------------------
(* SearchPaging for TLC: four records that change places, one of them of    *)
(* another tenant.                                                          *)
EXTENDS SearchPaging

MCIds        == 1..4
MCMatching   == {1, 2, 4}
MCDistances  == {0, 10, 70}
MCSentiment  == <<"positive", "negative", "", "positive">>
MCConfidence == <<40, 60, 0, 100>>

===========================================================================
