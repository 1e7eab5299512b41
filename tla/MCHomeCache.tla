---------------------------- MODULE MCHomeCache ----------------------------
(* HomeCache for TLC: two processes that share Redis or keep a cache each, *)
(* one section whose rows are watched and one whose changes are silent.    *)
EXTENDS HomeCache

MCSections == <<"products", "ratings">>
MCWatched == {"products"}
=============================================================================
