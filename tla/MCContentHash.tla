--------------------------- MODULE MCContentHash ----------------------------
(* Keys that are prefixes of each other and short values that may hold line *)
(* feeds and the letters of the keys.                                       *)
EXTENDS ContentHash

MCNames == {<<2>>, <<3>>, <<2, 3>>}

MCContents == {<<>>, <<1>>, <<2>>, <<1, 2>>, <<1, 3>>, <<2, 1>>}
=============================================================================
