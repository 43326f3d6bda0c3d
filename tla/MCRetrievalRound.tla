--------------------------- MODULE MCRetrievalRound ---------------------------
(* Five chunks, one stale and one without a document; the scores are those of   *)
(* a cross-encoder, mostly negative.                                            *)
EXTENDS RetrievalRound, TLC

CONSTANTS a, b, c, d, e, u, v

MCRelevance == (a :> 3) @@ (b :> -1) @@ (c :> -2) @@ (d :> -3) @@ (e :> 1)
MCLists == [dense |-> {<<>>, <<a, e, b>>, <<b, c, d, a>>}, sparse |-> {<<>>, <<e, a>>, <<d, c>>}]
MCConfigs == {{"dense"}, {"dense", "sparse"}}
MCWebAnswers == {Broken, <<u, NoUrl>>, <<v, u>>}
=============================================================================
