-------------------------- MODULE MCSessionClients --------------------------
(* Small instance: images of two locations, an index of three rows, two    *)
(* neighbours, backends that take one or two images at a time.             *)
EXTENDS SessionClients

Image(f) == [descriptor |-> "valid", features |-> f]
A == Image(<<1, 4>>)
B == Image(<<5, 5>>)
C == Image(<<2, 0>>)
NaNScore == Image(<<NaN, 1>>)
NaNPixel == Image(<<3, NaN>>)
Undersized == [A EXCEPT !.descriptor = "undersized"]
Invalid == [A EXCEPT !.descriptor = "invalid"]

AllImages == {A, B, C, NaNScore, NaNPixel, Undersized, Invalid}
IndexRows == <<0, 2, 7>>
LocationMeans == <<1, 3>>
PredictBatches == {<<A>>, <<A, B>>, <<C, A, B>>, <<A, C, B, C>>, <<B, C, NaNScore>>, <<NaNPixel, A>>,
                   <<A, Undersized>>, <<A, B, Invalid>>}
NormalBatches == {<<A>>, <<B, NaNPixel>>, <<C, B>>, <<NaNScore>>}
=============================================================================
