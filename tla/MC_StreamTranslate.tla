------------------------- MODULE MC_StreamTranslate -------------------------
(* Up to two blocks of up to two deltas, which may be overlapping calls; a  *)
(* delta is empty, or one of two characters, so that order and mixing show.  *)
EXTENDS StreamTranslate

CONSTANTS c1, c2

MCFragments == {<<>>, <<"x">>, <<"y">>}
=============================================================================
