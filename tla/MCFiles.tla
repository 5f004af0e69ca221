------------------------------- MODULE MCFiles -------------------------------
(* Files given the empty chunk and text, single bytes, and texts on both    *)
(* sides of the device's and of fread's size.                               *)
EXTENDS Files

MCChunks == {<<>>, <<0>>, <<255>>, <<255, 0>>}

MCTexts == {<<>>, <<0, 255>>, <<255, 0, 255, 0>>, <<0, 0, 255, 255, 0>>}

==============================================================================
