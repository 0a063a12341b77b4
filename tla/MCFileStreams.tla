---------------------------- MODULE MCFileStreams ----------------------------
(* Contents and calls for FileStreams. *)
EXTENDS FileStreams

SmallContents == {<<>>, <<"b", "\r", "\n", "b">>}
SmallTexts    == {<<"b", "b", "\n">>}
SmallDelims   == {<<>>, <<"\r", "\n">>}
SmallOffsets  == {-1, 2}
=============================================================================
