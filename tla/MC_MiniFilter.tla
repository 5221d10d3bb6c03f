--------------------------- MODULE MC_MiniFilter ---------------------------
(* MiniFilter for TLC. *)
EXTENDS MiniFilter

Half    == <<"pet">>
Word    == <<"pet", "rica">>
Hidden  == <<"nul", "pet", "rica">>
Across  == <<"other", "pet", "rica">>
MCContents == {Half, Word, Hidden, Across}
MCRests    == {<<"rica", "rica">>}
=============================================================================
