---------------------------- MODULE MCSubdirSizes ----------------------------
EXTENDS SubdirSizes

\* A subdirectory with one below it, and two whose names give the same tags.
MCDir == {<<"a">>, <<"a", "below">>, <<"b">>, <<"c">>}
MCTagsOf == [d \in MCDir |-> CASE d = <<"a">> -> "a" [] d \in {<<"b">>, <<"c">>} -> "other"
                              [] OTHER -> NoMatch]
=============================================================================
