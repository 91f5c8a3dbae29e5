----------------------------- MODULE MCConsole ------------------------------
(* A screen of 2 rows of 8: three calls wrap and scroll it, with tabs and  *)
(* backspaces at its edges.                                                *)
EXTENDS Console
MCTexts == {<<"x">>, <<"\n">>, <<"\t">>, <<"BS">>, <<"a", "\t", "b", "\r">>,
            <<"a", "b", "c", "d", "e", "f", "g">>, <<"y", "\n", "z", "\n", "BS">>}
MCNumbers == {0, -45, 753664, 2147483647, INT_MIN}
=============================================================================
