------------------------------- MODULE MCMesh -------------------------------
(* Three nodes in a line, and two.                                         *)
EXTENDS Mesh

MCNode == {"a", "b", "c"}
(* b is between a and c; a also hears c, who cannot hear him.              *)
MCLinks == {<<"a", "b">>, <<"b", "a">>, <<"b", "c">>, <<"c", "b">>, <<"c", "a">>}
MCTalks == {<<"a", "c">>}

(* The line alone.  b, who sends messages on, also writes some himself and  *)
(* announces himself a second time.                                        *)
MCLine == {<<"a", "b">>, <<"b", "a">>, <<"b", "c">>, <<"c", "b">>}
MCLineTalks == {<<"a", "c">>, <<"b", "c">>}
MCLineTypists == {"b"}

MCPair == {"a", "b"}
MCLink == {<<"a", "b">>, <<"b", "a">>}
=============================================================================
