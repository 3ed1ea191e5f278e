------------------------------ MODULE MCPrintf ------------------------------
(* Values of the constants of Printf for TLC.                              *)
EXTENDS Printf

MCLetters == {"%", "s", "d", "x", "l", "c"}

(* Plain characters that are letters of conversions too, all conversions,  *)
(* and those the libraries do not know.                                    *)
MCDirectives == {
  <<"s">>, <<"d">>, <<"l">>,
  <<"%", "%">>, <<"%", "s">>, <<"%", "d">>, <<"%", "x">>, <<"%", "c">>,
  <<"%", "l", "d">>, <<"%", "l", "x">>, <<"%", "l", "c">> }

MCEndings == { <<>>, <<"%">>, <<"%", "l">> }

(* No string, an empty one, and one that looks like a conversion.          *)
MCStrings == {NULL, <<>>, <<"%", "d">>}
=============================================================================
