-------------------------------- MODULE MCCalc --------------------------------
(* Instance of Calc for TLC: every line of up to five of these characters,  *)
(* and some with the help words.                                            *)
EXTENDS Calc
MCChars == {"1", "6", "-", "+", "*", "/", " "}
MCWords == {<<" ", "-", "h">>, <<"h", "e", "l", "p", " ">>,
            <<"-", "-", "h", "e", "l", "p">>, <<"h", "e", "l", "p", " ", "h">>}
MCLines == UNION {[1 .. n -> MCChars] : n \in 0 .. 5} \cup MCWords
MCAngles == -720 .. 720
MCSlopes == -60 .. 60
=============================================================================
