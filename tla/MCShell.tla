------------------------------- MODULE MCShell -------------------------------
(* Instance of Shell for TLC: lines of up to three characters on a screen   *)
(* of two lines of three, and short names.                                  *)
EXTENDS Shell
MCKeys == {"c", "k", "p", " "}
MCPrintable == {"c", "k", "p", "m", ">", "-"} \cup Range(Digits)
MCNames == [help |-> {<<"c", "c">>}, clear |-> {<<"c">>}, about |-> {<<"c", "k">>},
            version |-> {<<"c", "p">>, <<"p", "c">>}, ticks |-> {<<"k", "c">>},
            systicks |-> {<<"k", "p">>}, mem |-> {<<"p", "k">>},
            syswrite |-> {<<"p">>}, panic |-> {<<"p", "p">>},
            echo |-> {<<"k">>}, calc |-> {<<"k", "k">>}]
=============================================================================
