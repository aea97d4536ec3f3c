----------------------------- MODULE MCSandbox ------------------------------
(***************************************************************************)
(* A home directory /h/u with sub below it, and names of up to two         *)
(* components around it.                                                   *)
(***************************************************************************)
EXTENDS Sandbox

P(a, s) == [abs |-> a, parts |-> s]

HomeDir == <<"h", "u">>
TopDir  == <<"h">>
Names   == {"h", "u", "sub", "sub2", ".rc", "~u"}
Longer  == {<<"sub2", "sub">>}

MCBases == {P(TRUE, <<>>), P(TRUE, <<"h", "u">>), P(TRUE, <<"h", "u", "sub">>),
            P(FALSE, <<"..">>), P(FALSE, <<"~">>), P(FALSE, <<"sub">>),
            P(FALSE, <<"..", "u">>), P(TRUE, <<".", "h", "u">>)}

MCPaths == {P(TRUE, s) : s \in {<<>>, <<"h", "u">>, <<"h", "u", "sub">>}}
           \cup {P(FALSE, s) : s \in
               {<<>>, <<"sub">>, <<".rc">>, <<"~u">>, <<"sub", "sub2">>, <<"sub2">>, <<".">>,
                <<"..">>, <<"~", "sub">>, <<"..", "u">>, <<"sub", "..", "sub">>}}
=============================================================================
