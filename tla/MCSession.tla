------------------------------ MODULE MCSession ------------------------------
(* The small world Session is model-checked in: /d, /d/e and the link /l   *)
(* to /d/e; the command c may be in two directories of PATH.               *)
EXTENDS Session

MCDirs == {<<>>, <<"d">>, <<"d", "e">>}
MCFileDirs == MCDirs \ {<<>>}
MCLinks == <<"l">> :> <<"d", "e">>
MCHomeVar == Absolute(<<"d">>)

MCPathOf ==
    "/l" :> Absolute(<<"l">>) @@ ".." :> Relative(<<"..">>) @@
    "d/e" :> Relative(<<"d", "", ".", "e">>) @@ "''" :> Relative(<<>>)

MCAliasNames == {"c", "g"}
MCDefinitions ==
    "g=pwd -P" :> [name |-> "g", value |-> <<"pwd", " ", "-P">>] @@
    "g=c" :> [name |-> "g", value |-> <<"c">>] @@
    "c=g" :> [name |-> "c", value |-> <<"g">>] @@
    "c=" :> [name |-> "c", value |-> <<>>]

MCIdle == {".", "true"}
MCCommands == {"c"}
MCSearchPath == <<Absolute(<<"d">>), Absolute(<<"x">>), Relative(<<"e">>), Absolute(<<"l">>)>>
MCFileOf == "/x/c" :> File(Absolute(<<"x">>), "c")

Words1(first, args) ==
    {<<first>>} \cup {<<first, " ", a>> : a \in args}

MCLines ==
    {<<"c", " ", "y">>, <<"g", " ", "y">>, <<" ", "c">>, <<"/x/c">>, <<"nosuch">>} \cup
    {<<"true">>, <<"chdir", " ", "..">>} \cup
    Words1("cd", {"/l", "..", "d/e", "-", "''", "-z"}) \cup
    {<<"cd", " ", "-P", " ", "..">>, <<"cd", " ", "/l", " ", "..">>} \cup
    Words1("pwd", {"-P", "-z"}) \cup
    Words1("hash", {"-r", "c", "-p"}) \cup
    {<<"hash", " ", "-d", " ", "c">>,
     <<"hash", " ", "-p", " ", "/x/c", " ", "-d", " ", "c">>,
     <<"hash", " ", "-t", " ", "--", " ", "c">>} \cup
    Words1("alias", DOMAIN MCDefinitions \cup {"g"}) \cup
    Words1("unalias", {"g", "-a"})

MCInherited ==
    {[cwd |-> <<"d">>, pwd |-> Unset, oldpwd |-> Unset, hasPath |-> TRUE],
     [cwd |-> <<"d">>, pwd |-> Absolute(<<"d", ".">>), oldpwd |-> Absolute(<<>>),
      hasPath |-> TRUE],
     [cwd |-> <<"d", "e">>, pwd |-> Absolute(<<"l">>), oldpwd |-> Absolute(<<"x">>),
      hasPath |-> TRUE],
     [cwd |-> <<"d">>, pwd |-> Unset, oldpwd |-> Absolute(<<>>), hasPath |-> FALSE]}

(* Every string there is, in a line, an alias or a path.                   *)
MCStrings ==
    {"", ".", "..", "d", "e", "l", "x", "c"} \cup UNION {Range(l) : l \in MCLines}
    \cup UNION {Range(MCDefinitions[a].value) : a \in DOMAIN MCDefinitions}

ASSUME RightPwdAssumption == RightPwd(MCInherited)
=============================================================================
