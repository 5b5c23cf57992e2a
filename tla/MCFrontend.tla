----------------------------- MODULE MCFrontend -----------------------------
(* The sessions Frontend is model-checked on.                              *)
EXTENDS Frontend

Meaning == INSTANCE Meanings

Default == [ps1 |-> <<"x">>, shown |-> Unknown, cwd |-> <<"/">>,
            line |-> <<>>, commands |-> Unknown]

MCHome == <<"/", "u">>
MCContinuations == {<<>>, <<"a">>, <<"'">>}
MCUsers == {<<"a">>, <<"a", "b">>}

UpTo(n, S) == UNION {[1..k -> S] : k \in 0..n}

-----------------------------------------------------------------------------
(* Prompts put together from pieces with a known meaning.                  *)
Piece(chars, means) == [chars |-> chars, means |-> means]

(* Some directories, and how \w and \W show them.                          *)
Cwds ==
    {[path |-> <<"/">>, w |-> <<"/">>, W |-> <<"/">>],
     [path |-> <<"/", "u">>, w |-> <<"~">>, W |-> <<"~">>],
     [path |-> <<"/", "u", "/", "x">>, w |-> <<"~", "/", "x">>, W |-> <<"x">>],
     [path |-> <<"/", "x", "/", "u">>, w |-> <<"/", "x", "/", "u">>,
      W |-> <<"u">>]}
Root == CHOOSE c \in Cwds : c.path = <<"/">>

Core ==
    {Piece(<<"u">>, <<"u">>), Piece(<<"1">>, <<"1">>),
     Piece(<<"\\", "$">>, <<"sign">>), Piece(<<"\\", "u">>, <<"user">>),
     Piece(<<"\\", "\\">>, <<"\\">>),
     Piece(<<"\\", "D", "{", "x", "}">>, <<"time", "x">>),
     Piece(<<"\\", "1">>, <<"oct1">>), Piece(<<"\\", "1", "1">>, <<"oct11">>)}

Others(cwd) ==
    {Piece(<<"$">>, <<"$">>), Piece(<<"x">>, <<"x">>), Piece(<<"[">>, <<"[">>),
     Piece(<<"\\", "!">>, <<"\\", "!">>),
     Piece(<<"\\", "n">>, <<"newline">>),
     Piece(<<"\\", "[">>, IF HaveReadline THEN <<"ignore">> ELSE <<>>),
     Piece(<<"\\", "w">>, cwd.w), Piece(<<"\\", "W">>, cwd.W),
     Piece(<<"\\", "D", "{", "}">>, <<"time">>),
     Piece(<<"\\", "D">>, <<"\\", "D">>),
     Piece(<<"\\", "1", "1", "1">>, <<"oct111">>)}

(* A digit after fewer than three digits would belong to the number.       *)
Apart(pieces) ==
    \A i \in 1..Len(pieces) - 1 :
        pieces[i].means \in {<<"oct1">>, <<"oct11">>} => pieces[i + 1].chars # <<"1">>

Prompting(c, pieces) ==
    [Default EXCEPT !.ps1 = FlattenSeq([i \in DOMAIN pieces |-> pieces[i].chars]),
                    !.shown = FlattenSeq([i \in DOMAIN pieces |-> pieces[i].means]),
                    !.cwd = c.path]

Prompted ==
    {Prompting(Root, t) : t \in {t \in [1..3 -> Core] : Apart(t)}} \cup
    {Prompting(Root, t) : t \in {t \in UpTo(2, Core \cup Others(Root)) : Apart(t)}} \cup
    UNION {{Prompting(c, t) : t \in UpTo(2, Others(c))} : c \in Cwds}

(* What psh puts for the escapes in a session.                             *)
EscapesIn(s) ==
    LET y == Expanding(s.ps1, s.cwd)
    IN  Meaning!Escapes(WorkDir(y, FALSE), WorkDir(y, TRUE), HaveReadline)

(* Prompts nobody thought of.  They mean what their characters say.        *)
RawPrompts ==
    {[Default EXCEPT !.ps1 = s, !.shown = Meaning!Shown(s, EscapesIn(Default))] :
        s \in UpTo(3, {"x", "\\", "D", "{", "}", "p", "1", "n"})}

-----------------------------------------------------------------------------
(* Lines put together from words, operators and blanks.                    *)
Words ==
    {Piece(<<"a">>, <<"a">>), Piece(<<"b", "1">>, <<"b", "1">>),
     Piece(<<"'", "a", "'">>, <<"a">>), Piece(<<"\"", "a", "\"">>, <<"a">>),
     Piece(<<"'", " ", "&", "'">>, <<" ", "&">>),
     Piece(<<"\"", "'", "|", "\"">>, <<"'", "|">>),
     Piece(<<"a", "'", "\"", "'", "b">>, <<"a", "\"", "b">>),
     Piece(<<"'", "'">>, <<>>),
     Piece(<<"\\", "|">>, <<"|">>), Piece(<<"a", "\\", " ", "b">>, <<"a", " ", "b">>),
     Piece(<<"\\", "\"">>, <<"\"">>), Piece(<<"a", "#">>, <<"a", "#">>)}
Few ==
    {w \in Words : w.chars \in {<<"a">>, <<"b", "1">>, <<"\\", "|">>}}

Operator(chars, type) == [chars |-> chars, type |-> type]
Operators ==
    {Operator(<<"&">>, "BACKGROUND"), Operator(<<"&", "&">>, "RUN_AND"),
     Operator(<<"|">>, "PIPED"), Operator(<<"|", "|">>, "RUN_OR")}

OneOrTwo == UNION {[1..k -> Few] : k \in 1..2}

Spaced(ws) == FlattenSeq([i \in DOMAIN ws |->
                  IF i = 1 THEN ws[i].chars ELSE <<" ">> \o ws[i].chars])
Command(type, ws) == [type |-> type, argv |-> [i \in DOMAIN ws |-> ws[i].means]]

Typing(line, commands) ==
    [Default EXCEPT !.line = line, !.commands = commands]

Single ==
    {Typing(lead \o Spaced(ws) \o trail, <<Command("SINGLE", ws)>>) :
        ws \in UNION {[1..k -> Words] : k \in 1..2},
        lead \in {<<>>, <<" ">>}, trail \in {<<>>, <<" ">>}} \cup
    {Typing(Spaced(ws), <<Command("SINGLE", ws)>>) :
        ws \in [1..3 -> {w \in Words : Len(w.chars) <= 2 /\ w \notin Few}]}

(* After | without a blank, the parser takes a command of one character    *)
(* for the end of the line.                                                *)
Seen(o, after, text) == o.type = "PIPED" => Len(after \o text) > 1

(* Blanks around an operator are optional.                                 *)
Pair ==
    {Typing(Spaced(t[1]) \o t[2] \o t[3].chars \o t[4] \o Spaced(t[5]),
            <<Command(t[3].type, t[1]), Command("SINGLE", t[5])>>) :
        t \in {t \in OneOrTwo \X {<<>>, <<" ">>} \X Operators
                       \X {<<>>, <<" ", " ">>} \X OneOrTwo :
                  Seen(t[3], t[4], Spaced(t[5]))}}

Triple ==
    {Typing(u.chars \o o.chars \o v.chars \o q.chars \o w.chars,
            <<Command(o.type, <<u>>), Command(q.type, <<v>>),
              Command("SINGLE", <<w>>)>>) :
        u \in Few, o \in Operators, v \in Few, q \in Operators,
        w \in {w \in Few : Len(w.chars) > 1}}

(* Neither of the two characters after ; may be a blank or missing.        *)
Sequence ==
    {Typing(Spaced(v) \o <<";">> \o Spaced(w),
            <<Command("MULTICMD", v), Command("SINGLE", w)>>) :
        v \in OneOrTwo,
        w \in {<<w>> : w \in {w \in Words : Len(w.chars) > 1 /\ w.chars[2] # " "}}
              \cup {<<Piece(<<"b", "1">>, <<"b", "1">>), w>> : w \in Few}}

(* Lines nobody thought of.  They mean what their characters say, where    *)
(* psh is to read them.  Four words leave no null pointer in argv, five    *)
(* are more than it has room for.                                          *)
Raw ==
    {Typing(s, IF Meaning!Readable(s, MaxArgs) THEN Meaning!Commands(s) ELSE Unknown) :
        s \in UpTo(4, {"a", " ", "'", "&", "|", ";"})
              \cup UpTo(3, {"a", " ", "\"", "&", ">", "\\", "#", "1"})
              \cup UpTo(2, {"a", "&", "'", "~", "$", "backquote"})
              \cup UpTo(4, {"a", "b", "~", "/", " "})
              \cup {Spaced([i \in 1..k |-> Piece(<<"a">>, <<"a">>)]) : k \in 4..5}}

MCSessions ==
    Prompted \cup RawPrompts \cup Single \cup Pair \cup Triple \cup Sequence \cup Raw

(* What was put together means what its characters say.                    *)
ASSUME MeantAssumption ==
    \A s \in Sessions :
        s.commands # Unknown =>
            /\ Meaning!Readable(s.line, MaxArgs)
            /\ s.commands = Meaning!Commands(s.line)

ASSUME ShownAssumption ==
    \A s \in Sessions :
        s.shown # Unknown => s.shown = Meaning!Shown(s.ps1, EscapesIn(s))
=============================================================================
