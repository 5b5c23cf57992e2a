------------------------------- MODULE Prompts -------------------------------
(***************************************************************************)
(* The prompt: ps_expander() of src/prompts.c, which goes through PS1      *)
(* character by character, and the string builder of lib/stringbuilder.c   *)
(* it collects the result in.  A piece of the builder is a string of its   *)
(* own or a part of the text, which the expander goes on to change under   *)
(* the pieces that point into it; they are read when all is done.          *)
(*                                                                         *)
(* A character stands for its class: "n" for the escapes that become       *)
(* another character (a e n r), "u" for those that a string takes the      *)
(* place of (d t T @ A h H u s v V), "[" for [ and ], "1" for octal        *)
(* digits, "!" for what is not supported (j l ! #), "x" for whatever means *)
(* nothing.  In the format of \D, "p" alone gives an empty time.           *)
(* Positions count from 1; the text ends in "NUL".                         *)
(***************************************************************************)
EXTENDS Integers, SequencesExt

CONSTANTS
    HaveReadline,   \* HAVE_READLINE_GNU: \[ and \] become characters
    Home            \* the home directory

(* What PS1 may have, and what the expander puts in its place.             *)
PromptCharacter ==
    {"n", "u", "[", "1", "!", "x", "p", "D", "{", "}", "$", "\\", "w", "W", "/", "~"}
Put == {"NUL", "sign", "newline", "ignore", "oct1", "oct11", "oct111"}

ASSUME HomeAssumption == Home \in Seq(PromptCharacter)

VARIABLE x

Expanding(ps1, cwd) ==
    [text |-> Append(ps1, "NUL"), cwd |-> cwd, cur |-> 1, start |-> 1,
     count |-> 0, backslash |-> FALSE, level |-> 0, builder |-> <<>>,
     out |-> <<>>, end |-> "no"]

(* psh_stringbuilder_add_length and _add: empty strings are not kept.      *)
AddPart(y, n) ==
    IF n = 0 THEN y
    ELSE [y EXCEPT !.builder =
             Append(@, [from |-> y.start, length |-> n, own |-> <<>>])]
AddOwn(y, s) ==
    IF s = <<>> THEN y
    ELSE [y EXCEPT !.builder = Append(@, [from |-> 1, length |-> 0, own |-> s])]

(* psh_stringbuilder_yield                                                 *)
Yield(y) ==
    FlattenSeq([i \in DOMAIN y.builder |->
        LET b == y.builder[i]
        IN  SubSeq(y.text, b.from, b.from + b.length - 1) \o b.own])

(* reset_start: what follows i is a new part.                              *)
Reset(y, i) == [y EXCEPT !.start = i + 1, !.cur = i, !.count = 0,
                         !.backslash = FALSE, !.level = 0]

From(y, i) == {j \in i..Len(y.text) : y.text[j] = "NUL"}

(* The rest is added.  psh_stringbuilder_free follows the first piece,     *)
(* which a builder that nothing was added to does not have.                *)
Finished(y) ==
    LET z == AddPart(y, Min(From(y, y.start)) - y.start)
    IN  [z EXCEPT !.out = Yield(z),
                  !.end = IF z.builder = <<>> THEN "astray" ELSE "done"]

(* To the next character: an empty prompt has no character after its NUL.         *)
Goes(y) ==
    x' = IF y.end # "no" THEN y
         ELSE IF y.cur = Len(y.text) THEN [y EXCEPT !.end = "astray"]
         ELSE IF y.text[y.cur + 1] = "NUL" THEN Finished(y)
         ELSE [y EXCEPT !.cur = @ + 1]

Char == x.text[x.cur]
NextChar == IF x.cur < Len(x.text) THEN x.text[x.cur + 1] ELSE "NUL"
Expands == x.end = "no"

(* workdir_expander: what cwd begins with when that is HOME becomes ~, and *)
(* for \W what is before the last slash goes, unless it is the first       *)
(* character.                                                              *)
WorkDir(y, lastComponent) ==
    LET short == IF IsPrefix(Home, y.cwd)
                 THEN <<"~">> \o SubSeq(y.cwd, Len(Home) + 1, Len(y.cwd))
                 ELSE y.cwd
        slashes == {i \in 2..Len(short) : short[i] = "/"}
    IN  IF lastComponent /\ slashes # {}
        THEN SubSeq(short, Max(slashes) + 1, Len(short))
        ELSE short

-----------------------------------------------------------------------------
(* One turn of the loop, by what the character means.                      *)

(* It is kept, with the backslash before it when the escape is unknown.    *)
Keep ==
    /\ Expands
    /\ Char # "\\"
    /\ \/ Char \in {"x", "!", "p", "{", "}", "/", "~", "NUL"}
       \/ Char = "D" /\ NextChar # "{"
       \/ ~x.backslash /\ ~(Char = "1" /\ x.level > 0)
    /\ Goes([x EXCEPT !.count = @ + (IF x.backslash THEN 2 ELSE 1),
                      !.backslash = FALSE])

FirstBackslash ==
    /\ Expands /\ Char = "\\" /\ ~x.backslash
    /\ Goes([x EXCEPT !.backslash = TRUE])

SecondBackslash ==
    /\ Expands /\ Char = "\\" /\ x.backslash
    /\ Goes(Reset(AddPart(x, x.count + 1), x.cur))

(* replace_char: the new character takes the place of the backslash.       *)
Replace ==
    /\ Expands /\ x.backslash
    /\ \E r \in {<<"$", "sign">>, <<"n", "newline">>}
                \cup (IF HaveReadline THEN {<<"[", "ignore">>} ELSE {}) :
          /\ Char = r[1]
          /\ Goes(Reset(AddPart([x EXCEPT !.text[x.cur - 1] = r[2]],
                                x.count + 1), x.cur))

(* A string takes the place of the escape.                                 *)
Substitute ==
    /\ Expands /\ x.backslash
    /\ \E r \in {<<"u", <<"user">>>>, <<"w", WorkDir(x, FALSE)>>,
                 <<"W", WorkDir(x, TRUE)>>}
                \cup (IF HaveReadline THEN {} ELSE {<<"[", <<>>>>}) :
          /\ Char = r[1]
          /\ Goes(Reset(AddOwn(AddPart(x, x.count), r[2]), x.cur))

(* \D{format}.  get_strftime_string takes an empty time for a lack of room *)
(* and tries again for ever.                                               *)
Date ==
    /\ Expands /\ x.backslash /\ Char = "D" /\ NextChar = "{"
    /\ LET ends == {i \in x.cur + 2..Len(x.text) : x.text[i] = "}"}
           end == IF ends = {} THEN Len(x.text) ELSE Min(ends)
           format == SubSeq(x.text, x.cur + 2, end - 1)
           y == AddOwn(AddPart([x EXCEPT !.text[end] = "NUL"], x.count),
                       <<"time">> \o format)
       IN  IF format # <<>> /\ Range(format) = {"p"} THEN Goes([x EXCEPT !.end = "hung"])
           ELSE Goes(Reset(y, IF ends = {} THEN end - 1 ELSE end))

(* Mutant: there is no end to the digits.                                  *)
OctalUnbounded ==
    /\ Expands /\ Char = "1" /\ (x.backslash \/ x.level > 0)
    /\ LET n == x.level + 1
       IN  IF NextChar = "1"
           THEN Goes([x EXCEPT !.level = n, !.backslash = FALSE])
           ELSE Goes(Reset(AddPart(x, x.count + 1), x.cur))

(* Mutant: the new character is not counted.                               *)
OctalUncounted ==
    /\ Expands /\ Char = "1" /\ (x.backslash \/ x.level > 0)
    /\ LET n == x.level + 1
       IN  IF n < 3 /\ NextChar = "1"
           THEN Goes([x EXCEPT !.level = n, !.backslash = FALSE])
           ELSE Goes(Reset(AddPart([x EXCEPT !.text[x.cur - n] =
                                        <<"oct1", "oct11", "oct111">>[n]],
                                   x.count), x.cur))

(* \n, \nn and \nnn: the last digit has the number replace the backslash.  *)
Octal ==
    /\ Expands /\ Char = "1" /\ (x.backslash \/ x.level > 0)
    /\ LET n == x.level + 1
       IN  IF n < 3 /\ NextChar = "1"
           THEN Goes([x EXCEPT !.level = n, !.backslash = FALSE])
           ELSE Goes(Reset(AddPart([x EXCEPT !.text[x.cur - n] =
                                        <<"oct1", "oct11", "oct111">>[n]],
                                   x.count + 1), x.cur))

ExpandChar ==
    Keep \/ FirstBackslash \/ SecondBackslash \/ Replace \/ Substitute \/ Date
    \/ Octal
=============================================================================
