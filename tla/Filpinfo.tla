------------------------------- MODULE Filpinfo -------------------------------
(***************************************************************************)
(* The command line parser: filpinfo() of src/filpinfo.c with new_command  *)
(* of src/command.c and, for continuation lines, psh_gets.  It goes        *)
(* through the line character by character; p holds its local variables    *)
(* and the list of commands it fills in.                                   *)
(*                                                                         *)
(* A character stands for its class: "a" and "b" for whatever means        *)
(* nothing to the parser, " " for blanks, "1" for digits; NUL ends the     *)
(* line.  Positions, elements and commands count from 1, in the code from  *)
(* 0.  An access to memory that is not the parser's ends the parse as      *)
(* "astray": from there the program may do anything.                       *)
(***************************************************************************)
EXTENDS Integers, SequencesExt

CONSTANTS
    Continuations,  \* what the user may answer to "> "
    MaxAsked,       \* bound: how often the user answers
    MaxArgs,        \* how many pointers argv has room for
    Users,          \* the names of the users there are
    NoCell          \* a null pointer in argv

(* The classes the switch of the loop tells apart, and "home", which ~     *)
(* leaves in an argument.                                                  *)
Character ==
    {"a", "b", "1", "/", "(", "<", " ", "&", "|", ">", "~", "'", "\"", "\\", "$",
     "backquote", ";", "#", "home"}

ASSUME LinesAssumption ==
    /\ Continuations \subseteq Seq(Character) /\ Users \subseteq Seq(Character)
    /\ MaxAsked \in Nat /\ MaxArgs \in Nat \ {0}
    /\ NoCell \notin Seq(Character)

VARIABLE p

(* new_command: argv[0] is allocated.  argv is given MAXARG bytes, not     *)
(* MAXARG pointers; of these it holds 8 where a pointer has 8 bytes.       *)
NewCommand == [type |-> "SINGLE", argv |-> <<<<>>>>,
               redir |-> [type |-> "NONE", lhs |-> <<>>]]

Fresh(line) ==
    [buf |-> line, pos |-> 1, first |-> 1,      \* cnt_buffer, cnt_first_nonIFS
     element |-> 1, chars |-> 0, old |-> 0,     \* cnt_argument_*, cnt_old_parameter
     squote |-> FALSE, dquote |-> FALSE, redirecting |-> "no",
     ret |-> "empty", cmds |-> <<NewCommand>>, asked |-> 0, end |-> "no"]

At(q, i) == IF i <= Len(q.buf) THEN q.buf[i] ELSE "NUL"
Past(q, i) == i > Len(q.buf) + 1
NonBlank(q, i) == Min({j \in i..Len(q.buf) + 1 : At(q, j) # " "})
AtEol(q, i) == At(q, NonBlank(q, i)) = "NUL"

Escaped(q) == q.pos # 1 /\ At(q, q.pos - 1) = "\\"
Ignored(q) == q.squote \/ q.dquote \/ Escaped(q)

Argv(q) == Last(q.cmds).argv
HasCell(q) == q.element \in DOMAIN Argv(q) /\ Argv(q)[q.element] # NoCell

Ended(q, how) == IF q.end = "no" THEN [q EXCEPT !.end = how] ELSE q
Fail(q) == Ended([q EXCEPT !.ret = "error"], "done")

(* done: the last element is terminated if anything was read.              *)
Stop(q) == Ended(q, IF q.ret = "some" /\ ~HasCell(q) THEN "astray" ELSE "done")

(* An element whose position is past its end keeps a NUL before c.         *)
Stored(q, c) ==
    IF ~HasCell(q) THEN Ended(q, "astray")
    ELSE [q EXCEPT !.chars = @ + 1,
                   !.cmds[Len(q.cmds)].argv[q.element] =
                       IF Len(@) = q.chars THEN Append(@, c) ELSE @]

(* write_current: nothing is kept of the right side of a redirection.      *)
Written(q) ==
    LET c == At(q, q.pos)
        r == IF q.redirecting = "no" THEN Stored(q, c) ELSE q
    IN  IF q.end # "no" THEN q
        ELSE IF q.redirecting = "fd" /\ c # "1" THEN Fail(q)
        ELSE IF c = " " THEN r ELSE [r EXCEPT !.ret = "some"]

WrittenAgain(q, i) == Written(q)
Times(q, n) == FoldLeft(WrittenAgain, q, [i \in 1..n |-> i])

(* ignIFS: to the last of the blanks that begin at i.                      *)
Skipped(q, i) ==
    IF Past(q, i) THEN Ended(q, "astray")
    ELSE IF AtEol(q, i) THEN Stop(q)
    ELSE [q EXCEPT !.pos = NonBlank(q, i) - 1]

(* "Previously a blank reached": the element begun after it is dropped.    *)
UndoBlank(q, back) ==
    IF q.chars # 0 THEN q
    ELSE IF q.element = 0 THEN Ended(q, "astray")
    ELSE [q EXCEPT !.chars = q.old, !.element = @ - back,
                   !.cmds[Len(q.cmds)].argv[q.element] = NoCell]

(* The last command never has a type yet, so that the code's check for     *)
(* one, the only one for a missing command, never reports an error.        *)
Chained(q, type) ==
    [q EXCEPT !.cmds = Append([@ EXCEPT ![Len(@)].type = type], NewCommand)]

(* Mutant: the position in the element is not reset.                       *)
IntoNextKeepsChars(q, i) == Skipped([q EXCEPT !.element = 1], i)

(* On to the next command, whose text begins at i or after blanks.         *)
IntoNext(q, i) == Skipped([q EXCEPT !.element = 1, !.chars = 0], i)

(* Another line is asked for and appended; the end of input gives a null   *)
(* pointer, which strlen() does not survive.                               *)
AskMore(q) ==
    {Ended(q, "eof")} \cup
    {[q EXCEPT !.buf = @ \o line, !.asked = @ + 1] :
        line \in IF q.asked < MaxAsked THEN Continuations ELSE {}}

(* Asked for if the line ends at i; past the end of the line, the memory   *)
(* there decides.                                                          *)
AskedAt(q, i) ==
    UNION {IF eol THEN AskMore(q) ELSE {q} :
              eol \in IF Past(q, i) THEN BOOLEAN ELSE {AtEol(q, i)}}

Begin(line) ==
    LET q == Skipped(Fresh(line), 1)
    IN  IF q.end = "no" THEN [q EXCEPT !.pos = @ + 1, !.first = q.pos + 1] ELSE q

-----------------------------------------------------------------------------
(* One turn of the loop, by the character it reads.                        *)
Reading(c) == p.end = "no" /\ At(p, p.pos) = c

(* while (++cnt_buffer)                                                    *)
Becomes(q) ==
    p' = IF q.end # "no" THEN q
         ELSE IF Past(q, q.pos + 1) THEN Ended(q, "astray")
         ELSE [q EXCEPT !.pos = @ + 1]

Ordinary ==
    /\ \E c \in {"a", "b", "1", "/", "(", "<"} : Reading(c)
    /\ Becomes(Written(p))

Quoted ==
    /\ \E c \in {" ", "&", "|", ">", "~"} : Reading(c)
    /\ Ignored(p)
    /\ Becomes(Written(p))

SingleQuote ==
    /\ Reading("'")
    /\ \/ p.dquote /\ Becomes(Written(p))
       \/ ~p.dquote /\ p.squote /\ Becomes([p EXCEPT !.squote = FALSE])
       \/ /\ ~p.dquote /\ ~p.squote
          /\ IF p.pos # p.first /\ Escaped(p) THEN Becomes(Written(p))
             ELSE Becomes([p EXCEPT !.squote = TRUE])

DoubleQuote ==
    /\ Reading("\"")
    /\ IF p.squote \/ Escaped(p) THEN Becomes(Written(p))
       ELSE Becomes([p EXCEPT !.dquote = ~@])

(* Every second backslash is written; a backslash at the end of the line   *)
(* takes its NUL with it.                                                  *)
Backslash ==
    /\ Reading("\\")
    /\ LET after == Min({i \in p.pos..Len(p.buf) + 1 : At(p, i) # "\\"})
           q == Times(p, (after - p.pos) \div 2)
       IN  Becomes([q EXCEPT !.pos = IF At(p, after) = "NUL" THEN after
                                     ELSE after - 1])

(* Written once, and once more for each case it falls through quoted.      *)
Dollar ==
    \/ /\ Reading("$")
       /\ Becomes(Times(p, IF p.squote \/ Escaped(p) THEN 2 ELSE 1))
    \/ /\ Reading("backquote")
       /\ Becomes(Times(p, IF p.squote \/ Escaped(p) THEN 3 ELSE 1))

(* The user behind ~: the text up to the first / and without the blanks    *)
(* before it, but all of the line when that is one character long.         *)
Username(q) ==
    LET rest == SubSeq(q.buf, q.pos + 1, Len(q.buf))
        named == {i \in 2..Len(rest) : rest[i] # " " /\ \A j \in 1..i : rest[j] # "/"}
    IN  IF named = {} THEN rest ELSE SubSeq(rest, 1, Max(named))

(* The home directory, here one character, takes the place of the element. *)
(* A ~ before the name of no user is an ordinary character.                *)
Tilde ==
    /\ Reading("~") /\ ~Ignored(p)
    /\ LET alone == At(p, p.pos + 1) \in {"NUL", " ", "/"}
           name == IF alone THEN <<>> ELSE Username(p)
       IN  IF ~alone /\ name \notin Users THEN Becomes(Written(p))
           ELSE IF ~HasCell(p) THEN Becomes(Ended(p, "astray"))
           ELSE Becomes([p EXCEPT
                    !.chars = @ + 1, !.pos = @ + Len(name),
                    !.cmds[Len(p.cmds)].argv[p.element] = <<"home">>])

(* Mutant: the element is counted twice.                                   *)
BlankEndsTwice ==
    /\ Reading(" ") /\ ~Ignored(p)
    /\ LET q == Skipped(p, p.pos)
       IN  IF q.end # "no" THEN Becomes(q)
           ELSE IF ~HasCell(q) \/ q.element + 1 >= MaxArgs
                THEN Becomes(Ended(q, "astray"))
           ELSE Becomes([q EXCEPT
                    !.element = @ + 2, !.old = q.chars + 1, !.chars = 0,
                    !.cmds[Len(q.cmds)].argv =
                        SubSeq(@, 1, q.element) \o <<NoCell, <<>>>>])

BlankEnds ==
    /\ Reading(" ") /\ ~Ignored(p)
    /\ LET q == Skipped(p, p.pos)
       IN  IF q.end # "no" THEN Becomes(q)
           ELSE IF ~HasCell(q) \/ q.element = MaxArgs
                THEN Becomes(Ended(q, "astray"))
           ELSE Becomes([q EXCEPT
                    !.element = @ + 1, !.old = q.chars + 1, !.chars = 0,
                    !.cmds[Len(q.cmds)].argv =
                        SubSeq(@, 1, q.element) \o <<<<>>>>])

(* & and &&: asks for more only after &&.                                  *)
Ampersand ==
    /\ Reading("&") /\ ~Ignored(p)
    /\ LET q == UndoBlank(p, 1) IN
       IF AtEol(p, p.pos + 1)
       THEN Becomes(Stop([q EXCEPT !.cmds[Len(q.cmds)].type = "BACKGROUND"]))
       ELSE IF At(p, p.pos + 1) # "&"
       THEN Becomes(IntoNext(Chained(q, "BACKGROUND"), p.pos + 1))
       ELSE \E r \in AskedAt(Chained(q, "RUN_AND"), p.pos + 2) :
                Becomes(IntoNext(r, p.pos + 2))

(* Mutant: looks one character further for the end of the line.            *)
BarLooksFurther ==
    /\ Reading("|") /\ ~Ignored(p)
    /\ LET q == UndoBlank(p, 0) IN
       IF At(p, p.pos + 1) = "|"
       THEN \E r \in AskedAt(Chained(q, "RUN_OR"), p.pos + 3) :
                Becomes(IntoNext(r, p.pos + 2))
       ELSE \E r \in AskedAt(Chained(q, "PIPED"), p.pos + 3) :
                Becomes(IntoNext(r, p.pos + 1))

(* | and ||: both look for the end of the line two characters on.          *)
Bar ==
    /\ Reading("|") /\ ~Ignored(p)
    /\ LET q == UndoBlank(p, 0) IN
       IF At(p, p.pos + 1) = "|"
       THEN \E r \in AskedAt(Chained(q, "RUN_OR"), p.pos + 2) :
                Becomes(IntoNext(r, p.pos + 2))
       ELSE \E r \in AskedAt(Chained(q, "PIPED"), p.pos + 2) :
                Becomes(IntoNext(r, p.pos + 1))

(* Mutant: steps back two characters.                                      *)
SemicolonStepsBack ==
    /\ Reading(";") /\ ~Ignored(p)
    /\ LET r == IntoNext(Chained(UndoBlank(p, 0), "MULTICMD"), p.pos + 2)
       IN  IF r.end # "no" THEN Becomes(r) ELSE Becomes([r EXCEPT !.pos = @ - 2])

(* A last ; stops in the command before it.  Otherwise the two characters  *)
(* after ; are stepped over before blanks are, then further ; are, and     *)
(* then the parser steps back one.  A quoted ; loses the command.          *)
Semicolon ==
    /\ Reading(";")
    /\ IF Ignored(p) THEN Becomes(Ended(Written(p), "astray"))
       ELSE LET q == UndoBlank(p, 0)
                r == IntoNext(Chained(q, "MULTICMD"), p.pos + 2)
                more == {i \in r.pos..Len(r.buf) + 1 : At(r, i) # ";"}
            IN  IF AtEol(p, p.pos + 1)
                THEN Becomes([Stop(q) EXCEPT !.cmds = Chained(q, "MULTICMD").cmds])
                ELSE IF r.end # "no" THEN Becomes(r)
                ELSE Becomes([r EXCEPT !.pos = Min(more) - 1])

(* A comment, wherever a blank is before it, also in quotes.               *)
Hash ==
    /\ Reading("#")
    /\ IF p.pos = p.first \/ At(p, p.pos - 1) # " " THEN Becomes(Written(p))
       ELSE Becomes(Stop(UndoBlank(p, 1)))

(* The line ends.  The first character of what is asked for is skipped.    *)
Nul ==
    /\ Reading("NUL")
    /\ IF p.pos = p.first \/ ~Ignored(p) THEN Becomes(Stop(p))
       ELSE \E q \in AskMore(p) : Becomes(q)

(* The digits before >, but for the first character of the line; none of   *)
(* them stands for 0, although 1 is meant.                                 *)
Lhs(q) ==
    IF q.pos = q.first THEN <<"1">>
    ELSE SubSeq(q.buf, Min({i \in q.first + 1..q.pos :
                               \A j \in i..q.pos - 1 : At(q, j) = "1"}),
                q.pos - 1)

(* What the redirection at position i is to: one character after & or a    *)
(* blank is skipped.                                                       *)
Target(q, i) ==
    LET c == At(q, i + 1)
        ahead(what) == IF AtEol(q, i + 2) THEN Fail(q)
                       ELSE [q EXCEPT !.pos = i + 2, !.redirecting = what]
    IN  IF c = "&" THEN ahead("fd")
        ELSE IF c \in {" ", "|"} THEN ahead("file")
        ELSE [q EXCEPT !.pos = i, !.redirecting = "file"]

(* Every redirection of the line goes to its first command, which has room *)
(* for one: code_fault() aborts at the second.                             *)
Greater ==
    /\ Reading(">") /\ ~Ignored(p)
    /\ LET c == At(p, p.pos + 1)
           type == CASE c = "&" -> "FD2FD" [] c = ">" -> "OUT_APPN"
                     [] OTHER -> "OUT_REDIR"
           i == IF c = ">" THEN p.pos + 1 ELSE p.pos
           q == IF p.pos = p.first THEN p ELSE UndoBlank(p, 1)
           r == [q EXCEPT !.cmds[1].redir = [type |-> type, lhs |-> Lhs(p)]]
       IN  IF p.cmds[1].redir.type # "NONE" THEN Becomes(Ended(p, "aborted"))
           ELSE IF At(p, i + 1) = "NUL" \/ (i # p.pos /\ At(p, i + 1) = ">")
           THEN Becomes(Fail(p))
           ELSE Becomes(Target(r, i))

ReadChar ==
    \/ Ordinary \/ Quoted \/ SingleQuote \/ DoubleQuote \/ Backslash \/ Dollar
    \/ Tilde \/ BlankEnds \/ Ampersand \/ Bar \/ Semicolon \/ Hash \/ Nul
    \/ Greater
=============================================================================
