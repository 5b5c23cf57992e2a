------------------------------- MODULE Meanings -------------------------------
(***************************************************************************)
(* What a line and a prompt mean, without the parser and the expander:     *)
(* readings that go from one character to the next, never step over one    *)
(* nor back, and know nothing of elements, of what is behind the position, *)
(* of buffers or of pieces.                                                *)
(***************************************************************************)
EXTENDS Integers, SequencesExt

(* done: the commands that have ended; words: those of the one that is     *)
(* read; open: the last of them goes on; quote: the quote that is open;    *)
(* op: the & or | that may be the first half of an operator.               *)
Unread ==
    [done |-> <<>>, words |-> <<>>, open |-> FALSE, quote |-> "no",
     escaped |-> FALSE, op |-> "no"]

NextCommand(s, type) ==
    [s EXCEPT !.done = Append(@, [type |-> type, argv |-> s.words]),
              !.words = <<>>, !.open = FALSE, !.op = "no"]

(* What follows does not belong to the operator.                           *)
Settled(s) ==
    IF s.op = "&" THEN NextCommand(s, "BACKGROUND")
    ELSE IF s.op = "|" THEN NextCommand(s, "PIPED")
    ELSE s

Opened(s) ==
    IF s.open THEN s ELSE [s EXCEPT !.open = TRUE, !.words = Append(@, <<>>)]

Read(s, c) ==
    LET t == Settled(s)
        u == Opened(t)
        kept == [u EXCEPT !.words[Len(u.words)] = Append(@, c), !.escaped = FALSE]
    IN  IF s.op = c THEN NextCommand(s, IF c = "&" THEN "RUN_AND" ELSE "RUN_OR")
        ELSE IF t.escaped THEN kept
        ELSE IF c = " " /\ t.quote = "no" THEN [t EXCEPT !.open = FALSE]
        ELSE IF c \in {"&", "|"} /\ t.quote = "no" THEN [t EXCEPT !.open = FALSE, !.op = c]
        ELSE IF c = ";" /\ t.quote = "no" THEN NextCommand(t, "MULTICMD")
        ELSE IF c = "\\" /\ t.quote # "'" THEN [u EXCEPT !.escaped = TRUE]
        ELSE IF c \in {"'", "\""} /\ t.quote = "no" THEN [u EXCEPT !.quote = c]
        ELSE IF c = t.quote THEN [u EXCEPT !.quote = "no"]
        ELSE kept

ReadTo(line, n) == FoldLeft(Read, Unread, SubSeq(line, 1, n))

Commands(line) ==
    LET s == ReadTo(line, Len(line))
    IN  IF s.op # "no" THEN Settled(s).done
        ELSE IF s.words = <<>> THEN s.done
        ELSE Append(s.done, [type |-> "SINGLE", argv |-> s.words])

-----------------------------------------------------------------------------
(* Where psh agrees.                                                       *)

TextFrom(line, i) == \E j \in i..Len(line) : line[j] # " "

(* The command has words, and the last of them is not empty if it has not  *)
(* ended.                                                                  *)
EndsCommand(s) == s.words # <<>> /\ (s.open => Last(s.words) # <<>>)

(* The character at i, read in s.  Quotes, escapes and words are as usual, *)
(* but for $, ` and \ in quotes or escaped.  Behind | there is more than   *)
(* one character, and behind ; there are two without a blank.              *)
Plain(line, i) ==
    LET c == line[i]
        r == ReadTo(line, i - 1)
        s == Settled(r)
    IN  \/ c \in {"a", "b", "1", "/", "(", "<", " ", "'", "\""}
        \/ c \in {"&", "|", ">", "~"} /\ (s.quote # "no" \/ s.escaped)
        \/ c \in {"$", "backquote", "\\"} /\ s.quote # "'" /\ ~s.escaped
        \/ c = "#" /\ (i > 1 /\ line[i - 1] = " " => s.words = <<>> /\ s.done = <<>>)
        \/ c = "&" /\ IF r.op = "&" THEN TextFrom(line, i + 1) ELSE EndsCommand(s)
        \/ c = "|" /\ (r.op = "|" \/ (EndsCommand(s) /\ TextFrom(line, i + 2)))
        \/ /\ c = ";" /\ s.quote = "no" /\ ~s.escaped /\ EndsCommand(s)
           /\ i + 2 <= Len(line) /\ line[i + 1] \notin {" ", ";"} /\ line[i + 2] # " "

(* The words of every command and a null pointer find room in argv.        *)
Fits(line, i, most) == Len(ReadTo(line, i).words) < most

(* The line is a list of commands, and psh reads it as one.                *)
Readable(line, most) ==
    /\ \A i \in 1..Len(line) : Plain(line, i) /\ Fits(line, i, most)
    /\ LET s == ReadTo(line, Len(line))
       IN  /\ s.quote = "no" /\ ~s.escaped
           /\ s.op # "|"
           /\ \/ s.op # "no" \/ s.words # <<>>
              \/ s.done # <<>> /\ Last(s.done).type = "BACKGROUND"

-----------------------------------------------------------------------------
(* What is shown for PS1, one character after the other.  shown: what is   *)
(* sure; held: what is shown for the escape that is read, if it ends here; *)
(* escapes: what stands for the escapes of one character.                  *)
Unshown(escapes) ==
    [shown |-> <<>>, held |-> <<>>, in |-> "text", escapes |-> escapes]

Escapes(w, W, readline) ==
    [c \in {"\\", "$", "n", "[", "u", "w", "W"} |->
        CASE c = "\\" -> <<"\\">>
          [] c = "$" -> <<"sign">>
          [] c = "n" -> <<"newline">>
          [] c = "[" -> IF readline THEN <<"ignore">> ELSE <<>>
          [] c = "u" -> <<"user">>
          [] c = "w" -> w
          [] c = "W" -> W]

Holding(s, in, held) == [s EXCEPT !.in = in, !.held = held]

Showing(s, more) ==
    [s EXCEPT !.shown = @ \o more, !.in = "text", !.held = <<>>]

(* c belongs to no escape before it.                                       *)
ShowNext(s, c) ==
    LET t == Showing(s, s.held)
    IN  IF c = "\\" THEN Holding(t, "escape", <<c>>) ELSE Showing(t, <<c>>)

Show(s, c) ==
    IF s.in = "escape"
    THEN IF c \in DOMAIN s.escapes THEN Showing(s, s.escapes[c])
         ELSE IF c = "1" THEN Holding(s, "digits", <<"oct1">>)
         ELSE IF c = "D" THEN Holding(s, "date", <<"\\", "D">>)
         ELSE Showing(s, <<"\\", c>>)
    ELSE IF s.in = "digits" /\ c = "1" /\ s.held # <<"oct111">>
    THEN Holding(s, "digits", IF s.held = <<"oct1">> THEN <<"oct11">> ELSE <<"oct111">>)
    ELSE IF s.in = "date" /\ c = "{" THEN Holding(s, "format", <<"time">>)
    ELSE IF s.in = "format"
    THEN IF c = "}" THEN Showing(s, s.held) ELSE Holding(s, "format", Append(s.held, c))
    ELSE ShowNext(s, c)

ShowTo(ps1, escapes, n) == FoldLeft(Show, Unshown(escapes), SubSeq(ps1, 1, n))

Shown(ps1, escapes) ==
    LET s == ShowTo(ps1, escapes, Len(ps1)) IN s.shown \o s.held
=============================================================================
