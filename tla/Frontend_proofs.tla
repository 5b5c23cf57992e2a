---------------------------- MODULE Frontend_proofs ----------------------------
(***************************************************************************)
(* Proofs about Frontend for every set of lines, prompts and continuations:*)
(* where the parser and the expander may be in their texts, what the       *)
(* parser leaves in the arguments of the commands, that PS1 is shown as    *)
(* what Meanings says of it, and that every turn of the loops leads on.    *)
(***************************************************************************)
EXTENDS Frontend, Meanings, TLAPS, WellFoundedInduction, SequenceTheorems

Writing == INSTANCE LeftFolds WITH Op <- WrittenAgain

-----------------------------------------------------------------------------
(* The parser                                                              *)

Cell == Seq(Character) \cup {NoCell}

(* The argv of a command: no null pointer but at its end.                  *)
Arguments ==
    {a \in Seq(Cell) : Len(a) >= 1 /\ \A j \in 1..Len(a) : j < Len(a) => a[j] # NoCell}

CommandTypes == {"SINGLE", "BACKGROUND", "RUN_AND", "RUN_OR", "PIPED", "MULTICMD"}
Redirection ==
    [type : {"NONE", "FD2FD", "OUT_APPN", "OUT_REDIR"}, lhs : Seq(Character)]
Command == [type : CommandTypes, argv : Arguments, redir : Redirection]
CommandList == Seq(Command)

Ends == {"no", "done", "astray", "eof", "aborted"}

(* What the locals of filpinfo() may be on the way.                        *)
Locals ==
    [buf : Seq(Character), pos : Nat, first : Nat,
     element : 0..MaxArgs, chars : Nat, old : Nat,
     squote : BOOLEAN, dquote : BOOLEAN, redirecting : {"no", "fd", "file"},
     ret : {"empty", "some", "error"}, cmds : CommandList, asked : 0..MaxAsked,
     end : Ends]
States == {q \in Locals : Len(q.cmds) >= 1}

(* Nothing before the first character that is no blank is read again.      *)
Placed(q) ==
    /\ 1 <= q.first /\ q.first <= q.pos
    /\ q.first <= Len(q.buf) => q.buf[q.first] # " "

(* The element that is written to is the last of argv, or the last but the *)
(* null pointer of the one that was taken back.  It was taken back when it *)
(* had no characters; then chars is what old was, which is no 0 unless the *)
(* element was the first.                                                  *)
Arranged(q) ==
    /\ \/ Len(Argv(q)) = q.element
       \/ Len(Argv(q)) = q.element + 1 /\ (q.chars # 0 \/ q.element = 0)
    /\ q.element > 1 => q.old > 0
Parsers == {q \in States : q.end = "no" => Placed(q) /\ Arranged(q)}

(* The inductive invariant: the parser reads its line and the NUL behind.  *)
ParserInv == p \in Parsers /\ (p.end = "no" => p.pos <= Len(p.buf) + 1)

(* The text and the place in it are as they were.                          *)
Same(q, r) == r.pos = q.pos /\ r.buf = q.buf /\ r.first = q.first

LEMMA MinIs ==
    ASSUME NEW S, S \subseteq Nat, S # {}
    PROVE  Min(S) \in S /\ \A j \in S : Min(S) <= j
<1>1. PICK m \in S : \A l \in S : ~(<<l, m>> \in OpToRel(<, Nat))
  BY NatLessThanWellFounded, WFMin
<1>2. \A l \in S : m <= l
  <2>1. SUFFICES ASSUME NEW l \in S, l < m PROVE FALSE
    OBVIOUS
  <2>2. <<l, m>> \in OpToRel(<, Nat)
    BY <2>1 DEF OpToRel
  <2> QED BY <2>2, <1>1
<1> QED BY <1>2 DEF Min

LEMMA ArgvIs ==
    ASSUME NEW q \in States
    PROVE  /\ Len(q.cmds) \in Nat /\ Len(q.cmds) >= 1 /\ DOMAIN q.cmds = 1..Len(q.cmds)
           /\ Argv(q) = q.cmds[Len(q.cmds)].argv
           /\ Argv(q) \in Arguments /\ Argv(q) \in Seq(Cell) /\ DOMAIN Argv(q) = 1..Len(Argv(q))
           /\ Len(Argv(q)) \in Nat /\ Len(Argv(q)) >= 1
           /\ \A j \in 1..Len(Argv(q)) : j < Len(Argv(q)) => Argv(q)[j] # NoCell
<1>1. q.cmds \in CommandList /\ Len(q.cmds) >= 1
  BY DEF States, Locals
<1> DEFINE cs == q.cmds
<1> HIDE DEF cs
<1>2. cs \in Seq(Command) /\ Len(cs) >= 1
  BY <1>1 DEF CommandList, cs
<1>5. Len(cs) \in Nat /\ DOMAIN cs = 1..Len(cs) /\ cs[Len(cs)] \in Command
  BY <1>2
<1>6. /\ Len(q.cmds) \in Nat /\ DOMAIN q.cmds = 1..Len(q.cmds)
      /\ q.cmds[Len(q.cmds)].argv \in Arguments
  BY <1>5 DEF Command, cs
<1>3. Argv(q) = q.cmds[Len(q.cmds)].argv
  BY DEF Argv, Last
<1> DEFINE a == Argv(q)
<1>4. a \in Arguments
  BY <1>6, <1>3
<1> HIDE DEF a
<1>7. a \in Seq(Cell) /\ Len(a) >= 1 /\ \A j \in 1..Len(a) : j < Len(a) => a[j] # NoCell
  BY <1>4 DEF Arguments
<1>8. Len(a) \in Nat /\ DOMAIN a = 1..Len(a)
  BY <1>7
<1> QED BY <1>1, <1>6, <1>3, <1>4, <1>7, <1>8 DEF a

(* A step that changes only these leaves the rest as it is.                *)
LEMMA EndedIs ==
    ASSUME NEW q \in States, NEW how \in Ends \ {"no"}
    PROVE  /\ Ended(q, how) \in Parsers /\ Ended(q, how).end # "no"
           /\ Ended(q, how).cmds = q.cmds /\ Same(q, Ended(q, how))
BY DEF Ended, Parsers, States, Locals, Ends, Same

LEMMA FailIs ==
    ASSUME NEW q \in States
    PROVE  Fail(q) \in Parsers /\ Fail(q).end # "no" /\ Same(q, Fail(q))
<1> DEFINE r == [q EXCEPT !.ret = "error"]
<1>1. r \in States /\ Same(q, r)
  BY DEF States, Locals, Same
<1>2. "done" \in Ends \ {"no"}
  BY DEF Ends
<1> HIDE DEF r
<1>3. /\ Ended(r, "done") \in Parsers /\ Ended(r, "done").end # "no"
      /\ Same(r, Ended(r, "done"))
  BY <1>1, <1>2, EndedIs
<1>4. Fail(q) = Ended(r, "done")
  BY DEF Fail, r
<1> QED BY <1>1, <1>3, <1>4 DEF Same

LEMMA StopIs ==
    ASSUME NEW q \in States
    PROVE  Stop(q) \in Parsers /\ Stop(q).end # "no"
<1>1. "done" \in Ends \ {"no"} /\ "astray" \in Ends \ {"no"}
  BY DEF Ends
<1> QED BY <1>1, EndedIs DEF Stop

(* What is read is a character or the NUL behind the last one.             *)
LEMMA AtIs ==
    ASSUME NEW q \in States, NEW i \in Nat, i >= 1
    PROVE  /\ Len(q.buf) \in Nat
           /\ i <= Len(q.buf) => At(q, i) = q.buf[i] /\ At(q, i) \in Character /\ At(q, i) # "NUL"
           /\ i > Len(q.buf) => At(q, i) = "NUL"
<1> DEFINE b == q.buf
<1>1. b \in Seq(Character)
  BY DEF States, Locals
<1> HIDE DEF b
<1>2. Len(b) \in Nat /\ (i <= Len(b) => b[i] \in Character)
  BY <1>1
<1>3. \A c \in Character : c # "NUL"
  BY DEF Character
<1>4. At(q, i) = IF i <= Len(b) THEN b[i] ELSE "NUL"
  BY DEF At, b
<1> QED BY <1>2, <1>3, <1>4 DEF b

LEMMA NonBlankIs ==
    ASSUME NEW q \in States, NEW i \in Nat, i >= 1, ~Past(q, i)
    PROVE  /\ NonBlank(q, i) \in Nat /\ NonBlank(q, i) >= i
           /\ NonBlank(q, i) <= Len(q.buf) + 1 /\ At(q, NonBlank(q, i)) # " "
<1> DEFINE n == Len(q.buf) + 1
           S == {j \in i..n : At(q, j) # " "}
<1>1. Len(q.buf) \in Nat /\ i <= Len(q.buf) + 1
  BY AtIs DEF Past
<1>2. n \in Nat /\ i <= n /\ n >= 1 /\ n > Len(q.buf)
  BY <1>1
<1> HIDE DEF n
<1>6. At(q, n) = "NUL"
  BY <1>2, AtIs
<1>3. n \in S
  BY <1>2, <1>6
<1>4. S \subseteq Nat /\ \A j \in S : i <= j /\ j <= n
  <2>1. S \subseteq i..n
    OBVIOUS
  <2> HIDE DEF S
  <2> QED BY <1>2, <2>1
<1> HIDE DEF S
<1>5. Min(S) \in S
  BY <1>3, <1>4, MinIs
<1>7. NonBlank(q, i) = Min(S)
  BY DEF NonBlank, S, n
<1>8. At(q, Min(S)) # " "
  BY <1>5 DEF S
<1> QED BY <1>4, <1>5, <1>7, <1>8 DEF n

(* ignIFS                                                                  *)
LEMMA SkippedIs ==
    ASSUME NEW q \in States, NEW i \in Nat, i >= 1
    PROVE  /\ Skipped(q, i) \in States
           /\ Skipped(q, i).end = "no" =>
                 /\ Skipped(q, i) = [q EXCEPT !.pos = Skipped(q, i).pos]
                 /\ Skipped(q, i).pos \in Nat
                 /\ Skipped(q, i).pos >= i - 1 /\ Skipped(q, i).pos < Len(q.buf)
                 /\ q.buf[Skipped(q, i).pos + 1] # " "
<1>2. CASE Past(q, i)
  <2>1. "astray" \in Ends \ {"no"}
    BY DEF Ends
  <2> QED BY <1>2, <2>1, EndedIs DEF Skipped, Parsers
<1>3. CASE ~Past(q, i) /\ AtEol(q, i)
  BY <1>3, StopIs DEF Skipped, Parsers
<1>4. CASE ~Past(q, i) /\ ~AtEol(q, i)
  <2> DEFINE n == NonBlank(q, i) - 1
             r == [q EXCEPT !.pos = n]
  <2>1. /\ n \in Nat /\ n >= i - 1 /\ n < Len(q.buf) /\ Len(q.buf) \in Nat
        /\ q.buf[n + 1] # " "
    <3>1. Len(q.buf) \in Nat
      BY AtIs
    <3>2. /\ NonBlank(q, i) \in Nat /\ NonBlank(q, i) >= i
          /\ NonBlank(q, i) <= Len(q.buf) + 1 /\ At(q, NonBlank(q, i)) # " "
      BY <1>4, NonBlankIs
    <3>3. At(q, NonBlank(q, i)) # "NUL"
      BY <1>4 DEF AtEol
    <3> DEFINE m == NonBlank(q, i)
    <3> HIDE DEF m
    <3>4. m \in Nat /\ m >= i /\ m <= Len(q.buf)
      BY <3>1, <3>2, <3>3 DEF At, m
    <3>5. At(q, m) # " "
      BY <3>2 DEF m
    <3>6. q.buf[m] # " "
      BY <3>4, <3>5 DEF At
    <3>7. n = m - 1
      BY DEF m
    <3> HIDE DEF n
    <3>8. n \in Nat /\ n + 1 = m
      BY <3>4, <3>7
    <3>9. n \in Nat /\ n >= i - 1
      BY <3>4, <3>8
    <3>10. n < Len(q.buf)
      BY <3>1, <3>4, <3>8
    <3>11. q.buf[n + 1] # " "
      BY <3>6, <3>8
    <3> QED BY <3>1, <3>9, <3>10, <3>11
  <2>2. Skipped(q, i) = r
    BY <1>4 DEF Skipped
  <2> HIDE DEF n
  <2>3. r \in States /\ r.pos = n
    BY <2>1 DEF States, Locals
  <2>4. r = [q EXCEPT !.pos = r.pos]
    BY <2>3
  <2>5. r.pos = n /\ r \in States
    BY <2>3
  <2> HIDE DEF r
  <2> DEFINE s == Skipped(q, i)
  <2>6. s = r
    BY <2>2
  <2> HIDE DEF s
  <2>7. s \in States /\ s = [q EXCEPT !.pos = s.pos] /\ s.pos = n
    BY <2>4, <2>5, <2>6
  <2>8. s.pos \in Nat /\ s.pos >= i - 1 /\ s.pos < Len(q.buf)
    BY <2>1, <2>7
  <2>9. q.buf[s.pos + 1] # " " 
    BY <2>1, <2>7
  <2> QED BY <2>7, <2>8, <2>9 DEF s
<1> QED BY <1>2, <1>3, <1>4

(* One element of argv is changed, to a null pointer only the last one.    *)
LEMMA ElementIs ==
    ASSUME NEW a \in Arguments, NEW e \in 1..Len(a), NEW v \in Cell,
           e < Len(a) => v # NoCell
    PROVE  [a EXCEPT ![e] = v] \in Arguments /\ Len([a EXCEPT ![e] = v]) = Len(a)
<1>1. a \in Seq(Cell) /\ Len(a) >= 1 /\ \A j \in 1..Len(a) : j < Len(a) => a[j] # NoCell
  BY DEF Arguments
<1> DEFINE b == [a EXCEPT ![e] = v]
<1>2. b \in Seq(Cell) /\ Len(b) = Len(a)
  BY <1>1
<1>3. ASSUME NEW j \in 1..Len(b), j < Len(b) PROVE b[j] # NoCell
  BY <1>1, <1>2, <1>3
<1> HIDE DEF b
<1>4. b \in Arguments
  BY <1>1, <1>2, <1>3 DEF Arguments
<1> QED BY <1>2, <1>4 DEF b

(* The last command is given other arguments.                              *)
LEMMA LastCommandIs ==
    ASSUME NEW cs \in CommandList, Len(cs) >= 1, NEW c \in Command,
           NEW n \in 1..Len(cs)
    PROVE  /\ [cs EXCEPT ![n] = c] \in CommandList
           /\ Len([cs EXCEPT ![n] = c]) = Len(cs)
           /\ [cs EXCEPT ![n] = c][n] = c /\ cs[n] \in Command
           /\ \A j \in 1..Len(cs) : j # n => [cs EXCEPT ![n] = c][j] = cs[j]
BY DEF CommandList

(* The locals with other arguments for the last command.                   *)
With(q, a) == [q.cmds EXCEPT ![Len(q.cmds)].argv = a]

LEMMA WithIs ==
    ASSUME NEW q \in States, NEW a \in Arguments
    PROVE  /\ With(q, a) \in CommandList /\ Len(With(q, a)) = Len(q.cmds)
           /\ Len(With(q, a)) >= 1
           /\ With(q, a)[Len(With(q, a))].argv = a
<1> DEFINE cs == q.cmds
           n == Len(cs)
           c == [cs[n] EXCEPT !.argv = a]
<1>1. cs \in CommandList /\ n >= 1 /\ n \in 1..Len(cs)
  BY ArgvIs DEF States, Locals
<1> HIDE DEF cs
<1>2. cs[n] \in Command
  BY <1>1 DEF CommandList
<1>3. c \in Command /\ c.argv = a
  BY <1>2 DEF Command
<1>4. With(q, a) = [cs EXCEPT ![n] = c]
  BY DEF With, cs
<1> HIDE DEF n, c
<1>5. /\ [cs EXCEPT ![n] = c] \in CommandList /\ Len([cs EXCEPT ![n] = c]) = Len(cs)
      /\ [cs EXCEPT ![n] = c][n] = c
  BY <1>1, <1>3, LastCommandIs
<1> QED BY <1>1, <1>3, <1>4, <1>5 DEF n, cs

(* The element that is written to becomes v, and has one character more.   *)
Writes(q, v) ==
    [q EXCEPT !.chars = q.chars + 1,
              !.cmds = With(q, [Argv(q) EXCEPT ![q.element] = v])]

LEMMA WritesIs ==
    ASSUME NEW q \in Parsers, q.end = "no", HasCell(q), NEW v \in Seq(Character)
    PROVE  Writes(q, v) \in Parsers /\ Same(q, Writes(q, v))
<1> DEFINE a == Argv(q)
           e == q.element
           b == [a EXCEPT ![e] = v]
           cs == With(q, b)
           k == q.chars + 1
           r == [q EXCEPT !.chars = k, !.cmds = cs]
<1>1. q \in States /\ Placed(q) /\ Arranged(q)
  BY DEF Parsers
<1>2. a \in Arguments /\ e \in 1..Len(a)
  BY <1>1, ArgvIs DEF HasCell
<1>3. v \in Cell /\ v # NoCell
  BY LinesAssumption DEF Cell
<1>4. k \in Nat /\ k # 0
  BY <1>1 DEF States, Locals
<1>5. Writes(q, v) = r /\ e = q.element
  BY DEF Writes
<1> HIDE DEF a, e, k
<1>6. b \in Arguments /\ Len(b) = Len(a)
  BY <1>2, <1>3, ElementIs
<1> HIDE DEF b
<1>7. cs \in CommandList /\ Len(cs) >= 1 /\ cs[Len(cs)].argv = b
  BY <1>1, <1>6, WithIs
<1> HIDE DEF cs
<1>8. /\ r \in States /\ r.cmds = cs /\ r.chars = k /\ Same(q, r)
      /\ r.element = e /\ r.old = q.old /\ r.end = q.end
  BY <1>1, <1>4, <1>5, <1>7 DEF States, Locals, Same
<1> HIDE DEF r
<1>9. Argv(r) = b
  BY <1>7, <1>8 DEF Argv, Last
<1>10. Arranged(r)
  BY <1>1, <1>4, <1>5, <1>6, <1>8, <1>9 DEF Arranged, a
<1>11. Placed(r)
  BY <1>1, <1>8 DEF Placed, Same
<1> QED BY <1>5, <1>8, <1>10, <1>11 DEF Parsers

(* write_current, in one element.                                          *)
LEMMA StoredIs ==
    ASSUME NEW q \in Parsers, q.end = "no", NEW c \in Character
    PROVE  LET r == Stored(q, c)
           IN  r \in Parsers /\ Same(q, r)
<1>1. q \in States
  BY DEF Parsers
<1>2. CASE ~HasCell(q)
  <2>1. Ended(q, "astray") \in Parsers /\ Same(q, Ended(q, "astray"))
    BY <1>1, EndedIs DEF Ends
  <2> QED BY <1>2, <2>1 DEF Stored
<1>3. CASE HasCell(q)
  <2> DEFINE w == Argv(q)[q.element]
             v == IF Len(w) = q.chars THEN Append(w, c) ELSE w
  <2>1. w \in Cell /\ w # NoCell
    BY <1>1, <1>3, ArgvIs DEF HasCell
  <2>2. Stored(q, c) = Writes(q, v)
    BY <1>3, <1>1, ArgvIs DEF Stored, Writes, With, Argv, Last, States, Locals
  <2> HIDE DEF w
  <2>3. w \in Seq(Character)
    BY <2>1 DEF Cell
  <2>4. v \in Seq(Character)
    BY <2>3
  <2> HIDE DEF v
  <2> QED BY <1>3, <2>2, <2>4, WritesIs
<1> QED BY <1>2, <1>3

LEMMA WrittenIs ==
    ASSUME NEW q \in Parsers, q.end = "no" => q.pos <= Len(q.buf)
    PROVE  Written(q) \in Parsers /\ Same(q, Written(q))
<1> DEFINE c == At(q, q.pos)
           r == IF q.redirecting = "no" THEN Stored(q, c) ELSE q
           s == [r EXCEPT !.ret = "some"]
<1>1. CASE q.end # "no"
  BY <1>1 DEF Written, Same
<1>2. CASE q.end = "no"
  <2>1. q \in States /\ Placed(q) /\ q.pos \in Nat /\ q.pos >= 1
    <3>1. q \in States /\ Placed(q)
      BY <1>2 DEF Parsers
    <3>2. q.pos \in Nat /\ q.first \in Nat
      BY <3>1 DEF States, Locals
    <3>3. 1 <= q.first /\ q.first <= q.pos
      BY <3>1 DEF Placed
    <3>4. q.pos >= 1
      BY <3>2, <3>3
    <3> QED BY <3>1, <3>2, <3>4
  <2>2. c \in Character
    BY <1>2, <2>1, AtIs
  <2> HIDE DEF c
  <2>3. r \in Parsers /\ Same(q, r)
    <3>1. Stored(q, c) \in Parsers /\ Same(q, Stored(q, c))
      BY <1>2, <2>2, StoredIs
    <3> QED BY <3>1 DEF Same
  <2> HIDE DEF r
  <2>4. s \in Parsers /\ Same(q, s)
    <3>1. /\ s \in States /\ Same(r, s) /\ s.cmds = r.cmds /\ s.chars = r.chars
          /\ s.element = r.element /\ s.old = r.old /\ s.end = r.end
      BY <2>3 DEF Parsers, States, Locals, Same
    <3> HIDE DEF s
    <3> QED BY <2>3, <3>1 DEF Parsers, Placed, Arranged, Argv, Same
  <2>5. Fail(q) \in Parsers /\ Same(q, Fail(q))
    BY <2>1, FailIs
  <2>6. Written(q) \in {Fail(q), r, s}
    BY <1>2 DEF Written, r, c
  <2> HIDE DEF s
  <2> QED BY <2>3, <2>4, <2>5, <2>6
<1> QED BY <1>1, <1>2

LEMMA TimesIs ==
    ASSUME NEW q \in Parsers, q.pos <= Len(q.buf), NEW n \in Nat
    PROVE  Times(q, n) \in Parsers /\ Same(q, Times(q, n))
<1> DEFINE s == [i \in 1..n |-> i]
           T == {r \in Parsers : Same(q, r)}
<1>1. q \in T
  BY DEF Same
<1>2. ASSUME NEW r \in T, NEW i \in 1..n PROVE WrittenAgain(r, s[i]) \in T
  <2>1. r \in Parsers /\ Same(q, r) /\ r.pos <= Len(r.buf)
    BY DEF Same
  <2>2. Written(r) \in Parsers /\ Same(r, Written(r))
    BY <2>1, WrittenIs
  <2>3. Same(q, Written(r))
    BY <2>1, <2>2 DEF Same
  <2> QED BY <2>2, <2>3 DEF WrittenAgain
<1>3. DOMAIN s = 1..n
  OBVIOUS
<1> HIDE DEF s, T
<1>4. Writing!Fold(q, s) \in T
  BY <1>1, <1>2, <1>3, Writing!FoldStaysIn
<1>5. Times(q, n) = Writing!Fold(q, s)
  BY DEF Times, s, Writing!Fold, FoldLeft, Writing!FoldLeft, MapThenFoldSet,
     Writing!MapThenFoldSet, Max, Writing!Max
<1> QED BY <1>4, <1>5 DEF T

(* The element is taken back if nothing was written to it: then it is the  *)
(* last of argv.                                                           *)
LEMMA UndoBlankIs ==
    ASSUME NEW q \in Parsers, q.end = "no", NEW back \in {0, 1}
    PROVE  UndoBlank(q, back) \in Parsers /\ Same(q, UndoBlank(q, back))
<1>1. q \in States /\ Placed(q) /\ Arranged(q)
  BY DEF Parsers
<1>2. CASE q.chars # 0
  BY <1>2 DEF UndoBlank, Same
<1>3. CASE q.chars = 0 /\ q.element = 0
  <2>1. Ended(q, "astray") \in Parsers /\ Same(q, Ended(q, "astray"))
    BY <1>1, EndedIs DEF Ends
  <2> QED BY <1>3, <2>1 DEF UndoBlank
<1>4. CASE q.chars = 0 /\ q.element # 0
  <2> DEFINE a == Argv(q)
             e == q.element
             b == [a EXCEPT ![e] = NoCell]
             cs == With(q, b)
             d == e - back
             r == [q EXCEPT !.chars = q.old, !.element = d, !.cmds = cs]
  <2>1. a \in Arguments /\ a \in Seq(Cell) /\ e = Len(a) /\ e \in 1..Len(a)
    BY <1>1, <1>4, ArgvIs DEF Arranged
  <2>2. UndoBlank(q, back) = r
    BY <1>4, <1>1, ArgvIs DEF UndoBlank, With, Argv, Last, States, Locals
  <2>3. d \in 0..MaxArgs /\ e \in 0..MaxArgs /\ q.old \in Nat
    BY <1>1, <1>4, LinesAssumption DEF States, Locals
  <2>10. back = 0 \/ back = 1
    OBVIOUS
  <2>11. (d = e) \/ (e = d + 1)
    BY <2>3, <2>10
  <2>12. e > 1 => q.old > 0
    BY <1>1 DEF Arranged
  <2> HIDE DEF a, e
  <2>13. NoCell \in Cell /\ ~(e < Len(a))
    BY <2>1 DEF Cell
  <2>4. b \in Arguments /\ Len(b) = Len(a)
    BY <2>1, <2>13, ElementIs
  <2> HIDE DEF b, d
  <2>5. cs \in CommandList /\ Len(cs) >= 1 /\ cs[Len(cs)].argv = b
    BY <1>1, <2>4, WithIs
  <2> HIDE DEF cs
  <2>6. /\ r \in States /\ r.cmds = cs /\ r.chars = q.old /\ Same(q, r)
        /\ r.element = d /\ r.old = q.old /\ r.end = q.end
    BY <1>1, <2>3, <2>5 DEF States, Locals, Same
  <2> HIDE DEF r
  <2>7. Argv(r) = b
    BY <2>5, <2>6 DEF Argv, Last
  <2>8. Arranged(r)
    BY <2>1, <2>3, <2>4, <2>6, <2>7, <2>11, <2>12 DEF Arranged
  <2>9. Placed(r)
    BY <1>1, <2>6 DEF Placed, Same
  <2> QED BY <2>2, <2>6, <2>8, <2>9 DEF Parsers
<1> QED BY <1>2, <1>3, <1>4

LEMMA NewCommandIs == NewCommand \in Command /\ NewCommand.argv = <<<<>>>>
<1> DEFINE a == <<<<>>>>
<1>1. <<>> \in Seq(Character)
  OBVIOUS
<1>2. a \in Seq(Cell) /\ Len(a) = 1
  BY <1>1 DEF Cell
<1>3. a \in Arguments
  BY <1>2 DEF Arguments
<1>4. NewCommand.argv = a
  BY DEF NewCommand
<1> HIDE DEF a
<1>5. [type |-> "SINGLE", argv |-> a, redir |-> [type |-> "NONE", lhs |-> <<>>]] \in Command
  BY <1>1, <1>3 DEF Command, CommandTypes, Redirection
<1> QED BY <1>4, <1>5 DEF NewCommand, a

(* The next command is added: what follows is written to its first element.*)
LEMMA ChainedIs ==
    ASSUME NEW q \in States, NEW type \in CommandTypes
    PROVE  LET r == Chained(q, type)
           IN  /\ r \in States /\ Same(q, r) /\ r.end = q.end
               /\ Argv(r) = <<<<>>>>
<1> DEFINE cs == q.cmds
           n == Len(cs)
           c == [cs[n] EXCEPT !.type = type]
           ds == [cs EXCEPT ![n] = c]
           es == Append(ds, NewCommand)
           r == [q EXCEPT !.cmds = es]
<1>1. cs \in CommandList /\ n \in Nat /\ n >= 1 /\ n \in 1..Len(cs)
  BY ArgvIs DEF States, Locals
<1>2. Chained(q, type) = r
  BY DEF Chained
<1> HIDE DEF cs
<1>3. cs[n] \in Command
  BY <1>1 DEF CommandList
<1>4. c \in Command
  BY <1>3 DEF Command
<1> HIDE DEF c, n
<1>5. ds \in CommandList
  BY <1>1, <1>4, LastCommandIs
<1>6. NewCommand \in Command
  BY NewCommandIs
<1> HIDE DEF ds
<1>7. es \in CommandList /\ Len(es) >= 1 /\ es[Len(es)] = NewCommand
  BY <1>5, <1>6 DEF CommandList
<1> HIDE DEF es
<1>8. r \in States /\ Same(q, r) /\ r.end = q.end /\ r.cmds = es
  BY <1>7 DEF States, Locals, Same
<1>9. NewCommand.argv = <<<<>>>>
  BY DEF NewCommand
<1> HIDE DEF r
<1> QED BY <1>2, <1>7, <1>8, <1>9 DEF Argv, Last

LEMMA IntoNextIs ==
    ASSUME NEW q \in States, q.end = "no" => Placed(q) /\ Argv(q) = <<<<>>>>,
           NEW i \in Nat, i > q.pos
    PROVE  /\ IntoNext(q, i) \in Parsers
           /\ IntoNext(q, i).end = "no" =>
                 /\ q.end = "no" /\ IntoNext(q, i) \in States
                 /\ IntoNext(q, i).buf = q.buf /\ IntoNext(q, i).first = q.first
                 /\ IntoNext(q, i).pos >= i - 1 /\ IntoNext(q, i).pos < Len(q.buf)
<1> DEFINE r == [q EXCEPT !.element = 1, !.chars = 0]
           s == Skipped(r, i)
<1>1. i >= 1 /\ q.pos \in Nat
  BY DEF States, Locals
<1>2. /\ r \in States /\ Same(q, r) /\ r.end = q.end /\ r.cmds = q.cmds
      /\ r.element = 1 /\ r.chars = 0
  <2>1. 1 \in 0..MaxArgs
    BY LinesAssumption
  <2> QED BY <2>1 DEF States, Locals, Same
<1>3. IntoNext(q, i) = s
  BY DEF IntoNext
<1> HIDE DEF r
<1>4. /\ s \in States
      /\ s.end = "no" =>
            /\ s = [r EXCEPT !.pos = s.pos] /\ s.pos \in Nat
            /\ s.pos >= i - 1 /\ s.pos < Len(r.buf)
  BY <1>1, <1>2, SkippedIs
<1> HIDE DEF s
<1>5. CASE s.end # "no"
  BY <1>3, <1>4, <1>5 DEF Parsers
<1>6. CASE s.end = "no"
  <2>1. /\ s.cmds = q.cmds /\ s.element = 1 /\ s.chars = 0 /\ s.end = q.end
        /\ s.buf = q.buf /\ s.first = q.first
    BY <1>2, <1>4, <1>6 DEF States, Locals, Same
  <2>2. Argv(s) = <<<<>>>> /\ Placed(q)
    BY <1>6, <2>1 DEF Argv
  <2>3. Arranged(s)
    BY <2>1, <2>2 DEF Arranged
  <2>4. s.pos >= q.pos /\ s.pos >= i - 1 /\ s.pos < Len(q.buf)
    BY <1>1, <1>2, <1>4, <1>6 DEF Same
  <2>5. q.first \in Nat /\ s.pos \in Nat
    BY <1>4 DEF States, Locals
  <2>6. Placed(s)
    <3>1. 1 <= q.first /\ q.first <= q.pos
      BY <2>2 DEF Placed
    <3>2. q.first <= Len(q.buf) => q.buf[q.first] # " "
      BY <2>2 DEF Placed
    <3>3. 1 <= s.first /\ s.first <= s.pos
      BY <1>1, <2>1, <2>4, <2>5, <3>1
    <3>4. s.first <= Len(s.buf) => s.buf[s.first] # " "
      BY <2>1, <3>2
    <3> QED BY <3>3, <3>4 DEF Placed
  <2> QED BY <1>3, <1>4, <1>6, <2>1, <2>3, <2>4, <2>6 DEF Parsers
<1> QED BY <1>5, <1>6

(* What matters to the invariant has not changed, but for a step ahead.    *)
Alike(q, r) ==
    /\ r.buf = q.buf /\ r.first = q.first /\ r.cmds = q.cmds
    /\ r.element = q.element /\ r.chars = q.chars /\ r.old = q.old /\ r.end = q.end

LEMMA AlikeFrom ==
    ASSUME NEW q \in Parsers, NEW r \in Locals, Alike(q, r),
           r.end = "no" => r.pos >= q.first
    PROVE  r \in Parsers
<1>1. r \in States
  BY DEF Alike, Parsers, States
<1>2. CASE r.end # "no"
  BY <1>1, <1>2 DEF Parsers
<1>3. CASE r.end = "no"
  <2>1. q \in States /\ Placed(q) /\ Arranged(q)
    BY <1>3 DEF Alike, Parsers
  <2>2. Arranged(r)
    BY <2>1 DEF Arranged, Argv, Alike
  <2>3. q.first \in Nat /\ r.pos \in Nat
    BY <2>1 DEF States, Locals
  <2>4. 1 <= q.first
    BY <2>1 DEF Placed
  <2>5. q.first <= Len(q.buf) => q.buf[q.first] # " "
    BY <2>1 DEF Placed
  <2>6. 1 <= r.first /\ r.first <= r.pos
    BY <1>3, <2>3, <2>4 DEF Alike
  <2>7. r.first <= Len(r.buf) => r.buf[r.first] # " "
    BY <2>5 DEF Alike
  <2>8. Placed(r)
    BY <2>6, <2>7 DEF Placed
  <2> QED BY <1>1, <2>2, <2>8 DEF Parsers
<1> QED BY <1>2, <1>3

LEMMA AlikeIs ==
    ASSUME NEW q \in Parsers, NEW r \in Locals, Alike(q, r), r.pos >= q.pos
    PROVE  r \in Parsers
<1>1. ASSUME r.end = "no" PROVE r.pos >= q.first
  <2>1. q \in States /\ Placed(q)
    BY <1>1 DEF Alike, Parsers
  <2>2. q.pos \in Nat /\ q.first \in Nat /\ r.pos \in Nat
    BY <2>1 DEF States, Locals
  <2>3. q.first <= q.pos
    BY <2>1 DEF Placed
  <2> QED BY <2>2, <2>3
<1> QED BY <1>1, AlikeFrom

(* Another line.                                                           *)
LEMMA AskMoreIs ==
    ASSUME NEW q \in States, q.end = "no" => Placed(q) /\ q.first <= Len(q.buf),
           NEW r \in AskMore(q)
    PROVE  /\ r \in States
           /\ r.end = "no" =>
                 /\ q.end = "no" /\ Placed(r) /\ r.pos = q.pos /\ r.cmds = q.cmds
                 /\ r.element = q.element /\ r.chars = q.chars /\ r.old = q.old
<1>1. CASE r = Ended(q, "eof")
  <2>1. "eof" \in Ends \ {"no"}
    BY DEF Ends
  <2> QED BY <1>1, <2>1, EndedIs DEF Parsers
<1>2. ASSUME q.asked < MaxAsked, NEW line \in Continuations,
             r = [q EXCEPT !.buf = @ \o line, !.asked = @ + 1]
      PROVE  /\ r \in States
             /\ r.end = "no" =>
                   /\ q.end = "no" /\ Placed(r) /\ r.pos = q.pos /\ r.cmds = q.cmds
                   /\ r.element = q.element /\ r.chars = q.chars /\ r.old = q.old
  <2> DEFINE b == q.buf
             c == b \o line
             n == q.asked + 1
  <2>1. q.buf \in Seq(Character) /\ line \in Seq(Character)
    BY LinesAssumption DEF States, Locals
  <2>2. n \in 0..MaxAsked
    BY <1>2, LinesAssumption DEF States, Locals
  <2> HIDE DEF b, n
  <2>3. /\ c \in Seq(Character) /\ Len(b) \in Nat
        /\ \A i \in 1..Len(b) : c[i] = b[i]
    BY <2>1 DEF b
  <2>4. r = [q EXCEPT !.buf = c, !.asked = n]
    BY <1>2 DEF b, n
  <2> HIDE DEF c
  <2>5. /\ r \in States /\ r.buf = c /\ r.pos = q.pos /\ r.cmds = q.cmds
        /\ r.element = q.element /\ r.chars = q.chars /\ r.old = q.old
        /\ r.end = q.end /\ r.first = q.first /\ q.first \in Nat
    BY <2>2, <2>3, <2>4 DEF States, Locals
  <2>6. CASE q.end # "no"
    BY <2>5, <2>6
  <2>7. CASE q.end = "no"
    <3>1. 1 <= q.first /\ q.first <= q.pos /\ q.first <= Len(b)
      BY <2>7 DEF Placed, b
    <3>2. b[q.first] # " "
      BY <2>7 DEF Placed, b
    <3>3. q.first \in 1..Len(b)
      BY <2>3, <2>5, <3>1
    <3>4. c[q.first] # " "
      BY <2>3, <3>2, <3>3
    <3>5. Placed(r)
      BY <2>5, <3>1, <3>4 DEF Placed
    <3> QED BY <2>5, <2>7, <3>5
  <2> QED BY <2>6, <2>7
<1> QED BY <1>1, <1>2 DEF AskMore

LEMMA AskedAtIs ==
    ASSUME NEW q \in States, q.end = "no" => Placed(q) /\ q.first <= Len(q.buf),
           NEW i, NEW r \in AskedAt(q, i)
    PROVE  /\ r \in States
           /\ r.end = "no" =>
                 q.end = "no" /\ Placed(r) /\ r.pos = q.pos /\ r.cmds = q.cmds
<1>1. r \in AskMore(q) \/ r = q
  BY DEF AskedAt
<1>2. CASE r \in AskMore(q)
  BY <1>2, AskMoreIs
<1>3. CASE r = q
  BY <1>3
<1> QED BY <1>1, <1>2, <1>3

(* The end of the turn.                                                    *)
LEMMA BecomesIs ==
    ASSUME NEW q \in Parsers, Becomes(q)
    PROVE  ParserInv'
<1>1. CASE q.end # "no"
  BY <1>1 DEF Becomes, ParserInv
<1>2. CASE q.end = "no" /\ Past(q, q.pos + 1)
  <2>1. Ended(q, "astray") \in Parsers /\ Ended(q, "astray").end # "no"
    BY EndedIs DEF Ends, Parsers
  <2> QED BY <1>2, <2>1 DEF Becomes, ParserInv
<1>3. CASE q.end = "no" /\ ~Past(q, q.pos + 1)
  <2> DEFINE n == q.pos + 1
             r == [q EXCEPT !.pos = n]
  <2>1. q \in States
    BY DEF Parsers
  <2>2. Len(q.buf) \in Nat /\ q.pos \in Nat /\ n \in Nat /\ n >= q.pos
    BY <2>1, AtIs DEF States, Locals
  <2>3. n <= Len(q.buf) + 1
    BY <1>3, <2>2 DEF Past
  <2>4. p' = r
    BY <1>3 DEF Becomes
  <2> HIDE DEF n
  <2>5. r \in Locals /\ Alike(q, r) /\ r.pos = n /\ r.buf = q.buf
    BY <2>1, <2>2 DEF States, Locals, Alike
  <2> HIDE DEF r
  <2>6. r \in Parsers
    BY <2>2, <2>5, AlikeIs
  <2> QED BY <2>3, <2>4, <2>5, <2>6 DEF ParserInv
<1> QED BY <1>1, <1>2, <1>3

(* Where the parser is when it reads a character.                          *)
LEMMA ReadingIs ==
    ASSUME ParserInv, NEW c, Reading(c)
    PROVE  /\ p.end = "no" /\ p \in Parsers /\ p \in States /\ p \in Locals
           /\ Placed(p) /\ Arranged(p)
           /\ p.pos \in Nat /\ p.first \in Nat /\ Len(p.buf) \in Nat
           /\ p.first >= 1 /\ p.pos >= p.first /\ p.pos >= 1
           /\ c # "NUL" => p.pos <= Len(p.buf) /\ p.buf[p.pos] = c
           /\ c = "NUL" => p.pos = Len(p.buf) + 1
<1>1. p.end = "no" /\ p \in Parsers /\ At(p, p.pos) = c /\ p.pos <= Len(p.buf) + 1
  BY DEF ParserInv, Reading
<1>2. p \in States /\ Placed(p) /\ Arranged(p) /\ p \in Locals
  BY <1>1 DEF Parsers, States
<1>3. p.pos \in Nat /\ p.first \in Nat
  BY <1>2 DEF Locals
<1>4. p.first >= 1 /\ p.pos >= p.first
  BY <1>2, <1>3 DEF Placed
<1>5. p.pos >= 1
  BY <1>3, <1>4
<1>6. /\ Len(p.buf) \in Nat
      /\ p.pos <= Len(p.buf) => At(p, p.pos) = p.buf[p.pos] /\ At(p, p.pos) # "NUL"
      /\ p.pos > Len(p.buf) => At(p, p.pos) = "NUL"
  BY <1>2, <1>3, <1>5, AtIs
<1>7. c # "NUL" => p.pos <= Len(p.buf) /\ p.buf[p.pos] = c
  BY <1>1, <1>3, <1>6
<1>8. c = "NUL" => p.pos = Len(p.buf) + 1
  BY <1>1, <1>3, <1>6
<1> QED BY <1>1, <1>2, <1>3, <1>4, <1>5, <1>6, <1>7, <1>8

(* The digits before >.                                                    *)
LEMMA LhsIs ==
    ASSUME ParserInv, Reading(">")
    PROVE  Lhs(p) \in Seq(Character)
<1> DEFINE b == p.buf
           f == p.first
           n == p.pos
           S == {i \in f + 1..n : \A j \in i..n - 1 : At(p, j) = "1"}
<1>1. /\ b \in Seq(Character) /\ f \in Nat /\ n \in Nat /\ f >= 1 /\ n >= f
      /\ n <= Len(b) /\ Len(b) \in Nat
  BY ReadingIs DEF Locals
<1>2. CASE n = f
  BY <1>2 DEF Lhs, Character
<1>3. CASE n # f
  <2>1. Lhs(p) = SubSeq(b, Min(S), n - 1)
    BY <1>3 DEF Lhs
  <2> HIDE DEF b, f, n
  <2>2. n \in S
    BY <1>1, <1>3
  <2>3. S \subseteq f + 1..n
    OBVIOUS
  <2> HIDE DEF S
  <2>4. S \subseteq Nat /\ \A i \in S : i >= 1
    BY <1>1, <2>3
  <2>5. Min(S) \in Nat /\ Min(S) >= 1
    BY <2>2, <2>4, MinIs
  <2> DEFINE m == Min(S)
             l == n - 1
  <2>6. m \in Int /\ m >= 1
    BY <2>5
  <2>7. l \in Int /\ l <= Len(b)
    BY <1>1
  <2> HIDE DEF m, l
  <2>8. \A i \in m..l : b[i] \in Character
    BY <1>1, <2>6, <2>7
  <2>9. SubSeq(b, m, l) \in Seq(Character)
    BY <2>6, <2>7, <2>8, SubSeqProperties
  <2> QED BY <2>1, <2>9 DEF m, l
<1> QED BY <1>2, <1>3

LEMMA TargetIs ==
    ASSUME NEW q \in Parsers, NEW i \in Nat, i >= q.pos
    PROVE  Target(q, i) \in Parsers
<1>1. q \in States /\ q \in Locals /\ q.pos \in Nat
  BY DEF Parsers, States, Locals
<1>2. Fail(q) \in Parsers
  BY <1>1, FailIs
<1>3. ASSUME NEW n \in {i, i + 2}, NEW how \in {"fd", "file"}
      PROVE  [q EXCEPT !.pos = n, !.redirecting = how] \in Parsers
  <2> DEFINE r == [q EXCEPT !.pos = n, !.redirecting = how]
  <2>1. n \in Nat /\ n >= q.pos
    BY <1>1
  <2>2. r \in Locals /\ Alike(q, r) /\ r.pos = n
    BY <1>1, <2>1 DEF Locals, Alike
  <2> HIDE DEF r
  <2>3. r \in Parsers
    BY <2>1, <2>2, AlikeIs
  <2> QED BY <2>3 DEF r
<1>4. [q EXCEPT !.pos = i, !.redirecting = "file"] \in Parsers
  BY <1>3
<1>5. /\ [q EXCEPT !.pos = i + 2, !.redirecting = "file"] \in Parsers
      /\ [q EXCEPT !.pos = i + 2, !.redirecting = "fd"] \in Parsers
  BY <1>3
<1> QED BY <1>2, <1>4, <1>5 DEF Target

-----------------------------------------------------------------------------
(* Each character                                                          *)

LEMMA OrdinaryKeeps == ASSUME ParserInv, Ordinary PROVE ParserInv'
<1>1. PICK c \in {"a", "b", "1", "/", "(", "<"} : Reading(c)
  BY DEF Ordinary
<1>2. p \in Parsers /\ p.pos <= Len(p.buf)
  BY <1>1, ReadingIs
<1>3. Written(p) \in Parsers
  BY <1>2, WrittenIs
<1> QED BY <1>3, BecomesIs DEF Ordinary

LEMMA QuotedKeeps == ASSUME ParserInv, Quoted PROVE ParserInv'
<1>1. PICK c \in {" ", "&", "|", ">", "~"} : Reading(c)
  BY DEF Quoted
<1>2. p \in Parsers /\ p.pos <= Len(p.buf)
  BY <1>1, ReadingIs
<1>3. Written(p) \in Parsers
  BY <1>2, WrittenIs
<1> QED BY <1>3, BecomesIs DEF Quoted

LEMMA SingleQuoteKeeps == ASSUME ParserInv, SingleQuote PROVE ParserInv'
<1>1. Reading("'")
  BY DEF SingleQuote
<1>2. p \in Parsers /\ p.pos <= Len(p.buf) /\ p \in Locals /\ p.pos \in Nat
  BY <1>1, ReadingIs
<1>3. Written(p) \in Parsers
  BY <1>2, WrittenIs
<1>4. ASSUME NEW b \in BOOLEAN PROVE [p EXCEPT !.squote = b] \in Parsers
  <2> DEFINE r == [p EXCEPT !.squote = b]
  <2>1. r \in Locals /\ Alike(p, r) /\ r.pos = p.pos
    BY <1>2 DEF Locals, Alike
  <2> HIDE DEF r
  <2>2. r \in Parsers
    BY <1>2, <2>1, AlikeIs
  <2> QED BY <2>2 DEF r
<1>5. [p EXCEPT !.squote = TRUE] \in Parsers /\ [p EXCEPT !.squote = FALSE] \in Parsers
  BY <1>4
<1>6. \/ Becomes(Written(p)) \/ Becomes([p EXCEPT !.squote = FALSE])
      \/ Becomes([p EXCEPT !.squote = TRUE])
  BY DEF SingleQuote
<1> QED BY <1>3, <1>5, <1>6, BecomesIs

LEMMA DoubleQuoteKeeps == ASSUME ParserInv, DoubleQuote PROVE ParserInv'
<1> DEFINE c == "\""
<1>1. Reading(c) /\ c # "NUL"
  BY DEF DoubleQuote
<1> HIDE DEF c
<1>2. p \in Parsers /\ p.pos <= Len(p.buf) /\ p \in Locals /\ p.pos \in Nat
  BY <1>1, ReadingIs
<1>3. Written(p) \in Parsers
  BY <1>2, WrittenIs
<1> DEFINE r == [p EXCEPT !.dquote = ~@]
<1>4. r \in Locals /\ Alike(p, r) /\ r.pos = p.pos
  BY <1>2 DEF Locals, Alike
<1>6. Becomes(Written(p)) \/ Becomes(r)
  BY DEF DoubleQuote
<1> HIDE DEF r
<1>5. r \in Parsers
  BY <1>2, <1>4, AlikeIs
<1> QED BY <1>3, <1>5, <1>6, BecomesIs

LEMMA DollarKeeps == ASSUME ParserInv, Dollar PROVE ParserInv'
<1>1. PICK c \in {"$", "backquote"} : Reading(c)
  BY DEF Dollar
<1>2. p \in Parsers /\ p.pos <= Len(p.buf)
  BY <1>1, ReadingIs
<1>3. Times(p, 1) \in Parsers /\ Times(p, 2) \in Parsers /\ Times(p, 3) \in Parsers
  BY <1>2, TimesIs
<1>4. Becomes(Times(p, 1)) \/ Becomes(Times(p, 2)) \/ Becomes(Times(p, 3))
  BY DEF Dollar
<1> QED BY <1>3, <1>4, BecomesIs

LEMMA BackslashKeeps == ASSUME ParserInv, Backslash PROVE ParserInv'
<1> DEFINE c == "\\"
           L == Len(p.buf) + 1
           S == {i \in p.pos..L : At(p, i) # c}
           after == Min(S)
           q == Times(p, (after - p.pos) \div 2)
           n == IF At(p, after) = "NUL" THEN after ELSE after - 1
           r == [q EXCEPT !.pos = n]
<1>1. Reading(c) /\ c # "NUL" /\ Becomes(r)
  BY DEF Backslash
<1> HIDE DEF c
<1>2. /\ p \in Parsers /\ p \in States /\ p.pos <= Len(p.buf) /\ p.pos \in Nat
      /\ p.pos >= 1 /\ Len(p.buf) \in Nat /\ At(p, p.pos) = c
  BY <1>1, ReadingIs DEF Reading
<1>3. L \in Nat /\ L >= p.pos /\ L >= 1 /\ L > Len(p.buf)
  BY <1>2
<1> HIDE DEF L
<1>4. At(p, L) = "NUL"
  BY <1>2, <1>3, AtIs
<1>5. L \in S
  BY <1>1, <1>2, <1>3, <1>4
<1>6. S \subseteq p.pos..L
  OBVIOUS
<1>7. \A i \in S : At(p, i) # c
  OBVIOUS
<1> HIDE DEF S
<1>8. S \subseteq Nat /\ \A i \in S : i >= p.pos
  BY <1>2, <1>3, <1>6
<1>9. after \in S
  BY <1>5, <1>8, MinIs
<1>10. after \in Nat /\ after >= p.pos /\ after # p.pos
  BY <1>2, <1>7, <1>8, <1>9
<1> HIDE DEF after
<1>11. (after - p.pos) \div 2 \in Nat
  BY <1>2, <1>10
<1>12. q \in Parsers /\ Same(p, q)
  BY <1>2, <1>11, TimesIs
<1> HIDE DEF q
<1>13. n \in Nat /\ n >= p.pos
  BY <1>2, <1>10
<1> HIDE DEF n
<1>14. q \in Locals /\ q.pos = p.pos
  BY <1>12 DEF Parsers, States, Same
<1>15. r \in Locals /\ Alike(q, r) /\ r.pos = n
  BY <1>13, <1>14 DEF Locals, Alike
<1> HIDE DEF r
<1>16. r \in Parsers
  BY <1>12, <1>13, <1>14, <1>15, AlikeIs
<1> QED BY <1>1, <1>16, BecomesIs

(* ~ is an ordinary character, or the element becomes a home directory,    *)
(* and the name of the user is gone by.                                    *)
LEMMA TildeIs ==
    ASSUME p \in Parsers, p \in States, p.end = "no", Tilde
    PROVE  \/ Becomes(Written(p)) \/ Becomes(Ended(p, "astray"))
           \/ HasCell(p) /\ \E k \in Nat :
                 Becomes([Writes(p, <<"home">>) EXCEPT !.pos = p.pos + k])
<1> DEFINE alone == At(p, p.pos + 1) \in {"NUL", " ", "/"}
           name == IF alone THEN <<>> ELSE Username(p)
           k == Len(name)
           v == <<"home">>
           cs == [p.cmds EXCEPT ![Len(p.cmds)].argv[p.element] = v]
           r == [p EXCEPT !.chars = @ + 1, !.pos = @ + k,
                          !.cmds[Len(p.cmds)].argv[p.element] = v]
<1>1. IF ~alone /\ name \notin Users THEN Becomes(Written(p))
      ELSE IF ~HasCell(p) THEN Becomes(Ended(p, "astray"))
      ELSE Becomes(r)
  BY DEF Tilde
<1>2. (~alone /\ name \notin Users) \/ k \in Nat
  <2>1. alone => name = <<>>
    OBVIOUS
  <2>2. ~alone /\ name \in Users => name \in Seq(Character)
    BY LinesAssumption
  <2>3. <<>> \in Seq(Character)
    OBVIOUS
  <2> HIDE DEF name, alone
  <2> QED BY <2>1, <2>2, <2>3
<1> HIDE DEF name, alone, k, v
<1>3. cs = With(p, [Argv(p) EXCEPT ![p.element] = v])
  BY ArgvIs DEF With, Argv, Last, States, Locals
<1>4. r = [p EXCEPT !.chars = p.chars + 1, !.pos = p.pos + k, !.cmds = cs]
  BY DEF States, Locals
<1> HIDE DEF cs
<1>5. r = [Writes(p, v) EXCEPT !.pos = p.pos + k]
  BY <1>3, <1>4 DEF Writes, States, Locals
<1> HIDE DEF r
<1> QED BY <1>1, <1>2, <1>5 DEF v

LEMMA TildeKeeps == ASSUME ParserInv, Tilde PROVE ParserInv'
<1> DEFINE v == <<"home">>
           w == Writes(p, v)
<1>1. Reading("~")
  BY DEF Tilde
<1>2. p \in Parsers /\ p \in States /\ p.pos <= Len(p.buf) /\ p.end = "no" /\ p.pos \in Nat
  BY <1>1, ReadingIs
<1>3. Written(p) \in Parsers
  BY <1>2, WrittenIs
<1>4. Ended(p, "astray") \in Parsers
  BY <1>2, EndedIs DEF Ends
<1>5. v \in Seq(Character)
  BY DEF Character
<1>6. ASSUME HasCell(p), NEW k \in Nat, Becomes([w EXCEPT !.pos = p.pos + k])
      PROVE  ParserInv'
  <2> DEFINE n == p.pos + k
             r == [w EXCEPT !.pos = n]
  <2>1. w \in Parsers /\ w.pos = p.pos
    BY <1>2, <1>5, <1>6, WritesIs DEF Same
  <2>2. Becomes(r)
    BY <1>6
  <2> HIDE DEF w
  <2>3. n \in Nat /\ n >= w.pos
    BY <1>2, <1>6, <2>1
  <2>4. w \in Locals
    BY <2>1 DEF Parsers, States
  <2> HIDE DEF n
  <2>5. r \in Locals /\ Alike(w, r) /\ r.pos = n
    BY <2>3, <2>4 DEF Locals, Alike
  <2> HIDE DEF r
  <2>6. r \in Parsers
    BY <2>1, <2>3, <2>5, AlikeIs
  <2> QED BY <2>2, <2>6, BecomesIs
<1> QED BY <1>2, <1>3, <1>4, <1>6, TildeIs, BecomesIs

(* The blank ends an element that is no null pointer.                      *)
LEMMA NextElementIs ==
    ASSUME NEW a \in Arguments, NEW e \in 1..Len(a), a[e] # NoCell
    PROVE  /\ SubSeq(a, 1, e) \o <<<<>>>> \in Arguments
           /\ Len(SubSeq(a, 1, e) \o <<<<>>>>) = e + 1
<1>1. /\ a \in Seq(Cell) /\ Len(a) \in Nat
      /\ \A j \in 1..Len(a) : j < Len(a) => a[j] # NoCell
  BY DEF Arguments
<1>2. e \in Nat /\ e >= 1 /\ e <= Len(a)
  BY <1>1
<1> DEFINE b == SubSeq(a, 1, e)
           c == b \o <<<<>>>>
<1>3. \A i \in 1..e : a[i] \in Cell /\ a[i] # NoCell
  BY <1>1, <1>2
<1>4. /\ b \in Seq(Cell) /\ Len(b) = e
      /\ \A i \in 1..e : b[i] = a[i]
  <2>1. 1 \in Int /\ e \in Int /\ \A i \in 1..e : a[i] \in Cell
    BY <1>2, <1>3
  <2>2. /\ SubSeq(a, 1, e) \in Seq(Cell)
        /\ Len(SubSeq(a, 1, e)) = IF 1 <= e THEN e - 1 + 1 ELSE 0
        /\ \A i \in 1..e - 1 + 1 : SubSeq(a, 1, e)[i] = a[1 + i - 1]
    BY <2>1, SubSeqProperties
  <2> QED BY <1>2, <2>2
<1> HIDE DEF b
<1>5. <<>> \in Cell
  BY DEF Cell
<1>6. c \in Seq(Cell) /\ Len(c) = e + 1 /\ \A i \in 1..e : c[i] = b[i]
  BY <1>2, <1>4, <1>5
<1>7. \A i \in 1..Len(c) : i < Len(c) => c[i] # NoCell
  BY <1>2, <1>3, <1>4, <1>6
<1> HIDE DEF c
<1>8. c \in Arguments
  BY <1>2, <1>6, <1>7 DEF Arguments
<1> QED BY <1>6, <1>8 DEF b, c

LEMMA BlankEndsKeeps == ASSUME ParserInv, BlankEnds PROVE ParserInv'
<1> DEFINE q == Skipped(p, p.pos)
           a == Argv(q)
           n == q.element + 1
           k == q.chars + 1
           b == SubSeq(a, 1, q.element) \o <<<<>>>>
           cs == With(q, b)
           r == [q EXCEPT !.element = n, !.old = k, !.chars = 0, !.cmds = cs]
<1>1. Reading(" ")
  BY DEF BlankEnds
<1>9. p \in States /\ p.end = "no" /\ Placed(p)
  BY <1>1, ReadingIs
<1>10. /\ p.pos \in Nat /\ p.first \in Nat
       /\ p.pos >= 1 /\ p.first >= 1 /\ p.pos >= p.first
  BY <1>1, ReadingIs
<1>2. /\ p \in States /\ p.end = "no" /\ Placed(p)
      /\ p.pos \in Nat /\ p.first \in Nat
      /\ p.pos >= 1 /\ p.first >= 1 /\ p.pos >= p.first
  BY <1>9, <1>10
<1>3. p.pos > p.first
  <2> DEFINE c == " "
  <2>6. Reading(c) /\ c # "NUL"
    BY <1>1
  <2> HIDE DEF c
  <2>4. p.pos <= Len(p.buf)
    BY <2>6, ReadingIs
  <2>5. At(p, p.pos) = " "
    BY <1>1 DEF Reading
  <2>1. p.buf[p.pos] = " " /\ p.pos <= Len(p.buf)
    BY <2>4, <2>5 DEF At
  <2>2. p.first <= Len(p.buf) => p.buf[p.first] # " "
    BY <1>9 DEF Placed
  <2>3. p.pos # p.first
    BY <2>1, <2>2
  <2> QED BY <1>10, <2>3
<1>4. /\ q \in States
      /\ q.end = "no" =>
            q = [p EXCEPT !.pos = q.pos] /\ q.pos \in Nat /\ q.pos >= p.pos - 1
  BY <1>2, SkippedIs
<1>5. \/ q.end # "no" /\ Becomes(q)
      \/ q.end = "no" /\ Becomes(Ended(q, "astray"))
      \/ q.end = "no" /\ HasCell(q) /\ q.element # MaxArgs /\ Becomes(r)
  BY <1>4, ArgvIs DEF BlankEnds, With, Argv, Last, States, Locals
<1> HIDE DEF q
<1>6. CASE q.end # "no" /\ Becomes(q)
  BY <1>4, <1>6, BecomesIs DEF Parsers
<1>7. CASE Becomes(Ended(q, "astray"))
  <2>1. Ended(q, "astray") \in Parsers
    BY <1>4, EndedIs DEF Ends
  <2> QED BY <1>7, <2>1, BecomesIs
<1>8. CASE q.end = "no" /\ HasCell(q) /\ q.element # MaxArgs /\ Becomes(r)
  <2>1. a \in Arguments /\ q.element \in 1..Len(a) /\ a[q.element] # NoCell
    BY <1>4, <1>8, ArgvIs DEF HasCell
  <2>2. b \in Arguments /\ Len(b) = q.element + 1
    BY <2>1, NextElementIs
  <2>3. n \in 0..MaxArgs /\ k \in Nat /\ k > 0 /\ n = q.element + 1
    BY <1>4, <1>8, LinesAssumption DEF States, Locals
  <2> HIDE DEF a, b, n, k
  <2>4. cs \in CommandList /\ Len(cs) >= 1 /\ cs[Len(cs)].argv = b
    BY <1>4, <2>2, WithIs
  <2> HIDE DEF cs
  <2>5. /\ r \in States /\ r.cmds = cs /\ r.chars = 0 /\ Same(q, r)
        /\ r.element = n /\ r.old = k
    BY <1>4, <2>3, <2>4 DEF States, Locals, Same
  <2> HIDE DEF r
  <2>6. Argv(r) = b
    BY <2>4, <2>5 DEF Argv, Last
  <2>7. Arranged(r)
    BY <2>2, <2>3, <2>5, <2>6 DEF Arranged
  <2>8. Placed(r)
    <3>1. r.buf = p.buf /\ r.first = p.first /\ r.pos = q.pos
      BY <1>2, <1>4, <1>8, <2>5 DEF States, Locals, Same
    <3>2. 1 <= r.first /\ r.first <= r.pos
      BY <1>2, <1>3, <1>4, <1>8, <3>1
    <3>3. r.first <= Len(r.buf) => r.buf[r.first] # " "
      BY <1>2, <3>1 DEF Placed
    <3> QED BY <3>2, <3>3 DEF Placed
  <2>9. r \in Parsers
    BY <2>5, <2>7, <2>8 DEF Parsers
  <2> QED BY <1>8, <2>9, BecomesIs
<1> QED BY <1>5, <1>6, <1>7, <1>8

(* On to the next command from an operator that is read.                   *)
LEMMA OnwardIs ==
    ASSUME ParserInv, NEW c, Reading(c), c # "NUL", NEW back \in {0, 1},
           NEW type \in CommandTypes
    PROVE  LET q == Chained(UndoBlank(p, back), type)
           IN  /\ q \in States /\ Same(p, q)
               /\ q.end = "no" =>
                     /\ Placed(q) /\ Argv(q) = <<<<>>>> /\ q.first <= Len(q.buf)
<1> DEFINE u == UndoBlank(p, back)
           q == Chained(u, type)
<1>1. p \in Parsers /\ p.end = "no" /\ Placed(p)
  BY ReadingIs
<1>2. p.pos <= Len(p.buf) /\ p.first <= p.pos /\ p.pos \in Nat /\ p.first \in Nat
      /\ Len(p.buf) \in Nat
  BY ReadingIs
<1>3. u \in Parsers /\ Same(p, u)
  BY <1>1, UndoBlankIs
<1> HIDE DEF u
<1>4. u \in States
  BY <1>3 DEF Parsers
<1>5. q \in States /\ Same(u, q) /\ Argv(q) = <<<<>>>>
  BY <1>4, ChainedIs
<1> HIDE DEF q
<1>6. Same(p, q)
  BY <1>3, <1>5 DEF Same
<1>7. Placed(q)
  BY <1>1, <1>6 DEF Placed, Same
<1>8. q.first <= Len(q.buf)
  BY <1>2, <1>6 DEF Same
<1> QED BY <1>5, <1>6, <1>7, <1>8 DEF q, u

LEMMA AskedOnwardIs ==
    ASSUME ParserInv, NEW c, Reading(c), c # "NUL", NEW back \in {0, 1},
           NEW type \in CommandTypes, NEW i, NEW j \in Nat, j > p.pos,
           NEW r \in AskedAt(Chained(UndoBlank(p, back), type), i)
    PROVE  IntoNext(r, j) \in Parsers
<1> DEFINE q == Chained(UndoBlank(p, back), type)
<1>1. /\ q \in States /\ Same(p, q)
      /\ q.end = "no" => Placed(q) /\ Argv(q) = <<<<>>>> /\ q.first <= Len(q.buf)
  BY OnwardIs
<1>2. r \in AskedAt(q, i)
  OBVIOUS
<1> HIDE DEF q
<1>3. /\ r \in States
      /\ r.end = "no" =>
            q.end = "no" /\ Placed(r) /\ r.pos = q.pos /\ r.cmds = q.cmds
  BY <1>1, <1>2, AskedAtIs
<1>4. r.end = "no" => Placed(r) /\ Argv(r) = <<<<>>>> /\ r.pos = p.pos
  BY <1>1, <1>3 DEF Argv, Same
<1>5. CASE r.end = "no"
  BY <1>3, <1>4, <1>5, IntoNextIs
<1>6. CASE r.end # "no"
  <2> DEFINE s == [r EXCEPT !.element = 1, !.chars = 0]
  <2>1. s \in States /\ s.end # "no"
    <3>1. 1 \in 0..MaxArgs
      BY LinesAssumption
    <3> QED BY <1>3, <1>6, <3>1 DEF States, Locals
  <2>2. j >= 1
    <3>1. p.pos \in Nat
      BY ReadingIs
    <3> QED BY <3>1
  <2> HIDE DEF s
  <2>3. Skipped(s, j) \in States
    BY <2>1, <2>2, SkippedIs
  <2>4. Skipped(s, j).end # "no"
    <3>1. Skipped(s, j).end = "no" => Skipped(s, j) = [s EXCEPT !.pos = Skipped(s, j).pos]
      BY <2>1, <2>2, SkippedIs
    <3>2. [s EXCEPT !.pos = Skipped(s, j).pos].end = s.end
      BY <2>1 DEF States, Locals
    <3> QED BY <2>1, <3>1, <3>2
  <2> QED BY <2>3, <2>4 DEF Parsers, IntoNext, s
<1> QED BY <1>5, <1>6

LEMMA AmpersandKeeps == ASSUME ParserInv, Ampersand PROVE ParserInv'
<1> DEFINE c == "&"
           q == UndoBlank(p, 1)
<1>1. Reading(c) /\ c # "NUL"
  BY DEF Ampersand
<1> HIDE DEF c
<1>2. p \in Parsers /\ p.end = "no" /\ p.pos \in Nat
  BY <1>1, ReadingIs
<1>3. \/ Becomes(Stop([q EXCEPT !.cmds[Len(q.cmds)].type = "BACKGROUND"]))
      \/ Becomes(IntoNext(Chained(q, "BACKGROUND"), p.pos + 1))
      \/ \E r \in AskedAt(Chained(q, "RUN_AND"), p.pos + 2) :
             Becomes(IntoNext(r, p.pos + 2))
  BY DEF Ampersand
<1>4. "BACKGROUND" \in CommandTypes /\ "RUN_AND" \in CommandTypes
  BY DEF CommandTypes
<1>5. q \in States
  BY <1>2, UndoBlankIs DEF Parsers
<1>6. CASE Becomes(Stop([q EXCEPT !.cmds[Len(q.cmds)].type = "BACKGROUND"]))
  <2> DEFINE cs == q.cmds
             n == Len(cs)
             d == [cs[n] EXCEPT !.type = "BACKGROUND"]
             ds == [cs EXCEPT ![n] = d]
             r == [q EXCEPT !.cmds = ds]
  <2>1. cs \in CommandList /\ n >= 1 /\ n \in 1..Len(cs)
    BY <1>5, ArgvIs DEF States, Locals
  <2>2. r = [q EXCEPT !.cmds[Len(q.cmds)].type = "BACKGROUND"]
    OBVIOUS
  <2> HIDE DEF q, cs
  <2>3. cs[n] \in Command
    BY <2>1, LastCommandIs DEF CommandList
  <2>4. d \in Command
    BY <1>4, <2>3 DEF Command
  <2> HIDE DEF d, n
  <2>5. ds \in CommandList /\ Len(ds) = Len(cs) /\ Len(ds) >= 1
    BY <2>1, <2>4, LastCommandIs DEF n
  <2> HIDE DEF ds
  <2>6. r \in States
    BY <1>5, <2>5 DEF States, Locals
  <2> HIDE DEF r
  <2>7. Stop(r) \in Parsers
    BY <2>6, StopIs
  <2>8. Becomes(Stop(r))
    BY <1>6, <2>2
  <2> QED BY <2>7, <2>8, BecomesIs
<1>7. CASE Becomes(IntoNext(Chained(q, "BACKGROUND"), p.pos + 1))
  <2> DEFINE r == Chained(q, "BACKGROUND")
  <2>1. /\ r \in States /\ Same(p, r)
        /\ r.end = "no" => Placed(r) /\ Argv(r) = <<<<>>>>
    BY <1>1, <1>4, OnwardIs
  <2> HIDE DEF r
  <2>2. p.pos + 1 \in Nat /\ p.pos + 1 > r.pos
    BY <1>2, <2>1 DEF Same
  <2>3. IntoNext(r, p.pos + 1) \in Parsers
    BY <2>1, <2>2, IntoNextIs
  <2> QED BY <1>7, <2>3, BecomesIs DEF r
<1>8. CASE \E r \in AskedAt(Chained(q, "RUN_AND"), p.pos + 2) :
              Becomes(IntoNext(r, p.pos + 2))
  <2>1. PICK r \in AskedAt(Chained(q, "RUN_AND"), p.pos + 2) :
              Becomes(IntoNext(r, p.pos + 2))
    BY <1>8
  <2> DEFINE j == p.pos + 2
  <2>2. j \in Nat /\ j > p.pos
    BY <1>2
  <2> HIDE DEF j
  <2>3. IntoNext(r, j) \in Parsers
    BY <1>1, <1>4, <2>2, AskedOnwardIs
  <2> QED BY <2>1, <2>3, BecomesIs DEF j
<1> QED BY <1>3, <1>6, <1>7, <1>8

LEMMA BarKeeps == ASSUME ParserInv, Bar PROVE ParserInv'
<1> DEFINE c == "|"
           i == p.pos + 1
           j == p.pos + 2
<1>1. Reading(c) /\ c # "NUL"
  BY DEF Bar
<1>2. \/ \E r \in AskedAt(Chained(UndoBlank(p, 0), "RUN_OR"), j) :
             Becomes(IntoNext(r, j))
      \/ \E r \in AskedAt(Chained(UndoBlank(p, 0), "PIPED"), j) :
             Becomes(IntoNext(r, i))
  BY DEF Bar
<1> HIDE DEF c
<1>3. p.pos \in Nat
  BY <1>1, ReadingIs
<1>4. i \in Nat /\ i > p.pos /\ j \in Nat /\ j > p.pos
  BY <1>3
<1>5. "RUN_OR" \in CommandTypes /\ "PIPED" \in CommandTypes
  BY DEF CommandTypes
<1> HIDE DEF i, j
<1>6. ASSUME NEW r \in AskedAt(Chained(UndoBlank(p, 0), "RUN_OR"), j)
      PROVE  IntoNext(r, j) \in Parsers
  BY <1>1, <1>4, <1>5, AskedOnwardIs
<1>7. ASSUME NEW r \in AskedAt(Chained(UndoBlank(p, 0), "PIPED"), j)
      PROVE  IntoNext(r, i) \in Parsers
  BY <1>1, <1>4, <1>5, AskedOnwardIs
<1> QED BY <1>2, <1>6, <1>7, BecomesIs

LEMMA SemicolonKeeps == ASSUME ParserInv, Semicolon PROVE ParserInv'
<1> DEFINE c == ";"
           q == UndoBlank(p, 0)
           u == Chained(q, "MULTICMD")
           r == IntoNext(u, p.pos + 2)
           more == {i \in r.pos..Len(r.buf) + 1 : At(r, i) # c}
           s == [Stop(q) EXCEPT !.cmds = u.cmds]
           m == Min(more) - 1
           v == [r EXCEPT !.pos = m]
<1>1. Reading(c) /\ c # "NUL"
  BY DEF Semicolon
<1>2. \/ Becomes(Ended(Written(p), "astray")) \/ Becomes(s) \/ Becomes(r)
      \/ r.end = "no" /\ Becomes(v)
  BY DEF Semicolon
<1> HIDE DEF c
<1>3. p \in Parsers /\ p.end = "no" /\ p.pos <= Len(p.buf)
  BY <1>1, ReadingIs
<1>4. p.pos \in Nat /\ p.first \in Nat /\ p.first <= p.pos /\ p.pos >= 1
  BY <1>1, ReadingIs
<1>5. "MULTICMD" \in CommandTypes
  BY DEF CommandTypes
<1>6. q \in States
  BY <1>3, UndoBlankIs DEF Parsers
<1>7. /\ u \in States /\ Same(p, u)
      /\ u.end = "no" => Placed(u) /\ Argv(u) = <<<<>>>>
  BY <1>1, <1>5, OnwardIs
<1>8. CASE Becomes(Ended(Written(p), "astray"))
  <2>1. Written(p) \in States
    BY <1>3, WrittenIs DEF Parsers
  <2> DEFINE w == Written(p)
  <2> HIDE DEF w
  <2>2. Ended(w, "astray") \in Parsers
    BY <2>1, EndedIs DEF Ends, w
  <2> QED BY <1>8, <2>2, BecomesIs DEF w
<1> HIDE DEF q, u
<1>9. CASE Becomes(s)
  <2> DEFINE w == Stop(q)
  <2>1. w \in States /\ w.end # "no"
    BY <1>6, StopIs DEF Parsers
  <2>2. u.cmds \in CommandList /\ Len(u.cmds) >= 1
    BY <1>7 DEF States, Locals
  <2> HIDE DEF w
  <2>3. s = [w EXCEPT !.cmds = u.cmds]
    BY DEF w
  <2> HIDE DEF s
  <2>4. s \in States /\ s.end # "no"
    BY <2>1, <2>2, <2>3 DEF States, Locals
  <2>5. s \in Parsers
    BY <2>4 DEF Parsers
  <2> QED BY <1>9, <2>5, BecomesIs
<1> DEFINE j == p.pos + 2
<1>10. j \in Nat /\ j > u.pos /\ j - 1 >= p.pos
  BY <1>4, <1>7 DEF Same
<1> HIDE DEF j
<1>11. /\ IntoNext(u, j) \in Parsers
       /\ IntoNext(u, j).end = "no" =>
             /\ u.end = "no" /\ IntoNext(u, j) \in States
             /\ IntoNext(u, j).buf = u.buf /\ IntoNext(u, j).first = u.first
             /\ IntoNext(u, j).pos >= j - 1 /\ IntoNext(u, j).pos < Len(u.buf)
  BY <1>7, <1>10, IntoNextIs
<1>12. r = IntoNext(u, j)
  BY DEF j
<1> HIDE DEF r
<1>13. CASE Becomes(r)
  BY <1>11, <1>12, <1>13, BecomesIs
<1>14. CASE r.end = "no" /\ Becomes(v)
  <2>1. r \in Parsers /\ r \in States /\ r \in Locals
    BY <1>11, <1>12 DEF Parsers, States
  <2>2. r.first = p.first /\ r.pos >= j - 1
    BY <1>7, <1>11, <1>12, <1>14 DEF Same
  <2>3. r.pos \in Nat /\ r.pos < Len(r.buf)
    BY <1>11, <1>12, <1>14 DEF States, Locals
  <2>4. Len(r.buf) \in Nat
    BY <2>1, AtIs, <1>10
  <2>5. r.pos > p.pos
    <3>1. j - 1 = p.pos + 1
      BY <1>4 DEF j
    <3> QED BY <1>4, <2>2, <2>3, <3>1
  <2> DEFINE L == Len(r.buf) + 1
  <2>6. L \in Nat /\ L >= 1 /\ L > Len(r.buf) /\ r.pos <= L
    BY <2>3, <2>4
  <2> HIDE DEF L
  <2>7. At(r, L) = "NUL"
    BY <2>1, <2>6, AtIs
  <2> DEFINE T == {i \in r.pos..L : At(r, i) # c}
  <2>8. L \in T
    BY <1>1, <2>3, <2>6, <2>7
  <2>9. T \subseteq r.pos..L
    OBVIOUS
  <2>10. m = Min(T) - 1
    BY DEF L
  <2> HIDE DEF T, m
  <2>11. T \subseteq Nat /\ \A i \in T : i >= r.pos
    BY <2>3, <2>6, <2>9
  <2>12. Min(T) \in Nat /\ Min(T) >= r.pos
    BY <2>8, <2>11, MinIs
  <2>13. m \in Nat /\ m >= p.pos
    BY <1>4, <2>3, <2>5, <2>10, <2>12
  <2>14. v \in Locals /\ Alike(r, v) /\ v.pos = m
    BY <2>1, <2>13 DEF Locals, Alike
  <2> HIDE DEF v
  <2>15. v.pos >= r.first
    BY <1>4, <2>2, <2>13, <2>14
  <2>16. v \in Parsers
    BY <2>1, <2>14, <2>15, AlikeFrom
  <2> QED BY <1>14, <2>16, BecomesIs
<1> QED BY <1>2, <1>8, <1>9, <1>13, <1>14

LEMMA HashKeeps == ASSUME ParserInv, Hash PROVE ParserInv'
<1> DEFINE c == "#"
<1>1. Reading(c) /\ c # "NUL" /\ (Becomes(Written(p)) \/ Becomes(Stop(UndoBlank(p, 1))))
  BY DEF Hash
<1> HIDE DEF c
<1>2. p \in Parsers /\ p.end = "no" /\ p.pos <= Len(p.buf)
  BY <1>1, ReadingIs
<1>3. Written(p) \in Parsers
  BY <1>2, WrittenIs
<1>4. UndoBlank(p, 1) \in States
  BY <1>2, UndoBlankIs DEF Parsers
<1>5. Stop(UndoBlank(p, 1)) \in Parsers
  BY <1>4, StopIs
<1> QED BY <1>1, <1>3, <1>5, BecomesIs

LEMMA NulKeeps == ASSUME ParserInv, Nul PROVE ParserInv'
<1>1. Reading("NUL")
  BY DEF Nul
<1>2. p \in Parsers /\ p \in States /\ p.end = "no" /\ Placed(p) /\ Arranged(p)
  BY <1>1, ReadingIs
<1>3. p.pos \in Nat /\ p.first \in Nat /\ Len(p.buf) \in Nat /\ p.pos >= p.first
      /\ p.pos = Len(p.buf) + 1
  BY <1>1, ReadingIs
<1>4. \/ Becomes(Stop(p))
      \/ p.pos # p.first /\ \E q \in AskMore(p) : Becomes(q)
  BY DEF Nul
<1>5. CASE Becomes(Stop(p))
  BY <1>2, <1>5, StopIs, BecomesIs
<1>6. CASE p.pos # p.first /\ \E q \in AskMore(p) : Becomes(q)
  <2>1. PICK q \in AskMore(p) : Becomes(q)
    BY <1>6
  <2>2. p.first <= Len(p.buf)
    BY <1>3, <1>6
  <2>3. /\ q \in States
        /\ q.end = "no" =>
              /\ p.end = "no" /\ Placed(q) /\ q.pos = p.pos /\ q.cmds = p.cmds
              /\ q.element = p.element /\ q.chars = p.chars /\ q.old = p.old
    BY <1>2, <2>2, AskMoreIs
  <2>4. q.end = "no" => Arranged(q)
    BY <1>2, <2>3 DEF Arranged, Argv
  <2>5. q \in Parsers
    BY <2>3, <2>4 DEF Parsers
  <2> QED BY <2>1, <2>5, BecomesIs
<1> QED BY <1>4, <1>5, <1>6

LEMMA GreaterKeeps == ASSUME ParserInv, Greater PROVE ParserInv'
<1> DEFINE c == ">"
           d == At(p, p.pos + 1)
           type == CASE d = "&" -> "FD2FD" [] d = c -> "OUT_APPN"
                     [] OTHER -> "OUT_REDIR"
           i == IF d = c THEN p.pos + 1 ELSE p.pos
           q == IF p.pos = p.first THEN p ELSE UndoBlank(p, 1)
           red == [type |-> type, lhs |-> Lhs(p)]
           r == [q EXCEPT !.cmds[1].redir = red]
<1>1. Reading(c) /\ c # "NUL"
  BY DEF Greater
<1>2. Becomes(Ended(p, "aborted")) \/ Becomes(Fail(p)) \/ Becomes(Target(r, i))
  BY DEF Greater
<1>3. Lhs(p) \in Seq(Character)
  BY <1>1, LhsIs
<1>4. type \in {"NONE", "FD2FD", "OUT_APPN", "OUT_REDIR"}
  OBVIOUS
<1> HIDE DEF c, type
<1>5. p \in Parsers /\ p \in States /\ p.end = "no" /\ p.pos \in Nat
  BY <1>1, ReadingIs
<1>6. i \in Nat /\ i >= p.pos
  BY <1>5
<1>7. CASE Becomes(Ended(p, "aborted"))
  <2>1. Ended(p, "aborted") \in Parsers
    BY <1>5, EndedIs DEF Ends
  <2> QED BY <1>7, <2>1, BecomesIs
<1>8. CASE Becomes(Fail(p))
  BY <1>5, <1>8, FailIs, BecomesIs
<1>9. CASE Becomes(Target(r, i))
  <2>1. q \in Parsers /\ Same(p, q)
    BY <1>5, UndoBlankIs DEF Same
  <2>2. red \in Redirection
    BY <1>3, <1>4 DEF Redirection
  <2> HIDE DEF q, red, d, i
  <2> DEFINE cs == q.cmds
             e == [cs[1] EXCEPT !.redir = red]
             ds == [cs EXCEPT ![1] = e]
             n == Len(cs)
  <2>3. q \in States /\ q \in Locals
    BY <2>1 DEF Parsers, States
  <2>4. cs \in CommandList /\ Len(cs) >= 1 /\ 1 \in 1..Len(cs) /\ n \in 1..Len(cs)
    BY <2>3, ArgvIs DEF Locals
  <2>5. r = [q EXCEPT !.cmds = ds]
    OBVIOUS
  <2> HIDE DEF cs
  <2>6. cs[1] \in Command
    BY <2>4 DEF CommandList
  <2>7. e \in Command /\ e.argv = cs[1].argv
    BY <2>2, <2>6 DEF Command
  <2> HIDE DEF e, n
  <2>8. /\ ds \in CommandList /\ Len(ds) = Len(cs) /\ ds[1] = e
        /\ \A j \in 1..Len(cs) : j # 1 => ds[j] = cs[j]
    BY <2>4, <2>7, LastCommandIs
  <2> HIDE DEF ds
  <2>9. ds[n].argv = cs[n].argv
    BY <2>4, <2>7, <2>8
  <2>10. /\ r \in States /\ Same(q, r) /\ r.cmds = ds /\ r.end = q.end
         /\ r.element = q.element /\ r.chars = q.chars /\ r.old = q.old
    BY <2>3, <2>4, <2>5, <2>8 DEF States, Locals, Same
  <2> HIDE DEF r
  <2>11. Argv(r) = Argv(q)
    BY <2>8, <2>9, <2>10 DEF Argv, Last, cs, n
  <2>12. r \in Parsers
    <3>1. Arranged(q) => Arranged(r)
      BY <2>10, <2>11 DEF Arranged
    <3>2. Placed(q) => Placed(r)
      BY <2>10 DEF Placed, Same
    <3> QED BY <2>1, <2>10, <3>1, <3>2 DEF Parsers
  <2>13. i >= r.pos
    BY <1>6, <2>1, <2>10 DEF Same
  <2>14. Target(r, i) \in Parsers
    BY <1>6, <2>12, <2>13, TargetIs
  <2> QED BY <1>9, <2>14, BecomesIs
<1> QED BY <1>2, <1>7, <1>8, <1>9

(* The locals as filpinfo() initializes them, and once the blanks before   *)
(* the line are skipped.                                                   *)
LEMMA FreshIs ==
    ASSUME NEW line \in Seq(Character)
    PROVE  /\ Fresh(line) \in States /\ Argv(Fresh(line)) = <<<<>>>>
           /\ Fresh(line).pos = 1 /\ Fresh(line).first = 1 /\ Fresh(line).element = 1
           /\ Fresh(line).buf = line
<1> DEFINE cs == <<NewCommand>>
<1>1. NewCommand \in Command /\ NewCommand.argv = <<<<>>>>
  BY NewCommandIs
<1>2. cs \in CommandList /\ Len(cs) = 1 /\ cs[Len(cs)] = NewCommand
  BY <1>1 DEF CommandList
<1>3. 1 \in 0..MaxArgs /\ 0 \in 0..MaxAsked
  BY LinesAssumption
<1> HIDE DEF cs
<1>4. Fresh(line).cmds = cs
  BY DEF Fresh, cs
<1>5. Fresh(line) \in Locals
  BY <1>2, <1>3, <1>4 DEF Fresh, Locals, Ends
<1>6. /\ Fresh(line).pos = 1 /\ Fresh(line).first = 1 /\ Fresh(line).element = 1
      /\ Fresh(line).buf = line
  BY DEF Fresh
<1> DEFINE q == Fresh(line)
<1> HIDE DEF q
<1>7. q \in Locals /\ q.cmds = cs
  BY <1>4, <1>5 DEF q
<1>8. Len(cs) >= 1
  BY <1>2
<1>9. q \in States
  BY <1>7, <1>8 DEF States
<1>10. Argv(q) = <<<<>>>>
  BY <1>1, <1>2, <1>7 DEF Argv, Last
<1> QED BY <1>6, <1>9, <1>10 DEF q

LEMMA BeginIs ==
    ASSUME NEW line \in Seq(Character), p' = Begin(line)
    PROVE  ParserInv'
<1> DEFINE f == Fresh(line)
           one == 1
           q == Skipped(f, one)
           n == q.pos + 1
           r == [q EXCEPT !.pos = n, !.first = n]
<1>1. f \in States /\ Argv(f) = <<<<>>>> /\ f.element = 1 /\ f.buf = line
  BY FreshIs
<1>2. p' = IF q.end = "no" THEN r ELSE q
  BY DEF Begin
<1>6. one \in Nat /\ one >= 1
  OBVIOUS
<1> HIDE DEF f, one
<1>3. /\ q \in States
      /\ q.end = "no" =>
            /\ q = [f EXCEPT !.pos = q.pos] /\ q.pos \in Nat
            /\ q.pos < Len(f.buf) /\ f.buf[q.pos + 1] # " "
  BY <1>1, <1>6, SkippedIs
<1> HIDE DEF q
<1>4. CASE q.end # "no"
  BY <1>2, <1>3, <1>4 DEF ParserInv, Parsers
<1>5. CASE q.end = "no"
  <2>1. /\ q.cmds = f.cmds /\ q.element = 1 /\ q.buf = f.buf
    BY <1>1, <1>3, <1>5 DEF States, Locals
  <2>2. Len(f.buf) \in Nat
    BY <1>1
  <2>10. q.pos \in Nat /\ q.pos < Len(f.buf)
    BY <1>3, <1>5
  <2>3. n \in Nat /\ n >= 1 /\ n <= Len(f.buf)
    BY <2>2, <2>10
  <2>4. f.buf[n] # " "
    BY <1>3, <1>5
  <2> HIDE DEF n
  <2>5. /\ r \in States /\ r.cmds = f.cmds /\ r.element = 1 /\ r.buf = f.buf
        /\ r.pos = n /\ r.first = n
    BY <1>3, <2>1, <2>3 DEF States, Locals
  <2> HIDE DEF r
  <2>6. Argv(r) = <<<<>>>> /\ Len(<<<<>>>>) = 1
    BY <1>1, <2>5 DEF Argv
  <2>7. Arranged(r)
    BY <2>5, <2>6 DEF Arranged
  <2>8. Placed(r)
    <3>1. 1 <= r.first /\ r.first <= r.pos
      BY <2>3, <2>5
    <3>2. r.buf[r.first] # " "
      BY <2>4, <2>5
    <3> QED BY <3>1, <3>2 DEF Placed
  <2>9. r.pos <= Len(r.buf) + 1
    BY <2>2, <2>3, <2>5
  <2> QED BY <1>2, <1>5, <2>5, <2>7, <2>8, <2>9 DEF ParserInv, Parsers
<1> QED BY <1>4, <1>5

LEMMA ReadCharKeeps == ASSUME ParserInv, ReadChar PROVE ParserInv'
BY OrdinaryKeeps, QuotedKeeps, SingleQuoteKeeps, DoubleQuoteKeeps, BackslashKeeps,
   DollarKeeps, TildeKeeps, BlankEndsKeeps, AmpersandKeeps, BarKeeps,
   SemicolonKeeps, HashKeeps, NulKeeps, GreaterKeeps DEF ReadChar

-----------------------------------------------------------------------------
(* The expander                                                            *)

(* y is a record of the locals of ps_expander().                           *)
Shaped(y) ==
    y \in [text : {y.text}, cwd : {y.cwd}, cur : {y.cur}, start : {y.start},
           count : {y.count}, backslash : {y.backslash}, level : {y.level},
           builder : {y.builder}, out : {y.out}, end : {y.end}]

(* The positions are in the text or, of the next part, behind it, and the  *)
(* octal digits are at most three.                                         *)
Within(y) ==
    /\ Shaped(y)
    /\ y.text \in Seq(PromptCharacter \cup Put)
    /\ y.cur \in 1..Len(y.text) /\ y.start \in 1..Len(y.text) + 1
    /\ y.level \in 0..2 /\ y.backslash \in BOOLEAN
    /\ y.end \in {"no", "done", "astray", "hung"}

ExpanderInv == Within(x)

LEMMA AddPartIs ==
    ASSUME NEW y, Within(y), NEW n
    PROVE  Within(AddPart(y, n)) /\ AddPart(y, n).text = y.text
           /\ AddPart(y, n).cur = y.cur
BY DEF AddPart, Within, Shaped

LEMMA AddOwnIs ==
    ASSUME NEW y, Within(y), NEW s
    PROVE  Within(AddOwn(y, s)) /\ AddOwn(y, s).text = y.text
           /\ AddOwn(y, s).cur = y.cur
BY DEF AddOwn, Within, Shaped

LEMMA ResetIs ==
    ASSUME NEW y, Within(y), NEW i \in 1..Len(y.text)
    PROVE  Within(Reset(y, i))
<1> DEFINE n == i + 1
           L == Len(y.text)
           M == L + 1
           r == [y EXCEPT !.start = n, !.cur = i, !.count = 0,
                          !.backslash = FALSE, !.level = 0]
<1>1. L \in Nat /\ y.text \in Seq(PromptCharacter \cup Put)
  BY DEF Within
<1>2. n \in 1..M /\ i \in 1..L /\ 0 \in 0..2
  BY <1>1
<1>3. M = Len(y.text) + 1 /\ L = Len(y.text) /\ Reset(y, i) = r
  BY DEF Reset
<1> HIDE DEF n, L, M
<1>4. /\ Shaped(r) /\ r.text = y.text /\ r.cur = i /\ r.start = n
      /\ r.level = 0 /\ r.backslash = FALSE /\ r.end = y.end
  BY DEF Within, Shaped
<1> HIDE DEF r
<1> QED BY <1>1, <1>2, <1>3, <1>4 DEF Within

(* The end of the turn.                                                    *)
LEMMA GoesIs ==
    ASSUME NEW y, Within(y), Goes(y)
    PROVE  ExpanderInv'
<1>1. CASE y.end # "no"
  BY <1>1 DEF Goes, ExpanderInv
<1>2. CASE x' = [y EXCEPT !.end = "astray"]
  <2> DEFINE z == [y EXCEPT !.end = "astray"]
  <2>1. Within(z)
    BY DEF Within, Shaped
  <2> QED BY <1>2, <2>1 DEF ExpanderInv
<1>3. CASE x' = Finished(y)
  <2> DEFINE z == AddPart(y, Min(From(y, y.start)) - y.start)
             how == IF z.builder = <<>> THEN "astray" ELSE "done"
             r == [z EXCEPT !.out = Yield(z), !.end = how]
  <2>1. Within(z)
    BY AddPartIs
  <2>2. Finished(y) = r
    BY DEF Finished
  <2>3. how \in {"no", "done", "astray", "hung"}
    OBVIOUS
  <2> HIDE DEF z, how
  <2>4. Within(r)
    BY <2>1, <2>3 DEF Within, Shaped
  <2> QED BY <1>3, <2>2, <2>4 DEF ExpanderInv
<1>4. CASE x' = [y EXCEPT !.cur = @ + 1] /\ y.cur # Len(y.text)
  <2> DEFINE L == Len(y.text)
             n == y.cur + 1
             r == [y EXCEPT !.cur = n]
  <2>1. L \in Nat /\ y.cur \in 1..L /\ L = Len(y.text)
    BY DEF Within
  <2>2. n \in 1..L
    BY <1>4, <2>1
  <2> HIDE DEF L, n
  <2>3. /\ Shaped(r) /\ r.text = y.text /\ r.cur = n /\ r.start = y.start
        /\ r.level = y.level /\ r.backslash = y.backslash /\ r.end = y.end
    BY DEF Within, Shaped
  <2>4. x' = r
    BY <1>4 DEF n
  <2> HIDE DEF r
  <2>5. Within(r)
    BY <2>1, <2>2, <2>3 DEF Within
  <2> QED BY <2>4, <2>5 DEF ExpanderInv
<1> QED BY <1>1, <1>2, <1>3, <1>4 DEF Goes

LEMMA KeepKeeps == ASSUME ExpanderInv, Keep PROVE ExpanderInv'
<1> DEFINE y == [x EXCEPT !.count = @ + (IF x.backslash THEN 2 ELSE 1),
                          !.backslash = FALSE]
<1>1. Within(y)
  BY DEF ExpanderInv, Within, Shaped
<1>2. Goes(y)
  BY DEF Keep
<1> HIDE DEF y
<1> QED BY <1>1, <1>2, GoesIs

LEMMA FirstBackslashKeeps == ASSUME ExpanderInv, FirstBackslash PROVE ExpanderInv'
<1> DEFINE y == [x EXCEPT !.backslash = TRUE]
<1>1. Within(y)
  BY DEF ExpanderInv, Within, Shaped
<1>2. Goes(y)
  BY DEF FirstBackslash
<1> HIDE DEF y
<1> QED BY <1>1, <1>2, GoesIs

(* A part is added, and what follows the position is a new one.            *)
LEMMA NewPartIs ==
    ASSUME NEW y, Within(y), NEW n, NEW s, NEW i \in 1..Len(y.text)
    PROVE  /\ Within(Reset(AddPart(y, n), i))
           /\ Within(Reset(AddOwn(AddPart(y, n), s), i))
<1> DEFINE z == AddPart(y, n)
           w == AddOwn(z, s)
<1>1. Within(z) /\ z.text = y.text
  BY AddPartIs
<1> HIDE DEF z
<1>2. Within(w) /\ w.text = y.text
  BY <1>1, AddOwnIs
<1> HIDE DEF w
<1>3. i \in 1..Len(z.text) /\ i \in 1..Len(w.text)
  BY <1>1, <1>2
<1>4. Within(Reset(z, i)) /\ Within(Reset(w, i))
  BY <1>1, <1>2, <1>3, ResetIs
<1> QED BY <1>4 DEF z, w

(* A character of the text is overwritten.                                 *)
LEMMA OverwrittenIs ==
    ASSUME NEW y, Within(y), NEW i, NEW c \in PromptCharacter \cup Put
    PROVE  /\ Within([y EXCEPT !.text[i] = c])
           /\ Len([y EXCEPT !.text[i] = c].text) = Len(y.text)
           /\ [y EXCEPT !.text[i] = c].cur = y.cur
<1> DEFINE T == PromptCharacter \cup Put
           u == y.text
           v == [u EXCEPT ![i] = c]
           z == [y EXCEPT !.text = v]
<1>1. u \in Seq(T)
  BY DEF Within
<1> HIDE DEF T, u
<1>2. c \in T
  BY DEF T
<1>3. v \in Seq(T) /\ Len(v) = Len(u)
  <2>1. CASE i \in 1..Len(u)
    BY <1>1, <1>2, <2>1
  <2>2. CASE i \notin 1..Len(u)
    <3>1. v = u
      BY <1>1, <2>2
    <3> QED BY <1>1, <3>1
  <2> QED BY <2>1, <2>2
<1>4. z = [y EXCEPT !.text[i] = c]
  BY DEF u
<1> HIDE DEF v
<1>5. /\ Shaped(z) /\ z.text = v /\ z.cur = y.cur /\ z.start = y.start
      /\ z.level = y.level /\ z.backslash = y.backslash /\ z.end = y.end
  BY DEF Within, Shaped
<1> HIDE DEF z
<1>6. Within(z)
  BY <1>3, <1>5 DEF Within, T, u
<1> QED BY <1>3, <1>4, <1>5, <1>6 DEF u

LEMMA SecondBackslashKeeps ==
    ASSUME ExpanderInv, SecondBackslash
    PROVE  ExpanderInv'
<1>1. Within(x) /\ x.cur \in 1..Len(x.text)
  BY DEF ExpanderInv, Within
<1>2. Within(Reset(AddPart(x, x.count + 1), x.cur))
  BY <1>1, NewPartIs
<1>3. Goes(Reset(AddPart(x, x.count + 1), x.cur))
  BY DEF SecondBackslash
<1> QED BY <1>2, <1>3, GoesIs

LEMMA ReplaceKeeps == ASSUME ExpanderInv, Replace PROVE ExpanderInv'
<1>1. Within(x) /\ x.cur \in 1..Len(x.text)
  BY DEF ExpanderInv, Within
<1>2. PICK c \in PromptCharacter \cup Put :
          Goes(Reset(AddPart([x EXCEPT !.text[x.cur - 1] = c], x.count + 1), x.cur))
  <2>1. PICK r \in {<<"$", "sign">>, <<"n", "newline">>}
                     \cup (IF HaveReadline THEN {<<"[", "ignore">>} ELSE {}) :
            Goes(Reset(AddPart([x EXCEPT !.text[x.cur - 1] = r[2]], x.count + 1), x.cur))
    BY DEF Replace
  <2>2. r[2] \in {"sign", "newline", "ignore"}
    OBVIOUS
  <2>3. r[2] \in PromptCharacter \cup Put
    BY <2>2 DEF Put
  <2> QED BY <2>1, <2>3
<1> DEFINE y == [x EXCEPT !.text[x.cur - 1] = c]
<1>3. Within(y) /\ Len(y.text) = Len(x.text)
  BY <1>1, OverwrittenIs
<1>4. Goes(Reset(AddPart(y, x.count + 1), x.cur))
  BY <1>2
<1> HIDE DEF y
<1>5. x.cur \in 1..Len(y.text)
  BY <1>1, <1>3
<1>6. Within(Reset(AddPart(y, x.count + 1), x.cur))
  BY <1>3, <1>5, NewPartIs
<1> QED BY <1>4, <1>6, GoesIs

LEMMA SubstituteKeeps == ASSUME ExpanderInv, Substitute PROVE ExpanderInv'
<1>1. Within(x) /\ x.cur \in 1..Len(x.text)
  BY DEF ExpanderInv, Within
<1>2. PICK s : Goes(Reset(AddOwn(AddPart(x, x.count), s), x.cur))
  BY DEF Substitute
<1>3. Within(Reset(AddOwn(AddPart(x, x.count), s), x.cur))
  BY <1>1, NewPartIs
<1> QED BY <1>2, <1>3, GoesIs

LEMMA DateKeeps == ASSUME ExpanderInv, Date PROVE ExpanderInv'
<1> DEFINE L == Len(x.text)
           ends == {i \in x.cur + 2..L : x.text[i] = "}"}
           end == IF ends = {} THEN L ELSE Min(ends)
           at == IF ends = {} THEN end - 1 ELSE end
           y == [x EXCEPT !.text[end] = "NUL"]
           hung == [x EXCEPT !.end = "hung"]
<1>1. Within(x) /\ x.cur \in 1..L /\ L \in Nat
  BY DEF ExpanderInv, Within
<1>2. x.cur < L
  <2>1. NextChar = "{"
    BY DEF Date
  <2>2. NextChar # "NUL"
    BY <2>1
  <2> QED BY <2>2 DEF NextChar
<1>3. PICK s : Goes(hung) \/ Goes(Reset(AddOwn(AddPart(y, x.count), s), at))
  BY DEF Date
<1>4. Within(hung)
  BY <1>1 DEF Within, Shaped
<1>5. at \in 1..L
  <2>1. CASE ends = {}
    <3>1. at = L - 1
      BY <2>1
    <3> HIDE DEF L, at
    <3> QED BY <1>1, <1>2, <3>1
  <2>2. CASE ends # {}
    <3>1. ends \subseteq x.cur + 2..L /\ at = Min(ends)
      BY <2>2
    <3> HIDE DEF ends, at, L
    <3>2. ends \subseteq Nat /\ ends \subseteq 1..L
      BY <1>1, <3>1
    <3>3. Min(ends) \in ends
      BY <2>2, <3>2, MinIs
    <3> QED BY <3>1, <3>2, <3>3
  <2> QED BY <2>1, <2>2
<1> HIDE DEF at, end, hung
<1>6. "NUL" \in PromptCharacter \cup Put
  BY DEF Put
<1>7. Within(y) /\ Len(y.text) = L
  BY <1>1, <1>6, OverwrittenIs
<1> HIDE DEF y, L
<1>8. Within(Reset(AddOwn(AddPart(y, x.count), s), at))
  BY <1>5, <1>7, NewPartIs
<1> QED BY <1>3, <1>4, <1>8, GoesIs

LEMMA OctalKeeps == ASSUME ExpanderInv, Octal PROVE ExpanderInv'
<1> DEFINE n == x.level + 1
           c == <<"oct1", "oct11", "oct111">>[n]
           y == [x EXCEPT !.text[x.cur - n] = c]
           more == [x EXCEPT !.level = n, !.backslash = FALSE]
<1>1. Within(x) /\ x.cur \in 1..Len(x.text)
  BY DEF ExpanderInv, Within
<1>2. n \in 1..3
  BY <1>1 DEF Within
<1>3. \/ n < 3 /\ Goes(more)
      \/ Goes(Reset(AddPart(y, x.count + 1), x.cur))
  BY DEF Octal
<1>4. c \in PromptCharacter \cup Put
  <2> HIDE DEF n
  <2>1. n = 1 \/ n = 2 \/ n = 3
    BY <1>2
  <2> QED BY <2>1 DEF Put
<1> HIDE DEF n, c
<1>5. n < 3 => Within(more)
  <2>1. n < 3 => n \in 0..2
    BY <1>2
  <2> QED BY <1>1, <2>1 DEF Within, Shaped
<1>6. Within(y) /\ Len(y.text) = Len(x.text)
  BY <1>1, <1>4, OverwrittenIs
<1> HIDE DEF y, more
<1>7. x.cur \in 1..Len(y.text)
  BY <1>1, <1>6
<1>8. Within(Reset(AddPart(y, x.count + 1), x.cur))
  BY <1>6, <1>7, NewPartIs
<1> QED BY <1>3, <1>5, <1>8, GoesIs

LEMMA ExpandCharKeeps == ASSUME ExpanderInv, ExpandChar PROVE ExpanderInv'
BY KeepKeeps, FirstBackslashKeeps, SecondBackslashKeeps, ReplaceKeeps,
   SubstituteKeeps, DateKeeps, OctalKeeps DEF ExpandChar

(* The prompt as it is before its first character.                         *)
LEMMA ExpandingIs ==
    ASSUME NEW ps1 \in Seq(PromptCharacter), NEW cwd
    PROVE  Within(Expanding(ps1, cwd))
<1> DEFINE T == PromptCharacter \cup Put
           u == Append(ps1, "NUL")
           y == Expanding(ps1, cwd)
<1>1. ps1 \in Seq(T) /\ "NUL" \in T
  BY DEF Put
<1> HIDE DEF T
<1>2. u \in Seq(T) /\ Len(u) = Len(ps1) + 1 /\ Len(ps1) \in Nat
  BY <1>1
<1>3. Len(u) \in Nat /\ Len(u) >= 1
  BY <1>2
<1> HIDE DEF u
<1>4. 1 \in 1..Len(u) /\ 1 \in 1..Len(u) + 1
  BY <1>3
<1>5. y = [text |-> u, cwd |-> cwd, cur |-> 1, start |-> 1, count |-> 0,
           backslash |-> FALSE, level |-> 0, builder |-> <<>>, out |-> <<>>,
           end |-> "no"]
  BY DEF Expanding, u
<1> HIDE DEF y
<1>6. /\ y.text = u /\ y.cur = 1 /\ y.start = 1 /\ y.level = 0
      /\ y.backslash = FALSE /\ y.end = "no"
  BY <1>5
<1>7. Shaped(y)
  BY <1>5 DEF Shaped
<1>8. y.text \in Seq(PromptCharacter \cup Put)
  BY <1>2, <1>6 DEF T
<1>9. y.cur \in 1..Len(y.text) /\ y.start \in 1..Len(y.text) + 1
  BY <1>4, <1>6
<1>11. /\ y.level \in 0..2 /\ y.backslash \in BOOLEAN
       /\ y.end \in {"no", "done", "astray", "hung"}
  <2>1. y.level \in 0..2
    BY <1>6
  <2>2. y.backslash \in BOOLEAN
    BY <1>6
  <2>3. y.end \in {"no", "done", "astray", "hung"}
    BY <1>6
  <2> QED BY <2>1, <2>2, <2>3
<1>10. Within(y)
  BY <1>7, <1>8, <1>9, <1>11 DEF Within
<1> QED BY <1>10 DEF y

-----------------------------------------------------------------------------
(* The main loop                                                           *)

FrontendInv ==
    mode \in Modes /\ session \in Sessions /\ ExpanderInv /\ ParserInv

LEMMA SessionIs ==
    ASSUME session \in Sessions
    PROVE  session.ps1 \in Seq(PromptCharacter) /\ session.line \in Seq(Character)
BY SessionsAssumption

LEMMA NoLineIs ==
    /\ p = Fresh(<<>>) => ParserInv
    /\ p' = Fresh(<<>>) => ParserInv'
<1> DEFINE q == Fresh(<<>>)
<1>1. <<>> \in Seq(Character)
  OBVIOUS
<1>2. /\ q \in States /\ Argv(q) = <<<<>>>> /\ q.pos = 1 /\ q.first = 1
      /\ q.element = 1 /\ q.buf = <<>>
  BY <1>1, FreshIs
<1> HIDE DEF q
<1>3. Len(<<>>) = 0 /\ Len(<<<<>>>>) = 1
  OBVIOUS
<1>4. Arranged(q)
  BY <1>2, <1>3 DEF Arranged
<1>5. Placed(q)
  BY <1>2, <1>3 DEF Placed
<1>6. q \in Parsers /\ q.pos <= Len(q.buf) + 1
  BY <1>2, <1>3, <1>4, <1>5 DEF Parsers
<1> QED BY <1>6 DEF ParserInv, q

LEMMA InitHolds == Init => FrontendInv
<1> SUFFICES ASSUME Init PROVE FrontendInv
  OBVIOUS
<1>1. /\ session \in Sessions /\ mode = "expanding" /\ p = Fresh(<<>>)
      /\ x = Expanding(session.ps1, session.cwd)
  BY DEF Init
<1>2. ExpanderInv
  BY <1>1, SessionIs, ExpandingIs DEF ExpanderInv
<1>3. ParserInv
  BY <1>1, NoLineIs
<1> QED BY <1>1, <1>2, <1>3 DEF FrontendInv, Modes

LEMMA StepHolds == FrontendInv /\ [Next]_vars => FrontendInv'
<1> SUFFICES ASSUME FrontendInv, [Next]_vars PROVE FrontendInv'
  OBVIOUS
<1>1. mode \in Modes /\ session \in Sessions /\ ExpanderInv /\ ParserInv
  BY DEF FrontendInv
<1>2. ASSUME UNCHANGED <<session, x, p>>, mode' \in Modes PROVE FrontendInv'
  BY <1>1, <1>2 DEF FrontendInv, ExpanderInv, ParserInv
<1>3. CASE Expand
  <2>1. ExpanderInv'
    BY <1>1, <1>3, ExpandCharKeeps DEF Expand
  <2>2. ParserInv'
    BY <1>1, <1>3 DEF Expand, ParserInv
  <2> QED BY <1>1, <1>3, <2>1, <2>2 DEF Expand, FrontendInv
<1>4. CASE Prompt
  <2>1. session' = session /\ mode' = "expanding" /\ p' = Fresh(<<>>)
    BY <1>4 DEF Prompt
  <2>2. x' = Expanding(session.ps1, session.cwd)
    BY <1>4 DEF Prompt
  <2>3. ExpanderInv'
    BY <1>1, <2>2, SessionIs, ExpandingIs DEF ExpanderInv
  <2>4. ParserInv'
    BY <2>1, NoLineIs
  <2> QED BY <1>1, <2>1, <2>3, <2>4 DEF FrontendInv, Modes
<1>5. CASE ReadLine
  <2>1. p' = Begin(session.line) /\ mode' = "parsing" /\ UNCHANGED <<session, x>>
    BY <1>5 DEF ReadLine
  <2>2. ParserInv'
    BY <1>1, <2>1, SessionIs, BeginIs
  <2>3. ExpanderInv'
    BY <1>1, <2>1 DEF ExpanderInv
  <2> QED BY <1>1, <2>1, <2>2, <2>3 DEF FrontendInv, Modes
<1>6. CASE Parse
  <2>1. ReadChar /\ UNCHANGED <<mode, session, x>>
    BY <1>6 DEF Parse
  <2>2. ParserInv'
    BY <1>1, <2>1, ReadCharKeeps
  <2>3. ExpanderInv'
    BY <1>1, <2>1 DEF ExpanderInv
  <2> QED BY <1>1, <2>1, <2>2, <2>3 DEF FrontendInv
<1>7. CASE ShowPrompt
  BY <1>2, <1>7 DEF ShowPrompt, Modes
<1>8. CASE EndOfInput
  BY <1>2, <1>8 DEF EndOfInput, Modes
<1>9. CASE HandOver
  BY <1>2, <1>9 DEF HandOver, Modes
<1>10. CASE Crash
  BY <1>2, <1>10 DEF Crash, Modes
<1>11. CASE UNCHANGED vars
  BY <1>1, <1>2, <1>11 DEF vars
<1>12. CASE RunExits
  BY <1>2, <1>12 DEF RunExits, Modes
<1> QED BY <1>3, <1>4, <1>5, <1>6, <1>7, <1>8, <1>9, <1>10, <1>11, <1>12
        DEF Next, MainLoop, EmptyLine, SyntaxError, CommandsRun

LEMMA Invariance == Spec => []FrontendInv
BY InitHolds, StepHolds, PTL DEF Spec

(* The expander and the parser stay within their texts, their elements and *)
(* their digits, whatever the prompts and the lines are, until the parser  *)
(* accesses what is not its own, where it has ended as "astray".           *)
THEOREM TypeCorrect == Spec => []TypeOK
<1>1. FrontendInv => TypeOK
  <2> SUFFICES ASSUME FrontendInv PROVE TypeOK
    OBVIOUS
  <2>1. mode \in Modes /\ Within(x) /\ p \in Locals
    BY DEF FrontendInv, ExpanderInv, ParserInv, Parsers, States
  <2>2. /\ x.end \in {"no", "done", "astray", "hung"}
        /\ x.cur \in 1..Len(x.text) /\ x.start \in 1..Len(x.text) + 1
        /\ x.level \in 0..2 /\ x.backslash \in BOOLEAN
    BY <2>1 DEF Within
  <2>3. /\ p.end \in {"no", "done", "astray", "eof", "aborted"}
        /\ p.ret \in {"empty", "some", "error"}
        /\ p.redirecting \in {"no", "fd", "file"}
        /\ p.asked \in 0..MaxAsked /\ p.element \in 0..MaxArgs
        /\ p.squote \in BOOLEAN /\ p.dquote \in BOOLEAN
    BY <2>1 DEF Locals, Ends
  <2> QED BY <2>1, <2>2, <2>3 DEF TypeOK
<1> QED BY <1>1, Invariance, PTL

(* No command is given a null pointer before the last of its elements: an  *)
(* element that was taken back was the last one, and what is written next  *)
(* goes to a new element.                                                  *)
THEOREM NoGapsCorrect == Spec => []NoGaps
<1>1. FrontendInv => NoGaps
  <2> SUFFICES ASSUME FrontendInv, NEW i \in DOMAIN p.cmds,
                      NEW j \in DOMAIN p.cmds[i].argv, p.cmds[i].argv[j] = NoCell
               PROVE  j = Len(p.cmds[i].argv)
    BY DEF NoGaps
  <2> DEFINE cs == p.cmds
             a == cs[i].argv
  <2>1. cs \in CommandList
    BY DEF FrontendInv, ParserInv, Parsers, States, Locals
  <2> HIDE DEF cs
  <2>2. cs[i] \in Command
    BY <2>1 DEF CommandList, cs
  <2>3. a \in Arguments
    BY <2>2 DEF Command
  <2>4. j \in DOMAIN a /\ a[j] = NoCell
    BY DEF cs
  <2> HIDE DEF a
  <2>5. a \in Seq(Cell) /\ \A k \in 1..Len(a) : k < Len(a) => a[k] # NoCell
    BY <2>3 DEF Arguments
  <2>6. j \in 1..Len(a) /\ Len(a) \in Nat
    BY <2>4, <2>5
  <2>7. j = Len(a)
    BY <2>4, <2>5, <2>6
  <2> QED BY <2>7 DEF a, cs
<1> QED BY <1>1, Invariance, PTL

-----------------------------------------------------------------------------
(* The pieces of a builder                                                 *)

Joined(a, b) == a \o b
Joining == INSTANCE LeftFolds WITH Op <- Joined

LEMMA FlattenIs ==
    ASSUME NEW S, NEW ss \in Seq(Seq(S))
    PROVE  FlattenSeq(ss) = Joining!Fold(<<>>, ss)
<1> DEFINE n == Len(ss)
           F(f, i) == IF i = 1 THEN ss[i] ELSE f[i - 1] \o ss[i]
           f == CHOOSE f : f = [i \in 1..n |-> F(f, i)]
<1>1. n \in Nat /\ DOMAIN ss = 1..n /\ \A i \in 1..n : ss[i] \in Seq(S)
  OBVIOUS
<1>2. FlattenSeq(ss) = IF n = 0 THEN ss ELSE f[n]
  BY DEF FlattenSeq
<1> HIDE DEF n
<1>3. PICK g : Joining!Steps(g, n, <<>>, ss)
  BY <1>1, Joining!FoldPrefixes
<1>4. /\ g[0] = <<>> /\ Joining!Fold(<<>>, ss) = g[n]
      /\ \A j \in 1..n : g[j] = g[j - 1] \o ss[j]
  BY <1>3 DEF Joining!Steps, Joined
<1>5. CASE n = 0
  <2>1. ss = <<>>
    BY <1>5 DEF n
  <2> QED BY <1>2, <1>4, <1>5, <2>1
<1>6. CASE n # 0
  <2>1. g[1] = ss[1]
    <3>1. 1 \in 1..n
      BY <1>1, <1>6
    <3>2. 1 - 1 = 0
      OBVIOUS
    <3>3. g[1] = g[0] \o ss[1]
      BY <1>4, <3>1, <3>2
    <3>4. ss[1] \in Seq(S)
      BY <1>1, <3>1
    <3> QED BY <1>4, <3>3, <3>4, ConcatEmptySeq
  <2> DEFINE h == [i \in 1..n |-> g[i]]
  <2>2. h = [i \in 1..n |-> F(h, i)]
    <3> SUFFICES ASSUME NEW i \in 1..n PROVE g[i] = F(h, i)
      OBVIOUS
    <3>1. CASE i = 1
      BY <2>1, <3>1
    <3>2. CASE i # 1
      <4>1. i - 1 \in 1..n
        BY <1>1, <3>2
      <4>2. h[i - 1] = g[i - 1]
        BY <4>1
      <4> QED BY <1>4, <3>2, <4>2
    <3> QED BY <3>1, <3>2
  <2> HIDE DEF h
  <2>3. f = [i \in 1..n |-> F(f, i)]
    BY <2>2
  <2> HIDE DEF f
  <2>4. \A i \in 1..n : f[i] = F(f, i)
    BY <2>3
  <2> DEFINE S1 == {j \in 0..n : j = 0 \/ f[j] = g[j]}
  <2>5. 0 \in S1
    BY <1>1
  <2>6. ASSUME NEW j \in 0..n, j < n, j \in S1 PROVE j + 1 \in S1
    <3>1. j + 1 \in 1..n /\ (j + 1) - 1 = j /\ j + 1 \in 0..n
      BY <1>1, <2>6
    <3>2. CASE j = 0
      <4>1. f[1] = ss[1]
        BY <2>4, <3>1, <3>2
      <4> QED BY <2>1, <3>1, <3>2, <4>1
    <3>3. CASE j # 0
      <4>1. f[j] = g[j]
        BY <2>6, <3>3
      <4>2. j + 1 # 1
        BY <3>3
      <4>3. f[j + 1] = f[j] \o ss[j + 1]
        BY <2>4, <3>1, <4>2
      <4>4. g[j + 1] = g[j] \o ss[j + 1]
        BY <1>4, <3>1
      <4> QED BY <3>1, <4>1, <4>3, <4>4
    <3> QED BY <3>2, <3>3
  <2> HIDE DEF S1
  <2>7. 0..n \subseteq S1
    BY <1>1, <2>5, <2>6, Joining!BoundedInduction
  <2>8. f[n] = g[n]
    BY <1>1, <1>6, <2>7 DEF S1
  <2> QED BY <1>2, <1>4, <1>6, <2>8
<1> QED BY <1>5, <1>6

LEMMA FlattenStays ==
    ASSUME NEW S, NEW ss \in Seq(Seq(S))
    PROVE  FlattenSeq(ss) \in Seq(S)
<1> DEFINE n == Len(ss)
           T == Seq(S)
<1>1. n \in Nat /\ DOMAIN ss = 1..n /\ \A i \in 1..n : ss[i] \in T
  OBVIOUS
<1>2. \A a \in T : \A j \in 1..n : Joined(a, ss[j]) \in T
  BY <1>1, ConcatProperties DEF Joined
<1>3. <<>> \in T
  OBVIOUS
<1> HIDE DEF n, T
<1>4. Joining!Fold(<<>>, ss) \in T
  BY <1>1, <1>2, <1>3, Joining!FoldStaysIn
<1> QED BY <1>4, FlattenIs DEF T

LEMMA FlattenAppend ==
    ASSUME NEW S, NEW ss \in Seq(Seq(S)), NEW e \in Seq(S)
    PROVE  FlattenSeq(Append(ss, e)) = FlattenSeq(ss) \o e
<1> DEFINE n == Len(ss)
           t == Append(ss, e)
<1>1. n \in Nat /\ DOMAIN ss = 1..n /\ t \in Seq(Seq(S))
  OBVIOUS
<1>2. DOMAIN t = 1..(n + 1) /\ t[n + 1] = e /\ \A j \in 1..n : t[j] = ss[j]
  OBVIOUS
<1> HIDE DEF n, t
<1>3. Joining!Fold(<<>>, t) = Joined(Joining!Fold(<<>>, ss), t[n + 1])
  BY <1>1, <1>2, Joining!FoldExtends
<1>4. FlattenSeq(t) = Joining!Fold(<<>>, t) /\ FlattenSeq(ss) = Joining!Fold(<<>>, ss)
  BY <1>1, FlattenIs
<1> QED BY <1>2, <1>3, <1>4 DEF t, Joined
-----------------------------------------------------------------------------
(* What is in a prompt that is shown.                                      *)
Glyph == PromptCharacter \cup Put \cup {"user", "time"}

LEMMA PromptText ==
    ASSUME NEW u \in Seq(PromptCharacter \cup Put)
    PROVE  u \in Seq(Glyph)
BY SeqMonotonic DEF Glyph

(* A piece of the builder, that points before n.                           *)
PieceOf(text, b) == SubSeq(text, b.from, b.from + b.length - 1) \o b.own
PieceBefore(n) ==
    {b \in [from : Nat, length : Nat, own : Seq(Glyph)] :
        /\ b.from >= 1 /\ b.from + b.length <= n
        /\ b.length > 0 \/ b.own # <<>>}

LEMMA PieceIs ==
    ASSUME NEW u \in Seq(Glyph), NEW n \in 1..(Len(u) + 1), NEW b \in PieceBefore(n)
    PROVE  PieceOf(u, b) \in Seq(Glyph) /\ PieceOf(u, b) # <<>>
<1> DEFINE k == b.from
           m == b.from + b.length - 1
           s == SubSeq(u, k, m)
<1>1. /\ k \in Nat /\ b.length \in Nat /\ b.own \in Seq(Glyph) /\ k >= 1
      /\ k + b.length <= n /\ (b.length > 0 \/ b.own # <<>>)
  BY DEF PieceBefore
<1>2. Len(u) \in Nat /\ n <= Len(u) + 1 /\ n \in Nat
  OBVIOUS
<1>3. k \in Int /\ m \in Int /\ m <= Len(u) /\ (b.length > 0 => k <= m)
  BY <1>1, <1>2
<1>4. PieceOf(u, b) = s \o b.own
  BY DEF PieceOf
<1> HIDE DEF k, m
<1>5. \A j \in k..m : u[j] \in Glyph
  BY <1>1, <1>2, <1>3
<1>6. s \in Seq(Glyph) /\ Len(s) = IF k <= m THEN m - k + 1 ELSE 0
  BY <1>3, <1>5, SubSeqProperties
<1> HIDE DEF s
<1>7. b.length > 0 => s # <<>>
  BY <1>1, <1>3, <1>6
<1>8. s \o b.own \in Seq(Glyph) /\ (s \o b.own = <<>> <=> s = <<>> /\ b.own = <<>>)
  BY <1>1, <1>6, ConcatProperties, ConcatEqualIffEmpty
<1> QED BY <1>1, <1>4, <1>7, <1>8

(* What is written behind a piece does not change it.                      *)
LEMMA PieceStays ==
    ASSUME NEW u \in Seq(Glyph), NEW v \in Seq(Glyph), Len(u) = Len(v),
           NEW n \in 1..(Len(u) + 1), \A j \in 1..(n - 1) : u[j] = v[j],
           NEW b \in PieceBefore(n)
    PROVE  PieceOf(u, b) = PieceOf(v, b)
<1> DEFINE k == b.from
           m == b.from + b.length - 1
           s == SubSeq(u, k, m)
           t == SubSeq(v, k, m)
<1>1. k \in Nat /\ b.length \in Nat /\ k >= 1 /\ k + b.length <= n
  BY DEF PieceBefore
<1>2. Len(u) \in Nat /\ n <= Len(u) + 1 /\ n \in Nat
  OBVIOUS
<1>3. k \in Int /\ m \in Int /\ m <= n - 1 /\ m <= Len(u)
  BY <1>1, <1>2
<1>4. PieceOf(u, b) = s \o b.own /\ PieceOf(v, b) = t \o b.own
  BY DEF PieceOf
<1> HIDE DEF k, m
<1>5. \A j \in k..m : u[j] \in Glyph /\ v[j] \in Glyph /\ u[j] = v[j]
  BY <1>1, <1>2, <1>3
<1>6. /\ s \in Seq(Glyph) /\ Len(s) = IF k <= m THEN m - k + 1 ELSE 0
      /\ \A i \in 1..(m - k + 1) : s[i] = u[k + i - 1]
  BY <1>3, <1>5, SubSeqProperties
<1>7. /\ t \in Seq(Glyph) /\ Len(t) = IF k <= m THEN m - k + 1 ELSE 0
      /\ \A i \in 1..(m - k + 1) : t[i] = v[k + i - 1]
  BY <1>3, <1>5, SubSeqProperties
<1> HIDE DEF s, t
<1>8. Len(s) = Len(t) /\ \A i \in 1..Len(s) : s[i] = t[i]
  BY <1>1, <1>3, <1>5, <1>6, <1>7
<1>9. s = t
  BY <1>6, <1>7, <1>8, SeqEqual
<1> QED BY <1>4, <1>9

(* The builder has pieces before n, which make up out.                     *)
Pieces(u, builder) == [i \in DOMAIN builder |-> PieceOf(u, builder[i])]
Built(u, builder, n, out) ==
    /\ builder \in Seq(PieceBefore(n))
    /\ FlattenSeq(Pieces(u, builder)) = out
    /\ builder = <<>> <=> out = <<>>

LEMMA PiecesAre ==
    ASSUME NEW u \in Seq(Glyph), NEW n \in 1..(Len(u) + 1),
           NEW builder \in Seq(PieceBefore(n))
    PROVE  /\ Pieces(u, builder) \in Seq(Seq(Glyph))
           /\ Len(Pieces(u, builder)) = Len(builder)
           /\ \A i \in 1..Len(builder) : Pieces(u, builder)[i] = PieceOf(u, builder[i])
<1> DEFINE L == Len(builder)
           T == Seq(Glyph)
           f == [i \in 1..L |-> PieceOf(u, builder[i])]
<1>1. L \in Nat /\ DOMAIN builder = 1..L
  OBVIOUS
<1>2. Pieces(u, builder) = f
  BY <1>1 DEF Pieces
<1>3. \A i \in 1..L : PieceOf(u, builder[i]) \in T
  BY <1>1, PieceIs
<1> HIDE DEF L, T
<1>4. f \in Seq(T) /\ Len(f) = L /\ \A i \in 1..L : f[i] = PieceOf(u, builder[i])
  BY <1>1, <1>3
<1> QED BY <1>2, <1>4 DEF L, T

LEMMA PieceBeforeIs ==
    ASSUME NEW n \in Nat, NEW m \in Nat, n <= m
    PROVE  PieceBefore(n) \subseteq PieceBefore(m)
BY DEF PieceBefore

(* More text is behind the pieces.                                         *)
LEMMA BuiltOn ==
    ASSUME NEW u \in Seq(Glyph), NEW v \in Seq(Glyph), Len(u) = Len(v),
           NEW n \in 1..(Len(u) + 1), \A j \in 1..(n - 1) : u[j] = v[j],
           NEW m \in n..(Len(u) + 1),
           NEW builder, NEW out, Built(u, builder, n, out)
    PROVE  Built(v, builder, m, out)
<1>1. builder \in Seq(PieceBefore(n))
  BY DEF Built
<1>2. n \in Nat /\ m \in Nat /\ n <= m /\ Len(u) \in Nat
  OBVIOUS
<1>3. builder \in Seq(PieceBefore(m))
  BY <1>1, <1>2, PieceBeforeIs, SeqMonotonic
<1>4. \A i \in DOMAIN builder : builder[i] \in PieceBefore(n)
  BY <1>1
<1>5. \A i \in DOMAIN builder : PieceOf(u, builder[i]) = PieceOf(v, builder[i])
  BY <1>4, PieceStays
<1>6. Pieces(u, builder) = Pieces(v, builder)
  BY <1>5 DEF Pieces
<1> QED BY <1>3, <1>6 DEF Built

LEMMA BuiltIs ==
    ASSUME NEW u \in Seq(Glyph), NEW n \in 1..(Len(u) + 1),
           NEW builder, NEW out, Built(u, builder, n, out)
    PROVE  out \in Seq(Glyph)
BY PiecesAre, FlattenStays DEF Built

(* One more piece.                                                         *)
LEMMA BuiltNext ==
    ASSUME NEW u \in Seq(Glyph), NEW n \in 1..(Len(u) + 1), NEW b \in PieceBefore(n),
           NEW builder, NEW out, Built(u, builder, n, out)
    PROVE  Built(u, Append(builder, b), n, out \o PieceOf(u, b))
<1> DEFINE more == Append(builder, b)
           e == PieceOf(u, b)
           ss == Pieces(u, builder)
           tt == Pieces(u, more)
           T == Seq(Glyph)
           P == PieceBefore(n)
<1>1. builder \in Seq(P) /\ FlattenSeq(ss) = out
  BY DEF Built
<1>2. more \in Seq(P)
  BY <1>1
<1>3. /\ ss \in Seq(T) /\ Len(ss) = Len(builder)
      /\ \A i \in 1..Len(builder) : ss[i] = PieceOf(u, builder[i])
  BY <1>1, PiecesAre
<1>4. /\ tt \in Seq(T) /\ Len(tt) = Len(more)
      /\ \A i \in 1..Len(more) : tt[i] = PieceOf(u, more[i])
  BY <1>2, PiecesAre
<1>5. e \in T /\ e # <<>>
  BY PieceIs
<1> HIDE DEF T, P, ss, tt
<1>6. /\ Len(builder) \in Nat /\ Len(more) = Len(builder) + 1 /\ more # <<>>
      /\ more[Len(builder) + 1] = b
      /\ \A i \in 1..Len(builder) : more[i] = builder[i]
  BY <1>1
<1> HIDE DEF more
<1>7. tt = Append(ss, e)
  <2> DEFINE aa == Append(ss, e)
             K == Len(builder)
  <2>1. K \in Nat /\ Len(ss) = K /\ ss \in Seq(T)
    BY <1>3, <1>6
  <2>2. tt[K + 1] = e /\ \A i \in 1..K : tt[i] = ss[i]
    <3>1. K + 1 \in 1..Len(more) /\ \A i \in 1..K : i \in 1..Len(more)
      BY <1>6
    <3> QED BY <1>3, <1>4, <1>6, <3>1
  <2> HIDE DEF K
  <2>3. /\ aa \in Seq(T) /\ Len(aa) = K + 1 /\ aa[K + 1] = e
        /\ \A i \in 1..K : aa[i] = ss[i]
    BY <1>5, <2>1, AppendProperties
  <2>4. Len(tt) = K + 1
    BY <1>4, <1>6 DEF K
  <2> HIDE DEF aa
  <2>5. \A i \in 1..Len(tt) : tt[i] = aa[i]
    BY <2>1, <2>2, <2>3, <2>4
  <2>6. tt = aa
    BY <1>4, <2>3, <2>4, <2>5, SeqEqual
  <2> QED BY <2>6 DEF aa
<1>8. FlattenSeq(tt) = out \o e
  BY <1>1, <1>3, <1>5, <1>7, FlattenAppend DEF T
<1>9. out \in T
  BY BuiltIs DEF T
<1>10. out \o e # <<>>
  BY <1>5, <1>9, ConcatEqualIffEmpty DEF T
<1> QED BY <1>2, <1>6, <1>8, <1>10 DEF Built, P, tt, more
(* psh_stringbuilder_add_length, of the k characters from n on.            *)
LEMMA PartAdded ==
    ASSUME NEW y, Within(y), NEW u \in Seq(Glyph), NEW n \in 1..(Len(u) + 1),
           y.start = n, NEW k \in Nat, n + k <= Len(u) + 1,
           NEW out, Built(u, y.builder, n, out)
    PROVE  Built(u, AddPart(y, k).builder, n + k, out \o SubSeq(u, n, n + k - 1))
<1> DEFINE m == n + k
           b == [from |-> n, length |-> k, own |-> <<>>]
           s == SubSeq(u, n, m - 1)
<1>1. n \in Nat /\ Len(u) \in Nat /\ m \in n..(Len(u) + 1) /\ m \in 1..(Len(u) + 1)
  OBVIOUS
<1>2. out \in Seq(Glyph)
  BY BuiltIs
<1>3. CASE k = 0
  <2>1. n + k - 1 < n /\ n + k - 1 \in Int /\ n \in Int /\ n + k = n
    BY <1>1, <1>3
  <2>2. SubSeq(u, n, n + k - 1) = <<>>
    BY <2>1, SubSeqEmpty
  <2>3. AddPart(y, k).builder = y.builder
    BY <1>3 DEF AddPart
  <2>4. out \o <<>> = out
    BY <1>2, ConcatEmptySeq
  <2> QED BY <2>1, <2>2, <2>3, <2>4
<1>4. CASE k # 0
  <2>1. AddPart(y, k).builder = Append(y.builder, b)
    BY <1>4 DEF AddPart, Within, Shaped
  <2>2. Built(u, y.builder, m, out)
    BY <1>1, BuiltOn
  <2>3. b \in PieceBefore(m)
    <3>1. /\ b.from = n /\ b.length = k /\ b.own = <<>>
          /\ b \in [from : Nat, length : Nat, own : Seq(Glyph)]
      BY <1>1, EmptySeq
    <3> HIDE DEF b
    <3>2. n >= 1 /\ n + k <= m /\ k > 0
      BY <1>1, <1>4
    <3> QED BY <3>1, <3>2 DEF PieceBefore
  <2>4. PieceOf(u, b) = s
    <3>1. PieceOf(u, b) = SubSeq(u, n, n + k - 1) \o <<>>
      BY DEF PieceOf
    <3>2. s \in Seq(Glyph)
      <4>1. \A j \in n..(m - 1) : u[j] \in Glyph
        BY <1>1
      <4>2. n \in Int /\ m - 1 \in Int
        BY <1>1
      <4> QED BY <4>1, <4>2, SubSeqProperties
    <3> QED BY <3>1, <3>2, ConcatEmptySeq
  <2> HIDE DEF m, b, s
  <2>5. Built(u, Append(y.builder, b), m, out \o s)
    BY <1>1, <2>2, <2>3, <2>4, BuiltNext
  <2> QED BY <2>1, <2>5 DEF m, s
<1> QED BY <1>3, <1>4

(* psh_stringbuilder_add                                                   *)
LEMMA OwnAdded ==
    ASSUME NEW y, Within(y), NEW u \in Seq(Glyph), NEW n \in 1..(Len(u) + 1),
           NEW s \in Seq(Glyph), NEW out, Built(u, y.builder, n, out)
    PROVE  Built(u, AddOwn(y, s).builder, n, out \o s)
<1> DEFINE b == [from |-> 1, length |-> 0, own |-> s]
<1>1. n \in Nat /\ n >= 1
  OBVIOUS
<1>2. out \in Seq(Glyph)
  BY BuiltIs
<1>3. CASE s = <<>>
  <2>1. AddOwn(y, s) = y
    BY <1>3 DEF AddOwn
  <2>2. out \o s = out
    BY <1>2, <1>3, ConcatEmptySeq
  <2> QED BY <2>1, <2>2
<1>4. CASE s # <<>>
  <2>1. AddOwn(y, s).builder = Append(y.builder, b)
    BY <1>4 DEF AddOwn, Within, Shaped
  <2>2. b \in PieceBefore(n)
    <3>1. /\ b.from = 1 /\ b.length = 0 /\ b.own = s
          /\ b \in [from : Nat, length : Nat, own : Seq(Glyph)]
      OBVIOUS
    <3> HIDE DEF b
    <3>2. 1 >= 1 /\ 1 + 0 <= n
      BY <1>1
    <3> QED BY <1>4, <3>1, <3>2 DEF PieceBefore
  <2>3. PieceOf(u, b) = s
    <3>1. PieceOf(u, b) = SubSeq(u, 1, 1 + 0 - 1) \o s
      BY DEF PieceOf
    <3>2. SubSeq(u, 1, 1 + 0 - 1) = <<>>
      BY SubSeqEmpty
    <3> QED BY <3>1, <3>2, ConcatEmptySeq
  <2> HIDE DEF b
  <2>4. Built(u, Append(y.builder, b), n, out \o PieceOf(u, b))
    BY <2>2, BuiltNext
  <2> QED BY <2>1, <2>3, <2>4
<1> QED BY <1>3, <1>4

-----------------------------------------------------------------------------
(* What stands for the escapes                                             *)

LEMMA MaxOf ==
    ASSUME NEW n \in Nat, NEW S, S \subseteq 1..n, S # {}
    PROVE  Max(S) \in S
<1> DEFINE T == {n - j : j \in S}
<1>1. T \subseteq Nat /\ T # {}
  OBVIOUS
<1>2. PICK m \in T : \A i \in T : m <= i
  BY <1>1, MinIs
<1>3. PICK j \in S : m = n - j
  BY <1>2
<1>4. \A i \in S : n - i \in T
  OBVIOUS
<1> HIDE DEF T
<1>5. \A i \in S : j >= i
  <2> TAKE i \in S
  <2>1. m <= n - i
    BY <1>2, <1>4
  <2>2. i \in 1..n /\ j \in 1..n
    BY <1>3
  <2> QED BY <1>3, <2>1, <2>2
<1>6. Max(S) = CHOOSE i \in S : \A k \in S : i >= k
  BY DEF Max
<1> QED BY <1>3, <1>5, <1>6

LEMMA PartIs ==
    ASSUME NEW S, NEW s \in Seq(S), NEW m \in Nat, m >= 1
    PROVE  SubSeq(s, m, Len(s)) \in Seq(S)
<1> DEFINE L == Len(s)
<1>1. L \in Nat /\ \A i \in 1..L : s[i] \in S
  OBVIOUS
<1> HIDE DEF L
<1>2. m \in Int /\ L \in Int /\ \A i \in m..L : s[i] \in S
  BY <1>1
<1>3. SubSeq(s, m, L) \in Seq(S)
  BY <1>2, SubSeqProperties
<1> QED BY <1>3 DEF L

LEMMA WorkDirIs ==
    ASSUME NEW y, y.cwd \in Seq(PromptCharacter), NEW last \in BOOLEAN
    PROVE  WorkDir(y, last) \in Seq(Glyph)
<1> DEFINE P == PromptCharacter
           h == Len(Home) + 1
           rest == SubSeq(y.cwd, h, Len(y.cwd))
           short == IF IsPrefix(Home, y.cwd) THEN <<"~">> \o rest ELSE y.cwd
           slashes == {i \in 2..Len(short) : short[i] = "/"}
           m == Max(slashes) + 1
           w == IF last /\ slashes # {} THEN SubSeq(short, m, Len(short)) ELSE short
<1>1. WorkDir(y, last) = w
  BY DEF WorkDir
<1>2. <<"~">> \in Seq(P)
  <2>1. "~" \in P
    BY DEF PromptCharacter
  <2> HIDE DEF P
  <2> QED BY <2>1
<1>3. Home \in Seq(P) /\ y.cwd \in Seq(P)
  BY HomeAssumption
<1> HIDE DEF P
<1>4. h \in Nat /\ h >= 1
  BY <1>3
<1> HIDE DEF h
<1>5. rest \in Seq(P)
  BY <1>3, <1>4, PartIs
<1> HIDE DEF rest
<1>6. short \in Seq(P)
  BY <1>2, <1>3, <1>5, ConcatProperties
<1> HIDE DEF short
<1>7. slashes # {} => m \in Nat /\ m >= 1
  <2> SUFFICES ASSUME slashes # {} PROVE m \in Nat /\ m >= 1
    OBVIOUS
  <2> DEFINE L == Len(short)
  <2>1. L \in Nat /\ slashes \subseteq 1..L
    BY <1>6
  <2> HIDE DEF slashes, L
  <2>2. Max(slashes) \in slashes
    BY <2>1, MaxOf
  <2> DEFINE i == Max(slashes)
  <2>3. i \in 1..L
    BY <2>1, <2>2
  <2> HIDE DEF i
  <2>4. i \in Nat /\ i >= 1
    BY <2>1, <2>3
  <2>5. m = i + 1
    BY DEF i
  <2> HIDE DEF m
  <2> QED BY <2>4, <2>5
<1> HIDE DEF slashes, m
<1>8. w \in Seq(P)
  BY <1>6, <1>7, PartIs
<1> HIDE DEF w
<1>9. w \in Seq(Glyph)
  BY <1>8, SeqMonotonic DEF P, Glyph
<1> QED BY <1>1, <1>9

(* What psh puts for them in a session.                                    *)
EscapesIn(s) ==
    LET y == Expanding(s.ps1, s.cwd)
    IN  Escapes(WorkDir(y, FALSE), WorkDir(y, TRUE), HaveReadline)

Escapable == {"\\", "$", "n", "[", "u", "w", "W"}
EscapeTable == [Escapable -> Seq(Glyph)]

LEMMA GlyphsAre ==
    /\ PromptCharacter \subseteq Glyph
    /\ {"user", "time", "sign", "newline", "ignore", "oct1", "oct11", "oct111"}
          \subseteq Glyph
    /\ {"\\", "$", "1", "D", "{", "}", "~"} \subseteq Glyph
BY DEF Glyph, PromptCharacter, Put

LEMMA CharacterIsGlyph == ASSUME NEW c \in PromptCharacter PROVE c \in Glyph
BY GlyphsAre

LEMMA GlyphsJoin ==
    \A s, t, u \in Seq(Glyph) : (s \o t) \o u = s \o (t \o u)
BY ConcatAssociative

LEMMA EscapedBy ==
    ASSUME NEW w, NEW W, NEW readline
    PROVE  LET e == Escapes(w, W, readline)
           IN  /\ DOMAIN e = Escapable
               /\ e["\\"] = <<"\\">> /\ e["$"] = <<"sign">> /\ e["n"] = <<"newline">>
               /\ e["["] = IF readline THEN <<"ignore">> ELSE <<>>
               /\ e["u"] = <<"user">> /\ e["w"] = w /\ e["W"] = W
BY DEF Escapes, Escapable

LEMMA EscapesAre ==
    ASSUME NEW w \in Seq(Glyph), NEW W \in Seq(Glyph), NEW readline
    PROVE  LET e == Escapes(w, W, readline)
           IN  /\ e \in EscapeTable
               /\ e["\\"] = <<"\\">> /\ e["$"] = <<"sign">> /\ e["n"] = <<"newline">>
               /\ e["["] = IF readline THEN <<"ignore">> ELSE <<>>
               /\ e["u"] = <<"user">> /\ e["w"] = w /\ e["W"] = W
<1> DEFINE e == Escapes(w, W, readline)
           T == Seq(Glyph)
<1>1. /\ DOMAIN e = Escapable
      /\ e["\\"] = <<"\\">> /\ e["$"] = <<"sign">> /\ e["n"] = <<"newline">>
      /\ e["["] = IF readline THEN <<"ignore">> ELSE <<>>
      /\ e["u"] = <<"user">> /\ e["w"] = w /\ e["W"] = W
  BY EscapedBy
<1>2. /\ <<"\\">> \in T /\ <<"sign">> \in T /\ <<"newline">> \in T
      /\ <<"ignore">> \in T /\ <<"user">> \in T /\ <<>> \in T
  <2>1. \A g \in Glyph : <<g>> \in T
    OBVIOUS
  <2>2. /\ "\\" \in Glyph /\ "sign" \in Glyph /\ "newline" \in Glyph
        /\ "ignore" \in Glyph /\ "user" \in Glyph
    BY GlyphsAre
  <2>3. <<>> \in T
    OBVIOUS
  <2> HIDE DEF T
  <2> QED BY <2>1, <2>2, <2>3
<1>3. e = [c \in Escapable |-> e[c]]
  BY DEF Escapes, Escapable
<1> HIDE DEF e, T
<1>4. \A c \in Escapable : e[c] \in T
  BY <1>1, <1>2 DEF Escapable, T
<1>5. e \in [Escapable -> T]
  BY <1>3, <1>4
<1> QED BY <1>1, <1>5 DEF EscapeTable, T, e

-----------------------------------------------------------------------------
(* What is shown, from one character to the next                           *)

Passing == INSTANCE LeftFolds WITH Op <- Show

Places == {"text", "escape", "digits", "date", "format"}
Showings(e) ==
    [shown : Seq(Glyph), held : Seq(Glyph), in : Places, escapes : {e}]

LEMMA ShowingIs ==
    ASSUME NEW e, NEW s \in Showings(e), NEW more \in Seq(Glyph)
    PROVE  LET t == Showing(s, more)
           IN  /\ t \in Showings(e)
               /\ t.shown = s.shown \o more /\ t.in = "text" /\ t.held = <<>>
<1> DEFINE T == Seq(Glyph)
           t == Showing(s, more)
<1>1. s \in [shown : T, held : T, in : Places, escapes : {e}] /\ more \in T
  BY DEF Showings
<1>2. s.shown \o more \in T /\ <<>> \in T
  BY <1>1, ConcatProperties
<1>3. "text" \in Places
  BY DEF Places
<1> HIDE DEF T
<1>4. /\ t \in [shown : T, held : T, in : Places, escapes : {e}]
      /\ t.shown = s.shown \o more /\ t.in = "text" /\ t.held = <<>>
  BY <1>1, <1>2, <1>3 DEF Showing
<1> QED BY <1>4 DEF Showings, T

LEMMA HoldingIs ==
    ASSUME NEW e, NEW s \in Showings(e), NEW in \in Places, NEW held \in Seq(Glyph)
    PROVE  LET t == Holding(s, in, held)
           IN  /\ t \in Showings(e)
               /\ t.shown = s.shown /\ t.in = in /\ t.held = held
<1> DEFINE T == Seq(Glyph)
<1>1. s \in [shown : T, held : T, in : Places, escapes : {e}] /\ held \in T
  BY DEF Showings
<1> HIDE DEF T
<1>2. LET t == Holding(s, in, held)
      IN  /\ t \in [shown : T, held : T, in : Places, escapes : {e}]
          /\ t.shown = s.shown /\ t.in = in /\ t.held = held
  BY <1>1 DEF Holding
<1> QED BY <1>2 DEF Showings, T

LEMMA OneGlyph == ASSUME NEW g \in Glyph PROVE <<g>> \in Seq(Glyph)
OBVIOUS

LEMMA TwoGlyphs ==
    ASSUME NEW g \in Glyph, NEW h \in Glyph PROVE <<g, h>> \in Seq(Glyph)
OBVIOUS

LEMMA ShowNextEscape ==
    ASSUME NEW e, NEW s \in Showings(e)
    PROVE  LET t == ShowNext(s, "\\")
           IN  /\ t \in Showings(e) /\ t.shown = s.shown \o s.held
               /\ t.in = "escape" /\ t.held = <<"\\">>
<1> DEFINE u == Showing(s, s.held)
           b == <<"\\">>
<1>1. s.held \in Seq(Glyph) /\ s.shown \in Seq(Glyph)
  BY DEF Showings
<1>2. u \in Showings(e) /\ u.shown = s.shown \o s.held
  BY <1>1, ShowingIs
<1>3. ShowNext(s, "\\") = Holding(u, "escape", b)
  BY DEF ShowNext
<1>4. b \in Seq(Glyph) /\ "escape" \in Places
  BY GlyphsAre, OneGlyph DEF Places
<1> HIDE DEF u, b
<1>5. u \in Showings(e)
  BY <1>2
<1>6. ASSUME NEW in \in Places, NEW h \in Seq(Glyph)
      PROVE  LET t == Holding(u, in, h)
             IN  t \in Showings(e) /\ t.shown = u.shown /\ t.in = in /\ t.held = h
  BY ONLY <1>5, <1>6, HoldingIs
<1>7. LET t == Holding(u, "escape", b)
      IN  t \in Showings(e) /\ t.shown = u.shown /\ t.in = "escape" /\ t.held = b
  BY ONLY <1>4, <1>6, Zenon
<1> QED BY <1>2, <1>3, <1>7 DEF b

LEMMA ShowNextOther ==
    ASSUME NEW e, NEW s \in Showings(e), NEW c \in PromptCharacter, c # "\\"
    PROVE  LET t == ShowNext(s, c)
           IN  /\ t \in Showings(e) /\ t.shown = (s.shown \o s.held) \o <<c>>
               /\ t.in = "text" /\ t.held = <<>>
<1> DEFINE u == Showing(s, s.held)
<1>1. s.held \in Seq(Glyph) /\ s.shown \in Seq(Glyph)
  BY DEF Showings
<1>2. u \in Showings(e) /\ u.shown = s.shown \o s.held
  BY <1>1, ShowingIs
<1>3. ShowNext(s, c) = Showing(u, <<c>>)
  BY DEF ShowNext
<1>4. <<c>> \in Seq(Glyph)
  BY GlyphsAre, OneGlyph
<1> HIDE DEF u
<1>5. LET t == Showing(u, <<c>>)
      IN  t \in Showings(e) /\ t.shown = u.shown \o <<c>> /\ t.in = "text" /\ t.held = <<>>
  BY <1>2, <1>4, ShowingIs
<1> QED BY <1>2, <1>3, <1>5

(* The character of an escape.                                             *)
LEMMA ShowEscape ==
    ASSUME NEW e \in EscapeTable, NEW s \in Showings(e), s.in = "escape",
           NEW c \in PromptCharacter
    PROVE  /\ c \in Escapable => Show(s, c) = Showing(s, e[c])
           /\ c = "1" => Show(s, c) = Holding(s, "digits", <<"oct1">>)
           /\ c = "D" => Show(s, c) = Holding(s, "date", <<"\\", "D">>)
           /\ c \notin Escapable \cup {"1", "D"} => Show(s, c) = Showing(s, <<"\\", c>>)
<1>1. s.escapes = e /\ DOMAIN e = Escapable
  BY DEF Showings, EscapeTable
<1>2. "1" \notin Escapable /\ "D" \notin Escapable
  BY DEF Escapable
<1>3. Show(s, c) = IF c \in Escapable THEN Showing(s, e[c])
                   ELSE IF c = "1" THEN Holding(s, "digits", <<"oct1">>)
                   ELSE IF c = "D" THEN Holding(s, "date", <<"\\", "D">>)
                   ELSE Showing(s, <<"\\", c>>)
  BY <1>1 DEF Show
<1> QED BY <1>2, <1>3

(* One more digit.                                                         *)
LEMMA ShowDigit ==
    ASSUME NEW s, s.in = "digits"
    PROVE  /\ s.held = <<"oct1">> => Show(s, "1") = Holding(s, "digits", <<"oct11">>)
           /\ s.held = <<"oct11">> => Show(s, "1") = Holding(s, "digits", <<"oct111">>)
<1>1. <<"oct1">> # <<"oct111">> /\ <<"oct11">> # <<"oct111">> /\ <<"oct1">> # <<"oct11">>
  OBVIOUS
<1> QED BY <1>1 DEF Show

(* The character belongs to no escape before it.                           *)
LEMMA ShowBeyond ==
    ASSUME NEW s, NEW c,
           \/ s.in = "text"
           \/ s.in = "digits" /\ (c # "1" \/ s.held = <<"oct111">>)
           \/ s.in = "date" /\ c # "{"
    PROVE  Show(s, c) = ShowNext(s, c)
BY DEF Show

LEMMA ShowFormat ==
    ASSUME NEW s, NEW c, s.in = "format"
    PROVE  /\ c = "}" => Show(s, c) = Showing(s, s.held)
           /\ c # "}" => Show(s, c) = Holding(s, "format", Append(s.held, c))
BY DEF Show

LEMMA ShowOpens ==
    ASSUME NEW s, s.in = "date"
    PROVE  Show(s, "{") = Holding(s, "format", <<"time">>)
BY DEF Show

LEMMA ShowIs ==
    ASSUME NEW e \in EscapeTable, NEW s \in Showings(e), NEW c \in PromptCharacter
    PROVE  Show(s, c) \in Showings(e)
<1>1. s.in \in Places /\ s.held \in Seq(Glyph) /\ c \in Glyph
  BY GlyphsAre DEF Showings
<1>2. ASSUME NEW in \in Places, NEW h \in Seq(Glyph) PROVE Holding(s, in, h) \in Showings(e)
  BY HoldingIs
<1>3. ASSUME NEW h \in Seq(Glyph) PROVE Showing(s, h) \in Showings(e)
  BY ShowingIs
<1>4. {"digits", "date", "format"} \subseteq Places
  BY DEF Places
<1>5. ShowNext(s, c) \in Showings(e)
  BY ShowNextEscape, ShowNextOther
<1>6. CASE s.in = "escape"
  <2>1. <<"oct1">> \in Seq(Glyph) /\ <<"\\", "D">> \in Seq(Glyph) /\ <<"\\", c>> \in Seq(Glyph)
    BY <1>1, GlyphsAre, OneGlyph, TwoGlyphs
  <2>2. CASE c \in Escapable
    <3>1. e[c] \in Seq(Glyph)
      BY <2>2 DEF EscapeTable
    <3> QED BY <1>3, <1>6, <2>2, <3>1, ShowEscape
  <2>3. CASE c = "1"
    BY <1>2, <1>4, <1>6, <2>1, <2>3, ShowEscape
  <2>4. CASE c = "D"
    BY <1>2, <1>4, <1>6, <2>1, <2>4, ShowEscape
  <2>5. CASE c \notin Escapable \cup {"1", "D"}
    BY <1>3, <1>6, <2>1, <2>5, ShowEscape
  <2> QED BY <2>2, <2>3, <2>4, <2>5
<1>7. CASE s.in = "digits" /\ c = "1" /\ s.held # <<"oct111">>
  <2>1. <<"oct11">> \in Seq(Glyph) /\ <<"oct111">> \in Seq(Glyph)
    BY GlyphsAre, OneGlyph
  <2>2. \/ Show(s, c) = Holding(s, "digits", <<"oct11">>)
        \/ Show(s, c) = Holding(s, "digits", <<"oct111">>)
    BY <1>7 DEF Show
  <2> QED BY <1>2, <1>4, <2>1, <2>2
<1>8. CASE s.in = "date" /\ c = "{"
  <2>1. <<"time">> \in Seq(Glyph)
    BY GlyphsAre, OneGlyph
  <2> QED BY <1>2, <1>4, <1>8, <2>1, ShowOpens
<1>9. CASE s.in = "format"
  <2>1. Append(s.held, c) \in Seq(Glyph)
    BY <1>1
  <2> QED BY <1>1, <1>2, <1>3, <1>4, <1>9, <2>1, ShowFormat
<1>10. CASE \/ s.in = "text"
            \/ s.in = "digits" /\ (c # "1" \/ s.held = <<"oct111">>)
            \/ s.in = "date" /\ c # "{"
  BY <1>5, <1>10, ShowBeyond
<1> QED BY <1>1, <1>6, <1>7, <1>8, <1>9, <1>10 DEF Places

LEMMA ShowToZero ==
    ASSUME NEW ps1 \in Seq(PromptCharacter), NEW e
    PROVE  ShowTo(ps1, e, 0) = Unshown(e)
<1> DEFINE s == SubSeq(ps1, 1, 0)
           z == 0
<1>1. DOMAIN s = 1..z /\ z \in Nat
  OBVIOUS
<1>2. ShowTo(ps1, e, 0) = Passing!Fold(Unshown(e), s)
  BY DEF ShowTo, Passing!Fold, FoldLeft, Passing!FoldLeft, MapThenFoldSet,
     Passing!MapThenFoldSet, Max, Passing!Max
<1> HIDE DEF s
<1>3. z = 0
  OBVIOUS
<1> HIDE DEF z
<1>4. PICK g : Passing!Steps(g, z, Unshown(e), s)
  BY <1>1, Passing!FoldPrefixes
<1> QED BY <1>2, <1>3, <1>4 DEF Passing!Steps

LEMMA ShowToNext ==
    ASSUME NEW ps1 \in Seq(PromptCharacter), NEW e, NEW i \in 1..Len(ps1)
    PROVE  ShowTo(ps1, e, i) = Show(ShowTo(ps1, e, i - 1), ps1[i])
<1> DEFINE n == i - 1
           s == SubSeq(ps1, 1, n)
           t == SubSeq(ps1, 1, i)
<1>1. n \in Nat /\ i = n + 1 /\ i \in Nat /\ Len(ps1) \in Nat /\ i <= Len(ps1)
  OBVIOUS
<1>2. /\ ShowTo(ps1, e, n) = Passing!Fold(Unshown(e), s)
      /\ ShowTo(ps1, e, i) = Passing!Fold(Unshown(e), t)
  BY DEF ShowTo, Passing!Fold, FoldLeft, Passing!FoldLeft, MapThenFoldSet,
     Passing!MapThenFoldSet, Max, Passing!Max
<1> HIDE DEF n
<1>3. DOMAIN s = 1..n /\ \A j \in 1..n : s[j] = ps1[j]
  BY <1>1
<1>4. DOMAIN t = 1..i /\ \A j \in 1..i : t[j] = ps1[j]
  BY <1>1
<1> HIDE DEF s, t
<1>5. /\ DOMAIN t = 1..(n + 1) /\ t[n + 1] = ps1[i]
      /\ \A j \in 1..n : t[j] = s[j]
  BY <1>1, <1>3, <1>4
<1>6. Passing!Fold(Unshown(e), t) = Show(Passing!Fold(Unshown(e), s), t[n + 1])
  BY <1>1, <1>3, <1>5, Passing!FoldExtends
<1>7. ShowTo(ps1, e, i) = Show(ShowTo(ps1, e, n), ps1[i])
  BY <1>2, <1>5, <1>6
<1> QED BY <1>7 DEF n

LEMMA ShowToIs ==
    ASSUME NEW ps1 \in Seq(PromptCharacter), NEW e \in EscapeTable,
           NEW i \in 0..Len(ps1)
    PROVE  ShowTo(ps1, e, i) \in Showings(e)
<1> DEFINE s == SubSeq(ps1, 1, i)
<1>1. i \in Nat /\ DOMAIN s = 1..i /\ \A j \in 1..i : s[j] \in PromptCharacter
  OBVIOUS
<1>2. ShowTo(ps1, e, i) = Passing!Fold(Unshown(e), s)
  BY DEF ShowTo, Passing!Fold, FoldLeft, Passing!FoldLeft, MapThenFoldSet,
     Passing!MapThenFoldSet, Max, Passing!Max
<1> HIDE DEF s
<1>3. Unshown(e) \in Showings(e)
  BY DEF Unshown, Showings, Places
<1>4. \A r \in Showings(e) : \A j \in 1..i : Show(r, s[j]) \in Showings(e)
  BY <1>1, ShowIs
<1> QED BY <1>1, <1>2, <1>3, <1>4, Passing!FoldStaysIn

-----------------------------------------------------------------------------
(* The expander at one character                                           *)

(* What the pieces make up so far.                                         *)
Out(y) == FlattenSeq(Pieces(y.text, y.builder))

(* How many characters are read but in no piece: the backslash, or the     *)
(* backslash and the digits.                                               *)
Taken(y) == IF y.backslash THEN 1 ELSE IF y.level = 0 THEN 0 ELSE y.level + 1

EscapesOf(y) == Escapes(WorkDir(y, FALSE), WorkDir(y, TRUE), HaveReadline)

(* The text is PS1 from the part that is read on, and the pieces are       *)
(* before it.                                                              *)
Laid(y, ps1, e) ==
    /\ y.start \in 1..(Len(ps1) + 1) /\ y.count \in Nat /\ Len(y.text) = Len(ps1) + 1
    /\ y.text[Len(ps1) + 1] = "NUL"
    /\ \A j \in y.start..Len(ps1) : y.text[j] = ps1[j]
    /\ Built(y.text, y.builder, y.start, Out(y))
    /\ EscapesOf(y) = e

(* The i characters that are read are the pieces, those that are counted   *)
(* and those that are taken.                                               *)
Where(y, i) == y.start + y.count + Taken(y) = i + 1

Pending(ps1, y) == SubSeq(ps1, y.start, y.start + y.count - 1)

Number(n) == <<"oct1", "oct11", "oct111">>[n]

(* sure is what is shown for what is in pieces or counted.                 *)
InEscape(y, ps1, s, i, sure) ==
    /\ y.level = 0 /\ s.in = "escape" /\ s.held = <<"\\">>
    /\ ps1[i] = "\\" /\ s.shown = sure

InDigits(y, ps1, s, i, sure) ==
    /\ s.in = "digits" /\ s.held = <<Number(y.level)>>
    /\ i < Len(ps1) /\ ps1[i + 1] = "1" /\ s.shown = sure

Between(ps1, s, i, sure) ==
    /\ i < Len(ps1) => Show(s, ps1[i + 1]) = ShowNext(s, ps1[i + 1])
    /\ s.shown \o s.held = sure

Says(y, ps1, s, i, sure) ==
    /\ y.backslash => InEscape(y, ps1, s, i, sure)
    /\ ~y.backslash /\ y.level > 0 => InDigits(y, ps1, s, i, sure)
    /\ ~y.backslash /\ y.level = 0 => Between(ps1, s, i, sure)

KeepsUp(y, ps1, e, i) ==
    /\ Laid(y, ps1, e) /\ Where(y, i)
    /\ Says(y, ps1, ShowTo(ps1, e, i), i, Out(y) \o Pending(ps1, y))

LEMMA YieldIs == ASSUME NEW y PROVE Yield(y) = Out(y)
BY DEF Yield, Out, Pieces, PieceOf

LEMMA EscapesStay ==
    ASSUME NEW y, NEW z, z.cwd = y.cwd
    PROVE  EscapesOf(z) = EscapesOf(y)
BY DEF EscapesOf, WorkDir

(* The text and the pieces are as they were.                               *)
LEMMA LaidStays ==
    ASSUME NEW y, NEW ps1, NEW e, Laid(y, ps1, e), NEW z,
           z.start = y.start, z.count \in Nat, z.text = y.text,
           z.builder = y.builder, z.cwd = y.cwd
    PROVE  Laid(z, ps1, e) /\ Out(z) = Out(y)
<1>1. Out(z) = Out(y)
  BY DEF Out
<1>2. EscapesOf(z) = EscapesOf(y)
  BY EscapesStay
<1> QED BY <1>1, <1>2 DEF Laid

(* A part and perhaps a string are added, and what follows k is new.       *)
Renewed(ps1, e, y, u, k, n, s) ==
    LET z == Reset(AddOwn(AddPart([y EXCEPT !.text = u], n), s), k)
    IN  /\ Within(z) /\ z.cur = k /\ z.end = y.end
        /\ z.backslash = FALSE /\ z.level = 0
        /\ Out(z) = (Out(y) \o SubSeq(u, y.start, y.start + n - 1)) \o s
        /\ Pending(ps1, z) = <<>>
        /\ Laid(z, ps1, e) /\ Where(z, k)

LEMMA NewPieces ==
    ASSUME NEW ps1 \in Seq(PromptCharacter), NEW e, NEW y, Within(y), Laid(y, ps1, e),
           NEW u \in Seq(PromptCharacter \cup Put), Len(u) = Len(y.text),
           \A j \in 1..(y.start - 1) : u[j] = y.text[j],
           NEW k \in 1..Len(ps1), \A j \in (k + 1)..(Len(ps1) + 1) : u[j] = y.text[j],
           NEW n \in Nat, y.start + n <= k + 1, NEW s \in Seq(Glyph)
    PROVE  Renewed(ps1, e, y, u, k, n, s)
<1> DEFINE L == Len(ps1)
           v == y.text
           a == y.start
           w == [y EXCEPT !.text = u]
           w1 == AddPart(w, n)
           w2 == AddOwn(w1, s)
           z == Reset(w2, k)
           out1 == Out(y) \o SubSeq(u, a, a + n - 1)
           m == k + 1
<1>1. L \in Nat /\ k \in 1..L /\ m = k + 1 /\ m \in 1..(L + 1) /\ m \in Nat /\ 0 \in Nat
  OBVIOUS
<1>2. /\ a \in 1..(L + 1) /\ a \in Nat /\ a + n <= m /\ m <= L + 1 /\ a <= m
      /\ Len(v) = L + 1 /\ Len(u) = L + 1 /\ v[L + 1] = "NUL"
      /\ \A j \in a..L : v[j] = ps1[j]
      /\ Built(v, y.builder, a, Out(y)) /\ EscapesOf(y) = e
  BY <1>1 DEF Laid
<1>3. /\ Shaped(w) /\ w.text = u /\ w.cur = y.cur /\ w.start = a /\ w.level = y.level
      /\ w.backslash = y.backslash /\ w.end = y.end /\ w.builder = y.builder
      /\ w.cwd = y.cwd
  BY DEF Within, Shaped
<1>4. v \in Seq(Glyph) /\ u \in Seq(Glyph) /\ v \in Seq(PromptCharacter \cup Put)
  BY PromptText DEF Within
<1>5. Within(w)
  BY <1>2, <1>3 DEF Within
<1>6. Built(u, w.builder, a, Out(y))
  <2>1. a \in 1..(Len(v) + 1) /\ a \in a..(Len(v) + 1) /\ Len(v) = Len(u)
    BY <1>1, <1>2
  <2>2. \A j \in 1..(a - 1) : v[j] = u[j]
    OBVIOUS
  <2>3. Built(v, y.builder, a, Out(y)) /\ v \in Seq(Glyph) /\ u \in Seq(Glyph)
    BY <1>2, <1>4
  <2> HIDE DEF v, a, w
  <2>4. Built(u, y.builder, a, Out(y))
    BY ONLY <2>1, <2>2, <2>3, BuiltOn
  <2> QED BY <1>3, <2>4
<1>7. Built(u, w1.builder, a + n, out1)
  <2>1. a \in 1..(Len(u) + 1) /\ a + n <= Len(u) + 1
    BY <1>1, <1>2
  <2> HIDE DEF v, a, w
  <2> QED BY <1>3, <1>4, <1>5, <1>6, <2>1, PartAdded
<1>8. /\ Within(w1) /\ w1.text = u /\ w1.start = a /\ w1.end = y.end /\ w1.cwd = y.cwd
  <2> HIDE DEF w, a
  <2>1. Within(w1) /\ w1.text = u
    BY <1>3, <1>5, AddPartIs
  <2>2. w1.start = w.start /\ w1.end = w.end /\ w1.cwd = w.cwd
    BY <1>3 DEF AddPart, Shaped
  <2> QED BY <1>3, <2>1, <2>2
<1> HIDE DEF w, w1
<1>9. Built(u, w2.builder, m, out1 \o s)
  <2> HIDE DEF out1, a, m
  <2>1. a + n \in 1..(Len(u) + 1) /\ m \in (a + n)..(Len(u) + 1)
    BY <1>1, <1>2
  <2>2. Built(u, w1.builder, m, out1)
    BY <1>4, <1>7, <2>1, BuiltOn
  <2>3. m \in 1..(Len(u) + 1)
    BY <1>1, <1>2
  <2> QED BY <1>4, <1>8, <2>2, <2>3, OwnAdded
<1>10. /\ Within(w2) /\ w2.text = u /\ w2.end = y.end /\ w2.cwd = y.cwd
  <2>1. Within(w2) /\ w2.text = w1.text
    BY <1>8, AddOwnIs
  <2>2. w2.end = w1.end /\ w2.cwd = w1.cwd
    BY <1>8 DEF AddOwn, Within, Shaped
  <2> QED BY <1>8, <2>1, <2>2
<1> HIDE DEF w2
<1>11. /\ z.start = m /\ z.cur = k /\ z.count = 0 /\ z.backslash = FALSE /\ z.level = 0
       /\ z.text = u /\ z.end = y.end /\ z.cwd = y.cwd /\ z.builder = w2.builder
  BY <1>10 DEF Reset, Within, Shaped
<1>12. Within(z)
  <2>1. k \in 1..Len(w2.text)
    BY <1>1, <1>2, <1>10
  <2> QED BY <1>10, <2>1, ResetIs
<1> HIDE DEF z
<1>13. Out(z) = out1 \o s
  BY <1>9, <1>11 DEF Built, Out
<1>14. Pending(ps1, z) = <<>>
  <2>1. m + 0 - 1 < m /\ m + 0 - 1 \in Int /\ m \in Int
    BY <1>1
  <2> HIDE DEF m
  <2> QED BY <1>11, <2>1, SubSeqEmpty DEF Pending
<1>15. Laid(z, ps1, e)
  <2>1. \A j \in m..L : u[j] = ps1[j]
    <3> TAKE j \in m..L
    <3>1. j \in m..(L + 1) /\ j \in a..L
      BY <1>1, <1>2
    <3> QED BY <1>2, <3>1
  <2>2. u[L + 1] = "NUL"
    <3>1. L + 1 \in m..(L + 1)
      BY <1>1, <1>2
    <3> QED BY <1>2, <3>1
  <2>3. EscapesOf(z) = e
    BY <1>2, <1>11, EscapesStay
  <2> HIDE DEF m
  <2>4. Built(u, w2.builder, m, Out(z))
    BY <1>9, <1>13
  <2> QED BY <1>1, <1>2, <1>11, <2>1, <2>2, <2>3, <2>4 DEF Laid
<1>16. Where(z, k)
  <2>1. Taken(z) = 0
    BY <1>11 DEF Taken
  <2>2. m + 0 + 0 = k + 1
    BY <1>1
  <2> HIDE DEF m
  <2> QED BY <1>11, <2>1, <2>2 DEF Where
<1> QED BY <1>11, <1>12, <1>13, <1>14, <1>15, <1>16 DEF Renewed, z, w2, w1, w

(* What is kept, with the characters behind it.                            *)
LEMMA PendingNext ==
    ASSUME NEW ps1 \in Seq(PromptCharacter), NEW a \in 1..(Len(ps1) + 1), NEW n \in Nat,
           a + n <= Len(ps1)
    PROVE  SubSeq(ps1, a, a + n) = SubSeq(ps1, a, a + n - 1) \o <<ps1[a + n]>>
<1> DEFINE m == a + n
<1>1. m \in a..Len(ps1) /\ a \in 1..Len(ps1)
  OBVIOUS
<1> HIDE DEF m
<1>2. SubSeq(ps1, a, m) = SubSeq(ps1, a, m - 1) \o <<ps1[m]>>
  BY <1>1, SubSeqRecursiveSecond
<1> QED BY <1>2 DEF m

LEMMA PendingIs ==
    ASSUME NEW ps1 \in Seq(PromptCharacter), NEW a \in 1..(Len(ps1) + 1), NEW n \in Int,
           n <= Len(ps1)
    PROVE  SubSeq(ps1, a, n) \in Seq(Glyph)
<1>1. \A j \in a..n : ps1[j] \in Glyph
  <2> TAKE j \in a..n
  <2>1. ps1[j] \in PromptCharacter
    OBVIOUS
  <2> QED BY <2>1, CharacterIsGlyph
<1>2. a \in Int
  OBVIOUS
<1> QED BY <1>1, <1>2, SubSeqProperties

(* The rest is added.                                                      *)
LEMMA FinishedShows ==
    ASSUME NEW ps1 \in Seq(PromptCharacter), NEW e \in EscapeTable, NEW y, Within(y),
           Len(ps1) >= 1, KeepsUp(y, ps1, e, Len(ps1))
    PROVE  LET z == Finished(y)
           IN  /\ z.out = Shown(ps1, e)
               /\ z.end = IF Shown(ps1, e) = <<>> THEN "astray" ELSE "done"
<1> DEFINE L == Len(ps1)
           a == y.start
           v == y.text
           s == ShowTo(ps1, e, L)
           n == Min(From(y, a)) - a
           w == AddPart(y, n)
           rest == SubSeq(ps1, a, L)
           out == Out(y) \o rest
<1>1. /\ L \in Nat /\ L >= 1 /\ a \in 1..(L + 1) /\ a \in Nat /\ y.count \in Nat
      /\ Len(v) = L + 1 /\ v[L + 1] = "NUL" /\ Built(v, y.builder, a, Out(y))
      /\ \A j \in a..L : v[j] = ps1[j]
  BY DEF KeepsUp, Laid
<1>2. v \in Seq(Glyph)
  BY PromptText DEF Within
<1>3. s \in Showings(e) /\ s.held \in Seq(Glyph) /\ s.shown \in Seq(Glyph)
  <2>1. L \in 0..Len(ps1)
    BY <1>1
  <2>2. s \in Showings(e)
    BY <2>1, ShowToIs
  <2> QED BY <2>2 DEF Showings
<1>4. n = L + 1 - a
  <2> DEFINE S == From(y, a)
             M == L + 1
  <2>1. \A j \in a..L : ps1[j] # "NUL"
    <3> TAKE j \in a..L
    <3>1. ps1[j] \in PromptCharacter
      BY <1>1
    <3> QED BY <3>1 DEF PromptCharacter
  <2>2. M \in a..M /\ M \in Nat /\ \A j \in a..M : j # M => j \in a..L
    BY <1>1
  <2>3. S = {M}
    <3>1. S = {j \in a..M : v[j] = "NUL"}
      BY <1>1 DEF From
    <3>2. \A j \in a..M : v[j] = "NUL" <=> j = M
      BY <1>1, <2>1, <2>2
    <3> HIDE DEF M
    <3> QED BY <2>2, <3>1, <3>2
  <2> HIDE DEF S, M
  <2>4. Min(S) = M
    <3>1. S \subseteq Nat /\ S # {}
      BY <2>2, <2>3
    <3>2. Min(S) \in S
      BY ONLY <3>1, MinIs
    <3> QED BY ONLY <2>3, <3>2
  <2>5. n = Min(S) - a
    BY DEF S
  <2> HIDE DEF n
  <2>6. n = M - a
    BY ONLY <2>4, <2>5
  <2>7. M = L + 1
    BY DEF M
  <2> QED BY <1>1, <2>6, <2>7
<1>5. n \in Nat /\ a + n <= Len(v) + 1 /\ a + n - 1 = L /\ a + n \in Nat
  BY <1>1, <1>4
<1>6. SubSeq(v, a, L) = rest
  <2> DEFINE p1 == SubSeq(v, a, L)
             k == L - a + 1
  <2>1. \A j \in a..L : v[j] \in Glyph /\ ps1[j] \in Glyph /\ v[j] = ps1[j]
    <3> TAKE j \in a..L
    <3>1. ps1[j] \in PromptCharacter
      BY <1>1
    <3> QED BY <1>1, <3>1, CharacterIsGlyph
  <2>2. a \in Int /\ L \in Int
    BY <1>1
  <2> HIDE DEF a, L, v
  <2>3. /\ p1 \in Seq(Glyph) /\ Len(p1) = IF a <= L THEN k ELSE 0
        /\ \A i \in 1..k : p1[i] = v[a + i - 1]
    BY <2>1, <2>2, SubSeqProperties
  <2>4. /\ rest \in Seq(Glyph) /\ Len(rest) = IF a <= L THEN k ELSE 0
        /\ \A i \in 1..k : rest[i] = ps1[a + i - 1]
    BY <2>1, <2>2, SubSeqProperties
  <2>5. Len(p1) = Len(rest) /\ \A i \in 1..Len(p1) : a + i - 1 \in a..L /\ i \in 1..k
    BY <2>2, <2>3, <2>4
  <2>6. \A i \in 1..Len(p1) : p1[i] = rest[i]
    BY <2>1, <2>3, <2>4, <2>5
  <2> HIDE DEF p1, rest, k
  <2> QED BY <2>3, <2>4, <2>5, <2>6, SeqEqual DEF p1
<1>7. Built(v, w.builder, a + n, out)
  <2>1. a \in 1..(Len(v) + 1)
    BY <1>1
  <2> HIDE DEF n, L, v, rest
  <2>2. Built(v, w.builder, a + n, Out(y) \o SubSeq(v, a, a + n - 1))
    BY <1>1, <1>2, <1>5, <2>1, PartAdded DEF a
  <2> QED BY <1>5, <1>6, <2>2
<1>8. w.text = v
  BY AddPartIs
<1>9. Out(w) = out /\ (w.builder = <<>> <=> out = <<>>)
  BY <1>7, <1>8 DEF Built, Out
<1>10. Finished(y).out = Out(w) /\ Finished(y).end = IF w.builder = <<>> THEN "astray" ELSE "done"
  <2>1. Shaped(w)
    BY AddPartIs DEF Within
  <2>2. Finished(y) = [w EXCEPT !.out = Yield(w),
                                !.end = IF w.builder = <<>> THEN "astray" ELSE "done"]
    BY DEF Finished
  <2> HIDE DEF w
  <2> QED BY <2>1, <2>2, YieldIs DEF Shaped
<1>11. Shown(ps1, e) = s.shown \o s.held
  BY DEF Shown
<1>12. out = s.shown \o s.held
  <2> DEFINE kept == Pending(ps1, y)
             sure == Out(y) \o kept
             c == y.count
  <2>1. Where(y, L) /\ Says(y, ps1, s, L, sure)
    BY DEF KeepsUp
  <2>2. Out(y) \in Seq(Glyph)
    <3>1. a \in 1..(Len(v) + 1)
      BY <1>1
    <3> QED BY <1>1, <1>2, <3>1, BuiltIs
  <2>3. CASE y.backslash
    <3>1. InEscape(y, ps1, s, L, sure)
      BY <2>1, <2>3 DEF Says
    <3>2. a + c + 1 = L + 1
      BY <2>1, <2>3 DEF Where, Taken
    <3>3. a + c = L
      BY <1>1, <3>2
    <3>4. rest = kept \o <<ps1[L]>>
      <4>1. a + c <= Len(ps1) /\ c \in Nat
        BY <1>1, <3>3
      <4>2. SubSeq(ps1, a, a + c) = SubSeq(ps1, a, a + c - 1) \o <<ps1[a + c]>>
        BY <1>1, <4>1, PendingNext
      <4> QED BY <3>3, <4>2 DEF Pending
    <3>5. kept \in Seq(Glyph)
      <4>1. a + c - 1 \in Int /\ a + c - 1 <= Len(ps1)
        BY <1>1, <3>3
      <4> QED BY <1>1, <4>1, PendingIs DEF Pending
    <3>6. s.held = <<ps1[L]>> /\ s.shown = sure
      BY <3>1 DEF InEscape
    <3> HIDE DEF kept, rest, s
    <3>7. (Out(y) \o kept) \o s.held = Out(y) \o (kept \o s.held)
      BY ONLY <1>3, <2>2, <3>5, GlyphsJoin
    <3> QED BY <3>4, <3>6, <3>7
  <2>4. CASE ~y.backslash /\ y.level > 0
    <3>1. L < Len(ps1)
      BY <2>1, <2>4 DEF Says, InDigits
    <3> QED BY <1>1, <3>1
  <2>5. CASE ~y.backslash /\ y.level = 0
    <3>1. a + c + 0 = L + 1
      BY <2>1, <2>5 DEF Where, Taken
    <3>2. a + c - 1 = L
      BY <1>1, <3>1
    <3>3. kept = rest
      BY <3>2 DEF Pending
    <3>4. s.shown \o s.held = sure
      BY <2>1, <2>5 DEF Says, Between
    <3> QED BY <3>3, <3>4
  <2>6. y.level = 0 \/ y.level > 0
    BY DEF Within
  <2> QED BY <2>3, <2>4, <2>5, <2>6
<1> HIDE DEF w
<1> QED BY <1>9, <1>10, <1>11, <1>12

(* At the end of the turn.                                                 *)
ShownTo(y, ps1, e) ==
    /\ y.end = "no" => y.cur \in 1..Len(ps1) /\ KeepsUp(y, ps1, e, y.cur - 1)
    /\ y.end = "done" => y.out = Shown(ps1, e) /\ Shown(ps1, e) # <<>>
    /\ y.end = "astray" => Shown(ps1, e) = <<>>

LEMMA GoesShows ==
    ASSUME NEW ps1 \in Seq(PromptCharacter), NEW e \in EscapeTable, NEW y, Within(y),
           y.end = "no", y.cur \in 1..Len(ps1), KeepsUp(y, ps1, e, y.cur), Goes(y)
    PROVE  ShownTo(x', ps1, e)
<1> DEFINE L == Len(ps1)
           k == y.cur
           v == y.text
<1>1. /\ L \in Nat /\ k \in 1..L /\ y.start \in 1..(L + 1) /\ y.count \in Nat
      /\ Len(v) = L + 1 /\ v[L + 1] = "NUL" /\ \A j \in y.start..L : v[j] = ps1[j]
  BY DEF KeepsUp, Laid
<1>2. Taken(y) \in Nat
  BY DEF Taken, Within
<1>3. y.start <= k + 1
  <2>1. y.start + y.count + Taken(y) = k + 1
    BY DEF KeepsUp, Where
  <2> HIDE DEF k
  <2> QED BY <1>1, <1>2, <2>1
<1>4. CASE k < L
  <2> DEFINE n == k + 1
             r == [y EXCEPT !.cur = n]
  <2>1. n \in 1..L /\ n \in y.start..L /\ n - 1 = k /\ k # Len(v)
    BY <1>1, <1>3, <1>4
  <2>2. v[n] # "NUL"
    <3>1. ps1[n] \in PromptCharacter
      BY <2>1
    <3> QED BY <1>1, <2>1, <3>1 DEF PromptCharacter
  <2>3. x' = r
    BY <2>1, <2>2 DEF Goes
  <2>4. /\ r.cur = n /\ r.start = y.start /\ r.count = y.count /\ r.text = y.text
        /\ r.builder = y.builder /\ r.cwd = y.cwd /\ r.end = y.end
        /\ r.backslash = y.backslash /\ r.level = y.level
    BY DEF Within, Shaped
  <2> HIDE DEF n, r
  <2>5. Laid(r, ps1, e) /\ Out(r) = Out(y)
    BY <1>1, <2>4, LaidStays DEF KeepsUp
  <2>6. Where(r, k)
    BY <2>4 DEF KeepsUp, Where, Taken
  <2>7. Says(r, ps1, ShowTo(ps1, e, k), k, Out(r) \o Pending(ps1, r))
    BY <2>4, <2>5 DEF KeepsUp, Says, InEscape, InDigits, Pending
  <2>8. KeepsUp(r, ps1, e, r.cur - 1)
    BY <2>1, <2>4, <2>5, <2>6, <2>7 DEF KeepsUp
  <2> HIDE DEF k
  <2> QED BY <2>1, <2>3, <2>4, <2>8 DEF ShownTo
<1>5. CASE k = L
  <2>1. k + 1 = L + 1 /\ k # Len(v)
    BY <1>1, <1>5
  <2>2. x' = Finished(y)
    BY <1>1, <2>1 DEF Goes
  <2>3. KeepsUp(y, ps1, e, Len(ps1)) /\ Len(ps1) >= 1
    BY <1>1, <1>5
  <2>4. /\ x'.out = Shown(ps1, e)
        /\ x'.end = IF Shown(ps1, e) = <<>> THEN "astray" ELSE "done"
    BY <2>2, <2>3, FinishedShows
  <2> QED BY <2>4 DEF ShownTo
<1>6. k < L \/ k = L
  BY <1>1
<1> QED BY <1>4, <1>5, <1>6

(* At the beginning of the turn: the character is that of PS1, what is     *)
(* counted was shown, and one more character is sure.                      *)
Turn(ps1, e, k) ==
    /\ ExpanderInv /\ x.end = "no" /\ x.cur = k /\ KeepsUp(x, ps1, e, k - 1)

LEMMA TurnIs ==
    ASSUME NEW ps1 \in Seq(PromptCharacter), NEW e \in EscapeTable,
           NEW k \in 1..Len(ps1), Turn(ps1, e, k)
    PROVE  /\ Within(x) /\ x.start \in 1..(Len(ps1) + 1) /\ x.count \in Nat
           /\ x.level \in 0..2 /\ x.backslash \in BOOLEAN
           /\ x.start + x.count + Taken(x) = k /\ x.start + x.count <= k
           /\ Len(x.text) = Len(ps1) + 1 /\ x.text[Len(ps1) + 1] = "NUL"
           /\ \A j \in k..Len(ps1) : x.text[j] = ps1[j]
           /\ Char = ps1[k] /\ ps1[k] \in PromptCharacter
           /\ k < Len(ps1) => NextChar = ps1[k + 1]
           /\ k = Len(ps1) => NextChar = "NUL"
<1> DEFINE L == Len(ps1)
           a == x.start
<1>1. /\ Within(x) /\ x.level \in 0..2 /\ x.backslash \in BOOLEAN /\ x.cur = k
  BY DEF Turn, ExpanderInv, Within
<1>2. /\ a \in 1..(L + 1) /\ x.count \in Nat
      /\ Len(x.text) = L + 1 /\ x.text[L + 1] = "NUL"
      /\ \A j \in a..L : x.text[j] = ps1[j]
  BY DEF Turn, KeepsUp, Laid
<1>3. a + x.count + Taken(x) = k - 1 + 1
  BY DEF Turn, KeepsUp, Where
<1>4. Taken(x) \in Nat
  BY <1>1 DEF Taken
<1>5. L \in Nat /\ k \in 1..L
  OBVIOUS
<1> HIDE DEF L, a
<1>6. a + x.count + Taken(x) = k /\ a + x.count <= k /\ a <= k
  BY <1>2, <1>3, <1>4, <1>5
<1>7. \A j \in k..L : x.text[j] = ps1[j]
  BY <1>2, <1>5, <1>6
<1>8. Char = ps1[k]
  <2>1. k \in k..L
    BY <1>5
  <2> QED BY <1>1, <1>7, <2>1 DEF Char
<1>9. /\ k < L => NextChar = ps1[k + 1]
      /\ k = L => NextChar = "NUL"
  <2>1. k < L => k + 1 \in k..L
    BY <1>5
  <2>2. k < Len(x.text)
    BY <1>2, <1>5
  <2> QED BY <1>1, <1>2, <1>7, <2>1, <2>2 DEF NextChar
<1>10. ps1[k] \in PromptCharacter
  BY <1>5 DEF L
<1> QED BY <1>1, <1>2, <1>6, <1>7, <1>8, <1>9, <1>10 DEF L, a

(* Where no escape is open, what is sure is all that is shown.             *)
LEMMA TurnSays ==
    ASSUME NEW ps1 \in Seq(PromptCharacter), NEW e \in EscapeTable,
           NEW k \in 1..Len(ps1), Turn(ps1, e, k)
    PROVE  LET s == ShowTo(ps1, e, k - 1)
               sure == Out(x) \o Pending(ps1, x)
           IN  /\ s \in Showings(e) /\ sure \in Seq(Glyph) /\ Out(x) \in Seq(Glyph)
               /\ Pending(ps1, x) \in Seq(Glyph)
               /\ ShowTo(ps1, e, k) = Show(s, ps1[k])
               /\ x.backslash => /\ x.level = 0 /\ s.in = "escape" /\ s.held = <<"\\">>
                                 /\ k > 1 /\ ps1[k - 1] = "\\" /\ s.shown = sure
               /\ ~x.backslash /\ x.level > 0 =>
                     /\ s.in = "digits" /\ s.held = <<Number(x.level)>>
                     /\ ps1[k] = "1" /\ s.shown = sure
               /\ ~x.backslash /\ x.level = 0 =>
                     Show(s, ps1[k]) = ShowNext(s, ps1[k]) /\ s.shown \o s.held = sure
<1> DEFINE L == Len(ps1)
           s == ShowTo(ps1, e, k - 1)
           sure == Out(x) \o Pending(ps1, x)
           i == k - 1
<1>1. i \in 0..L /\ i + 1 = k /\ i < L /\ L \in Nat /\ i = k - 1
  OBVIOUS
<1>2. s \in Showings(e)
  BY <1>1, ShowToIs
<1>3. ShowTo(ps1, e, k) = Show(s, ps1[k])
  BY ShowToNext
<1>4. Says(x, ps1, s, i, sure)
  BY DEF Turn, KeepsUp
<1>5. Within(x) /\ x.start \in 1..(L + 1) /\ Len(x.text) = L + 1 /\ x.count \in Nat
      /\ x.start + x.count <= k /\ x.start + x.count + Taken(x) = k
  BY TurnIs
<1>6. Out(x) \in Seq(Glyph)
  <2>1. x.text \in Seq(Glyph)
    BY <1>5, PromptText DEF Within
  <2>2. Built(x.text, x.builder, x.start, Out(x))
    BY DEF Turn, KeepsUp, Laid
  <2>3. x.start \in 1..(Len(x.text) + 1)
    BY <1>1, <1>5
  <2> QED BY <2>1, <2>2, <2>3, BuiltIs
<1>7. Pending(ps1, x) \in Seq(Glyph)
  <2>1. x.start + x.count - 1 \in Int /\ x.start + x.count - 1 <= Len(ps1)
    BY <1>1, <1>5
  <2> QED BY <1>5, <2>1, PendingIs DEF Pending
<1>8. sure \in Seq(Glyph)
  BY <1>6, <1>7, ConcatProperties
<1>9. x.backslash => k > 1
  <2> SUFFICES ASSUME x.backslash PROVE k > 1
    OBVIOUS
  <2>1. x.start + x.count + 1 = k
    BY <1>5 DEF Taken
  <2> QED BY <1>5, <2>1
<1> HIDE DEF s, sure, i
<1>10. x.backslash => /\ x.level = 0 /\ s.in = "escape" /\ s.held = <<"\\">>
                      /\ ps1[i] = "\\" /\ s.shown = sure
  BY <1>4 DEF Says, InEscape
<1>11. ~x.backslash /\ x.level > 0 =>
          /\ s.in = "digits" /\ s.held = <<Number(x.level)>>
          /\ ps1[k] = "1" /\ s.shown = sure
  BY <1>1, <1>4 DEF Says, InDigits
<1>12. ~x.backslash /\ x.level = 0 =>
          Show(s, ps1[k]) = ShowNext(s, ps1[k]) /\ s.shown \o s.held = sure
  BY <1>1, <1>4 DEF Says, Between
<1> QED BY <1>1, <1>2, <1>3, <1>6, <1>7, <1>8, <1>9, <1>10, <1>11, <1>12 DEF s, sure

LEMMA TurnEscape ==
    ASSUME NEW ps1 \in Seq(PromptCharacter), NEW e \in EscapeTable,
           NEW k \in 1..Len(ps1), Turn(ps1, e, k), x.backslash
    PROVE  LET s == ShowTo(ps1, e, k - 1)
           IN  /\ x.level = 0 /\ s.in = "escape" /\ s.held = <<"\\">>
               /\ k > 1 /\ ps1[k - 1] = "\\" /\ s.shown = Out(x) \o Pending(ps1, x)
BY TurnSays

LEMMA TurnSaid ==
    ASSUME NEW ps1 \in Seq(PromptCharacter), NEW e \in EscapeTable,
           NEW k \in 1..Len(ps1), Turn(ps1, e, k)
    PROVE  /\ Says(x, ps1, ShowTo(ps1, e, k - 1), k - 1, Out(x) \o Pending(ps1, x))
           /\ k - 1 < Len(ps1) /\ k - 1 + 1 = k
BY DEF Turn, KeepsUp

LEMMA TurnDigits ==
    ASSUME NEW ps1 \in Seq(PromptCharacter), NEW e \in EscapeTable,
           NEW k \in 1..Len(ps1), Turn(ps1, e, k), ~x.backslash, x.level > 0
    PROVE  LET s == ShowTo(ps1, e, k - 1)
           IN  /\ s.in = "digits" /\ s.held = <<Number(x.level)>>
               /\ ps1[k] = "1" /\ s.shown = Out(x) \o Pending(ps1, x)
<1> DEFINE i == k - 1
           s == ShowTo(ps1, e, i)
           sure == Out(x) \o Pending(ps1, x)
<1>1. Says(x, ps1, s, i, sure) /\ i + 1 = k
  BY TurnSaid
<1> HIDE DEF s, sure, i
<1>2. InDigits(x, ps1, s, i, sure)
  BY ONLY <1>1, ~x.backslash, x.level > 0 DEF Says
<1>3. s.in = "digits" /\ s.held = <<Number(x.level)>> /\ ps1[i + 1] = "1" /\ s.shown = sure
  BY ONLY <1>2 DEF InDigits
<1> QED BY <1>1, <1>3 DEF s, sure, i

LEMMA TurnText ==
    ASSUME NEW ps1 \in Seq(PromptCharacter), NEW e \in EscapeTable,
           NEW k \in 1..Len(ps1), Turn(ps1, e, k), ~x.backslash, x.level = 0
    PROVE  LET s == ShowTo(ps1, e, k - 1)
           IN  /\ ShowTo(ps1, e, k) = ShowNext(s, ps1[k])
               /\ s.shown \o s.held = Out(x) \o Pending(ps1, x)
<1> DEFINE i == k - 1
           s == ShowTo(ps1, e, i)
           sure == Out(x) \o Pending(ps1, x)
<1>1. Says(x, ps1, s, i, sure) /\ i + 1 = k /\ i < Len(ps1)
  BY TurnSaid
<1>2. ShowTo(ps1, e, k) = Show(s, ps1[k])
  BY ShowToNext
<1> HIDE DEF s, sure, i
<1>3. Between(ps1, s, i, sure)
  BY ONLY <1>1, ~x.backslash, x.level = 0 DEF Says
<1>4. Show(s, ps1[i + 1]) = ShowNext(s, ps1[i + 1]) /\ s.shown \o s.held = sure
  BY ONLY <1>1, <1>3 DEF Between
<1> QED BY <1>1, <1>2, <1>4 DEF s, sure, i

LEMMA TurnTyped ==
    ASSUME NEW ps1 \in Seq(PromptCharacter), NEW e \in EscapeTable,
           NEW k \in 1..Len(ps1), Turn(ps1, e, k)
    PROVE  /\ ShowTo(ps1, e, k - 1) \in Showings(e)
           /\ ShowTo(ps1, e, k) = Show(ShowTo(ps1, e, k - 1), ps1[k])
           /\ Out(x) \in Seq(Glyph) /\ Pending(ps1, x) \in Seq(Glyph)
           /\ Out(x) \o Pending(ps1, x) \in Seq(Glyph)
BY TurnSays

(* No escape is open, and y has a new part for what was shown, or has      *)
(* counted it.                                                             *)
LEMMA BetweenShows ==
    ASSUME NEW ps1 \in Seq(PromptCharacter), NEW e \in EscapeTable,
           NEW k \in 1..Len(ps1), NEW y, Within(y), y.cur = k, y.end = "no",
           y.backslash = FALSE, y.level = 0,
           Laid(y, ps1, e), Where(y, k),
           Between(ps1, ShowTo(ps1, e, k), k, Out(y) \o Pending(ps1, y)), Goes(y)
    PROVE  ShownTo(x', ps1, e)
<1>1. KeepsUp(y, ps1, e, y.cur)
  <2>1. ~(y.level > 0)
    OBVIOUS
  <2>2. Says(y, ps1, ShowTo(ps1, e, k), k, Out(y) \o Pending(ps1, y))
    BY <2>1 DEF Says
  <2> QED BY <2>2 DEF KeepsUp
<1> QED BY <1>1, GoesShows

LEMMA FirstBackslashShows ==
    ASSUME NEW ps1 \in Seq(PromptCharacter), NEW e \in EscapeTable,
           NEW k \in 1..Len(ps1), Turn(ps1, e, k), FirstBackslash
    PROVE  ShownTo(x', ps1, e)
<1> DEFINE s == ShowTo(ps1, e, k - 1)
           t == ShowTo(ps1, e, k)
           sure == Out(x) \o Pending(ps1, x)
           y == [x EXCEPT !.backslash = TRUE]
<1>1. /\ Within(x) /\ x.level \in 0..2 /\ Char = ps1[k] /\ x.start + x.count + Taken(x) = k
      /\ ps1[k] \in PromptCharacter /\ x.count \in Nat /\ x.start \in 1..(Len(ps1) + 1)
  BY TurnIs
<1>2. ~x.backslash /\ ps1[k] = "\\" /\ Goes(y)
  BY <1>1 DEF FirstBackslash
<1>3. x.level = 0
  <2>1. x.level > 0 => ps1[k] = "1"
    BY <1>2, TurnSays
  <2>2. ~(x.level > 0)
    BY <1>2, <2>1
  <2> QED BY <1>1, <2>2
<1>4. s \in Showings(e) /\ t = ShowNext(s, ps1[k]) /\ s.shown \o s.held = sure
  BY <1>2, <1>3, TurnSays
<1>5. t.in = "escape" /\ t.held = <<"\\">> /\ t.shown = sure
  <2> HIDE DEF s, t, sure
  <2>1. t = ShowNext(s, "\\") /\ s \in Showings(e)
    BY <1>2, <1>4
  <2> QED BY <1>4, <2>1, ShowNextEscape
<1>6. /\ y.cur = k /\ y.start = x.start /\ y.count = x.count /\ y.text = x.text
      /\ y.builder = x.builder /\ y.cwd = x.cwd /\ y.end = "no"
      /\ y.backslash = TRUE /\ y.level = 0
  BY <1>1, <1>3 DEF Within, Shaped, Turn
<1>7. Within(y)
  BY <1>1 DEF Within, Shaped
<1> HIDE DEF y, s, t
<1>8. Laid(y, ps1, e) /\ Out(y) = Out(x)
  BY <1>1, <1>6, LaidStays DEF Turn, KeepsUp
<1>9. Where(y, k)
  <2>1. Taken(x) = 0 /\ Taken(y) = 1
    BY <1>2, <1>3, <1>6 DEF Taken
  <2>2. x.start + x.count + 0 = k
    BY <1>1, <2>1
  <2>3. x.start + x.count + 1 = k + 1
    BY <1>1, <2>2
  <2> QED BY <1>6, <2>1, <2>3 DEF Where
<1>10. Says(y, ps1, t, k, Out(y) \o Pending(ps1, y))
  <2>1. Pending(ps1, y) = Pending(ps1, x)
    BY <1>6 DEF Pending
  <2> QED BY <1>2, <1>5, <1>6, <1>8, <2>1 DEF Says, InEscape
<1>11. KeepsUp(y, ps1, e, y.cur)
  BY <1>6, <1>8, <1>9, <1>10 DEF KeepsUp, t
<1> QED BY <1>2, <1>6, <1>7, <1>11, GoesShows

(* Without an open number the level is 0.                                  *)
LEMMA NoNumber ==
    ASSUME NEW ps1 \in Seq(PromptCharacter), NEW e \in EscapeTable,
           NEW k \in 1..Len(ps1), Turn(ps1, e, k),
           x.backslash \/ ps1[k] # "1"
    PROVE  x.level = 0
<1>1. x.level \in 0..2 /\ x.backslash \in BOOLEAN
  BY TurnIs
<1>2. CASE x.backslash
  BY <1>2, TurnSays
<1>3. CASE ~x.backslash
  <2>1. x.level > 0 => ps1[k] = "1"
    BY <1>3, TurnDigits
  <2>2. ~(x.level > 0)
    BY <1>3, <2>1
  <2> QED BY <1>1, <2>2
<1> QED BY <1>2, <1>3

(* n more characters are counted, and no escape is open.                   *)
Counted(ps1, e, k, y, n) ==
    /\ Within(y) /\ y.cur = k /\ y.end = "no" /\ y.backslash = FALSE
    /\ y.level = 0 /\ Laid(y, ps1, e) /\ Where(y, k) /\ Out(y) = Out(x)
    /\ Pending(ps1, y) = SubSeq(ps1, x.start, x.start + x.count + n - 1)

LEMMA CountedIs ==
    ASSUME NEW ps1 \in Seq(PromptCharacter), NEW e \in EscapeTable,
           NEW k \in 1..Len(ps1), Turn(ps1, e, k), x.level = 0,
           NEW n \in Nat, n = Taken(x) + 1
    PROVE  Counted(ps1, e, k, [x EXCEPT !.count = @ + n, !.backslash = FALSE], n)
<1> DEFINE m == x.count + n
           y == [x EXCEPT !.count = m, !.backslash = FALSE]
<1>1. /\ Within(x) /\ x.start \in 1..(Len(ps1) + 1) /\ x.count \in Nat
      /\ x.start + x.count + Taken(x) = k /\ x.backslash \in BOOLEAN
  BY TurnIs
<1>2. Taken(x) \in Nat
  BY DEF Taken
<1>3. m \in Nat /\ x.start + m = k + 1
  <2> DEFINE a == x.start
             c == x.count
             d == Taken(x)
  <2>1. a \in Nat /\ c \in Nat /\ d \in Nat /\ a + c + d = k /\ n = d + 1
    BY <1>1, <1>2
  <2> HIDE DEF a, c, d
  <2>2. c + n \in Nat /\ a + (c + n) = k + 1
    BY <2>1
  <2> QED BY <2>2 DEF a, c
<1>4. y = [x EXCEPT !.count = @ + n, !.backslash = FALSE]
  OBVIOUS
<1> HIDE DEF m
<1>5. /\ y.cur = k /\ y.start = x.start /\ y.count = m /\ y.text = x.text
      /\ y.builder = x.builder /\ y.cwd = x.cwd /\ y.end = "no"
      /\ y.backslash = FALSE /\ y.level = 0
  BY <1>1 DEF Within, Shaped, Turn
<1>6. Within(y)
  BY <1>1 DEF Within, Shaped
<1> HIDE DEF y
<1>7. Laid(y, ps1, e) /\ Out(y) = Out(x)
  BY <1>3, <1>5, LaidStays DEF Turn, KeepsUp
<1>8. Where(y, k)
  <2>1. Taken(y) = 0
    BY <1>5 DEF Taken
  <2>2. x.start + m + 0 = k + 1
    BY <1>1, <1>3
  <2> QED BY <1>5, <2>1, <2>2 DEF Where
<1>9. Pending(ps1, y) = SubSeq(ps1, x.start, x.start + x.count + n - 1)
  <2>1. x.start + m - 1 = x.start + x.count + n - 1
    BY <1>1 DEF m
  <2> QED BY <1>5, <2>1 DEF Pending
<1>10. Counted(ps1, e, k, y, n)
  BY <1>5, <1>6, <1>7, <1>8, <1>9 DEF Counted
<1> QED BY <1>4, <1>10, Zenon

(* One or two more characters are kept.                                    *)
LEMMA PendingOne ==
    ASSUME NEW ps1 \in Seq(PromptCharacter), NEW e \in EscapeTable,
           NEW k \in 1..Len(ps1), Turn(ps1, e, k), Taken(x) = 0
    PROVE  SubSeq(ps1, x.start, x.start + x.count) = Pending(ps1, x) \o <<ps1[k]>>
<1>1. x.start \in 1..(Len(ps1) + 1) /\ x.count \in Nat /\ x.start + x.count + Taken(x) = k
  BY TurnIs
<1>2. x.start + x.count = k
  BY <1>1
<1>3. x.start + x.count <= Len(ps1)
  BY <1>2
<1> QED BY <1>1, <1>2, <1>3, PendingNext DEF Pending

LEMMA PendingEscape ==
    ASSUME NEW ps1 \in Seq(PromptCharacter), NEW e \in EscapeTable,
           NEW k \in 1..Len(ps1), Turn(ps1, e, k), x.backslash
    PROVE  /\ x.start + x.count = k - 1
           /\ SubSeq(ps1, x.start, x.start + x.count) = Pending(ps1, x) \o <<"\\">>
           /\ SubSeq(ps1, x.start, x.start + x.count + 1)
                 = (Pending(ps1, x) \o <<"\\">>) \o <<ps1[k]>>
<1>1. x.start \in 1..(Len(ps1) + 1) /\ x.count \in Nat /\ x.start + x.count + Taken(x) = k
  BY TurnIs
<1>2. Taken(x) = 1
  BY DEF Taken
<1> DEFINE n == x.count + 1
<1>3. /\ x.start + x.count = k - 1 /\ x.start + x.count <= Len(ps1)
      /\ n \in Nat /\ x.start + n = k /\ x.start + n <= Len(ps1)
      /\ x.start + n - 1 = x.start + x.count /\ x.start + x.count + 1 = x.start + n
  BY <1>1, <1>2
<1>4. ps1[k - 1] = "\\"
  BY TurnSays
<1>5. SubSeq(ps1, x.start, x.start + x.count)
         = SubSeq(ps1, x.start, x.start + x.count - 1) \o <<ps1[x.start + x.count]>>
  BY <1>1, <1>3, PendingNext
<1> HIDE DEF n
<1>6. SubSeq(ps1, x.start, x.start + n)
         = SubSeq(ps1, x.start, x.start + n - 1) \o <<ps1[x.start + n]>>
  BY <1>1, <1>3, PendingNext
<1>7. SubSeq(ps1, x.start, x.start + x.count) = Pending(ps1, x) \o <<"\\">>
  BY <1>3, <1>4, <1>5 DEF Pending
<1>8. SubSeq(ps1, x.start, x.start + n) = (Pending(ps1, x) \o <<"\\">>) \o <<ps1[k]>>
  BY <1>3, <1>6, <1>7
<1> QED BY <1>3, <1>7, <1>8

LEMMA JoinTwo ==
    ASSUME NEW o \in Seq(Glyph), NEW kept \in Seq(Glyph), NEW g \in Glyph, NEW h \in Glyph
    PROVE  /\ (o \o kept) \o <<g>> = o \o (kept \o <<g>>)
           /\ (o \o kept) \o <<g, h>> = o \o ((kept \o <<g>>) \o <<h>>)
<1> DEFINE a == <<g>>
           b == <<h>>
           c == <<g, h>>
<1>1. a \in Seq(Glyph) /\ b \in Seq(Glyph) /\ c \in Seq(Glyph)
  OBVIOUS
<1>2. c = a \o b
  <2>1. Append(a, h) = c
    <3> DEFINE d == Append(a, h)
    <3>1. a[1] = g /\ Len(a) = 1
      OBVIOUS
    <3>2. c[1] = g /\ c[2] = h /\ Len(c) = 2
      OBVIOUS
    <3> HIDE DEF a, c
    <3>3. d \in Seq(Glyph) /\ Len(d) = 2 /\ d[1] = g /\ d[2] = h
      <4>1. a \in Seq(Glyph) /\ h \in Glyph
        BY <1>1
      <4>2. /\ d \in Seq(Glyph) /\ Len(d) = Len(a) + 1 /\ d[Len(a) + 1] = h
            /\ \A j \in 1..Len(a) : d[j] = a[j]
        BY ONLY <4>1, AppendProperties
      <4> HIDE DEF d
      <4>3. 1 \in 1..Len(a) /\ Len(a) + 1 = 2
        BY <3>1
      <4> QED BY <3>1, <4>2, <4>3
    <3> HIDE DEF d
    <3>4. Len(d) = Len(c) /\ \A j \in 1..Len(d) : d[j] = c[j]
      BY <3>2, <3>3
    <3>5. d = c
      BY <1>1, <3>3, <3>4, SeqEqual
    <3> QED BY <3>5 DEF d
  <2>2. Append(a, h) = a \o b
    BY <1>1, AppendIsConcat
  <2> QED BY <2>1, <2>2
<1> HIDE DEF a, b, c
<1>3. (o \o kept) \o a = o \o (kept \o a)
  BY <1>1, GlyphsJoin
<1>4. (o \o kept) \o c = o \o (kept \o c)
  BY <1>1, GlyphsJoin
<1>5. kept \o (a \o b) = (kept \o a) \o b
  BY <1>1, GlyphsJoin
<1>6. (o \o kept) \o c = o \o ((kept \o a) \o b)
  BY <1>2, <1>4, <1>5
<1> QED BY <1>3, <1>6 DEF a, b, c

LEMMA KeepOneShows ==
    ASSUME NEW ps1 \in Seq(PromptCharacter), NEW e \in EscapeTable,
           NEW k \in 1..Len(ps1), Turn(ps1, e, k), Keep, ~x.backslash
    PROVE  ShownTo(x', ps1, e)
<1> DEFINE s == ShowTo(ps1, e, k - 1)
           t == ShowTo(ps1, e, k)
           sure == Out(x) \o Pending(ps1, x)
           c == ps1[k]
           y == [x EXCEPT !.count = @ + 1, !.backslash = FALSE]
<1>1. x.level \in 0..2 /\ Char = c /\ c \in PromptCharacter /\ x.count \in Nat
      /\ x.start \in 1..(Len(ps1) + 1)
  BY TurnIs
<1>2. c # "\\" /\ ~(c = "1" /\ x.level > 0)
  <2>1. c # "\\"
    BY <1>1 DEF Keep
  <2>2. ~(c = "1" /\ x.level > 0)
    BY <1>1 DEF Keep
  <2> QED BY <2>1, <2>2
<1>3. Goes(y)
  BY DEF Keep
<1>4. x.level = 0
  <2>1. CASE c = "1"
    BY <1>1, <1>2, <2>1
  <2>2. CASE c # "1"
    BY <2>2, NoNumber
  <2> QED BY <2>1, <2>2
<1>5. s \in Showings(e) /\ t = ShowNext(s, c) /\ s.shown \o s.held = sure
      /\ Out(x) \in Seq(Glyph) /\ Pending(ps1, x) \in Seq(Glyph) /\ sure \in Seq(Glyph)
  BY <1>4, TurnText, TurnTyped
<1>6. t.shown = sure \o <<c>> /\ t.in = "text" /\ t.held = <<>> /\ t \in Showings(e)
  <2> HIDE DEF s, t, sure, c
  <2> QED BY <1>1, <1>2, <1>5, ShowNextOther
<1>7. Taken(x) = 0 /\ 1 \in Nat /\ 1 = Taken(x) + 1
  BY <1>4 DEF Taken
<1>8. /\ Within(y) /\ y.cur = k /\ y.end = "no" /\ y.backslash = FALSE
      /\ y.level = 0 /\ Laid(y, ps1, e) /\ Where(y, k) /\ Out(y) = Out(x)
      /\ Pending(ps1, y) = SubSeq(ps1, x.start, x.start + x.count + 1 - 1)
  <2>1. Counted(ps1, e, k, [x EXCEPT !.count = @ + 1, !.backslash = FALSE], 1)
    BY <1>4, <1>7, CountedIs
  <2> HIDE DEF s, t, sure, c
  <2> QED BY <2>1, Zenon DEF Counted
<1> HIDE DEF y
<1>9. Pending(ps1, y) = Pending(ps1, x) \o <<c>>
  <2>1. x.start + x.count + 1 - 1 = x.start + x.count
    BY <1>1
  <2> QED BY <1>7, <1>8, <2>1, PendingOne
<1>10. c \in Glyph
  BY <1>1, CharacterIsGlyph
<1> HIDE DEF c
<1>11. Out(y) \o Pending(ps1, y) = sure \o <<c>>
  <2>1. (Out(x) \o Pending(ps1, x)) \o <<c>> = Out(x) \o (Pending(ps1, x) \o <<c>>)
    BY <1>5, <1>10, JoinTwo
  <2> QED BY <1>8, <1>9, <2>1
<1>12. t.shown \o t.held = sure \o <<c>>
  <2>1. t.shown \in Seq(Glyph)
    BY <1>6 DEF Showings
  <2> HIDE DEF t, sure
  <2> QED BY <1>6, <2>1, ConcatEmptySeq
<1>13. Between(ps1, t, k, Out(y) \o Pending(ps1, y))
  <2>1. k < Len(ps1) => Show(t, ps1[k + 1]) = ShowNext(t, ps1[k + 1])
    BY <1>6, ShowBeyond
  <2> QED BY <1>11, <1>12, <2>1 DEF Between
<1> QED BY <1>3, <1>8, <1>13, BetweenShows

LEMMA KeepTwoShows ==
    ASSUME NEW ps1 \in Seq(PromptCharacter), NEW e \in EscapeTable,
           NEW k \in 1..Len(ps1), Turn(ps1, e, k), Keep, x.backslash
    PROVE  ShownTo(x', ps1, e)
<1> DEFINE s == ShowTo(ps1, e, k - 1)
           t == ShowTo(ps1, e, k)
           sure == Out(x) \o Pending(ps1, x)
           c == ps1[k]
           y == [x EXCEPT !.count = @ + 2, !.backslash = FALSE]
<1>1. Char = c /\ c \in PromptCharacter /\ x.count \in Nat /\ x.start \in 1..(Len(ps1) + 1)
  BY TurnIs
<1>2. \/ c \in {"x", "!", "p", "{", "}", "/", "~"}
      \/ c = "D" /\ NextChar # "{"
  <2>1. \/ c \in {"x", "!", "p", "{", "}", "/", "~", "NUL"}
        \/ c = "D" /\ NextChar # "{"
    BY <1>1 DEF Keep
  <2>2. c # "NUL"
    BY <1>1 DEF PromptCharacter
  <2> HIDE DEF c
  <2> QED BY <2>1, <2>2
<1>3. Goes(y)
  BY DEF Keep
<1>4. x.level = 0
  BY NoNumber
<1>5. s \in Showings(e) /\ t = Show(s, c) /\ s.in = "escape" /\ s.shown = sure
      /\ Out(x) \in Seq(Glyph) /\ Pending(ps1, x) \in Seq(Glyph) /\ sure \in Seq(Glyph)
  BY TurnSays
<1>6. c \in Glyph /\ "\\" \in Glyph /\ "D" \in Glyph
  BY <1>1, GlyphsAre, CharacterIsGlyph
<1> DEFINE more == <<"\\", c>>
<1>7. more \in Seq(Glyph)
  BY <1>6, TwoGlyphs
<1>8. /\ t.shown \o t.held = sure \o more
      /\ t.in = "text" \/ (t.in = "date" /\ NextChar # "{")
  <2>1. CASE c \in {"x", "!", "p", "{", "}", "/", "~"}
    <3> HIDE DEF s, t, sure, c
    <3>1. c \notin Escapable \cup {"1", "D"}
      BY <2>1 DEF Escapable
    <3>2. t = Showing(s, more)
      BY <1>1, <1>5, <3>1, ShowEscape
    <3> HIDE DEF more
    <3>3. t \in Showings(e) /\ t.shown = s.shown \o more /\ t.in = "text" /\ t.held = <<>>
      <4>1. s \in Showings(e)
        BY <1>5
      <4>2. LET r == Showing(s, more)
            IN  /\ r \in Showings(e) /\ r.shown = s.shown \o more
                /\ r.in = "text" /\ r.held = <<>>
        BY ONLY <1>7, <4>1, ShowingIs
      <4> QED BY <3>2, <4>2
    <3>4. t.shown \in Seq(Glyph)
      BY <3>3 DEF Showings
    <3> QED BY <1>5, <3>3, <3>4, ConcatEmptySeq
  <2>2. CASE c = "D" /\ NextChar # "{"
    <3> HIDE DEF s, t, sure, c
    <3>1. t = Holding(s, "date", more)
      BY <1>1, <1>5, <2>2, ShowEscape
    <3>2. "date" \in Places
      BY DEF Places
    <3> HIDE DEF more
    <3>3. t.shown = s.shown /\ t.in = "date" /\ t.held = more
      BY <1>5, <1>7, <3>1, <3>2, HoldingIs
    <3> QED BY <1>5, <2>2, <3>3
  <2> QED BY <1>2, <2>1, <2>2
<1>9. Taken(x) = 1 /\ 2 \in Nat /\ 2 = Taken(x) + 1
  BY DEF Taken
<1>10. /\ Within(y) /\ y.cur = k /\ y.end = "no" /\ y.backslash = FALSE
       /\ y.level = 0 /\ Laid(y, ps1, e) /\ Where(y, k) /\ Out(y) = Out(x)
       /\ Pending(ps1, y) = SubSeq(ps1, x.start, x.start + x.count + 2 - 1)
  <2>1. Counted(ps1, e, k, [x EXCEPT !.count = @ + 2, !.backslash = FALSE], 2)
    BY <1>4, <1>9, CountedIs
  <2> HIDE DEF s, t, sure, c
  <2> QED BY <2>1, Zenon DEF Counted
<1> HIDE DEF y
<1>11. Pending(ps1, y) = (Pending(ps1, x) \o <<"\\">>) \o <<c>>
  <2>1. x.start + x.count + 2 - 1 = x.start + x.count + 1
    BY <1>1
  <2> QED BY <1>10, <2>1, PendingEscape
<1> HIDE DEF c
<1>12. Out(y) \o Pending(ps1, y) = sure \o more
  <2>1. (Out(x) \o Pending(ps1, x)) \o <<"\\", c>>
           = Out(x) \o ((Pending(ps1, x) \o <<"\\">>) \o <<c>>)
    <3>1. ASSUME NEW g \in Glyph, NEW h \in Glyph
          PROVE  (Out(x) \o Pending(ps1, x)) \o <<g, h>>
                    = Out(x) \o ((Pending(ps1, x) \o <<g>>) \o <<h>>)
      <4>1. Out(x) \in Seq(Glyph) /\ Pending(ps1, x) \in Seq(Glyph)
        BY <1>5
      <4> QED BY ONLY <3>1, <4>1, JoinTwo
    <3> QED BY ONLY <1>6, <3>1
  <2> QED BY <1>10, <1>11, <2>1
<1>13. Between(ps1, t, k, Out(y) \o Pending(ps1, y))
  <2>1. ASSUME k < Len(ps1) PROVE Show(t, ps1[k + 1]) = ShowNext(t, ps1[k + 1])
    <3>1. NextChar = ps1[k + 1]
      BY <2>1, TurnIs
    <3> HIDE DEF t
    <3> QED BY <1>8, <3>1, ShowBeyond
  <2> QED BY <1>8, <1>12, <2>1 DEF Between
<1> QED BY <1>3, <1>10, <1>13, BetweenShows

LEMMA AlikeIn ==
    ASSUME NEW S, NEW u \in Seq(S), NEW v \in Seq(S), NEW a \in Nat, a >= 1, NEW m \in Int,
           m <= Len(u), m <= Len(v), \A j \in a..m : u[j] = v[j]
    PROVE  SubSeq(u, a, m) = SubSeq(v, a, m)
<1> DEFINE q == SubSeq(u, a, m)
           r == SubSeq(v, a, m)
           k == m - a + 1
<1>1. a \in Int /\ \A j \in a..m : u[j] \in S /\ v[j] \in S
  OBVIOUS
<1>2. /\ q \in Seq(S) /\ Len(q) = IF a <= m THEN k ELSE 0
      /\ \A i \in 1..k : q[i] = u[a + i - 1]
  BY <1>1, SubSeqProperties
<1>3. /\ r \in Seq(S) /\ Len(r) = IF a <= m THEN k ELSE 0
      /\ \A i \in 1..k : r[i] = v[a + i - 1]
  BY <1>1, SubSeqProperties
<1>4. Len(q) = Len(r) /\ \A i \in 1..Len(q) : a + i - 1 \in a..m /\ i \in 1..k
  <2> HIDE DEF q, r
  <2> QED BY <1>1, <1>2, <1>3
<1> HIDE DEF q, r, k
<1>5. \A i \in 1..Len(q) : q[i] = r[i]
  BY <1>2, <1>3, <1>4
<1> QED BY <1>2, <1>3, <1>4, <1>5, SeqEqual DEF q, r

(* A part, and perhaps a string, is added for what is shown up to k.       *)
LEMMA PartShows ==
    ASSUME NEW ps1 \in Seq(PromptCharacter), NEW e \in EscapeTable,
           NEW j \in 1..Len(ps1), Turn(ps1, e, j), NEW k \in j..Len(ps1),
           NEW u \in Seq(PromptCharacter \cup Put), Len(u) = Len(x.text),
           \A l \in 1..(x.start - 1) : u[l] = x.text[l],
           \A l \in (k + 1)..(Len(ps1) + 1) : u[l] = x.text[l],
           NEW n \in Nat, x.start + n <= k + 1, NEW own \in Seq(Glyph),
           Between(ps1, ShowTo(ps1, e, k), k,
                   (Out(x) \o SubSeq(u, x.start, x.start + n - 1)) \o own),
           Goes(Reset(AddOwn(AddPart([x EXCEPT !.text = u], n), own), k))
    PROVE  ShownTo(x', ps1, e)
<1> DEFINE z == Reset(AddOwn(AddPart([x EXCEPT !.text = u], n), own), k)
           out == (Out(x) \o SubSeq(u, x.start, x.start + n - 1)) \o own
<1>1. Within(x) /\ Laid(x, ps1, e) /\ x.end = "no"
  BY DEF Turn, ExpanderInv, KeepsUp
<1>2. k \in 1..Len(ps1)
  OBVIOUS
<1>3. /\ Within(z) /\ z.cur = k /\ z.end = x.end
      /\ z.backslash = FALSE /\ z.level = 0
      /\ Out(z) = out /\ Pending(ps1, z) = <<>>
      /\ Laid(z, ps1, e) /\ Where(z, k)
  <2>1. Renewed(ps1, e, x, u, k, n, own)
    BY <1>1, <1>2, NewPieces
  <2> QED BY <2>1 DEF Renewed
<1>4. Goes(z) /\ Between(ps1, ShowTo(ps1, e, k), k, out)
  OBVIOUS
<1> HIDE DEF z, out
<1>5. Out(z) \o Pending(ps1, z) = out
  <2>1. z.text \in Seq(Glyph) /\ z.start \in 1..(Len(z.text) + 1)
    BY <1>3, PromptText DEF Within
  <2>2. Built(z.text, z.builder, z.start, Out(z))
    BY <1>3 DEF Laid
  <2>3. Out(z) \in Seq(Glyph)
    BY <2>1, <2>2, BuiltIs
  <2> QED BY <1>3, <2>3, ConcatEmptySeq
<1>6. Between(ps1, ShowTo(ps1, e, k), k, Out(z) \o Pending(ps1, z))
  BY <1>4, <1>5
<1> QED BY <1>1, <1>2, <1>3, <1>4, <1>6, BetweenShows

LEMMA NoOwn == ASSUME NEW y PROVE AddOwn(y, <<>>) = y
BY DEF AddOwn

(* What is counted is in the text.                                         *)
LEMMA PendingInText ==
    ASSUME NEW ps1 \in Seq(PromptCharacter), NEW e \in EscapeTable,
           NEW k \in 1..Len(ps1), Turn(ps1, e, k)
    PROVE  SubSeq(x.text, x.start, x.start + x.count - 1) = Pending(ps1, x)
<1> DEFINE L == Len(ps1)
           v == x.text
           a == x.start
           m == x.start + x.count - 1
<1>1. /\ Len(v) = L + 1 /\ a \in 1..(L + 1) /\ x.count \in Nat
      /\ x.start + x.count <= k /\ L \in Nat
  BY TurnIs
<1>2. v \in Seq(Glyph) /\ ps1 \in Seq(Glyph)
  <2>1. v \in Seq(Glyph)
    BY PromptText DEF Turn, ExpanderInv, Within
  <2>2. ps1 \in Seq(Glyph)
    BY SeqMonotonic DEF Glyph
  <2> QED BY <2>1, <2>2
<1>3. \A j \in a..L : v[j] = ps1[j]
  BY DEF Turn, KeepsUp, Laid
<1>4. a \in Nat /\ a >= 1 /\ m \in Int /\ m <= Len(v) /\ m <= Len(ps1)
  BY <1>1
<1> HIDE DEF a, v
<1>5. \A j \in a..m : v[j] = ps1[j]
  <2> HIDE DEF m
  <2>1. \A j \in a..m : j \in a..L
    BY <1>1, <1>4
  <2> QED BY <1>3, <2>1
<1> HIDE DEF m
<1>6. SubSeq(v, a, m) = SubSeq(ps1, a, m)
  BY <1>2, <1>4, <1>5, AlikeIn
<1> QED BY <1>6 DEF Pending, a, v, m

(* replace_char, and a second backslash: one character ends the part.      *)
LEMMA PutShows ==
    ASSUME NEW ps1 \in Seq(PromptCharacter), NEW e \in EscapeTable,
           NEW k \in 1..Len(ps1), Turn(ps1, e, k), x.start + x.count < k,
           NEW g \in PromptCharacter \cup Put,
           Between(ps1, ShowTo(ps1, e, k), k, (Out(x) \o Pending(ps1, x)) \o <<g>>),
           Goes(Reset(AddPart([x EXCEPT !.text[x.start + x.count] = g], x.count + 1), k))
    PROVE  ShownTo(x', ps1, e)
<1> DEFINE L == Len(ps1)
           v == x.text
           a == x.start
           j == x.start + x.count
           u == [v EXCEPT ![j] = g]
           n == x.count + 1
           w == [x EXCEPT !.text = u]
<1>1. /\ Within(x) /\ Len(v) = L + 1 /\ a \in 1..(L + 1) /\ x.count \in Nat /\ L \in Nat
  BY TurnIs
<1>2. v \in Seq(PromptCharacter \cup Put)
  BY <1>1 DEF Within
<1>3. j \in 1..Len(v) /\ j >= a /\ j < k /\ j \in Nat /\ j <= L
  BY <1>1
<1>4. /\ u \in Seq(PromptCharacter \cup Put) /\ Len(u) = Len(v)
      /\ \A i \in 1..Len(v) : u[i] = IF i = j THEN g ELSE v[i]
  <2> HIDE DEF v, j
  <2> QED BY <1>2, <1>3, ExceptSeq
<1>5. w = [x EXCEPT !.text[x.start + x.count] = g]
  OBVIOUS
<1>6. a + n = j + 1 /\ n \in Nat /\ a + n <= k + 1 /\ a + n - 1 = j /\ j - 1 = a + x.count - 1
  <2> DEFINE c == x.count
  <2>1. a \in Nat /\ c \in Nat /\ j = a + c /\ n = c + 1 /\ j < k /\ k \in Nat
    BY <1>1, <1>3
  <2> HIDE DEF a, c, n, j
  <2>2. a + n = j + 1 /\ n \in Nat /\ a + n <= k + 1 /\ a + n - 1 = j /\ j - 1 = a + c - 1
    BY ONLY <2>1
  <2> QED BY <2>2 DEF c
<1>7. SubSeq(u, a, j) = Pending(ps1, x) \o <<g>>
  <2> DEFINE G == PromptCharacter \cup Put
             i == j - 1
  <2>1. j \in a..Len(u) /\ a \in 1..Len(u) /\ u[j] = g
    BY <1>1, <1>3, <1>4
  <2>2. u \in Seq(G) /\ v \in Seq(G)
    BY <1>2, <1>4
  <2> HIDE DEF G, u, v, a, j
  <2>3. SubSeq(u, a, j) = SubSeq(u, a, j - 1) \o <<u[j]>>
    BY <2>1, <2>2, SubSeqRecursiveSecond
  <2>4. SubSeq(u, a, i) = SubSeq(v, a, i)
    <3>1. a \in Nat /\ a >= 1 /\ i \in Int /\ i <= Len(u) /\ i <= Len(v)
      BY <1>1, <1>3, <1>4
    <3>2. \A l \in a..i : l \in 1..Len(v) /\ l # j
      BY <1>1, <1>3, <3>1
    <3>3. \A l \in a..i : u[l] = v[l]
      BY <1>4, <3>2
    <3> HIDE DEF i
    <3> QED BY <2>2, <3>1, <3>3, AlikeIn
  <2>5. SubSeq(v, a, i) = Pending(ps1, x)
    <3>1. i = a + x.count - 1
      BY <1>6
    <3> HIDE DEF i
    <3> QED BY <3>1, PendingInText DEF v, a
  <2> QED BY <2>1, <2>3, <2>4, <2>5
<1>8. /\ \A l \in 1..(a - 1) : u[l] = v[l]
      /\ \A l \in (k + 1)..(L + 1) : u[l] = v[l]
  <2> HIDE DEF u, v, a, j
  <2>1. \A l \in 1..(a - 1) : l \in 1..Len(v) /\ l # j
    BY <1>1, <1>3
  <2>2. \A l \in (k + 1)..(L + 1) : l \in 1..Len(v) /\ l # j
    BY <1>1, <1>3
  <2> QED BY <1>4, <2>1, <2>2
<1>9. <<>> \in Seq(Glyph) /\ Goes(Reset(AddOwn(AddPart(w, n), <<>>), k))
  BY <1>5, NoOwn
<1>10. Between(ps1, ShowTo(ps1, e, k), k, (Out(x) \o SubSeq(u, a, a + n - 1)) \o <<>>)
  <2> DEFINE s == SubSeq(u, a, a + n - 1)
             o == Out(x)
             r == Pending(ps1, x)
             b == <<g>>
  <2>1. s = r \o b
    BY <1>6, <1>7
  <2>2. o \in Seq(Glyph) /\ r \in Seq(Glyph)
    BY TurnTyped
  <2>3. b \in Seq(Glyph)
    <3>1. g \in Glyph
      BY DEF Glyph
    <3> QED BY <3>1, OneGlyph
  <2> HIDE DEF s, o, r, b
  <2>4. o \o s = (o \o r) \o b /\ o \o s \in Seq(Glyph)
    BY <2>1, <2>2, <2>3, GlyphsJoin, ConcatProperties
  <2>5. (o \o s) \o <<>> = (o \o r) \o b
    BY <2>4, ConcatEmptySeq
  <2> QED BY <2>5 DEF s, o, r, b
<1>11. k \in k..Len(ps1)
  OBVIOUS
<1> HIDE DEF u, n
<1> QED BY <1>1, <1>4, <1>6, <1>8, <1>9, <1>10, <1>11, PartShows

(* An escape of one character ends: its string is shown.                   *)
LEMMA EscapeEnds ==
    ASSUME NEW ps1 \in Seq(PromptCharacter), NEW e \in EscapeTable, NEW k, NEW s \in Showings(e),
           NEW own \in Seq(Glyph)
    PROVE  Between(ps1, Showing(s, own), k, s.shown \o own)
<1> DEFINE t == Showing(s, own)
<1>1. t \in Showings(e) /\ t.shown = s.shown \o own /\ t.in = "text" /\ t.held = <<>>
  BY ShowingIs
<1> HIDE DEF t
<1>2. t.shown \o t.held = s.shown \o own
  <2>1. t.shown \in Seq(Glyph)
    BY <1>1 DEF Showings
  <2> QED BY <1>1, <2>1, ConcatEmptySeq
<1>3. k < Len(ps1) => Show(t, ps1[k + 1]) = ShowNext(t, ps1[k + 1])
  BY <1>1, ShowBeyond
<1> QED BY <1>2, <1>3 DEF Between, t

LEMMA SecondBackslashShows ==
    ASSUME NEW ps1 \in Seq(PromptCharacter), NEW e \in EscapeTable,
           e["\\"] = <<"\\">>,
           NEW k \in 1..Len(ps1), Turn(ps1, e, k), SecondBackslash
    PROVE  ShownTo(x', ps1, e)
<1> DEFINE s == ShowTo(ps1, e, k - 1)
           t == ShowTo(ps1, e, k)
           sure == Out(x) \o Pending(ps1, x)
           j == x.start + x.count
<1>1. /\ Within(x) /\ Char = ps1[k] /\ x.start \in 1..(Len(ps1) + 1) /\ x.count \in Nat
      /\ Len(x.text) = Len(ps1) + 1
  BY TurnIs
<1>2. /\ ps1[k] = "\\" /\ x.backslash
      /\ Goes(Reset(AddPart(x, x.count + 1), x.cur)) /\ x.cur = k
  BY <1>1 DEF SecondBackslash, Turn
<1>3. s.in = "escape" /\ s.shown = sure /\ ps1[k - 1] = "\\"
  BY <1>2, TurnEscape
<1>4. s \in Showings(e) /\ t = Show(s, ps1[k])
  BY TurnTyped
<1>5. t = Showing(s, <<"\\">>)
  <2>1. "\\" \in Escapable /\ "\\" \in PromptCharacter
    BY DEF Escapable, PromptCharacter
  <2> HIDE DEF s, t
  <2>2. Show(s, "\\") = Showing(s, e["\\"])
    BY <1>3, <1>4, <2>1, ShowEscape
  <2> QED BY <1>2, <1>4, <2>2
<1>6. Between(ps1, t, k, sure \o <<"\\">>)
  <2>1. <<"\\">> \in Seq(Glyph)
    BY GlyphsAre, OneGlyph
  <2>2. s \in Showings(e)
    BY <1>4
  <2> HIDE DEF s, t, sure
  <2>3. Between(ps1, Showing(s, <<"\\">>), k, s.shown \o <<"\\">>)
    BY <2>1, <2>2, EscapeEnds
  <2> QED BY <1>3, <1>5, <2>3
<1>7. j = k - 1 /\ j < k
  BY <1>1, <1>2, PendingEscape
<1>8. [x EXCEPT !.text[j] = "\\"] = x
  <2> DEFINE v == x.text
  <2>1. j \in x.start..Len(ps1)
    BY <1>1, <1>7
  <2>2. v[j] = "\\"
    BY <1>3, <1>7, <2>1 DEF Turn, KeepsUp, Laid
  <2>3. [v EXCEPT ![j] = "\\"] = v
    <3>1. v \in Seq(PromptCharacter \cup Put)
      BY <1>1 DEF Within
    <3> HIDE DEF v
    <3> QED BY <2>2, <3>1
  <2>4. [x EXCEPT !.text = v] = x
    BY <1>1 DEF Within, Shaped
  <2> QED BY <2>3, <2>4
<1>9. "\\" \in PromptCharacter \cup Put
  BY DEF PromptCharacter
<1>10. Goes(Reset(AddPart([x EXCEPT !.text[j] = "\\"], x.count + 1), k))
  BY <1>2, <1>8
<1> QED BY <1>6, <1>7, <1>9, <1>10, PutShows

(* What takes the place of an escape of one character.                     *)
LEMMA ReplaceShows ==
    ASSUME NEW ps1 \in Seq(PromptCharacter), NEW e \in EscapeTable,
           e["$"] = <<"sign">>, e["n"] = <<"newline">>,
           e["["] = IF HaveReadline THEN <<"ignore">> ELSE <<>>,
           NEW k \in 1..Len(ps1), Turn(ps1, e, k), Replace
    PROVE  ShownTo(x', ps1, e)
<1> DEFINE s == ShowTo(ps1, e, k - 1)
           t == ShowTo(ps1, e, k)
           sure == Out(x) \o Pending(ps1, x)
           j == x.start + x.count
<1>1. Char = ps1[k] /\ x.backslash /\ x.cur = k
  BY TurnIs DEF Replace, Turn
<1>2. PICK r \in {<<"$", "sign">>, <<"n", "newline">>}
                   \cup (IF HaveReadline THEN {<<"[", "ignore">>} ELSE {}) :
          /\ Char = r[1]
          /\ Goes(Reset(AddPart([x EXCEPT !.text[x.cur - 1] = r[2]], x.count + 1), x.cur))
  BY DEF Replace
<1> DEFINE c == r[1]
           g == r[2]
<1>3. /\ c \in Escapable /\ e[c] = <<g>> /\ g \in PromptCharacter \cup Put
      /\ c \in PromptCharacter
  <2>1. CASE r = <<"$", "sign">>
    BY <2>1 DEF Escapable, Put, PromptCharacter
  <2>2. CASE r = <<"n", "newline">>
    BY <2>2 DEF Escapable, Put, PromptCharacter
  <2>3. CASE HaveReadline /\ r = <<"[", "ignore">>
    BY <2>3 DEF Escapable, Put, PromptCharacter
  <2> QED BY <2>1, <2>2, <2>3
<1>4. Goes(Reset(AddPart([x EXCEPT !.text[x.cur - 1] = g], x.count + 1), x.cur)) /\ ps1[k] = c
  BY <1>1, <1>2
<1> HIDE DEF c, g
<1>5. s.in = "escape" /\ s.shown = sure
  BY <1>1, TurnEscape
<1>6. s \in Showings(e) /\ t = Show(s, c)
  BY <1>4, TurnTyped
<1>7. <<g>> \in Seq(Glyph)
  <2>1. g \in Glyph
    BY <1>3 DEF Glyph
  <2> QED BY <2>1, OneGlyph
<1>8. Between(ps1, t, k, sure \o <<g>>)
  <2> HIDE DEF s, t, sure
  <2>1. t = Showing(s, <<g>>)
    BY <1>3, <1>5, <1>6, ShowEscape
  <2>2. Between(ps1, Showing(s, <<g>>), k, s.shown \o <<g>>)
    BY <1>6, <1>7, EscapeEnds
  <2> QED BY <1>5, <2>1, <2>2
<1>9. j = k - 1 /\ j < k
  <2>1. j = k - 1
    BY <1>1, PendingEscape
  <2> QED BY <2>1
<1>10. Goes(Reset(AddPart([x EXCEPT !.text[j] = g], x.count + 1), k))
  BY <1>1, <1>4, <1>9
<1> QED BY <1>3, <1>8, <1>9, <1>10, PutShows

LEMMA SubstituteShows ==
    ASSUME NEW ps1 \in Seq(PromptCharacter), NEW e \in EscapeTable,
           e["u"] = <<"user">>, e["w"] = WorkDir(x, FALSE), e["W"] = WorkDir(x, TRUE),
           e["["] = IF HaveReadline THEN <<"ignore">> ELSE <<>>,
           NEW k \in 1..Len(ps1), Turn(ps1, e, k), Substitute
    PROVE  ShownTo(x', ps1, e)
<1> DEFINE s == ShowTo(ps1, e, k - 1)
           t == ShowTo(ps1, e, k)
           kept == Pending(ps1, x)
           sure == Out(x) \o kept
           m == x.start + x.count
<1>1. /\ Char = ps1[k] /\ x.backslash /\ x.cur = k /\ Within(x) /\ x.count \in Nat
      /\ x.start + x.count <= k /\ x.start \in 1..(Len(ps1) + 1)
  BY TurnIs DEF Substitute, Turn
<1>2. PICK r \in {<<"u", <<"user">>>>, <<"w", WorkDir(x, FALSE)>>,
                  <<"W", WorkDir(x, TRUE)>>}
                   \cup (IF HaveReadline THEN {} ELSE {<<"[", <<>>>>}) :
          /\ Char = r[1]
          /\ Goes(Reset(AddOwn(AddPart(x, x.count), r[2]), x.cur))
  BY DEF Substitute
<1> DEFINE c == r[1]
           own == r[2]
<1>3. /\ c \in Escapable /\ e[c] = own
  <2>1. CASE r = <<"u", <<"user">>>>
    BY <2>1 DEF Escapable
  <2>2. CASE r = <<"w", WorkDir(x, FALSE)>>
    BY <2>2 DEF Escapable
  <2>3. CASE r = <<"W", WorkDir(x, TRUE)>>
    BY <2>3 DEF Escapable
  <2>4. CASE ~HaveReadline /\ r = <<"[", <<>>>>
    BY <2>4 DEF Escapable
  <2> QED BY <2>1, <2>2, <2>3, <2>4
<1>4. Goes(Reset(AddOwn(AddPart(x, x.count), own), k)) /\ ps1[k] = c
  BY <1>1, <1>2
<1> HIDE DEF c, own
<1>5. own \in Seq(Glyph) /\ c \in PromptCharacter
  <2>1. e[c] \in Seq(Glyph)
    BY <1>3 DEF EscapeTable
  <2> QED BY <1>3, <1>4, <2>1
<1>6. s.in = "escape" /\ s.shown = sure
  BY <1>1, TurnEscape
<1>7. s \in Showings(e) /\ t = Show(s, c)
  BY <1>4, TurnTyped
<1>8. Between(ps1, t, k, sure \o own)
  <2> HIDE DEF s, t, sure
  <2>1. t = Showing(s, own)
    BY <1>3, <1>5, <1>6, <1>7, ShowEscape
  <2>2. Between(ps1, Showing(s, own), k, s.shown \o own)
    BY <1>5, <1>7, EscapeEnds
  <2> QED BY <1>6, <2>1, <2>2
<1> DEFINE u == x.text
<1>9. [x EXCEPT !.text = u] = x /\ u \in Seq(PromptCharacter \cup Put)
  BY <1>1 DEF Within, Shaped
<1>10. Between(ps1, t, k, (Out(x) \o SubSeq(u, x.start, x.start + x.count - 1)) \o own)
  BY <1>8, PendingInText
<1>11. Goes(Reset(AddOwn(AddPart([x EXCEPT !.text = u], x.count), own), k))
  BY <1>4, <1>9
<1>12. k \in k..Len(ps1) /\ x.start + x.count <= k + 1
  BY <1>1
<1>13. /\ Len(u) = Len(x.text) /\ \A l \in 1..(x.start - 1) : u[l] = x.text[l]
       /\ \A l \in (k + 1)..(Len(ps1) + 1) : u[l] = x.text[l]
  OBVIOUS
<1>14. x.count \in Nat
  BY <1>1
<1> HIDE DEF u, t
<1> QED BY <1>5, <1>9, <1>10, <1>11, <1>12, <1>13, <1>14, PartShows DEF t

(* One digit more is read, of at most three.                               *)
OctalRead(ps1, e, k, n) ==
    LET t == ShowTo(ps1, e, k)
    IN  /\ t \in Showings(e) /\ t.in = "digits" /\ t.held = <<Number(n)>>
        /\ t.shown = Out(x) \o Pending(ps1, x)

LEMMA HoldsDigits ==
    ASSUME NEW e, NEW s \in Showings(e), NEW held \in Seq(Glyph)
    PROVE  LET t == Holding(s, "digits", held)
           IN  t \in Showings(e) /\ t.in = "digits" /\ t.held = held /\ t.shown = s.shown
<1>1. "digits" \in Places
  BY DEF Places
<1> QED BY <1>1, HoldingIs

LEMMA OctalReads ==
    ASSUME NEW ps1 \in Seq(PromptCharacter), NEW e \in EscapeTable,
           NEW k \in 1..Len(ps1), Turn(ps1, e, k),
           ps1[k] = "1", x.backslash \/ x.level > 0
    PROVE  /\ Taken(x) = x.level + 1 /\ x.level \in 0..2
           /\ OctalRead(ps1, e, k, x.level + 1)
<1> DEFINE s == ShowTo(ps1, e, k - 1)
           t == ShowTo(ps1, e, k)
           sure == Out(x) \o Pending(ps1, x)
           n == x.level + 1
<1>1. x.level \in 0..2 /\ x.backslash \in BOOLEAN
  BY TurnIs
<1>2. s \in Showings(e) /\ t = Show(s, "1")
  BY TurnTyped
<1>3. /\ <<"oct1">> \in Seq(Glyph) /\ <<"oct11">> \in Seq(Glyph)
      /\ <<"oct111">> \in Seq(Glyph)
  BY GlyphsAre, OneGlyph
<1>4. Number(1) = "oct1" /\ Number(2) = "oct11" /\ Number(3) = "oct111"
  BY DEF Number
<1>5. "1" \in PromptCharacter
  BY DEF PromptCharacter
<1>10. ASSUME NEW h \in Seq(Glyph)
       PROVE  LET r == Holding(s, "digits", h)
              IN  r \in Showings(e) /\ r.in = "digits" /\ r.held = h /\ r.shown = s.shown
  <2> HIDE DEF s, t
  <2>1. s \in Showings(e)
    BY <1>2
  <2> QED BY ONLY <2>1, <1>10, HoldsDigits
<1>6. CASE x.backslash
  <2>1. x.level = 0 /\ s.in = "escape" /\ s.shown = sure
    BY <1>6, TurnEscape
  <2>2. Taken(x) = 1 /\ n = 1
    BY <1>6, <2>1 DEF Taken
  <2> HIDE DEF s, t, sure
  <2>3. t = Holding(s, "digits", <<"oct1">>)
    BY <1>2, <1>5, <2>1, ShowEscape
  <2>4. /\ t \in Showings(e) /\ t.in = "digits" /\ t.held = <<Number(1)>>
        /\ t.shown = sure
    BY ONLY <1>3, <1>4, <1>10, <2>1, <2>3, Zenon
  <2> QED BY <1>1, <2>1, <2>2, <2>4 DEF OctalRead, t, sure
<1>7. CASE ~x.backslash /\ x.level = 1
  <2>1. s.in = "digits" /\ s.held = <<Number(x.level)>> /\ s.shown = sure
    BY <1>7, TurnDigits
  <2>2. Taken(x) = 2 /\ n = 2 /\ s.held = <<"oct1">>
    BY <1>4, <1>7, <2>1 DEF Taken
  <2> HIDE DEF s, t, sure
  <2>3. t = Holding(s, "digits", <<"oct11">>)
    BY <1>2, <2>1, <2>2, ShowDigit
  <2>4. /\ t \in Showings(e) /\ t.in = "digits" /\ t.held = <<Number(2)>>
        /\ t.shown = sure
    BY ONLY <1>3, <1>4, <1>10, <2>1, <2>3, Zenon
  <2> QED BY <1>1, <1>7, <2>2, <2>4 DEF OctalRead, t, sure
<1>8. CASE ~x.backslash /\ x.level = 2
  <2>1. s.in = "digits" /\ s.held = <<Number(x.level)>> /\ s.shown = sure
    BY <1>8, TurnDigits
  <2>2. Taken(x) = 3 /\ n = 3 /\ s.held = <<"oct11">>
    BY <1>4, <1>8, <2>1 DEF Taken
  <2> HIDE DEF s, t, sure
  <2>3. t = Holding(s, "digits", <<"oct111">>)
    BY <1>2, <2>1, <2>2, ShowDigit
  <2>4. /\ t \in Showings(e) /\ t.in = "digits" /\ t.held = <<Number(3)>>
        /\ t.shown = sure
    BY ONLY <1>3, <1>4, <1>10, <2>1, <2>3, Zenon
  <2> QED BY <1>1, <1>8, <2>2, <2>4 DEF OctalRead, t, sure
<1>9. x.backslash \/ (~x.backslash /\ (x.level = 1 \/ x.level = 2))
  BY <1>1
<1> QED BY <1>6, <1>7, <1>8, <1>9

LEMMA OctalShows ==
    ASSUME NEW ps1 \in Seq(PromptCharacter), NEW e \in EscapeTable,
           NEW k \in 1..Len(ps1), Turn(ps1, e, k), Octal
    PROVE  ShownTo(x', ps1, e)
<1> DEFINE L == Len(ps1)
           n == x.level + 1
           t == ShowTo(ps1, e, k)
           sure == Out(x) \o Pending(ps1, x)
           j == x.start + x.count
           c == <<"oct1", "oct11", "oct111">>[n]
           more == [x EXCEPT !.level = n, !.backslash = FALSE]
           put == Reset(AddPart([x EXCEPT !.text[x.cur - n] = c], x.count + 1), x.cur)
<1>1. /\ Within(x) /\ Char = ps1[k] /\ x.start \in 1..(L + 1) /\ x.count \in Nat
      /\ x.start + x.count + Taken(x) = k /\ L \in Nat
      /\ (k < L => NextChar = ps1[k + 1]) /\ (k = L => NextChar = "NUL")
  BY TurnIs
<1>2. ps1[k] = "1" /\ (x.backslash \/ x.level > 0) /\ x.cur = k
  BY <1>1 DEF Octal, Turn
<1>3. Taken(x) = n /\ x.level \in 0..2 /\ OctalRead(ps1, e, k, n)
  BY <1>2, OctalReads
<1>4. /\ t \in Showings(e) /\ t.in = "digits" /\ t.held = <<Number(n)>> /\ t.shown = sure
  BY <1>3 DEF OctalRead
<1>5. n \in 1..3 /\ j + n = k /\ j \in Nat /\ j < k /\ k - n = j
  <2> HIDE DEF n
  <2>1. n \in 1..3
    BY <1>3 DEF n
  <2> QED BY <1>1, <1>3, <2>1
<1>6. \/ n < 3 /\ NextChar = "1" /\ Goes(more)
      \/ ~(n < 3 /\ NextChar = "1") /\ Goes(put)
  BY DEF Octal
<1>7. CASE n < 3 /\ NextChar = "1" /\ Goes(more)
  <2>1. k < L /\ ps1[k + 1] = "1"
    <3>1. k # L
      BY <1>1, <1>7
    <3>2. k < L
      BY <3>1
    <3> QED BY <1>1, <1>7, <3>2
  <2>2. /\ more.cur = k /\ more.start = x.start /\ more.count = x.count
        /\ more.text = x.text /\ more.builder = x.builder /\ more.cwd = x.cwd
        /\ more.end = "no" /\ more.backslash = FALSE /\ more.level = n
    BY <1>1, <1>2 DEF Within, Shaped, Turn
  <2>3. Within(more)
    <3>1. n \in 0..2
      BY <1>5, <1>7
    <3> QED BY <1>1, <3>1 DEF Within, Shaped
  <2>4. Goes(more)
    BY <1>7
  <2> HIDE DEF more, t, n
  <2>5. Laid(more, ps1, e) /\ Out(more) = Out(x)
    BY <1>1, <2>2, LaidStays DEF Turn, KeepsUp
  <2>6. Where(more, k)
    <3>1. Taken(more) = n + 1
      BY <1>5, <2>2 DEF Taken
    <3>2. x.start + x.count + (n + 1) = k + 1
      BY <1>1, <1>3, <1>5
    <3> QED BY <2>2, <3>1, <3>2 DEF Where
  <2>7. Out(more) \o Pending(ps1, more) = sure
    BY <2>2, <2>5 DEF Pending
  <2>8. Says(more, ps1, t, k, sure)
    <3>1. InDigits(more, ps1, t, k, sure)
      BY <1>4, <2>1, <2>2 DEF InDigits
    <3>2. ~(n = 0)
      BY <1>5
    <3> HIDE DEF sure
    <3> QED BY <2>2, <3>1, <3>2 DEF Says
  <2>9. KeepsUp(more, ps1, e, more.cur)
    BY <2>2, <2>5, <2>6, <2>7, <2>8 DEF KeepsUp, t
  <2> QED BY <1>2, <2>2, <2>3, <2>4, <2>9, GoesShows
<1>8. CASE ~(n < 3 /\ NextChar = "1") /\ Goes(put)
  <2>1. c = Number(n)
    BY DEF Number
  <2>2. put = Reset(AddPart([x EXCEPT !.text[j] = c], x.count + 1), k)
    BY <1>2, <1>5
  <2>3. Goes(Reset(AddPart([x EXCEPT !.text[j] = c], x.count + 1), k))
    BY <1>8, <2>2
  <2>4. c \in PromptCharacter \cup Put /\ (n = 3 => Number(n) = "oct111")
    <3>1. n = 1 \/ n = 2 \/ n = 3
      BY <1>5
    <3> HIDE DEF n
    <3> QED BY <3>1 DEF Put, Number
  <2> HIDE DEF c, t, put, n
  <2>5. Between(ps1, t, k, sure \o <<c>>)
    <3>1. ASSUME k < L PROVE Show(t, ps1[k + 1]) = ShowNext(t, ps1[k + 1])
      <4>1. n = 3 \/ NextChar # "1"
        BY <1>5, <1>8
      <4>2. ps1[k + 1] # "1" \/ t.held = <<"oct111">>
        BY <1>1, <1>4, <2>4, <3>1, <4>1
      <4> QED BY <1>4, <4>2, ShowBeyond
    <3>2. t.shown \o t.held = sure \o <<c>>
      BY <1>4, <2>1
    <3> QED BY <3>1, <3>2 DEF Between
  <2> QED BY <1>5, <2>3, <2>4, <2>5, PutShows DEF t
<1> QED BY <1>6, <1>7, <1>8

(* \D and what follows up to the } or the end: the format.                 *)
Dated(ps1, e, k, m) ==
    /\ ShowTo(ps1, e, k - 1).in = "escape" /\ ps1[k] = "D" /\ ps1[k + 1] = "{"
    /\ \A j \in (k + 2)..m : ps1[j] # "}"

LEMMA FormatReads ==
    ASSUME NEW ps1 \in Seq(PromptCharacter), NEW e \in EscapeTable,
           NEW k \in 1..Len(ps1), NEW m \in (k + 1)..Len(ps1),
           Dated(ps1, e, k, m)
    PROVE  LET t == ShowTo(ps1, e, m)
           IN  /\ t \in Showings(e) /\ t.in = "format"
               /\ t.shown = ShowTo(ps1, e, k - 1).shown
               /\ t.held = <<"time">> \o SubSeq(ps1, k + 2, m)
<1> DEFINE L == Len(ps1)
           r == ShowTo(ps1, e, k - 1)
           n == m - (k + 1)
           first == k + 1
           begin == k + 2
           time == <<"time">>
           Spot(d) == first + d
           Format(d) == time \o SubSeq(ps1, begin, Spot(d))
           S == {d \in 0..n : LET t == ShowTo(ps1, e, Spot(d))
                              IN  t.in = "format" /\ t.shown = r.shown /\ t.held = Format(d)}
<1>1. /\ L \in Nat /\ k \in 1..L /\ m \in first..L /\ n \in Nat /\ first \in 1..L
      /\ Spot(n) = m /\ Spot(0) = first /\ first \in Nat /\ begin \in Nat /\ begin >= 1
      /\ begin = first + 1 /\ begin \in 1..(L + 1)
  OBVIOUS
<1>2. \A i \in 0..L : ShowTo(ps1, e, i) \in Showings(e)
  BY ShowToIs
<1>3. time \in Seq(Glyph)
  BY GlyphsAre, OneGlyph
<1>4. 0 \in S
  <2> DEFINE q == ShowTo(ps1, e, k)
             t == ShowTo(ps1, e, first)
             D == <<"\\", "D">>
  <2>1. r \in Showings(e) /\ q \in Showings(e)
    <3>1. k - 1 \in 0..L /\ k \in 0..L
      BY <1>1
    <3> QED BY <1>2, <3>1
  <2>2. q = Show(r, "D") /\ t = Show(q, "{")
    <3>1. q = Show(r, ps1[k])
      BY ShowToNext
    <3>2. first - 1 = k
      BY <1>1
    <3>3. t = Show(ShowTo(ps1, e, first - 1), ps1[first])
      BY <1>1, ShowToNext
    <3>4. ps1[k] = "D" /\ ps1[first] = "{"
      BY DEF Dated
    <3> QED BY <3>1, <3>2, <3>3, <3>4
  <2>3. D \in Seq(Glyph) /\ "date" \in Places /\ "format" \in Places /\ "D" \in PromptCharacter
    BY GlyphsAre, TwoGlyphs DEF Places, PromptCharacter
  <2> HIDE DEF r, q, t, D, first, begin, time
  <2>4. ASSUME NEW s \in Showings(e), NEW in \in Places, NEW h \in Seq(Glyph)
        PROVE  LET z == Holding(s, in, h)
               IN  z.in = in /\ z.shown = s.shown /\ z.held = h
    BY ONLY <2>4, HoldingIs
  <2>5. q = Holding(r, "date", D)
    <3>1. r.in = "escape"
      BY DEF Dated, r
    <3> QED BY <2>1, <2>2, <2>3, <3>1, ShowEscape DEF D
  <2>6. q.in = "date" /\ q.shown = r.shown
    <3>1. ASSUME NEW in \in Places, NEW h \in Seq(Glyph)
          PROVE  Holding(r, in, h).in = in /\ Holding(r, in, h).shown = r.shown
      BY ONLY <2>1, <2>4, <3>1
    <3> QED BY ONLY <2>3, <2>5, <3>1, Zenon
  <2>7. t = Holding(q, "format", time)
    BY <2>2, <2>6, ShowOpens DEF time
  <2>8. t.in = "format" /\ t.shown = r.shown /\ t.held = time
    <3>1. ASSUME NEW in \in Places, NEW h \in Seq(Glyph)
          PROVE  /\ Holding(q, in, h).in = in /\ Holding(q, in, h).shown = q.shown
                 /\ Holding(q, in, h).held = h
      BY ONLY <2>1, <2>4, <3>1
    <3> QED BY ONLY <1>3, <2>3, <2>6, <2>7, <3>1, Zenon
  <2>9. Format(0) = time
    <3>1. SubSeq(ps1, begin, first) = <<>>
      BY <1>1, SubSeqEmpty
    <3> QED BY <1>1, <1>3, <3>1, ConcatEmptySeq
  <2>10. 0 \in 0..n
    BY <1>1
  <2> HIDE DEF Format, n, Spot
  <2>11. ShowTo(ps1, e, Spot(0)) = t
    BY <1>1 DEF t
  <2> QED BY <2>8, <2>9, <2>10, <2>11
<1>5. ASSUME NEW d \in 0..n, d < n, d \in S PROVE d + 1 \in S
  <2> DEFINE i == Spot(d)
             j == Spot(d + 1)
             s == ShowTo(ps1, e, i)
             t == ShowTo(ps1, e, j)
             c == ps1[j]
             f == SubSeq(ps1, begin, i)
  <2>1. /\ i \in first..L /\ j = i + 1 /\ j \in 1..L /\ j - 1 = i /\ d + 1 \in 0..n
        /\ j \in begin..m /\ i \in Int /\ i <= L /\ j \in begin..L /\ begin \in 1..L
    BY <1>1, <1>5
  <2> HIDE DEF n, Spot
  <2>2. s.in = "format" /\ s.shown = r.shown /\ s.held = time \o f
    BY <1>5
  <2>3. t = Show(s, c)
    <3>1. t = Show(ShowTo(ps1, e, j - 1), ps1[j])
      BY <2>1, ShowToNext
    <3> QED BY <2>1, <3>1
  <2>4. c # "}"
    BY <2>1 DEF Dated
  <2>5. s \in Showings(e)
    <3>1. i \in 0..L
      BY <1>1, <2>1
    <3> QED BY <1>2, <3>1
  <2>6. f \in Seq(Glyph)
    BY <1>1, <2>1, PendingIs
  <2>7. c \in Glyph
    <3>1. c \in PromptCharacter
      BY <2>1
    <3> QED BY <3>1, CharacterIsGlyph
  <2>8. SubSeq(ps1, begin, j) = f \o <<c>>
    <3>1. SubSeq(ps1, begin, j) = SubSeq(ps1, begin, j - 1) \o <<ps1[j]>>
      BY <2>1, SubSeqRecursiveSecond
    <3> QED BY <2>1, <3>1
  <2> HIDE DEF r, s, t, c, f, first, begin, time, i, j
  <2>9. t = Holding(s, "format", Append(s.held, c))
    BY <2>2, <2>3, <2>4, ShowFormat
  <2>10. Append(s.held, c) = time \o (f \o <<c>>) /\ Append(s.held, c) \in Seq(Glyph)
    <3>1. time \o f \in Seq(Glyph)
      BY <1>3, <2>6, ConcatProperties
    <3>2. /\ Append(time \o f, c) = (time \o f) \o <<c>>
          /\ Append(time \o f, c) \in Seq(Glyph)
      BY <2>7, <3>1, AppendIsConcat, AppendProperties
    <3>3. <<c>> \in Seq(Glyph)
      BY <2>7, OneGlyph
    <3>4. (time \o f) \o <<c>> = time \o (f \o <<c>>)
      BY <1>3, <2>6, <3>3, GlyphsJoin
    <3> QED BY <2>2, <3>2, <3>4
  <2>11. "format" \in Places
    BY DEF Places
  <2>12. ASSUME NEW in \in Places, NEW h \in Seq(Glyph)
         PROVE  LET z == Holding(s, in, h)
                IN  z.in = in /\ z.shown = s.shown /\ z.held = h
    BY ONLY <2>5, <2>12, HoldingIs
  <2>13. t.in = "format" /\ t.shown = s.shown /\ t.held = time \o (f \o <<c>>)
    BY ONLY <2>9, <2>10, <2>11, <2>12, Zenon
  <2>14. t.held = time \o SubSeq(ps1, begin, j)
    BY <2>8, <2>13
  <2> QED BY <2>1, <2>2, <2>13, <2>14 DEF t, j
<1> HIDE DEF S
<1>6. 0..n \subseteq S
  BY <1>1, <1>4, <1>5, Passing!BoundedInduction
<1>7. n \in S
  BY <1>1, <1>6
<1>8. LET t == ShowTo(ps1, e, m)
      IN  t.in = "format" /\ t.shown = r.shown /\ t.held = time \o SubSeq(ps1, begin, m)
  <2> HIDE DEF n, r, time, begin
  <2>1. LET t == ShowTo(ps1, e, Spot(n))
        IN  t.in = "format" /\ t.shown = r.shown /\ t.held = Format(n)
    BY <1>7 DEF S
  <2> HIDE DEF Spot
  <2> QED BY <1>1, <2>1
<1>9. ShowTo(ps1, e, m) \in Showings(e)
  <2>1. m \in 0..L
    BY <1>1
  <2> QED BY <1>2, <2>1
<1> QED BY <1>8, <1>9

(* Where the format ends.                                                  *)
Braces(k) == {i \in k + 2..Len(x.text) : x.text[i] = "}"}
FormatEnd(k) == IF Braces(k) = {} THEN Len(x.text) ELSE Min(Braces(k))
NoBrace(ps1, k, m) == \A j \in (k + 2)..m : ps1[j] # "}"

LEMMA FormatEndIs ==
    ASSUME NEW ps1 \in Seq(PromptCharacter), NEW e \in EscapeTable,
           NEW k \in 1..Len(ps1), Turn(ps1, e, k), k < Len(ps1)
    PROVE  LET end == FormatEnd(k)
           IN  /\ end \in (k + 2)..(Len(ps1) + 1) /\ NoBrace(ps1, k, end - 1)
               /\ Braces(k) = {} => end = Len(ps1) + 1
               /\ Braces(k) # {} => end <= Len(ps1) /\ ps1[end] = "}"
<1> DEFINE L == Len(ps1)
           S == Braces(k)
           end == FormatEnd(k)
           begin == k + 2
           M == L + 1
<1>1. /\ Len(x.text) = M /\ x.text[M] = "NUL" /\ \A j \in k..L : x.text[j] = ps1[j]
  BY TurnIs
<1>2. L \in Nat /\ k \in 1..L /\ k < L /\ begin \in Nat /\ begin = k + 2 /\ M = L + 1 /\ M \in Nat
  OBVIOUS
<1>3. S = {i \in begin..M : x.text[i] = "}"}
  BY <1>1 DEF Braces
<1>4. \A i \in begin..L : i \in k..L /\ i \in begin..M
  BY <1>2
<1>5. \A i \in S : i \in begin..L /\ ps1[i] = "}" /\ i \in Nat
  <2> TAKE i \in S
  <2>1. i \in begin..M /\ x.text[i] = "}"
    BY <1>3
  <2>2. i # M
    <3>1. x.text[i] # x.text[M]
      BY <1>1, <2>1
    <3> QED BY <3>1
  <2>3. i \in begin..M /\ L \in Nat /\ M = L + 1 /\ begin \in Nat
    BY <1>2, <2>1
  <2> HIDE DEF S, M, begin, L
  <2>4. i \in begin..L /\ i \in Nat
    BY ONLY <2>2, <2>3
  <2>5. x.text[i] = ps1[i]
    BY <1>1, <1>4, <2>4
  <2> QED BY <2>1, <2>4, <2>5
<1>6. \A i \in begin..L : i \notin S => ps1[i] # "}"
  <2> TAKE i \in begin..L
  <2>1. x.text[i] = ps1[i] /\ i \in begin..M
    BY <1>1, <1>4
  <2> QED BY <1>3, <2>1
<1>7. CASE S = {}
  <2>1. end = M
    BY <1>1, <1>7 DEF FormatEnd
  <2> HIDE DEF S, M, begin, end
  <2>2. end - 1 = L /\ end \in begin..M
    BY <1>2, <2>1
  <2>3. NoBrace(ps1, k, L)
    BY <1>6, <1>7 DEF NoBrace, begin
  <2> QED BY <1>7, <2>1, <2>2, <2>3 DEF S, M, begin, end
<1>8. CASE S # {}
  <2>1. end = Min(S)
    BY <1>8 DEF FormatEnd
  <2> HIDE DEF S, M, begin, end
  <2>2. end \in S /\ \A i \in S : end <= i
    <3>1. S \subseteq Nat
      BY <1>5
    <3> QED BY <1>8, <2>1, <3>1, MinIs
  <2>3. end \in begin..L /\ ps1[end] = "}"
    BY <1>5, <2>2
  <2>4. end \in begin..M /\ end <= L /\ end \in Nat
    <3>1. end \in begin..L /\ L \in Nat /\ M = L + 1 /\ begin \in Nat
      BY <1>2, <2>3
    <3> QED BY ONLY <3>1
  <2>5. \A i \in begin..(end - 1) : i \in begin..L /\ ~(end <= i)
    BY <1>2, <2>4
  <2>6. \A i \in begin..(end - 1) : ps1[i] # "}"
    BY <1>6, <2>2, <2>5
  <2>7. NoBrace(ps1, k, end - 1)
    BY <2>6 DEF NoBrace, begin
  <2> QED BY <1>8, <2>3, <2>4, <2>7 DEF S, M, begin, end
<1> QED BY <1>7, <1>8

LEMMA DateShows ==
    ASSUME NEW ps1 \in Seq(PromptCharacter), NEW e \in EscapeTable,
           NEW k \in 1..Len(ps1), Turn(ps1, e, k), Date
    PROVE  ShownTo(x', ps1, e)
<1> DEFINE L == Len(ps1)
           v == x.text
           none == Braces(k) = {}
           end == FormatEnd(k)
           format == SubSeq(v, k + 2, end - 1)
           own == <<"time">> \o format
           at == IF none THEN end - 1 ELSE end
           u == [v EXCEPT ![end] = "NUL"]
           y == AddOwn(AddPart([x EXCEPT !.text[end] = "NUL"], x.count), own)
           hung == [x EXCEPT !.end = "hung"]
           sure == Out(x) \o Pending(ps1, x)
           r == ShowTo(ps1, e, k - 1)
           m == end - 1
<1>1. /\ Within(x) /\ x.start \in 1..(L + 1) /\ x.count \in Nat /\ x.start + x.count <= k
      /\ Len(v) = L + 1 /\ v[L + 1] = "NUL" /\ Char = ps1[k] /\ L \in Nat
      /\ (k < L => NextChar = ps1[k + 1]) /\ (k = L => NextChar = "NUL")
  BY TurnIs
<1>2. x.cur = k /\ x.backslash /\ Char = "D" /\ NextChar = "{" /\ x.end = "no"
  BY DEF Date, Turn
<1>3. k < L /\ ps1[k] = "D" /\ ps1[k + 1] = "{"
  <2>1. k # L
    BY <1>1, <1>2
  <2>2. k < L
    BY <2>1
  <2> QED BY <1>1, <1>2, <2>2
<1>4. Goes(hung) \/ Goes(Reset(y, at))
  <2>1. Braces(x.cur) = Braces(k) /\ FormatEnd(x.cur) = FormatEnd(k) /\ x.cur + 2 = k + 2
    BY <1>2
  <2>2. Goes(hung) \/ Goes(Reset(y, at))
    BY <1>2 DEF Date, Braces, FormatEnd
  <2> QED BY <2>2
<1>5. CASE Goes(hung)
  <2>1. hung.end = "hung"
    BY <1>1 DEF Within, Shaped
  <2> HIDE DEF hung
  <2>2. x' = hung
    BY <1>5, <2>1 DEF Goes
  <2> QED BY <2>1, <2>2 DEF ShownTo
<1>6. CASE Goes(Reset(y, at))
  <2>1. /\ end \in (k + 2)..(L + 1) /\ NoBrace(ps1, k, m)
        /\ (none => end = L + 1) /\ (~none => end <= L /\ ps1[end] = "}")
    BY <1>3, FormatEndIs
  <2> HIDE DEF end, none
  <2>2. /\ m \in (k + 1)..L /\ at \in k..L /\ at \in 1..L /\ end \in 1..Len(v) /\ m \in Int
        /\ m <= L /\ k + 2 \in 1..(L + 1) /\ k + 2 \in Nat /\ m <= Len(v)
        /\ (none => at = m /\ at = L) /\ (~none => at = end /\ at - 1 = m)
    <3>1. end \in (k + 2)..(L + 1) /\ (none => end = L + 1) /\ (~none => end <= L)
      BY <2>1
    <3>2. L \in Nat /\ k \in 1..L /\ k < L /\ Len(v) = L + 1
      BY <1>1, <1>3
    <3> HIDE DEF L, v
    <3> QED BY ONLY <3>1, <3>2
  <2>3. r.in = "escape" /\ r.shown = sure
    BY <1>2, TurnEscape
  <2>4. LET t == ShowTo(ps1, e, m)
        IN  /\ t \in Showings(e) /\ t.in = "format" /\ t.shown = r.shown
            /\ t.held = <<"time">> \o SubSeq(ps1, k + 2, m)
    <3>1. Dated(ps1, e, k, m)
      BY <1>3, <2>1, <2>3 DEF Dated, NoBrace
    <3> HIDE DEF m
    <3> QED BY <2>2, <3>1, FormatReads
  <2>5. v \in Seq(PromptCharacter \cup Put) /\ v \in Seq(Glyph) /\ ps1 \in Seq(Glyph)
    <3>1. v \in Seq(PromptCharacter \cup Put)
      BY <1>1 DEF Within
    <3>2. ps1 \in Seq(Glyph)
      BY SeqMonotonic DEF Glyph
    <3> QED BY <3>1, <3>2, PromptText
  <2>6. format = SubSeq(ps1, k + 2, m)
    <3> DEFINE begin == k + 2
    <3>1. \A j \in k..L : v[j] = ps1[j]
      BY TurnIs
    <3>2. begin \in Nat /\ begin >= 1 /\ m \in Int /\ m <= Len(v) /\ m <= L /\ begin >= k
      BY <2>2
    <3> HIDE DEF begin, m, v
    <3>3. \A j \in begin..m : j \in k..L
      BY <3>2
    <3>4. \A j \in begin..m : v[j] = ps1[j]
      BY <3>1, <3>3
    <3>5. SubSeq(v, begin, m) = SubSeq(ps1, begin, m)
      BY <2>5, <3>2, <3>4, AlikeIn
    <3> QED BY <3>5 DEF begin, m
  <2> DEFINE q == ShowTo(ps1, e, m)
             t == ShowTo(ps1, e, at)
  <2>7. q \in Showings(e) /\ q.in = "format" /\ q.shown = sure /\ q.held = own
    BY <2>3, <2>4, <2>6
  <2>8. own \in Seq(Glyph)
    BY <2>7 DEF Showings
  <2> HIDE DEF own, format, q
  <2>9. Between(ps1, t, at, sure \o own)
    <3>1. CASE none
      <4>1. t = q /\ ~(at < Len(ps1))
        BY <2>2, <3>1 DEF q
      <4> HIDE DEF t, at, sure
      <4> QED BY <2>7, <4>1 DEF Between
    <3>2. CASE ~none
      <4>1. t = Show(ShowTo(ps1, e, at - 1), ps1[at])
        BY <2>2, ShowToNext
      <4>2. t = Show(q, "}")
        BY <2>1, <2>2, <3>2, <4>1 DEF q
      <4> HIDE DEF t, at, sure
      <4>3. t = Showing(q, own)
        BY <2>7, <4>2, ShowFormat
      <4>4. Between(ps1, Showing(q, own), at, q.shown \o own)
        BY <2>7, <2>8, EscapeEnds
      <4> QED BY <2>7, <4>3, <4>4
    <3> QED BY <3>1, <3>2
  <2>10. /\ u \in Seq(PromptCharacter \cup Put) /\ Len(u) = Len(v)
         /\ \A i \in 1..Len(v) : u[i] = IF i = end THEN "NUL" ELSE v[i]
    <3>1. "NUL" \in PromptCharacter \cup Put
      BY DEF Put
    <3> DEFINE c == "NUL"
               G == PromptCharacter \cup Put
    <3>2. c \in G /\ v \in Seq(G)
      BY <2>5, <3>1
    <3>3. u = [v EXCEPT ![end] = c]
      OBVIOUS
    <3> HIDE DEF v, c, G, u
    <3>4. /\ u \in Seq(G) /\ Len(u) = Len(v)
          /\ \A i \in 1..Len(v) : u[i] = IF i = end THEN c ELSE v[i]
      BY <2>2, <3>2, <3>3, ExceptSeq
    <3> QED BY <3>4 DEF c, G
  <2>11. /\ \A l \in 1..(x.start - 1) : u[l] = v[l]
         /\ \A l \in (at + 1)..(L + 1) : u[l] = v[l]
    <3> DEFINE a == x.start
    <3>0. \A i \in 1..Len(v) : i # end => u[i] = v[i]
      BY <2>10
    <3>1. \A l \in 1..(a - 1) : l \in 1..Len(v) /\ l # end
      <4>1. a \in Nat /\ a <= k /\ end >= k + 2 /\ Len(v) = L + 1 /\ end \in Nat
        <5>1. /\ a \in 1..(L + 1) /\ x.count \in Nat /\ a + x.count <= k
              /\ Len(v) = L + 1
          BY <1>1
        <5>2. end \in (k + 2)..(L + 1)
          BY <2>1
        <5>3. k \in Nat /\ L \in Nat
          BY <1>1
        <5> HIDE DEF a, L, v
        <5> QED BY ONLY <5>1, <5>2, <5>3
      <4>2. L \in Nat /\ k \in 1..L
        BY <1>1
      <4> HIDE DEF a, L, v
      <4> QED BY ONLY <4>1, <4>2
    <3>2. \A l \in (at + 1)..(L + 1) : l \in 1..Len(v) /\ (l = end => l = L + 1)
      <4>1. at \in 1..L /\ Len(v) = L + 1 /\ L \in Nat /\ (none => end = L + 1)
            /\ (~none => at = end)
        BY <1>1, <2>1, <2>2
      <4> HIDE DEF L, v, at
      <4> QED BY ONLY <4>1
    <3>3. u[L + 1] = v[L + 1]
      <4>1. L + 1 \in 1..Len(v)
        BY <1>1
      <4> QED BY <1>1, <2>10, <4>1
    <3> HIDE DEF a, u, v, at
    <3>4. \A l \in 1..(a - 1) : u[l] = v[l]
      BY <3>0, <3>1
    <3>5. \A l \in (at + 1)..(L + 1) : u[l] = v[l]
      BY <3>0, <3>2, <3>3
    <3> QED BY <3>4, <3>5 DEF a
  <2>12. SubSeq(u, x.start, x.start + x.count - 1) = Pending(ps1, x)
    <3> DEFINE a == x.start
               i == x.start + x.count - 1
    <3>1. SubSeq(v, a, i) = Pending(ps1, x)
      BY PendingInText
    <3>2. a \in Nat /\ a >= 1 /\ i \in Int /\ i <= Len(u) /\ i <= Len(v) /\ i < k
      BY <1>1, <2>10
    <3>3. k < end /\ end \in Nat /\ k \in Nat
      <4>1. end \in (k + 2)..(L + 1)
        BY <2>1
      <4>2. k \in Nat /\ L \in Nat
        BY <1>1
      <4> HIDE DEF L
      <4> QED BY ONLY <4>1, <4>2
    <3> HIDE DEF a, i, u, v
    <3>4. \A j \in a..i : j \in 1..Len(v) /\ j # end
      BY ONLY <3>2, <3>3
    <3>5. \A j \in a..i : u[j] = v[j]
      BY <2>10, <3>4
    <3>6. u \in Seq(Glyph)
      BY <2>10, PromptText
    <3>7. SubSeq(u, a, i) = SubSeq(v, a, i)
      BY <2>5, <3>2, <3>5, <3>6, AlikeIn
    <3> QED BY <3>1, <3>7 DEF a, i
  <2>13. Goes(Reset(AddOwn(AddPart([x EXCEPT !.text = u], x.count), own), at))
    BY <1>6
  <2>14. Between(ps1, ShowTo(ps1, e, at), at,
                 (Out(x) \o SubSeq(u, x.start, x.start + x.count - 1)) \o own)
    BY <2>9, <2>12
  <2>15. x.start + x.count <= at + 1 /\ x.count \in Nat
    <3>1. at \in Nat /\ at >= k /\ k \in Nat
      BY <2>2
    <3>2. x.start + x.count <= k /\ x.count \in Nat /\ x.start \in Nat
      BY <1>1
    <3> HIDE DEF at
    <3> QED BY ONLY <3>1, <3>2
  <2>16. at \in k..Len(ps1)
    BY <2>2
  <2> HIDE DEF u, at, t
  <2> QED BY <2>8, <2>10, <2>11, <2>13, <2>14, <2>15, <2>16, PartShows
<1> QED BY <1>4, <1>5, <1>6

(* One turn, whatever the character.                                       *)
LEMMA ExpandCharShows ==
    ASSUME NEW ps1 \in Seq(PromptCharacter), NEW e \in EscapeTable,
           e["\\"] = <<"\\">>, e["$"] = <<"sign">>, e["n"] = <<"newline">>,
           e["["] = IF HaveReadline THEN <<"ignore">> ELSE <<>>,
           e["u"] = <<"user">>, e["w"] = WorkDir(x, FALSE), e["W"] = WorkDir(x, TRUE),
           NEW k \in 1..Len(ps1), Turn(ps1, e, k), ExpandChar
    PROVE  ShownTo(x', ps1, e)
<1>1. CASE Keep
  BY <1>1, KeepOneShows, KeepTwoShows
<1>2. CASE FirstBackslash
  BY <1>2, FirstBackslashShows
<1>3. CASE SecondBackslash
  BY <1>3, SecondBackslashShows
<1>4. CASE Replace
  BY <1>4, ReplaceShows
<1>5. CASE Substitute
  BY <1>5, SubstituteShows
<1>6. CASE Date
  BY <1>6, DateShows
<1>7. CASE Octal
  BY <1>7, OctalShows
<1> QED BY <1>1, <1>2, <1>3, <1>4, <1>5, <1>6, <1>7 DEF ExpandChar

LEMMA TurnShows ==
    ASSUME NEW ps1 \in Seq(PromptCharacter), NEW e \in EscapeTable, ExpanderInv,
           x.end = "no", ShownTo(x, ps1, e), ExpandChar
    PROVE  ShownTo(x', ps1, e)
<1>1. x.cur \in 1..Len(ps1) /\ KeepsUp(x, ps1, e, x.cur - 1)
  BY DEF ShownTo
<1>2. EscapesOf(x) = e
  BY <1>1 DEF KeepsUp, Laid
<1> DEFINE w == WorkDir(x, FALSE)
           W == WorkDir(x, TRUE)
<1>3. e = Escapes(w, W, HaveReadline)
  BY <1>2 DEF EscapesOf
<1> HIDE DEF w, W
<1>4. /\ e["\\"] = <<"\\">> /\ e["$"] = <<"sign">> /\ e["n"] = <<"newline">>
      /\ e["["] = IF HaveReadline THEN <<"ignore">> ELSE <<>>
      /\ e["u"] = <<"user">> /\ e["w"] = w /\ e["W"] = W
  BY <1>3, EscapedBy
<1> DEFINE k == x.cur
<1>5. Turn(ps1, e, k) /\ k \in 1..Len(ps1)
  BY <1>1 DEF Turn
<1> HIDE DEF k
<1> QED BY <1>4, <1>5, ExpandCharShows DEF w, W

(* Before the first character.                                             *)
LEMMA ExpandingShows ==
    ASSUME NEW ps1 \in Seq(PromptCharacter), ps1 # <<>>, NEW cwd
    PROVE  LET y == Expanding(ps1, cwd) IN ShownTo(y, ps1, EscapesOf(y))
<1> DEFINE y == Expanding(ps1, cwd)
           e == EscapesOf(y)
           L == Len(ps1)
           v == y.text
<1>1. /\ y.cur = 1 /\ y.start = 1 /\ y.count = 0 /\ y.backslash = FALSE /\ y.level = 0
      /\ y.builder = <<>> /\ y.end = "no" /\ v = Append(ps1, "NUL")
  BY DEF Expanding
<1>2. L \in Nat /\ L >= 1
  <2>1. L \in Nat /\ L # 0
    OBVIOUS
  <2> HIDE DEF L
  <2> QED BY <2>1
<1>3. Len(v) = L + 1 /\ v[L + 1] = "NUL" /\ \A j \in 1..L : v[j] = ps1[j]
  <2> HIDE DEF y
  <2>1. v = Append(ps1, "NUL")
    BY <1>1
  <2> QED BY <1>2, <2>1
<1> HIDE DEF y, e
<1>4. Out(y) = <<>>
  <2>1. Pieces(v, y.builder) = <<>>
    BY <1>1 DEF Pieces
  <2>2. <<>> \in Seq(Seq(Glyph))
    OBVIOUS
  <2>3. FlattenSeq(<<>>) = Joining!Fold(<<>>, <<>>)
    BY <2>2, FlattenIs
  <2>4. FlattenSeq(<<>>) = <<>>
    BY DEF FlattenSeq
  <2> QED BY <2>1, <2>4 DEF Out
<1>5. Built(v, y.builder, 1, Out(y))
  <2>1. \A S : <<>> \in Seq(S)
    OBVIOUS
  <2>2. y.builder \in Seq(PieceBefore(1))
    BY <1>1, <2>1
  <2>3. FlattenSeq(Pieces(y.text, y.builder)) = Out(y)
    BY DEF Out
  <2> QED BY <1>1, <1>4, <2>2, <2>3 DEF Built
<1>6. Laid(y, ps1, e)
  <2>1. y.start \in 1..(L + 1) /\ y.count \in Nat
    BY <1>1, <1>2
  <2>2. \A j \in y.start..L : v[j] = ps1[j]
    BY <1>1, <1>3
  <2>3. Built(v, y.builder, y.start, Out(y))
    BY <1>1, <1>5
  <2> QED BY <1>3, <2>1, <2>2, <2>3 DEF Laid, e
<1>7. Where(y, 0)
  BY <1>1 DEF Where, Taken
<1>8. Pending(ps1, y) = <<>>
  <2>1. y.start + y.count - 1 = 0 /\ y.start = 1
    BY <1>1
  <2>2. SubSeq(ps1, 1, 0) = <<>>
    OBVIOUS
  <2> QED BY <2>1, <2>2 DEF Pending
<1>9. ShowTo(ps1, e, 0) = Unshown(e)
  BY ShowToZero
<1>10. Between(ps1, Unshown(e), 0, <<>>)
  <2>1. Unshown(e).in = "text" /\ Unshown(e).shown = <<>> /\ Unshown(e).held = <<>>
    BY DEF Unshown
  <2>2. \A c : Show(Unshown(e), c) = ShowNext(Unshown(e), c)
    BY <2>1 DEF Show
  <2>3. Unshown(e).shown \o Unshown(e).held = <<>>
    BY <2>1
  <2> QED BY <2>2, <2>3 DEF Between
<1>11. Out(y) \o Pending(ps1, y) = <<>>
  BY <1>4, <1>8
<1>12. Says(y, ps1, ShowTo(ps1, e, 0), 0, Out(y) \o Pending(ps1, y))
  BY <1>1, <1>9, <1>10, <1>11 DEF Says
<1>13. KeepsUp(y, ps1, e, y.cur - 1) /\ y.cur \in 1..L
  <2>1. y.cur - 1 = 0 /\ y.cur \in 1..L
    BY <1>1, <1>2
  <2> QED BY <1>6, <1>7, <1>12, <2>1 DEF KeepsUp
<1> QED BY <1>1, <1>13 DEF ShownTo, e, y

(* Nothing is shown for no prompt.                                         *)
LEMMA NothingShown == ASSUME NEW e PROVE Shown(<<>>, e) = <<>>
<1> DEFINE ps1 == <<>>
<1>1. ps1 \in Seq(PromptCharacter) /\ Len(ps1) = 0
  OBVIOUS
<1> HIDE DEF ps1
<1>2. ShowTo(ps1, e, Len(ps1)) = Unshown(e)
  BY <1>1, ShowToZero
<1>3. Unshown(e).shown = <<>> /\ Unshown(e).held = <<>>
  BY DEF Unshown
<1>4. Unshown(e).shown \o Unshown(e).held = <<>>
  BY <1>3
<1>5. Shown(ps1, e) = <<>>
  BY <1>2, <1>4 DEF Shown
<1> QED BY <1>5 DEF ps1

(* An empty prompt has no character but its NUL, and no piece.             *)
LEMMA EmptyStrays ==
    ASSUME NEW cwd, x = Expanding(<<>>, cwd), ExpandChar
    PROVE  x'.end = "astray"
<1>1. /\ x.cur = 1 /\ x.backslash = FALSE /\ x.level = 0 /\ x.end = "no"
      /\ x.text = Append(<<>>, "NUL")
  BY DEF Expanding
<1>2. Len(x.text) = 1 /\ x.text[1] = "NUL"
  <2> DEFINE c == "NUL"
             u == <<c>>
  <2>1. x.text = u
    BY <1>1
  <2> HIDE DEF c
  <2>2. Len(u) = 1 /\ u[1] = c
    OBVIOUS
  <2> HIDE DEF u
  <2> QED BY ONLY <2>1, <2>2 DEF c
<1>3. Char = "NUL"
  BY <1>1, <1>2 DEF Char
<1>4. Keep
  BY <1>1, <1>3 DEF ExpandChar, FirstBackslash, SecondBackslash, Replace, Substitute,
     Date, Octal
<1> DEFINE y == [x EXCEPT !.count = @ + 1, !.backslash = FALSE]
           z == [y EXCEPT !.end = "astray"]
<1>5. Goes(y)
  BY <1>1, <1>4 DEF Keep
<1>6. y.end = "no" /\ y.cur = 1 /\ y.text = x.text /\ z.end = "astray"
  BY DEF Expanding
<1> HIDE DEF y, z
<1>7. x' = [y EXCEPT !.end = "astray"]
  BY <1>2, <1>5, <1>6 DEF Goes
<1> QED BY <1>6, <1>7 DEF z

-----------------------------------------------------------------------------
(* The prompt of a session                                                 *)

ShowsInv ==
    IF session.ps1 = <<>>
    THEN x.end = "astray" \/ x = Expanding(<<>>, session.cwd)
    ELSE ShownTo(x, session.ps1, EscapesIn(session))

LEMMA AnewShows ==
    ASSUME FrontendInv, x' = Expanding(session.ps1, session.cwd), session' = session
    PROVE  ShowsInv'
<1>1. session.ps1 \in Seq(PromptCharacter)
  BY SessionsAssumption DEF FrontendInv
<1> DEFINE y == Expanding(session.ps1, session.cwd)
<1>2. EscapesOf(y) = EscapesIn(session)
  BY DEF EscapesOf, EscapesIn
<1>3. session.ps1 # <<>> => ShownTo(y, session.ps1, EscapesIn(session))
  BY <1>1, <1>2, ExpandingShows
<1> HIDE DEF y
<1>4. x' = y /\ (session.ps1 = <<>> => y = Expanding(<<>>, session.cwd))
  BY DEF y
<1> QED BY <1>3, <1>4 DEF ShowsInv

LEMMA InitShows == Init => ShowsInv
<1> SUFFICES ASSUME Init PROVE ShowsInv
  OBVIOUS
<1>1. session.ps1 \in Seq(PromptCharacter)
  BY SessionsAssumption DEF Init
<1> DEFINE y == Expanding(session.ps1, session.cwd)
<1>2. EscapesOf(y) = EscapesIn(session)
  BY DEF EscapesOf, EscapesIn
<1>3. session.ps1 # <<>> => ShownTo(y, session.ps1, EscapesIn(session))
  BY <1>1, <1>2, ExpandingShows
<1>4. x = y
  BY DEF Init
<1> QED BY <1>3, <1>4 DEF ShowsInv

(* What the escapes of a session stand for is shown as it is.              *)
LEMMA EscapesInIs == ASSUME session \in Sessions PROVE EscapesIn(session) \in EscapeTable
<1> DEFINE y == Expanding(session.ps1, session.cwd)
           w == WorkDir(y, FALSE)
           W == WorkDir(y, TRUE)
<1>1. y.cwd \in Seq(PromptCharacter)
  BY SessionsAssumption DEF Expanding
<1>2. w \in Seq(Glyph) /\ W \in Seq(Glyph)
  <2> HIDE DEF y
  <2> QED BY <1>1, WorkDirIs
<1>3. EscapesIn(session) = Escapes(w, W, HaveReadline)
  BY DEF EscapesIn
<1> HIDE DEF w, W
<1> QED BY <1>2, <1>3, EscapesAre

LEMMA ExpandShows == ASSUME FrontendInv, ShowsInv, Expand PROVE ShowsInv'
<1>1. ExpandChar /\ session' = session /\ x.end = "no" /\ ExpanderInv
  BY DEF Expand, ExpandChar, Keep, FirstBackslash, SecondBackslash, Replace, Substitute,
     Date, Octal, Expands, FrontendInv
<1>2. CASE session.ps1 = <<>>
  <2>1. x = Expanding(<<>>, session.cwd)
    BY <1>1, <1>2 DEF ShowsInv
  <2>2. x'.end = "astray"
    BY <1>1, <2>1, EmptyStrays
  <2> QED BY <1>1, <1>2, <2>2 DEF ShowsInv
<1>3. CASE session.ps1 # <<>>
  <2> DEFINE e == EscapesIn(session)
             ps1 == session.ps1
  <2>1. ps1 \in Seq(PromptCharacter) /\ e \in EscapeTable
    BY SessionsAssumption, EscapesInIs DEF FrontendInv
  <2>2. ShownTo(x, ps1, e)
    BY <1>3 DEF ShowsInv
  <2> HIDE DEF ps1, e
  <2>3. ShownTo(x', ps1, e)
    BY <1>1, <2>1, <2>2, TurnShows
  <2>4. ShownTo(x', session'.ps1, EscapesIn(session'))
    BY <1>1, <2>3 DEF ps1, e
  <2> QED BY <1>1, <1>3, <2>4 DEF ShowsInv, EscapesIn
<1> QED BY <1>2, <1>3

LEMMA StepShows == FrontendInv /\ ShowsInv /\ [Next]_vars => ShowsInv'
<1> SUFFICES ASSUME FrontendInv, ShowsInv, [Next]_vars PROVE ShowsInv'
  OBVIOUS
<1>1. ASSUME UNCHANGED <<session, x>> PROVE ShowsInv'
  BY <1>1 DEF ShowsInv, EscapesIn
<1>2. CASE Expand
  BY <1>2, ExpandShows
<1>3. CASE Prompt
  BY <1>3, AnewShows DEF Prompt
<1>4. CASE ShowPrompt
  BY <1>1, <1>4 DEF ShowPrompt
<1>5. CASE EndOfInput
  BY <1>1, <1>5 DEF EndOfInput
<1>6. CASE Crash
  BY <1>1, <1>6 DEF Crash
<1>7. CASE ReadLine
  BY <1>1, <1>7 DEF ReadLine
<1>8. CASE Parse
  BY <1>1, <1>8 DEF Parse
<1>9. CASE HandOver
  BY <1>1, <1>9 DEF HandOver
<1>10. CASE UNCHANGED vars
  BY <1>1, <1>10 DEF vars
<1>11. CASE RunExits
  BY <1>1, <1>11 DEF RunExits
<1> QED BY <1>2, <1>3, <1>4, <1>5, <1>6, <1>7, <1>8, <1>9, <1>10, <1>11
        DEF Next, MainLoop, EmptyLine, SyntaxError, CommandsRun

LEMMA ShowsInvariance == Spec => []ShowsInv
<1>1. Init => ShowsInv
  BY InitShows
<1>2. FrontendInv /\ ShowsInv /\ [Next]_vars => ShowsInv'
  BY StepShows
<1> QED BY <1>1, <1>2, Invariance, PTL DEF Spec

(* However long PS1, and wherever the shell is: what ps_expander gives is  *)
(* what PS1 and its escapes mean, although it writes over the text that    *)
(* its pieces point into.  It leaves its memory on the prompts that show   *)
(* nothing, and on no other.                                               *)
ShowsItsMeaning ==
    LET shown == Shown(session.ps1, EscapesIn(session))
    IN  /\ x.end = "done" => x.out = shown /\ shown # <<>>
        /\ x.end = "astray" => shown = <<>>

THEOREM ExpanderShowsItsMeaning == Spec => []ShowsItsMeaning
<1>1. ShowsInv => ShowsItsMeaning
  <2> SUFFICES ASSUME ShowsInv PROVE ShowsItsMeaning
    OBVIOUS
  <2>1. CASE session.ps1 = <<>>
    <3>1. x.end # "done"
      BY <2>1 DEF ShowsInv, Expanding
    <3> QED BY <2>1, <3>1, NothingShown DEF ShowsItsMeaning
  <2>2. CASE session.ps1 # <<>>
    BY <2>2 DEF ShowsInv, ShownTo, ShowsItsMeaning
  <2> QED BY <2>1, <2>2
<1> QED BY <1>1, ShowsInvariance, PTL

(* Where it is said what is shown for a prompt, it is what the reading     *)
(* says.                                                                   *)
PromptMeant ==
    \A s \in Sessions :
        s.shown # Unknown => s.shown = Shown(s.ps1, EscapesIn(s))

(* The user is shown what is meant by PS1.                                 *)
THEOREM PromptShownCorrect == ASSUME PromptMeant PROVE Spec => []PromptShown
<1>1. FrontendInv /\ ShowsItsMeaning => PromptShown
  <2> SUFFICES ASSUME FrontendInv, ShowsItsMeaning, x.end = "done",
                      session.shown # Unknown
               PROVE  x.out = session.shown
    BY DEF PromptShown
  <2>1. session.shown = Shown(session.ps1, EscapesIn(session))
    BY DEF FrontendInv, PromptMeant
  <2> QED BY <2>1 DEF ShowsItsMeaning
<1> QED BY <1>1, Invariance, ExpanderShowsItsMeaning, PTL
-----------------------------------------------------------------------------
(* Every turn leads on                                                     *)

(* No character is read again: as long as the parse goes on, the position  *)
(* is behind the one that was read, and the line is longer only for an     *)
(* answer.                                                                 *)
Still(q, r) == r.pos = q.pos /\ r.buf = q.buf /\ r.asked = q.asked
Longer(q, r) == Still(q, r) \/ (r.pos = q.pos /\ r.asked = q.asked + 1)
Onward(r) ==
    r.end = "no" =>
        /\ r.pos >= p.pos
        /\ (r.buf = p.buf /\ r.asked = p.asked) \/ r.asked = p.asked + 1
ParserAdvances ==
    p'.end = "no" =>
        /\ p'.pos > p.pos
        /\ (p'.buf = p.buf /\ p'.asked = p.asked) \/ p'.asked = p.asked + 1

LEMMA EndedStill ==
    ASSUME NEW q \in Locals, NEW how PROVE Still(q, Ended(q, how))
BY DEF Ended, Still, Locals

LEMMA StopStill == ASSUME NEW q \in Locals PROVE Still(q, Stop(q))
BY EndedStill DEF Stop

LEMMA FailStill == ASSUME NEW q \in Locals PROVE Still(q, Fail(q))
BY DEF Fail, Ended, Still, Locals

LEMMA StoredStill == ASSUME NEW q \in Locals, NEW c PROVE Still(q, Stored(q, c))
BY EndedStill DEF Stored, Still, Locals

LEMMA WrittenStill ==
    ASSUME NEW q \in Parsers, q.end = "no" => q.pos <= Len(q.buf)
    PROVE  Still(q, Written(q))
<1> DEFINE c == At(q, q.pos)
           r == IF q.redirecting = "no" THEN Stored(q, c) ELSE q
           s == [r EXCEPT !.ret = "some"]
<1>1. q \in Locals
  BY DEF Parsers, States
<1>2. Still(q, r)
  BY <1>1, StoredStill DEF Still
<1>3. CASE q.end # "no"
  BY <1>3 DEF Written, Still
<1>4. CASE q.end = "no"
  <2>1. q.pos \in Nat /\ q.pos >= 1 /\ q.pos <= Len(q.buf) /\ Len(q.buf) \in Nat
    <3>1. q.pos \in Nat /\ q.first \in Nat /\ q.buf \in Seq(Character)
      BY <1>1 DEF Locals
    <3>2. 1 <= q.first /\ q.first <= q.pos
      BY <1>4 DEF Parsers, Placed
    <3>3. q.pos <= Len(q.buf)
      BY <1>4
    <3>4. Len(q.buf) \in Nat
      BY <3>1
    <3> QED BY ONLY <3>1, <3>2, <3>3, <3>4
  <2>2. c \in Character
    BY <1>1, <2>1 DEF At, Locals
  <2>3. r \in Parsers
    BY <1>4, <2>2, StoredIs
  <2>4. r \in Locals
    BY <2>3 DEF Parsers, States
  <2> HIDE DEF r, c
  <2>5. Still(r, s)
    BY <2>4 DEF Still, Locals
  <2>6. Still(q, s)
    BY <1>2, <2>5 DEF Still
  <2>7. Written(q) \in {Fail(q), r, s}
    BY <1>4 DEF Written, r, c
  <2> HIDE DEF s
  <2> QED BY <1>1, <1>2, <2>6, <2>7, FailStill
<1> QED BY <1>3, <1>4

LEMMA TimesStill ==
    ASSUME NEW q \in Parsers, q.pos <= Len(q.buf), NEW n \in Nat
    PROVE  Still(q, Times(q, n))
<1> DEFINE s == [i \in 1..n |-> i]
           T == {r \in Parsers : Still(q, r)}
<1>1. q \in T
  BY DEF Still
<1>2. ASSUME NEW r \in T, NEW i \in 1..n PROVE WrittenAgain(r, s[i]) \in T
  <2>1. r \in Parsers /\ Still(q, r) /\ r.pos <= Len(r.buf)
    BY DEF Still
  <2>2. Written(r) \in Parsers /\ Still(r, Written(r))
    BY <2>1, WrittenIs, WrittenStill
  <2>3. Still(q, Written(r))
    BY <2>1, <2>2 DEF Still
  <2> QED BY <2>2, <2>3 DEF WrittenAgain
<1>3. DOMAIN s = 1..n
  OBVIOUS
<1> HIDE DEF s, T
<1>4. Writing!Fold(q, s) \in T
  BY <1>1, <1>2, <1>3, Writing!FoldStaysIn
<1>5. Times(q, n) = Writing!Fold(q, s)
  BY DEF Times, s, Writing!Fold, FoldLeft, Writing!FoldLeft, MapThenFoldSet,
     Writing!MapThenFoldSet, Max, Writing!Max
<1> QED BY <1>4, <1>5 DEF T

LEMMA UndoBlankStill ==
    ASSUME NEW q \in Locals, NEW back PROVE Still(q, UndoBlank(q, back))
BY EndedStill DEF UndoBlank, Still, Locals

LEMMA ChainedStill ==
    ASSUME NEW q \in Locals, NEW type PROVE Still(q, Chained(q, type))
BY DEF Chained, Still, Locals

LEMMA AskedAtLonger ==
    ASSUME NEW q \in Locals, NEW i, NEW r \in AskedAt(q, i) PROVE Longer(q, r)
<1>1. r = q \/ r \in AskMore(q)
  BY DEF AskedAt
<1>2. CASE r = q
  BY <1>2 DEF Longer, Still
<1>3. CASE r \in AskMore(q)
  <2>1. \/ r = Ended(q, "eof")
        \/ \E line \in Continuations :
              r = [q EXCEPT !.buf = @ \o line, !.asked = @ + 1]
    BY <1>3 DEF AskMore
  <2>2. q.asked \in Nat
    BY LinesAssumption DEF Locals
  <2> QED BY <2>1, <2>2, EndedStill DEF Longer, Locals
<1> QED BY <1>1, <1>2, <1>3

LEMMA IntoNextOnward ==
    ASSUME NEW q \in States, NEW i \in Nat, i >= 1
    PROVE  LET r == IntoNext(q, i)
           IN  r.end = "no" =>
                 r.pos \in Nat /\ r.pos >= i - 1 /\ r.buf = q.buf /\ r.asked = q.asked
<1> DEFINE z == [q EXCEPT !.element = 1, !.chars = 0]
           r == Skipped(z, i)
<1>1. z \in States /\ Still(q, z)
  <2>1. 1 \in 0..MaxArgs /\ 0 \in Nat
    BY LinesAssumption
  <2> QED BY <2>1 DEF States, Locals, Still
<1>2. IntoNext(q, i) = r
  BY DEF IntoNext
<1> HIDE DEF z
<1>3. r.end = "no" => r = [z EXCEPT !.pos = r.pos] /\ r.pos \in Nat /\ r.pos >= i - 1
  BY <1>1, SkippedIs
<1> HIDE DEF r
<1>4. r.end = "no" => r.buf = z.buf /\ r.asked = z.asked
  BY <1>1, <1>3 DEF States, Locals
<1> QED BY <1>1, <1>2, <1>3, <1>4 DEF Still

LEMMA SkippedOnward ==
    ASSUME NEW q \in States, NEW i \in Nat, i >= 1
    PROVE  LET r == Skipped(q, i)
           IN  r.end = "no" =>
                 r.pos \in Nat /\ r.pos >= i - 1 /\ r.buf = q.buf /\ r.asked = q.asked
<1> DEFINE r == Skipped(q, i)
<1>1. r.end = "no" => r = [q EXCEPT !.pos = r.pos] /\ r.pos \in Nat /\ r.pos >= i - 1
  BY SkippedIs
<1> HIDE DEF r
<1>2. r.end = "no" => r.buf = q.buf /\ r.asked = q.asked
  BY <1>1 DEF States, Locals
<1> QED BY <1>1, <1>2 DEF r

LEMMA BecomesOnward ==
    ASSUME ParserInv, NEW q \in Locals, Onward(q), Becomes(q)
    PROVE  ParserAdvances
<1> DEFINE n == q.pos + 1
           r == [q EXCEPT !.pos = n]
<1>1. CASE q.end # "no"
  BY <1>1 DEF Becomes, ParserAdvances
<1>2. CASE q.end = "no" /\ Past(q, n)
  <2>1. Ended(q, "astray").end = "astray"
    BY <1>2 DEF Ended, Locals
  <2> QED BY <1>2, <2>1 DEF Becomes, ParserAdvances
<1>3. CASE q.end = "no" /\ ~Past(q, n)
  <2>1. p' = r
    BY <1>3 DEF Becomes
  <2>2. r.pos = n /\ r.buf = q.buf /\ r.asked = q.asked
    BY DEF Locals
  <2> HIDE DEF r
  <2>3. q.pos >= p.pos /\ q.pos \in Nat /\ p.pos \in Nat
    BY <1>3 DEF Onward, Locals, ParserInv, Parsers, States
  <2>4. n > p.pos
    BY <2>3
  <2> QED BY <1>3, <2>1, <2>2, <2>4 DEF ParserAdvances, Onward
<1> QED BY <1>1, <1>2, <1>3

LEMMA StillOnward ==
    ASSUME ParserInv, NEW q, Still(p, q) PROVE Onward(q)
BY DEF Still, Onward, ParserInv, Parsers, States, Locals

LEMMA StoppedOnward == ASSUME ParserInv, NEW q, q.end # "no" PROVE Onward(q)
BY DEF Onward

(* A character that is written or ignored.                                 *)
LEMMA WrittenOnward ==
    ASSUME ParserInv, p.end = "no", p.pos <= Len(p.buf), Becomes(Written(p))
    PROVE  ParserAdvances
<1>1. Written(p) \in Locals /\ Onward(Written(p))
  BY WrittenIs, WrittenStill, StillOnward DEF ParserInv, Parsers, States
<1> QED BY <1>1, BecomesOnward

LEMMA AlikeOnward ==
    ASSUME ParserInv, NEW q \in Locals, Still(p, q), Becomes(q)
    PROVE  ParserAdvances
BY StillOnward, BecomesOnward

LEMMA OrdinaryAdvances == ASSUME ParserInv, Ordinary PROVE ParserAdvances
<1>1. p.end = "no" /\ p.pos <= Len(p.buf)
  <2>1. PICK c \in {"a", "b", "1", "/", "(", "<"} : Reading(c)
    BY DEF Ordinary
  <2>2. c # "NUL"
    OBVIOUS
  <2> QED BY <2>1, <2>2, ReadingIs
<1> QED BY <1>1, WrittenOnward DEF Ordinary

LEMMA QuotedAdvances == ASSUME ParserInv, Quoted PROVE ParserAdvances
<1>1. p.end = "no" /\ p.pos <= Len(p.buf)
  <2>1. PICK c \in {" ", "&", "|", ">", "~"} : Reading(c)
    BY DEF Quoted
  <2>2. c # "NUL"
    OBVIOUS
  <2> QED BY <2>1, <2>2, ReadingIs
<1> QED BY <1>1, WrittenOnward DEF Quoted

LEMMA SingleQuoteAdvances == ASSUME ParserInv, SingleQuote PROVE ParserAdvances
<1> DEFINE c == "'"
<1>4. Reading(c) /\ c # "NUL"
  BY DEF SingleQuote
<1> HIDE DEF c
<1>1. p.end = "no" /\ p.pos <= Len(p.buf) /\ p \in Locals
  BY <1>4, ReadingIs
<1>2. \A b \in BOOLEAN :
          [p EXCEPT !.squote = b] \in Locals /\ Still(p, [p EXCEPT !.squote = b])
  BY <1>1 DEF Locals, Still
<1>3. \/ Becomes(Written(p)) \/ Becomes([p EXCEPT !.squote = TRUE])
      \/ Becomes([p EXCEPT !.squote = FALSE])
  BY DEF SingleQuote
<1> QED BY <1>1, <1>2, <1>3, WrittenOnward, AlikeOnward

LEMMA DoubleQuoteAdvances == ASSUME ParserInv, DoubleQuote PROVE ParserAdvances
<1> DEFINE c == "\""
<1>4. Reading(c) /\ c # "NUL"
  BY DEF DoubleQuote
<1> HIDE DEF c
<1>1. p.end = "no" /\ p.pos <= Len(p.buf) /\ p \in Locals
  BY <1>4, ReadingIs
<1> DEFINE q == [p EXCEPT !.dquote = ~@]
<1>2. q \in Locals /\ Still(p, q)
  BY <1>1 DEF Locals, Still
<1>3. Becomes(Written(p)) \/ Becomes(q)
  BY DEF DoubleQuote
<1> HIDE DEF q
<1> QED BY <1>1, <1>2, <1>3, WrittenOnward, AlikeOnward

LEMMA DollarAdvances == ASSUME ParserInv, Dollar PROVE ParserAdvances
<1>6. PICK c \in {"$", "backquote"} : Reading(c)
  BY DEF Dollar
<1>7. c # "NUL"
  OBVIOUS
<1>1. p.end = "no" /\ p.pos <= Len(p.buf) /\ p \in Parsers
  BY <1>6, <1>7, ReadingIs
<1>2. \E n \in {1, 2, 3} : Becomes(Times(p, n))
  BY DEF Dollar
<1>3. PICK n \in {1, 2, 3} : Becomes(Times(p, n))
  BY <1>2
<1>4. n \in Nat
  OBVIOUS
<1>5. Times(p, n) \in Locals /\ Still(p, Times(p, n))
  BY <1>1, <1>4, TimesIs, TimesStill DEF Parsers, States
<1> QED BY <1>3, <1>5, AlikeOnward

LEMMA BackslashAdvances == ASSUME ParserInv, Backslash PROVE ParserAdvances
<1> DEFINE c == "\\"
           L == Len(p.buf) + 1
           S == {i \in p.pos..L : At(p, i) # c}
           after == Min(S)
           q == Times(p, (after - p.pos) \div 2)
           n == IF At(p, after) = "NUL" THEN after ELSE after - 1
           r == [q EXCEPT !.pos = n]
<1>1. Reading(c) /\ c # "NUL" /\ Becomes(r)
  BY DEF Backslash
<1> HIDE DEF c
<1>2. /\ p \in Parsers /\ p \in States /\ p.pos <= Len(p.buf) /\ p.pos \in Nat
      /\ p.pos >= 1 /\ Len(p.buf) \in Nat /\ At(p, p.pos) = c
  BY <1>1, ReadingIs DEF Reading
<1>3. L \in Nat /\ L >= p.pos /\ L >= 1 /\ L > Len(p.buf)
  BY <1>2
<1> HIDE DEF L
<1>4. At(p, L) = "NUL"
  BY <1>2, <1>3, AtIs
<1>5. L \in S
  BY <1>1, <1>2, <1>3, <1>4
<1>6. S \subseteq p.pos..L
  OBVIOUS
<1>7. \A i \in S : At(p, i) # c
  OBVIOUS
<1> HIDE DEF S
<1>8. S \subseteq Nat /\ \A i \in S : i >= p.pos
  BY <1>2, <1>3, <1>6
<1>9. after \in S
  BY <1>5, <1>8, MinIs
<1>10. after \in Nat /\ after >= p.pos /\ after # p.pos
  BY <1>2, <1>7, <1>8, <1>9
<1> HIDE DEF after
<1>11. (after - p.pos) \div 2 \in Nat
  BY <1>2, <1>10
<1>12. q \in Locals /\ Still(p, q)
  BY <1>2, <1>11, TimesIs, TimesStill DEF Parsers, States
<1> HIDE DEF q
<1>13. n \in Nat /\ n >= p.pos
  BY <1>2, <1>10
<1> HIDE DEF n
<1>14. r \in Locals /\ r.pos = n /\ r.buf = q.buf /\ r.asked = q.asked
  BY <1>12, <1>13 DEF Locals
<1> HIDE DEF r
<1>15. Onward(r)
  BY <1>12, <1>13, <1>14 DEF Onward, Still
<1> QED BY <1>1, <1>14, <1>15, BecomesOnward

LEMMA TildeAdvances == ASSUME ParserInv, Tilde PROVE ParserAdvances
<1> DEFINE v == <<"home">>
           w == Writes(p, v)
<1>1. Reading("~")
  BY DEF Tilde
<1>2. /\ p \in Parsers /\ p \in States /\ p \in Locals /\ p.pos <= Len(p.buf)
      /\ p.end = "no" /\ p.pos \in Nat
  BY <1>1, ReadingIs DEF Parsers, States
<1>3. Ended(p, "astray") \in Locals /\ Still(p, Ended(p, "astray"))
  BY <1>2, EndedIs, EndedStill DEF Ends, Parsers, States
<1>4. v \in Seq(Character)
  BY DEF Character
<1>5. ASSUME HasCell(p), NEW k \in Nat, Becomes([w EXCEPT !.pos = p.pos + k])
      PROVE  ParserAdvances
  <2> DEFINE n == p.pos + k
             r == [w EXCEPT !.pos = n]
  <2>1. w \in Locals
    BY <1>2, <1>4, <1>5, WritesIs DEF Parsers, States
  <2>2. Still(p, w)
    BY <1>2 DEF Writes, Still, Locals
  <2>3. Becomes(r)
    BY <1>5
  <2> HIDE DEF w
  <2>4. n \in Nat /\ n >= p.pos
    BY <1>2, <1>5
  <2> HIDE DEF n
  <2>5. r \in Locals /\ r.pos = n /\ r.buf = w.buf /\ r.asked = w.asked
    BY <2>1, <2>4 DEF Locals
  <2> HIDE DEF r
  <2>6. Onward(r)
    BY <2>2, <2>4, <2>5 DEF Onward, Still
  <2> QED BY <2>3, <2>5, <2>6, BecomesOnward
<1> QED BY <1>2, <1>3, <1>5, TildeIs, WrittenOnward, AlikeOnward

LEMMA HashAdvances == ASSUME ParserInv, Hash PROVE ParserAdvances
<1> DEFINE c == "#"
           q == UndoBlank(p, 1)
<1>1. Reading(c) /\ c # "NUL" /\ (Becomes(Written(p)) \/ Becomes(Stop(q)))
  BY DEF Hash
<1> HIDE DEF c
<1>2. p \in Parsers /\ p.end = "no" /\ p.pos <= Len(p.buf)
  BY <1>1, ReadingIs
<1>3. q \in States
  BY <1>2, UndoBlankIs DEF Parsers
<1> HIDE DEF q
<1>4. Stop(q) \in Locals /\ Stop(q).end # "no"
  BY <1>3, StopIs DEF Parsers, States
<1> QED BY <1>1, <1>2, <1>4, WrittenOnward, StoppedOnward, BecomesOnward

(* Skipping blanks before or behind position i goes back by one at most,   *)
(* and never before a blank that is read.                                  *)
LEMMA IntoNextAdvances ==
    ASSUME ParserInv, NEW r \in States, Longer(p, r),
           NEW j \in Nat, j > p.pos, Becomes(IntoNext(r, j))
    PROVE  ParserAdvances
<1> DEFINE s == IntoNext(r, j)
           z == [r EXCEPT !.element = 1, !.chars = 0]
<1>2. p.pos \in Nat /\ j >= 1 /\ j - 1 >= p.pos
  <2>1. p.pos \in Nat
    BY DEF ParserInv, Parsers, States, Locals
  <2> QED BY <2>1
<1>3. s.end = "no" =>
          s.pos \in Nat /\ s.pos >= j - 1 /\ s.buf = r.buf /\ s.asked = r.asked
  BY <1>2, IntoNextOnward
<1>4. z \in States
  <2>1. 1 \in 0..MaxArgs /\ 0 \in Nat
    BY LinesAssumption
  <2> QED BY <2>1 DEF States, Locals
<1>5. s = Skipped(z, j)
  BY DEF IntoNext
<1> HIDE DEF z
<1>6. s \in Locals
  BY <1>2, <1>4, <1>5, SkippedIs DEF States
<1> HIDE DEF s
<1>7. s.end = "no" => s.pos >= p.pos
  BY <1>2, <1>3
<1>8. Onward(s)
  BY <1>3, <1>7 DEF Onward, Longer, Still
<1>9. Becomes(s)
  BY DEF s
<1> QED BY <1>6, <1>8, <1>9, BecomesOnward

LEMMA ChainedOnward ==
    ASSUME ParserInv, NEW c, Reading(c), c # "NUL", NEW back \in {0, 1},
           NEW type \in CommandTypes
    PROVE  LET q == Chained(UndoBlank(p, back), type)
           IN  /\ q \in States /\ Still(p, q)
               /\ q.end = "no" => Placed(q) /\ q.first <= Len(q.buf)
<1> DEFINE u == UndoBlank(p, back)
           q == Chained(u, type)
<1>1. q \in States /\ (q.end = "no" => Placed(q) /\ q.first <= Len(q.buf))
  BY OnwardIs
<1>2. p \in Parsers /\ p \in Locals /\ p.end = "no"
  BY ReadingIs
<1>3. u \in Parsers /\ Still(p, u)
  BY <1>2, UndoBlankIs, UndoBlankStill
<1>4. u \in Locals
  BY <1>3 DEF Parsers, States
<1> HIDE DEF u
<1>5. Still(u, q)
  BY <1>4, ChainedStill
<1>6. Still(p, q)
  BY <1>3, <1>5 DEF Still
<1> QED BY <1>1, <1>6 DEF u

LEMMA AskedOnward ==
    ASSUME ParserInv, NEW c, Reading(c), c # "NUL", NEW back \in {0, 1},
           NEW type \in CommandTypes, NEW i,
           NEW r \in AskedAt(Chained(UndoBlank(p, back), type), i)
    PROVE  r \in States /\ Longer(p, r)
<1> DEFINE q == Chained(UndoBlank(p, back), type)
<1>1. /\ q \in States /\ Still(p, q)
      /\ q.end = "no" => Placed(q) /\ q.first <= Len(q.buf)
  BY ChainedOnward
<1>2. r \in AskedAt(q, i)
  OBVIOUS
<1> HIDE DEF q
<1>3. q \in Locals
  BY <1>1 DEF States
<1>4. r \in States
  BY <1>1, <1>2, AskedAtIs
<1>5. Longer(q, r)
  BY <1>2, <1>3, AskedAtLonger
<1> QED BY <1>1, <1>4, <1>5 DEF Longer, Still

LEMMA EndsBecome ==
    ASSUME NEW q, "end" \in DOMAIN q, NEW how, how # "no", Becomes(Ended(q, how))
    PROVE  ParserAdvances
<1> DEFINE e == Ended(q, how)
<1>1. e.end # "no"
  <2>1. CASE q.end = "no"
    BY <2>1 DEF Ended
  <2>2. CASE q.end # "no"
    BY <2>2 DEF Ended
  <2> QED BY <2>1, <2>2
<1>2. Becomes(e)
  OBVIOUS
<1> HIDE DEF e
<1> QED BY <1>1, <1>2 DEF Becomes, ParserAdvances

LEMMA BlankEndsAdvances == ASSUME ParserInv, BlankEnds PROVE ParserAdvances
<1> DEFINE c == " "
           q == Skipped(p, p.pos)
           a == Argv(q)
           n == q.element + 1
           k == q.chars + 1
           b == SubSeq(a, 1, q.element) \o <<<<>>>>
           cs == With(q, b)
           r == [q EXCEPT !.element = n, !.old = k, !.chars = 0, !.cmds = cs]
<1>1. Reading(c) /\ c # "NUL"
  BY DEF BlankEnds
<1>2. c = " "
  OBVIOUS
<1> HIDE DEF c
<1>3. /\ p \in States /\ p.end = "no" /\ p.pos \in Nat /\ p.pos >= 1
      /\ p.pos <= Len(p.buf) /\ p.buf[p.pos] = c
  BY <1>1, ReadingIs
<1>4. /\ q \in States
      /\ q.end = "no" =>
            /\ q = [p EXCEPT !.pos = q.pos] /\ q.pos \in Nat /\ q.pos >= p.pos - 1
            /\ p.buf[q.pos + 1] # " "
  BY <1>3, SkippedIs
<1>5. q.end = "no" => q.pos \in Nat /\ q.pos >= p.pos /\ q.buf = p.buf /\ q.asked = p.asked
  <2> SUFFICES ASSUME q.end = "no" PROVE q.pos \in Nat /\ q.pos >= p.pos
                                         /\ q.buf = p.buf /\ q.asked = p.asked
    OBVIOUS
  <2>1. q.buf = p.buf /\ q.asked = p.asked
    BY <1>3, <1>4 DEF States, Locals
  <2>2. p.buf[q.pos + 1] # p.buf[p.pos]
    BY <1>2, <1>3, <1>4
  <2>3. q.pos + 1 # p.pos
    BY <2>2
  <2>4. p.pos \in Nat /\ q.pos \in Nat /\ q.pos >= p.pos - 1
    BY <1>3, <1>4
  <2>5. q.pos >= p.pos
    BY ONLY <2>3, <2>4
  <2> QED BY <2>1, <2>4, <2>5
<1>6. \/ q.end # "no" /\ Becomes(q)
      \/ q.end = "no" /\ Becomes(Ended(q, "astray"))
      \/ q.end = "no" /\ HasCell(q) /\ q.element # MaxArgs /\ Becomes(r)
  BY <1>4, ArgvIs DEF BlankEnds, With, Argv, Last, States, Locals
<1> HIDE DEF q
<1>7. q \in Locals
  BY <1>4 DEF States
<1>8. CASE q.end # "no" /\ Becomes(q)
  BY <1>7, <1>8, StoppedOnward, BecomesOnward
<1>9. CASE q.end = "no" /\ Becomes(Ended(q, "astray"))
  <2> DEFINE e == Ended(q, "astray")
  <2>1. e \in Locals /\ e.end # "no"
    BY <1>7 DEF Ended, Locals, Ends
  <2> HIDE DEF e
  <2>2. Becomes(e)
    BY <1>9 DEF e
  <2> QED BY <2>1, <2>2, StoppedOnward, BecomesOnward
<1>10. CASE q.end = "no" /\ HasCell(q) /\ q.element # MaxArgs /\ Becomes(r)
  <2>1. a \in Arguments /\ q.element \in 1..Len(a) /\ a[q.element] # NoCell
    BY <1>4, <1>10, ArgvIs DEF HasCell
  <2>2. b \in Arguments
    BY <2>1, NextElementIs
  <2>3. n \in 0..MaxArgs /\ k \in Nat
    <3>1. q.element \in 0..MaxArgs /\ q.chars \in Nat
      BY <1>7 DEF Locals
    <3>2. MaxArgs \in Nat /\ q.element # MaxArgs
      BY <1>10, LinesAssumption
    <3> QED BY ONLY <3>1, <3>2
  <2> HIDE DEF a, b, n, k
  <2>4. cs \in CommandList
    BY <1>4, <2>2, WithIs
  <2> HIDE DEF cs
  <2>5. r \in Locals /\ Still(q, r)
    BY <1>7, <2>3, <2>4 DEF Locals, Still
  <2> HIDE DEF r
  <2>6. Onward(r)
    BY <1>5, <1>10, <2>5 DEF Onward, Still
  <2> QED BY <1>10, <2>5, <2>6, BecomesOnward
<1> QED BY <1>6, <1>8, <1>9, <1>10

LEMMA AmpersandAdvances == ASSUME ParserInv, Ampersand PROVE ParserAdvances
<1> DEFINE c == "&"
           q == UndoBlank(p, 1)
           t == [q EXCEPT !.cmds[Len(q.cmds)].type = "BACKGROUND"]
           i == p.pos + 1
           j == p.pos + 2
<1>1. Reading(c) /\ c # "NUL"
  BY DEF Ampersand
<1>2. \/ Becomes(Stop(t))
      \/ Becomes(IntoNext(Chained(q, "BACKGROUND"), i))
      \/ \E r \in AskedAt(Chained(q, "RUN_AND"), j) : Becomes(IntoNext(r, j))
  BY DEF Ampersand
<1> HIDE DEF c
<1>3. "BACKGROUND" \in CommandTypes /\ "RUN_AND" \in CommandTypes
  BY DEF CommandTypes
<1>4. p.pos \in Nat
  BY <1>1, ReadingIs
<1>5. i \in Nat /\ i > p.pos /\ j \in Nat /\ j > p.pos
  BY <1>4
<1> HIDE DEF i, j
<1>6. CASE Becomes(Stop(t))
  <2>1. q \in Locals
    BY <1>1, ReadingIs, UndoBlankIs DEF Parsers, States
  <2> DEFINE ds == [q.cmds EXCEPT ![Len(q.cmds)].type = "BACKGROUND"]
             how == IF t.ret = "some" /\ ~HasCell(t) THEN "astray" ELSE "done"
  <2>2. t = [q EXCEPT !.cmds = ds]
    OBVIOUS
  <2> HIDE DEF q, ds
  <2>3. "end" \in DOMAIN t
    BY <2>1, <2>2 DEF Locals
  <2> HIDE DEF t
  <2>4. how # "no"
    OBVIOUS
  <2>5. Becomes(Ended(t, how))
    BY <1>6 DEF Stop
  <2> QED BY <2>3, <2>4, <2>5, EndsBecome
<1>7. CASE Becomes(IntoNext(Chained(q, "BACKGROUND"), i))
  <2> DEFINE u == Chained(q, "BACKGROUND")
  <2>1. u \in States /\ Still(p, u)
    BY <1>1, <1>3, ChainedOnward
  <2> HIDE DEF u
  <2>2. Longer(p, u)
    BY <2>1 DEF Longer
  <2> QED BY <1>5, <1>7, <2>1, <2>2, IntoNextAdvances DEF u
<1>8. CASE \E r \in AskedAt(Chained(q, "RUN_AND"), j) : Becomes(IntoNext(r, j))
  <2>1. PICK r \in AskedAt(Chained(q, "RUN_AND"), j) : Becomes(IntoNext(r, j))
    BY <1>8
  <2>2. r \in States /\ Longer(p, r)
    BY <1>1, <1>3, AskedOnward
  <2> QED BY <1>5, <2>1, <2>2, IntoNextAdvances
<1> QED BY <1>2, <1>6, <1>7, <1>8

LEMMA BarAdvances == ASSUME ParserInv, Bar PROVE ParserAdvances
<1> DEFINE c == "|"
           i == p.pos + 1
           j == p.pos + 2
<1>1. Reading(c) /\ c # "NUL"
  BY DEF Bar
<1>2. \E type \in {"RUN_OR", "PIPED"}, k \in {i, j} :
          \E r \in AskedAt(Chained(UndoBlank(p, 0), type), j) : Becomes(IntoNext(r, k))
  BY DEF Bar
<1> HIDE DEF c
<1>3. p.pos \in Nat
  BY <1>1, ReadingIs
<1>4. PICK type \in {"RUN_OR", "PIPED"}, k \in {i, j} :
          \E r \in AskedAt(Chained(UndoBlank(p, 0), type), j) : Becomes(IntoNext(r, k))
  BY <1>2
<1>5. k \in Nat /\ k > p.pos
  BY <1>3
<1>6. type \in CommandTypes
  BY DEF CommandTypes
<1> HIDE DEF i, j
<1>7. PICK r \in AskedAt(Chained(UndoBlank(p, 0), type), j) : Becomes(IntoNext(r, k))
  BY <1>4
<1>8. r \in States /\ Longer(p, r)
  BY <1>1, <1>6, AskedOnward
<1> QED BY <1>5, <1>7, <1>8, IntoNextAdvances

LEMMA SemicolonAdvances == ASSUME ParserInv, Semicolon PROVE ParserAdvances
<1> DEFINE c == ";"
           q == UndoBlank(p, 0)
           u == Chained(q, "MULTICMD")
           j == p.pos + 2
           r == IntoNext(u, j)
           more == {i \in r.pos..Len(r.buf) + 1 : At(r, i) # c}
           s == [Stop(q) EXCEPT !.cmds = u.cmds]
           m == Min(more) - 1
           v == [r EXCEPT !.pos = m]
<1>1. Reading(c) /\ c # "NUL"
  BY DEF Semicolon
<1>2. \/ Becomes(Ended(Written(p), "astray")) \/ Becomes(s) \/ Becomes(r)
      \/ r.end = "no" /\ Becomes(v)
  BY DEF Semicolon
<1> HIDE DEF c
<1>3. p \in Parsers /\ p.end = "no" /\ p.pos <= Len(p.buf) /\ p.pos \in Nat
  BY <1>1, ReadingIs
<1>4. "MULTICMD" \in CommandTypes
  BY DEF CommandTypes
<1>5. u \in States /\ Still(p, u)
  BY <1>1, <1>4, ChainedOnward
<1>6. CASE Becomes(Ended(Written(p), "astray"))
  <2> DEFINE w == Written(p)
  <2>1. "end" \in DOMAIN w
    BY <1>3, WrittenIs DEF Parsers, States, Locals
  <2> HIDE DEF w
  <2> QED BY <1>6, <2>1, EndsBecome DEF w
<1>7. CASE Becomes(s)
  <2> DEFINE w == Stop(q)
             ds == u.cmds
  <2>1. q \in States
    BY <1>3, UndoBlankIs DEF Parsers
  <2> HIDE DEF q
  <2>2. w \in Locals /\ w.end # "no"
    BY <2>1, StopIs DEF Parsers, States
  <2> HIDE DEF w, u
  <2>3. s = [w EXCEPT !.cmds = ds]
    BY DEF w
  <2> HIDE DEF s, ds
  <2>4. s.end # "no"
    BY <2>2, <2>3 DEF Locals
  <2> QED BY <1>7, <2>4 DEF Becomes, ParserAdvances
<1> HIDE DEF q, u
<1>8. j \in Nat /\ j >= 1 /\ j > p.pos /\ j - 1 >= p.pos + 1
  BY <1>3
<1> HIDE DEF j
<1>9. CASE Becomes(r)
  <2>1. Longer(p, u)
    BY <1>5 DEF Longer
  <2> QED BY <1>5, <1>8, <1>9, <2>1, IntoNextAdvances
<1>10. CASE r.end = "no" /\ Becomes(v)
  <2>1. r.pos \in Nat /\ r.pos >= j - 1 /\ r.buf = u.buf /\ r.asked = u.asked
    BY <1>5, <1>8, <1>10, IntoNextOnward
  <2> DEFINE z == [u EXCEPT !.element = 1, !.chars = 0]
  <2>2. z \in States
    <3>1. 1 \in 0..MaxArgs /\ 0 \in Nat
      BY LinesAssumption
    <3> QED BY <1>5, <3>1 DEF States, Locals
  <2>3. r = Skipped(z, j)
    BY DEF IntoNext
  <2>4. z.buf = u.buf
    BY <1>5 DEF States, Locals
  <2> HIDE DEF z, r
  <2>5. r \in States /\ r \in Locals /\ r.pos < Len(z.buf)
    BY <1>8, <1>10, <2>2, <2>3, SkippedIs DEF States
  <2> DEFINE b == r.buf
             L == Len(b) + 1
  <2>6. Len(b) \in Nat /\ r.pos < Len(b)
    BY <2>1, <2>4, <2>5 DEF Locals
  <2>7. L \in Nat /\ L >= 1 /\ L > Len(r.buf) /\ r.pos <= L
    BY <2>1, <2>6
  <2> HIDE DEF L
  <2>8. At(r, L) = "NUL"
    BY <2>5, <2>7, AtIs
  <2> DEFINE T == {i \in r.pos..L : At(r, i) # c}
  <2>9. L \in T
    BY <1>1, <2>1, <2>7, <2>8
  <2>10. T \subseteq r.pos..L
    OBVIOUS
  <2>11. m = Min(T) - 1
    BY DEF L
  <2> HIDE DEF T, m
  <2>12. T \subseteq Nat /\ \A i \in T : i >= r.pos
    BY <2>1, <2>7, <2>10
  <2>13. Min(T) \in Nat /\ Min(T) >= r.pos
    BY <2>9, <2>12, MinIs
  <2>14. m \in Nat /\ m >= p.pos
    BY <1>3, <1>8, <2>1, <2>11, <2>13
  <2>15. v \in Locals /\ v.pos = m /\ v.buf = r.buf /\ v.asked = r.asked
    BY <2>5, <2>14 DEF Locals
  <2> HIDE DEF v
  <2>16. Onward(v)
    BY <1>5, <2>1, <2>14, <2>15 DEF Onward, Still
  <2> QED BY <1>10, <2>15, <2>16, BecomesOnward
<1> QED BY <1>2, <1>6, <1>7, <1>9, <1>10

LEMMA NulAdvances == ASSUME ParserInv, Nul PROVE ParserAdvances
<1>1. Reading("NUL")
  BY DEF Nul
<1>2. p \in States /\ p \in Locals /\ p.end = "no" /\ Placed(p)
  BY <1>1, ReadingIs
<1>3. p.pos \in Nat /\ p.first \in Nat /\ Len(p.buf) \in Nat /\ p.pos >= p.first
      /\ p.pos = Len(p.buf) + 1
  BY <1>1, ReadingIs
<1>4. \/ Becomes(Stop(p))
      \/ p.pos # p.first /\ \E q \in AskMore(p) : Becomes(q)
  BY DEF Nul
<1>5. CASE Becomes(Stop(p))
  <2>1. Stop(p) \in Locals /\ Still(p, Stop(p))
    BY <1>2, StopIs, StopStill DEF Parsers, States
  <2> QED BY <1>5, <2>1, AlikeOnward
<1>6. CASE p.pos # p.first /\ \E q \in AskMore(p) : Becomes(q)
  <2>1. PICK q \in AskMore(p) : Becomes(q)
    BY <1>6
  <2>2. p.first <= Len(p.buf)
    BY <1>3, <1>6
  <2>3. q \in Locals
    BY <1>2, <2>2, AskMoreIs DEF States
  <2>4. q.end = "no" => q.pos = p.pos
    BY <1>2, <2>2, AskMoreIs
  <2>6. Longer(p, q)
    <3>1. \/ q = Ended(p, "eof")
          \/ \E line \in Continuations :
                q = [p EXCEPT !.buf = @ \o line, !.asked = @ + 1]
      BY <2>1 DEF AskMore
    <3>2. CASE q = Ended(p, "eof")
      BY <1>2, <3>2, EndedStill DEF Longer
    <3>3. ASSUME NEW b, q = [p EXCEPT !.buf = b, !.asked = @ + 1]
          PROVE  Longer(p, q)
      BY <1>2, <3>3 DEF Longer, Locals
    <3> QED BY <3>1, <3>2, <3>3
  <2>7. Onward(q)
    BY <1>3, <2>6 DEF Onward, Longer, Still
  <2> QED BY <2>1, <2>3, <2>7, BecomesOnward
<1> QED BY <1>4, <1>5, <1>6

LEMMA TargetOnward ==
    ASSUME ParserInv, NEW q \in Locals, q.buf = p.buf, q.asked = p.asked,
           NEW i \in Nat, i >= p.pos, p.pos \in Nat
    PROVE  Target(q, i) \in Locals /\ Onward(Target(q, i))
<1> DEFINE n == i + 2
<1>1. n \in Nat /\ n >= p.pos
  OBVIOUS
<1> HIDE DEF n
<1>2. ASSUME NEW k \in {i, n}, NEW how \in {"fd", "file"}
      PROVE  /\ [q EXCEPT !.pos = k, !.redirecting = how] \in Locals
             /\ Onward([q EXCEPT !.pos = k, !.redirecting = how])
  BY <1>1 DEF Onward, Locals
<1>3. Fail(q) \in Locals /\ Fail(q).end # "no"
  BY DEF Fail, Ended, Locals, Ends
<1>4. \/ Target(q, i) = Fail(q)
      \/ \E k \in {i, n}, how \in {"fd", "file"} :
            Target(q, i) = [q EXCEPT !.pos = k, !.redirecting = how]
  BY DEF Target, n
<1> QED BY <1>2, <1>3, <1>4, StoppedOnward

LEMMA GreaterAdvances == ASSUME ParserInv, Greater PROVE ParserAdvances
<1> DEFINE c == ">"
           d == At(p, p.pos + 1)
           type == CASE d = "&" -> "FD2FD" [] d = c -> "OUT_APPN"
                     [] OTHER -> "OUT_REDIR"
           i == IF d = c THEN p.pos + 1 ELSE p.pos
           q == IF p.pos = p.first THEN p ELSE UndoBlank(p, 1)
           red == [type |-> type, lhs |-> Lhs(p)]
           cs == [q.cmds EXCEPT ![1].redir = red]
           r == [q EXCEPT !.cmds = cs]
<1>1. Reading(c) /\ c # "NUL"
  BY DEF Greater
<1>2. r = [q EXCEPT !.cmds[1].redir = red]
  OBVIOUS
<1>3. Becomes(Ended(p, "aborted")) \/ Becomes(Fail(p)) \/ Becomes(Target(r, i))
  BY <1>2 DEF Greater
<1>9. Lhs(p) \in Seq(Character)
  BY <1>1, LhsIs
<1> HIDE DEF c
<1>4. p \in Parsers /\ p \in Locals /\ p.end = "no" /\ p.pos \in Nat
  BY <1>1, ReadingIs
<1>5. i \in Nat /\ i >= p.pos
  BY <1>4
<1>6. CASE Becomes(Ended(p, "aborted"))
  BY <1>4, <1>6, EndsBecome DEF Locals
<1>7. CASE Becomes(Fail(p))
  <2>1. Fail(p) \in Locals /\ Still(p, Fail(p))
    BY <1>4, FailIs, FailStill DEF Parsers, States
  <2> QED BY <1>7, <2>1, AlikeOnward
<1>8. CASE Becomes(Target(r, i))
  <2>1. q \in Locals /\ Still(p, q)
    BY <1>4, UndoBlankIs, UndoBlankStill DEF Still, Parsers, States
  <2>9. q \in States
    BY <1>4, UndoBlankIs DEF Parsers
  <2>2. q.cmds \in CommandList /\ 1 \in 1..Len(q.cmds)
    BY <2>1, <2>9, ArgvIs DEF Locals
  <2>3. red \in Redirection
    <3>2. type \in {"NONE", "FD2FD", "OUT_APPN", "OUT_REDIR"}
      OBVIOUS
    <3> QED BY <1>9, <3>2 DEF Redirection
  <2> DEFINE b == q.cmds
             e == [b[1] EXCEPT !.redir = red]
  <2> HIDE DEF q, red, i, type
  <2>4. cs = [b EXCEPT ![1] = e]
    OBVIOUS
  <2>10. b[1] \in Command
    BY <2>2 DEF CommandList
  <2>5. e \in Command
    BY <2>3, <2>10 DEF Command
  <2> HIDE DEF e, b
  <2>6. cs \in CommandList
    BY <2>2, <2>4, <2>5, LastCommandIs DEF b
  <2> HIDE DEF cs
  <2>7. r \in Locals /\ r.buf = p.buf /\ r.asked = p.asked
    BY <2>1, <2>6 DEF Still, Locals
  <2> HIDE DEF r
  <2>8. Target(r, i) \in Locals /\ Onward(Target(r, i))
    BY <1>4, <1>5, <2>7, TargetOnward
  <2> QED BY <1>8, <2>8, BecomesOnward
<1> QED BY <1>3, <1>6, <1>7, <1>8

LEMMA ReadCharAdvances == ASSUME ParserInv, ReadChar PROVE ParserAdvances
BY OrdinaryAdvances, QuotedAdvances, SingleQuoteAdvances, DoubleQuoteAdvances,
   BackslashAdvances, DollarAdvances, TildeAdvances, BlankEndsAdvances,
   AmpersandAdvances, BarAdvances, SemicolonAdvances, HashAdvances, NulAdvances,
   GreaterAdvances DEF ReadChar

(* No character of the prompt is looked at again: as long as the expansion *)
(* goes on, the position is behind the one that was looked at, in a text   *)
(* of the same length.                                                     *)
ExpanderAdvances ==
    x'.end = "no" => x'.cur > x.cur /\ Len(x'.text) = Len(x.text)

LEMMA GoesOnward ==
    ASSUME ExpanderInv, NEW y, Within(y), Len(y.text) = Len(x.text),
           y.cur >= x.cur, Goes(y)
    PROVE  ExpanderAdvances
<1>1. CASE y.end # "no"
  BY <1>1 DEF Goes, ExpanderAdvances
<1>2. CASE x' = [y EXCEPT !.end = "astray"]
  <2>1. x'.end = "astray"
    BY <1>2 DEF Within, Shaped
  <2> QED BY <2>1 DEF ExpanderAdvances
<1>3. CASE x' = Finished(y)
  <2> DEFINE z == AddPart(y, Min(From(y, y.start)) - y.start)
             how == IF z.builder = <<>> THEN "astray" ELSE "done"
             r == [z EXCEPT !.out = Yield(z), !.end = how]
  <2>1. Within(z)
    BY AddPartIs
  <2>2. Finished(y) = r
    BY DEF Finished
  <2>3. how # "no"
    OBVIOUS
  <2> HIDE DEF z, how
  <2>4. r.end = how
    BY <2>1 DEF Within, Shaped
  <2> HIDE DEF r
  <2> QED BY <1>3, <2>2, <2>3, <2>4 DEF ExpanderAdvances
<1>4. CASE x' = [y EXCEPT !.cur = @ + 1] /\ y.cur # Len(y.text)
  <2> DEFINE n == y.cur + 1
             r == [y EXCEPT !.cur = n]
  <2>1. x.cur \in Nat /\ y.cur \in Nat
    BY DEF ExpanderInv, Within
  <2>2. n > x.cur
    BY <2>1
  <2>3. x' = r
    BY <1>4
  <2> HIDE DEF n
  <2>4. r.cur = n /\ r.text = y.text
    BY DEF Within, Shaped
  <2> HIDE DEF r
  <2> QED BY <2>2, <2>3, <2>4 DEF ExpanderAdvances
<1> QED BY <1>1, <1>2, <1>3, <1>4 DEF Goes

(* A new part begins behind a position that is not before the current one. *)
LEMMA NewPartOnward ==
    ASSUME ExpanderInv, NEW y, Within(y), Len(y.text) = Len(x.text), NEW n, NEW s,
           NEW i \in 1..Len(x.text), i >= x.cur,
           \/ Goes(Reset(AddPart(y, n), i))
           \/ Goes(Reset(AddOwn(AddPart(y, n), s), i))
    PROVE  ExpanderAdvances
<1> DEFINE z == AddPart(y, n)
           w == AddOwn(z, s)
<1>1. Within(z) /\ z.text = y.text
  BY AddPartIs
<1> HIDE DEF z
<1>2. Within(w) /\ w.text = y.text
  BY <1>1, AddOwnIs
<1> HIDE DEF w
<1>3. ASSUME NEW u \in {z, w}
      PROVE  /\ Within(Reset(u, i)) /\ Reset(u, i).cur = i
             /\ Len(Reset(u, i).text) = Len(x.text)
  <2>1. Within(u) /\ Len(u.text) = Len(x.text)
    BY <1>1, <1>2
  <2>2. Within(Reset(u, i))
    BY <2>1, ResetIs
  <2>3. Reset(u, i).cur = i /\ Reset(u, i).text = u.text
    BY <2>1 DEF Reset, Within, Shaped
  <2> QED BY <2>1, <2>2, <2>3
<1>4. PICK u \in {z, w} : Goes(Reset(u, i))
  BY DEF z, w
<1> DEFINE r == Reset(u, i)
<1>5. Within(r) /\ r.cur >= x.cur /\ Len(r.text) = Len(x.text) /\ Goes(r)
  BY <1>3, <1>4
<1> HIDE DEF r
<1> QED BY <1>5, GoesOnward

LEMMA CurrentIs ==
    ASSUME ExpanderInv
    PROVE  /\ Within(x) /\ x.cur \in 1..Len(x.text) /\ x.cur >= x.cur
           /\ x.cur \in Nat /\ Len(x.text) \in Nat
BY DEF ExpanderInv, Within

LEMMA KeepAdvances == ASSUME ExpanderInv, Keep PROVE ExpanderAdvances
<1> DEFINE y == [x EXCEPT !.count = @ + (IF x.backslash THEN 2 ELSE 1),
                          !.backslash = FALSE]
<1>1. Within(y) /\ y.text = x.text /\ y.cur = x.cur
  BY DEF ExpanderInv, Within, Shaped
<1>2. Goes(y)
  BY DEF Keep
<1> HIDE DEF y
<1>3. y.cur >= x.cur /\ Len(y.text) = Len(x.text)
  BY <1>1, CurrentIs
<1> QED BY <1>1, <1>2, <1>3, GoesOnward

LEMMA FirstBackslashAdvances == ASSUME ExpanderInv, FirstBackslash PROVE ExpanderAdvances
<1> DEFINE y == [x EXCEPT !.backslash = TRUE]
<1>1. Within(y) /\ y.text = x.text /\ y.cur = x.cur
  BY DEF ExpanderInv, Within, Shaped
<1>2. Goes(y)
  BY DEF FirstBackslash
<1> HIDE DEF y
<1>3. y.cur >= x.cur /\ Len(y.text) = Len(x.text)
  BY <1>1, CurrentIs
<1> QED BY <1>1, <1>2, <1>3, GoesOnward

LEMMA SecondBackslashAdvances ==
    ASSUME ExpanderInv, SecondBackslash
    PROVE  ExpanderAdvances
<1>1. Goes(Reset(AddPart(x, x.count + 1), x.cur))
  BY DEF SecondBackslash
<1> QED BY <1>1, CurrentIs, NewPartOnward

LEMMA ReplaceAdvances == ASSUME ExpanderInv, Replace PROVE ExpanderAdvances
<1>1. PICK c \in PromptCharacter \cup Put :
          Goes(Reset(AddPart([x EXCEPT !.text[x.cur - 1] = c], x.count + 1), x.cur))
  <2>1. PICK r \in {<<"$", "sign">>, <<"n", "newline">>}
                     \cup (IF HaveReadline THEN {<<"[", "ignore">>} ELSE {}) :
            Goes(Reset(AddPart([x EXCEPT !.text[x.cur - 1] = r[2]], x.count + 1), x.cur))
    BY DEF Replace
  <2>2. r[2] \in {"sign", "newline", "ignore"}
    OBVIOUS
  <2>3. r[2] \in PromptCharacter \cup Put
    BY <2>2 DEF Put
  <2> QED BY <2>1, <2>3
<1> DEFINE y == [x EXCEPT !.text[x.cur - 1] = c]
<1>2. Within(y) /\ Len(y.text) = Len(x.text)
  BY CurrentIs, OverwrittenIs
<1>3. Goes(Reset(AddPart(y, x.count + 1), x.cur))
  BY <1>1
<1> HIDE DEF y
<1> QED BY <1>2, <1>3, CurrentIs, NewPartOnward

LEMMA SubstituteAdvances == ASSUME ExpanderInv, Substitute PROVE ExpanderAdvances
<1>1. PICK s : Goes(Reset(AddOwn(AddPart(x, x.count), s), x.cur))
  BY DEF Substitute
<1> QED BY <1>1, CurrentIs, NewPartOnward

LEMMA DateAdvances == ASSUME ExpanderInv, Date PROVE ExpanderAdvances
<1> DEFINE L == Len(x.text)
           ends == {i \in x.cur + 2..L : x.text[i] = "}"}
           end == IF ends = {} THEN L ELSE Min(ends)
           at == IF ends = {} THEN end - 1 ELSE end
           y == [x EXCEPT !.text[end] = "NUL"]
           hung == [x EXCEPT !.end = "hung"]
<1>1. Within(x) /\ x.cur \in 1..L /\ L \in Nat
  BY DEF ExpanderInv, Within
<1>2. x.cur < L
  <2>1. NextChar = "{"
    BY DEF Date
  <2>2. NextChar # "NUL"
    BY <2>1
  <2> QED BY <2>2 DEF NextChar
<1>3. PICK s : Goes(hung) \/ Goes(Reset(AddOwn(AddPart(y, x.count), s), at))
  BY DEF Date
<1>4. hung.end # "no"
  BY <1>1 DEF Within, Shaped
<1>5. at \in 1..L /\ at >= x.cur
  <2>1. CASE ends = {}
    <3>1. at = L - 1
      BY <2>1
    <3> HIDE DEF L, at
    <3> QED BY <1>1, <1>2, <3>1
  <2>2. CASE ends # {}
    <3>1. ends \subseteq x.cur + 2..L /\ at = Min(ends)
      BY <2>2
    <3> HIDE DEF ends, at, L
    <3>2. ends \subseteq Nat /\ ends \subseteq 1..L
      BY <1>1, <3>1
    <3>3. Min(ends) \in ends
      BY <2>2, <3>2, MinIs
    <3>4. at \in x.cur + 2..L /\ x.cur \in 1..L /\ L \in Nat
      BY <1>1, <3>1, <3>3
    <3> QED BY ONLY <3>4
  <2> QED BY <2>1, <2>2
<1> HIDE DEF at, end, hung
<1>6. "NUL" \in PromptCharacter \cup Put
  BY DEF Put
<1>7. Within(y) /\ Len(y.text) = L
  BY <1>1, <1>6, OverwrittenIs
<1> HIDE DEF y
<1>8. CASE Goes(hung)
  BY <1>4, <1>8 DEF Goes, ExpanderAdvances
<1>9. CASE Goes(Reset(AddOwn(AddPart(y, x.count), s), at))
  BY <1>5, <1>7, <1>9, NewPartOnward
<1> QED BY <1>3, <1>8, <1>9

LEMMA OctalAdvances == ASSUME ExpanderInv, Octal PROVE ExpanderAdvances
<1> DEFINE n == x.level + 1
           c == <<"oct1", "oct11", "oct111">>[n]
           y == [x EXCEPT !.text[x.cur - n] = c]
           more == [x EXCEPT !.level = n, !.backslash = FALSE]
<1>1. Within(x)
  BY DEF ExpanderInv
<1>2. n \in 1..3
  BY <1>1 DEF Within
<1>3. \/ n < 3 /\ Goes(more)
      \/ Goes(Reset(AddPart(y, x.count + 1), x.cur))
  BY DEF Octal
<1>4. c \in PromptCharacter \cup Put
  <2> HIDE DEF n
  <2>1. n = 1 \/ n = 2 \/ n = 3
    BY <1>2
  <2> QED BY <2>1 DEF Put
<1> HIDE DEF n, c
<1>5. n < 3 => Within(more)
  <2>1. n < 3 => n \in 0..2
    BY <1>2
  <2> QED BY <1>1, <2>1 DEF Within, Shaped
<1>6. more.text = x.text /\ more.cur = x.cur
  BY <1>1 DEF Within, Shaped
<1>7. Within(y) /\ Len(y.text) = Len(x.text)
  BY <1>1, <1>4, OverwrittenIs
<1> HIDE DEF y, more
<1>8. CASE n < 3 /\ Goes(more)
  <2>1. more.cur >= x.cur /\ Len(more.text) = Len(x.text)
    BY <1>6, CurrentIs
  <2> QED BY <1>5, <1>8, <2>1, GoesOnward
<1>9. CASE Goes(Reset(AddPart(y, x.count + 1), x.cur))
  BY <1>7, <1>9, CurrentIs, NewPartOnward
<1> QED BY <1>3, <1>8, <1>9

LEMMA ExpandCharAdvances == ASSUME ExpanderInv, ExpandChar PROVE ExpanderAdvances
BY KeepAdvances, FirstBackslashAdvances, SecondBackslashAdvances, ReplaceAdvances,
   SubstituteAdvances, DateAdvances, OctalAdvances DEF ExpandChar

(* Every turn of either loop leads on, whatever the prompt and the line    *)
(* are, or the loop ends: ps_expander() is behind the character it looked  *)
(* at, in a prompt that is as long as before, and filpinfo() behind the    *)
(* one it read, in a line that only an answer of the user makes longer.    *)
(* Neither loop reads a position twice, so that it takes no more turns     *)
(* than it is given characters, and this needs no fairness.                *)
THEOREM TurnsAdvance ==
    Spec => [][(Expand => ExpanderAdvances) /\ (Parse => ParserAdvances)]_vars
<1>1. FrontendInv /\ [Next]_vars
        => (Expand => ExpanderAdvances) /\ (Parse => ParserAdvances)
  BY ExpandCharAdvances, ReadCharAdvances DEF FrontendInv, Expand, Parse
<1> QED BY <1>1, Invariance, PTL DEF Spec
=============================================================================
