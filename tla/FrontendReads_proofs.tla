------------------------- MODULE FrontendReads_proofs -------------------------
(***************************************************************************)
(* Proofs that psh reads lines of any length as what Meanings says of      *)
(* them.                                                                   *)
(***************************************************************************)
EXTENDS Frontend_proofs

Along == INSTANCE LeftFolds WITH Op <- Read

-----------------------------------------------------------------------------
(* Reading a line from one character to the next                           *)

Text == Seq(Character)
GivenCommand == [type : CommandTypes, argv : Seq(Text)]
Quotes == {"no", "'", "\""}

(* What may have been read: between words no quote is open, and nothing is *)
(* escaped in single quotes.                                               *)
Readings ==
    {s \in [done : Seq(GivenCommand), words : Seq(Text), open : BOOLEAN,
            quote : Quotes, escaped : BOOLEAN, op : {"no", "&", "|"}] :
        /\ s.open => Len(s.words) >= 1
        /\ ~s.open => s.quote = "no" /\ ~s.escaped
        /\ s.escaped => s.quote # "'"
        /\ s.op # "no" => ~s.open}

LEMMA NextCommandIs ==
    ASSUME NEW s \in Readings, NEW type \in CommandTypes
    PROVE  LET t == NextCommand(s, type)
           IN  /\ t.done = Append(s.done, [type |-> type, argv |-> s.words])
               /\ t.words = <<>> /\ t.open = FALSE /\ t.op = "no"
               /\ t.quote = s.quote /\ t.escaped = s.escaped
               /\ ~s.open => t \in Readings
<1> DEFINE d == Append(s.done, [type |-> type, argv |-> s.words])
           t == [s EXCEPT !.done = d, !.words = <<>>, !.open = FALSE, !.op = "no"]
<1>1. NextCommand(s, type) = t
  BY DEF NextCommand
<1>2. [type |-> type, argv |-> s.words] \in GivenCommand
  BY DEF Readings, GivenCommand
<1>3. d \in Seq(GivenCommand)
  BY <1>2 DEF Readings
<1>4. <<>> \in Seq(Text)
  OBVIOUS
<1> HIDE DEF d
<1>5. /\ t.done = d /\ t.words = <<>> /\ t.open = FALSE /\ t.op = "no"
      /\ t.quote = s.quote /\ t.escaped = s.escaped
  BY DEF Readings
<1>6. ~s.open => t \in Readings
  BY <1>3, <1>4 DEF Readings
<1> HIDE DEF t
<1> QED BY <1>1, <1>5, <1>6 DEF d

LEMMA SettledIs ==
    ASSUME NEW s \in Readings
    PROVE  /\ Settled(s) \in Readings /\ Settled(s).op = "no"
           /\ Settled(s).open = s.open /\ Settled(s).quote = s.quote
           /\ Settled(s).escaped = s.escaped
           /\ s.op = "no" => Settled(s) = s
<1>1. "BACKGROUND" \in CommandTypes /\ "PIPED" \in CommandTypes
  BY DEF CommandTypes
<1>2. s.op \in {"no", "&", "|"} /\ (s.op # "no" => s.open = FALSE)
  BY DEF Readings
<1>3. CASE s.op = "no"
  BY <1>3 DEF Settled
<1>4. CASE s.op = "&"
  <2> DEFINE t == NextCommand(s, "BACKGROUND")
  <2>1. /\ t.open = FALSE /\ t.op = "no" /\ t.quote = s.quote
        /\ t.escaped = s.escaped /\ t \in Readings
    BY <1>1, <1>2, <1>4, NextCommandIs
  <2> HIDE DEF t
  <2>2. Settled(s) = t
    BY <1>4 DEF Settled, t
  <2> QED BY <1>2, <1>4, <2>1, <2>2
<1>5. CASE s.op = "|"
  <2> DEFINE t == NextCommand(s, "PIPED")
  <2>1. /\ t.open = FALSE /\ t.op = "no" /\ t.quote = s.quote
        /\ t.escaped = s.escaped /\ t \in Readings
    BY <1>1, <1>2, <1>5, NextCommandIs
  <2> HIDE DEF t
  <2>2. Settled(s) = t
    BY <1>5 DEF Settled, t
  <2> QED BY <1>2, <1>5, <2>1, <2>2
<1> QED BY <1>2, <1>3, <1>4, <1>5

LEMMA OpenedIs ==
    ASSUME NEW s \in Readings
    PROVE  LET u == Opened(s)
           IN  /\ u = [s EXCEPT !.open = TRUE, !.words = u.words]
               /\ u.words \in Seq(Text) /\ Len(u.words) >= 1 /\ Len(u.words) \in Nat
               /\ s.open => u.words = s.words
               /\ ~s.open => u.words = Append(s.words, <<>>)
<1> DEFINE w == Append(s.words, <<>>)
           u == [s EXCEPT !.open = TRUE, !.words = w]
<1>1. s.words \in Seq(Text) /\ s.open \in BOOLEAN
  BY DEF Readings
<1>2. <<>> \in Text
  BY DEF Text
<1>3. w \in Seq(Text) /\ Len(w) >= 1 /\ Len(w) \in Nat /\ Len(s.words) \in Nat
  BY <1>1, <1>2
<1>4. CASE s.open
  <2>1. s = [s EXCEPT !.open = TRUE, !.words = s.words]
    BY <1>4 DEF Readings
  <2>2. Len(s.words) >= 1
    BY <1>4 DEF Readings
  <2> QED BY <1>1, <1>3, <1>4, <2>1, <2>2 DEF Opened
<1>5. CASE ~s.open
  <2>1. Opened(s) = u
    BY <1>5 DEF Opened
  <2> HIDE DEF w
  <2>2. u.words = w
    BY DEF Readings
  <2>3. u = [s EXCEPT !.open = TRUE, !.words = u.words]
    BY <2>2
  <2> HIDE DEF u
  <2> QED BY <1>3, <1>5, <2>1, <2>2, <2>3 DEF w
<1> QED BY <1>4, <1>5

(* c is added to the last word.                                            *)
Kept(s, c) ==
    LET u == Opened(s)
    IN  [u EXCEPT !.words[Len(u.words)] = Append(@, c), !.escaped = FALSE]

LEMMA KeptIs ==
    ASSUME NEW s \in Readings, s.op = "no", NEW c \in Character
    PROVE  LET t == Kept(s, c)
               u == Opened(s)
           IN  /\ t \in Readings /\ t.open = TRUE /\ t.op = "no"
               /\ t.done = s.done /\ t.quote = s.quote /\ t.escaped = FALSE
               /\ t.words = [u.words EXCEPT ![Len(u.words)] = Append(u.words[Len(u.words)], c)]
<1> DEFINE u == Opened(s)
           w == u.words
           v == [w EXCEPT ![Len(w)] = Append(w[Len(w)], c)]
           t == [u EXCEPT !.words = v, !.escaped = FALSE]
           r == [s EXCEPT !.open = TRUE, !.words = v, !.escaped = FALSE]
<1>1. /\ u = [s EXCEPT !.open = TRUE, !.words = w]
      /\ w \in Seq(Text) /\ Len(w) >= 1 /\ Len(w) \in Nat
  BY OpenedIs
<1>2. Kept(s, c) = t
  BY DEF Kept
<1> HIDE DEF u
<1>3. t = r
  BY <1>1
<1> HIDE DEF w, t
<1>4. w[Len(w)] \in Text
  BY <1>1
<1>5. Append(w[Len(w)], c) \in Text
  BY <1>4 DEF Text
<1>6. v \in Seq(Text) /\ Len(v) = Len(w)
  BY <1>1, <1>5
<1>7. v = [u.words EXCEPT ![Len(u.words)] = Append(u.words[Len(u.words)], c)]
  BY DEF w
<1> HIDE DEF v
<1>8. /\ r \in Readings /\ r.open = TRUE /\ r.op = "no" /\ r.done = s.done
      /\ r.quote = s.quote /\ r.escaped = FALSE /\ r.words = v
  BY <1>1, <1>6 DEF Readings
<1> HIDE DEF r
<1> QED BY <1>2, <1>3, <1>7, <1>8 DEF u

(* What reading c does, in the order of the cases.                         *)
LEMMA ReadAs ==
    ASSUME NEW r \in Readings, NEW c \in Character
    PROVE  LET s == Settled(r)
               u == Opened(s)
           IN  Read(r, c) =
                 IF r.op = c THEN NextCommand(r, IF c = "&" THEN "RUN_AND" ELSE "RUN_OR")
                 ELSE IF s.escaped THEN Kept(s, c)
                 ELSE IF c = " " /\ s.quote = "no" THEN [s EXCEPT !.open = FALSE]
                 ELSE IF c \in {"&", "|"} /\ s.quote = "no"
                      THEN [s EXCEPT !.open = FALSE, !.op = c]
                 ELSE IF c = ";" /\ s.quote = "no" THEN NextCommand(s, "MULTICMD")
                 ELSE IF c = "\\" /\ s.quote # "'" THEN [u EXCEPT !.escaped = TRUE]
                 ELSE IF c \in {"'", "\""} /\ s.quote = "no" THEN [u EXCEPT !.quote = c]
                 ELSE IF c = s.quote THEN [u EXCEPT !.quote = "no"]
                 ELSE Kept(s, c)
BY DEF Read, Kept

(* The state that is read on from has read the characters before; after a  *)
(* backslash that is none of the text, it is escaped.                      *)
LEMMA ReadIs ==
    ASSUME NEW r \in Readings, NEW c \in Character
    PROVE  /\ Read(r, c) \in Readings
           /\ Read(r, c).escaped =
                 (r.op # c /\ c = "\\" /\ ~Settled(r).escaped /\ Settled(r).quote # "'")
<1> DEFINE s == Settled(r)
           w == Opened(s).words
           t == Read(r, c)
           esc == r.op # c /\ c = "\\" /\ ~s.escaped /\ s.quote # "'"
<1>1. /\ s \in Readings /\ s.op = "no" /\ s.open = r.open /\ s.quote = r.quote
      /\ s.escaped = r.escaped
  BY SettledIs
<1>2. /\ Opened(s) = [s EXCEPT !.open = TRUE, !.words = w]
      /\ w \in Seq(Text) /\ Len(w) >= 1
  BY <1>1, OpenedIs
<1>3. /\ Kept(s, c) \in Readings /\ Kept(s, c).escaped = FALSE
  BY <1>1, KeptIs
<1>4. t = IF r.op = c THEN NextCommand(r, IF c = "&" THEN "RUN_AND" ELSE "RUN_OR")
          ELSE IF s.escaped THEN Kept(s, c)
          ELSE IF c = " " /\ s.quote = "no" THEN [s EXCEPT !.open = FALSE]
          ELSE IF c \in {"&", "|"} /\ s.quote = "no"
               THEN [s EXCEPT !.open = FALSE, !.op = c]
          ELSE IF c = ";" /\ s.quote = "no" THEN NextCommand(s, "MULTICMD")
          ELSE IF c = "\\" /\ s.quote # "'"
               THEN [[s EXCEPT !.open = TRUE, !.words = w] EXCEPT !.escaped = TRUE]
          ELSE IF c \in {"'", "\""} /\ s.quote = "no"
               THEN [[s EXCEPT !.open = TRUE, !.words = w] EXCEPT !.quote = c]
          ELSE IF c = s.quote
               THEN [[s EXCEPT !.open = TRUE, !.words = w] EXCEPT !.quote = "no"]
          ELSE Kept(s, c)
  BY <1>2, ReadAs
<1>5. /\ r.op \in {"no", "&", "|"} /\ c # "no" /\ r.escaped \in BOOLEAN
      /\ (~r.open => r.quote = "no" /\ ~r.escaped) /\ (r.op # "no" => ~r.open)
      /\ r.open \in BOOLEAN
  BY DEF Readings, Character
<1> HIDE DEF s, w, t
<1>6. CASE r.op = c
  <2> DEFINE type == IF c = "&" THEN "RUN_AND" ELSE "RUN_OR"
  <2>1. type \in CommandTypes
    BY DEF CommandTypes
  <2>2. ~r.open
    BY <1>5, <1>6
  <2>3. t = NextCommand(r, type)
    BY <1>4, <1>6
  <2> HIDE DEF type
  <2>4. t \in Readings /\ t.escaped = r.escaped
    BY <2>1, <2>2, <2>3, NextCommandIs
  <2> QED BY <1>5, <1>6, <2>2, <2>4 DEF t, s
<1>7. CASE c = ";" /\ s.quote = "no" /\ r.op # c /\ ~s.escaped
  <2>1. t = NextCommand(s, "MULTICMD") /\ "MULTICMD" \in CommandTypes
    BY <1>4, <1>7 DEF CommandTypes
  <2>2. /\ t.done = Append(s.done, [type |-> "MULTICMD", argv |-> s.words])
        /\ t.words = <<>> /\ t.open = FALSE /\ t.op = "no"
        /\ t.quote = s.quote /\ t.escaped = s.escaped
    BY <1>1, <2>1, NextCommandIs
  <2> DEFINE v == [s EXCEPT !.open = FALSE]
  <2>3. v \in Readings /\ ~v.open /\ v.done = s.done /\ v.words = s.words
    BY <1>1, <1>7 DEF Readings
  <2>4. NextCommand(s, "MULTICMD") = NextCommand(v, "MULTICMD")
    BY <1>1 DEF NextCommand, Readings
  <2> HIDE DEF v
  <2>5. t \in Readings
    BY <2>1, <2>3, <2>4, NextCommandIs
  <2> QED BY <1>1, <1>5, <1>7, <2>2, <2>5 DEF s, t
<1>8. CASE r.op # c /\ ~(c = ";" /\ s.quote = "no" /\ ~s.escaped)
  <2>1. CASE s.escaped
    BY <1>1, <1>3, <1>4, <1>8, <2>1 DEF s, t
  <2>2. CASE ~s.escaped /\ c = " " /\ s.quote = "no"
    <3>1. t = [s EXCEPT !.open = FALSE]
      BY <1>4, <1>8, <2>2
    <3>2. t \in Readings /\ t.escaped = FALSE
      BY <1>1, <2>2, <3>1 DEF Readings
    <3> QED BY <2>2, <3>2 DEF s, t
  <2>3. CASE ~s.escaped /\ c \in {"&", "|"} /\ s.quote = "no"
    <3>1. t = [s EXCEPT !.open = FALSE, !.op = c]
      BY <1>4, <1>8, <2>3
    <3>2. t \in Readings /\ t.escaped = FALSE
      BY <1>1, <2>3, <3>1 DEF Readings
    <3> QED BY <2>3, <3>2 DEF s, t
  <2>4. CASE ~s.escaped /\ c = "\\" /\ s.quote # "'"
    <3>1. t = [[s EXCEPT !.open = TRUE, !.words = w] EXCEPT !.escaped = TRUE]
      BY <1>4, <1>8, <2>4
    <3>2. t \in Readings /\ t.escaped = TRUE
      BY <1>1, <1>2, <2>4, <3>1 DEF Readings
    <3> QED BY <1>8, <2>4, <3>2 DEF s, t
  <2>5. CASE ~s.escaped /\ c \in {"'", "\""} /\ s.quote = "no"
    <3>1. t = [[s EXCEPT !.open = TRUE, !.words = w] EXCEPT !.quote = c]
      BY <1>4, <1>8, <2>5
    <3>2. t \in Readings /\ t.escaped = FALSE
      BY <1>1, <1>2, <2>5, <3>1 DEF Readings, Quotes
    <3> QED BY <2>5, <3>2 DEF s, t
  <2>6. CASE /\ ~s.escaped /\ c = s.quote /\ ~(c \in {"'", "\""} /\ s.quote = "no")
             /\ ~(c = "\\" /\ s.quote # "'")
    <3>1. t = [[s EXCEPT !.open = TRUE, !.words = w] EXCEPT !.quote = "no"]
      BY <1>4, <1>5, <1>8, <2>6
    <3>2. t \in Readings /\ t.escaped = FALSE
      BY <1>1, <1>2, <2>6, <3>1 DEF Readings, Quotes
    <3> QED BY <2>6, <3>2 DEF s, t
  <2>7. CASE /\ ~s.escaped /\ c # s.quote /\ ~(c \in {"'", "\""} /\ s.quote = "no")
             /\ ~(c = "\\" /\ s.quote # "'")
             /\ ~(c = " " /\ s.quote = "no") /\ ~(c \in {"&", "|"} /\ s.quote = "no")
    <3>1. t = Kept(s, c)
      BY <1>4, <1>8, <2>7
    <3> QED BY <1>3, <2>7, <3>1 DEF s, t
  <2> QED BY <2>1, <2>2, <2>3, <2>4, <2>5, <2>6, <2>7
<1> QED BY <1>1, <1>6, <1>7, <1>8

(* The state after n characters of a line.                                 *)
LEMMA ReadToZero == ASSUME NEW line \in Text PROVE ReadTo(line, 0) = Unread
<1> DEFINE e == SubSeq(line, 1, 0)
           z == 0
<1>1. DOMAIN e = 1..z /\ z \in Nat
  BY DEF Text
<1>2. ReadTo(line, 0) = Along!Fold(Unread, e)
  BY DEF ReadTo, Along!Fold, FoldLeft, Along!FoldLeft, MapThenFoldSet,
     Along!MapThenFoldSet, Max, Along!Max
<1> HIDE DEF e
<1>3. z = 0
  OBVIOUS
<1> HIDE DEF z
<1>4. PICK g : Along!Steps(g, z, Unread, e)
  BY <1>1, Along!FoldPrefixes
<1> QED BY <1>2, <1>3, <1>4 DEF Along!Steps

LEMMA ReadToNext ==
    ASSUME NEW line \in Text, NEW i \in 1..Len(line)
    PROVE  ReadTo(line, i) = Read(ReadTo(line, i - 1), line[i])
<1> DEFINE n == i - 1
           s == SubSeq(line, 1, n)
           t == SubSeq(line, 1, i)
<1>1. n \in Nat /\ i = n + 1 /\ i \in Nat /\ Len(line) \in Nat /\ i <= Len(line)
  BY DEF Text
<1>2. ReadTo(line, n) = Along!Fold(Unread, s) /\ ReadTo(line, i) = Along!Fold(Unread, t)
  BY DEF ReadTo, Along!Fold, FoldLeft, Along!FoldLeft, MapThenFoldSet,
     Along!MapThenFoldSet, Max, Along!Max
<1> HIDE DEF n
<1>3. DOMAIN s = 1..n /\ \A j \in 1..n : s[j] = line[j]
  BY <1>1 DEF Text
<1>4. DOMAIN t = 1..i /\ \A j \in 1..i : t[j] = line[j]
  BY <1>1 DEF Text
<1> HIDE DEF s, t
<1>5. /\ DOMAIN t = 1..(n + 1) /\ t[n + 1] = line[i]
      /\ \A j \in 1..n : t[j] = s[j]
  BY <1>1, <1>3, <1>4
<1>6. Along!Fold(Unread, t) = Read(Along!Fold(Unread, s), t[n + 1])
  BY <1>1, <1>3, <1>5, Along!FoldExtends
<1>7. ReadTo(line, i) = Read(ReadTo(line, n), line[i])
  BY <1>2, <1>5, <1>6
<1> QED BY <1>7 DEF n

LEMMA ReadToIs ==
    ASSUME NEW line \in Text, NEW i \in 0..Len(line)
    PROVE  ReadTo(line, i) \in Readings
<1> DEFINE s == SubSeq(line, 1, i)
<1>1. i \in Nat /\ DOMAIN s = 1..i /\ \A j \in 1..i : s[j] \in Character
  BY DEF Text
<1>2. ReadTo(line, i) = Along!Fold(Unread, s)
  BY DEF ReadTo, Along!Fold, FoldLeft, Along!FoldLeft, MapThenFoldSet,
     Along!MapThenFoldSet, Max, Along!Max
<1> HIDE DEF s
<1>3. Unread \in Readings
  BY DEF Unread, Readings, Quotes
<1>4. \A r \in Readings : \A j \in 1..i : Read(r, s[j]) \in Readings
  BY <1>1, ReadIs
<1> QED BY <1>1, <1>2, <1>3, <1>4, Along!FoldStaysIn

LEMMA TextIs == ASSUME NEW line \in Text PROVE Len(line) \in Nat
BY DEF Text

(* In a line that is readable, only a backslash escapes, and always.       *)
LEMMA EscapedIs ==
    ASSUME NEW line \in Text, Readable(line, MaxArgs), NEW i \in 0..Len(line)
    PROVE  ReadTo(line, i).escaped <=> i >= 1 /\ line[i] = "\\"
<1>1. CASE i = 0
  <2>1. Unread.escaped = FALSE
    BY DEF Unread
  <2> QED BY <1>1, <2>1, ReadToZero
<1>2. CASE i # 0
  <2> DEFINE r == ReadTo(line, i - 1)
             s == Settled(r)
             c == line[i]
  <2>1. i \in 1..Len(line) /\ i - 1 \in 0..Len(line) /\ i >= 1
    BY <1>2
  <2>2. c \in Character
    BY <2>1 DEF Text
  <2>3. Plain(line, i)
    BY <2>1 DEF Readable
  <2>4. c = "\\" => s.quote # "'" /\ ~s.escaped
    BY <2>3 DEF Plain
  <2>5. r \in Readings
    BY <2>1, ReadToIs
  <2>6. ReadTo(line, i) = Read(r, c)
    BY <2>1, ReadToNext
  <2> HIDE DEF r, c
  <2>7. Read(r, c).escaped = (r.op # c /\ c = "\\" /\ ~s.escaped /\ s.quote # "'")
    BY <2>2, <2>5, ReadIs
  <2>8. r.op # "\\"
    BY <2>5 DEF Readings
  <2> HIDE DEF s
  <2>9. ReadTo(line, i).escaped <=> c = "\\"
    BY <2>4, <2>6, <2>7, <2>8
  <2> QED BY <2>1, <2>9 DEF c
<1> QED BY <1>1, <1>2

AllBlank(line, i, j) == \A k \in i..j : line[k] = " "

(* Blanks that are not quoted end a word, and nothing else.                *)
LEMMA Blanks ==
    ASSUME NEW line \in Text, NEW n \in 0..Len(line), NEW m \in (n + 1)..Len(line),
           Settled(ReadTo(line, n)).quote = "no", ~Settled(ReadTo(line, n)).escaped,
           AllBlank(line, n + 1, m)
    PROVE  ReadTo(line, m) = [Settled(ReadTo(line, n)) EXCEPT !.open = FALSE]
<1> DEFINE s == Settled(ReadTo(line, n))
           t == [s EXCEPT !.open = FALSE]
           k == m - (n + 1)
           S == {j \in 0..k : ReadTo(line, n + 1 + j) = t}
<1>0. Len(line) \in Nat
  BY TextIs
<1>1. k \in Nat /\ n \in Nat /\ m = n + 1 + k /\ m <= Len(line) /\ m \in Nat
  BY <1>0
<1> HIDE DEF k
<1>2. ASSUME NEW r \in Readings, Settled(r).quote = "no", ~Settled(r).escaped
      PROVE  Read(r, " ") = [Settled(r) EXCEPT !.open = FALSE]
  <2> DEFINE c == " "
  <2>1. c = " " /\ c \in Character /\ r.op # c
    BY DEF Character, Readings
  <2> HIDE DEF c
  <2> QED BY <1>2, <2>1, ReadAs
<1>3. 0 \in S
  <2>0. n + 1 \in 1..Len(line) /\ n + 1 \in (n + 1)..m
    BY <1>0, <1>1
  <2>1. (n + 1) - 1 = n /\ n + 1 + 0 = n + 1
    BY <1>1
  <2>6. line[n + 1] = " "
    BY <2>0 DEF AllBlank
  <2>2. ReadTo(line, n + 1) = Read(ReadTo(line, n), " ")
    BY <2>0, <2>1, <2>6, ReadToNext
  <2>3. ReadTo(line, n) \in Readings
    BY ReadToIs
  <2>4. ReadTo(line, n + 1) = t
    BY <1>2, <2>2, <2>3
  <2>5. 0 \in 0..k
    BY <1>1
  <2> HIDE DEF t
  <2> QED BY <2>1, <2>4, <2>5
<1>4. s \in Readings /\ s.op = "no" /\ s.quote = "no" /\ s.escaped = FALSE
  <2>1. ReadTo(line, n) \in Readings
    BY ReadToIs
  <2>2. s \in Readings /\ s.op = "no"
    BY <2>1, SettledIs
  <2>3. s.escaped \in BOOLEAN
    BY <2>2 DEF Readings
  <2> QED BY <2>2, <2>3
<1>5. /\ t \in Readings /\ t.op = "no" /\ t.quote = "no" /\ ~t.escaped
      /\ [t EXCEPT !.open = FALSE] = t
  <2> HIDE DEF s
  <2> QED BY <1>4 DEF Readings
<1> HIDE DEF t
<1>6. Settled(t) = t
  BY <1>5, SettledIs
<1>7. ASSUME NEW j \in 0..k, j < k, j \in S PROVE j + 1 \in S
  <2> DEFINE i == n + 1 + (j + 1)
  <2>1. i \in 1..Len(line) /\ i - 1 = n + 1 + j /\ i \in (n + 1)..m /\ j + 1 \in 0..k
    BY <1>0, <1>1, <1>7
  <2> HIDE DEF i
  <2>2. line[i] = " "
    BY <2>1 DEF AllBlank
  <2>3. ReadTo(line, i) = Read(ReadTo(line, i - 1), " ")
    BY <2>1, <2>2, ReadToNext
  <2>4. ReadTo(line, i - 1) = t
    BY <1>7, <2>1
  <2>5. ReadTo(line, i) = t
    BY <1>2, <1>5, <1>6, <2>3, <2>4
  <2> QED BY <2>1, <2>5 DEF i
<1> HIDE DEF S
<1>8. 0..k \subseteq S
  BY <1>1, <1>3, <1>7, Along!BoundedInduction
<1>9. k \in S
  BY <1>1, <1>8
<1> QED BY <1>1, <1>9 DEF S, t

-----------------------------------------------------------------------------
(* What the parser sees ahead                                              *)

LEMMA TextAhead ==
    ASSUME NEW q \in States, NEW i \in Nat, i >= 1, TextFrom(q.buf, i)
    PROVE  /\ ~Past(q, i) /\ ~AtEol(q, i)
           /\ NonBlank(q, i) \in i..Len(q.buf) /\ q.buf[NonBlank(q, i)] # " "
           /\ AllBlank(q.buf, i, NonBlank(q, i) - 1)
<1> DEFINE n == Len(q.buf) + 1
           m == NonBlank(q, i)
           S == {j \in i..n : At(q, j) # " "}
<1>1. Len(q.buf) \in Nat /\ n \in Nat /\ n = Len(q.buf) + 1
  BY AtIs
<1>2. PICK k \in i..Len(q.buf) : q.buf[k] # " "
  BY DEF TextFrom
<1>3. k \in Nat /\ k >= 1 /\ k >= i /\ k <= Len(q.buf)
  BY <1>1
<1>4. At(q, k) # " "
  BY <1>2, <1>3 DEF At
<1> HIDE DEF n
<1>5. k \in i..n
  BY <1>1, <1>3
<1>6. \A j \in i..n : j \in S <=> At(q, j) # " "
  OBVIOUS
<1>7. m = Min(S)
  BY DEF NonBlank, n
<1>15. S \subseteq i..n
  OBVIOUS
<1> HIDE DEF S, m
<1>8. S \subseteq Nat /\ k \in S
  <2>1. i..n \subseteq Nat
    BY <1>1
  <2>2. k \in S
    BY <1>4, <1>5, <1>6
  <2> QED BY <1>15, <2>1, <2>2
<1>9. m \in S /\ \A j \in S : m <= j
  BY <1>7, <1>8, MinIs
<1>10. At(q, m) # " "
  BY <1>6, <1>9, <1>15
<1>17. m \in i..n /\ m <= k
  BY <1>8, <1>9, <1>15
<1>18. i \in Nat
  OBVIOUS
<1>11. m \in i..Len(q.buf) /\ m \in Nat
  BY <1>1, <1>3, <1>17, <1>18
<1>12. q.buf[m] # " " /\ At(q, m) # "NUL"
  <2>1. At(q, m) = q.buf[m] /\ At(q, m) # "NUL"
    BY <1>11, AtIs
  <2> QED BY <1>10, <2>1
<1>13. ASSUME NEW j \in i..(m - 1) PROVE q.buf[j] = " "
  <2>1. j \in i..n /\ j < m /\ j \in Nat /\ j <= Len(q.buf)
    BY <1>1, <1>11
  <2>2. j \notin S
    BY <1>8, <1>9, <2>1
  <2>3. At(q, j) = " "
    BY <1>6, <2>1, <2>2
  <2> QED BY <2>1, <2>3 DEF At
<1>16. AllBlank(q.buf, i, m - 1)
  BY <1>13 DEF AllBlank
<1>14. ~Past(q, i)
  BY <1>1, <1>3 DEF Past
<1> QED BY <1>11, <1>12, <1>14, <1>16 DEF AtEol, m

LEMMA NoTextAhead ==
    ASSUME NEW q \in States, NEW i \in Nat, i >= 1, i <= Len(q.buf) + 1,
           ~TextFrom(q.buf, i)
    PROVE  ~Past(q, i) /\ AtEol(q, i) /\ AllBlank(q.buf, i, Len(q.buf))
<1>1. Len(q.buf) \in Nat /\ ~Past(q, i)
  BY AtIs DEF Past
<1>2. /\ NonBlank(q, i) \in Nat /\ NonBlank(q, i) >= i
      /\ NonBlank(q, i) <= Len(q.buf) + 1 /\ At(q, NonBlank(q, i)) # " "
  BY <1>1, NonBlankIs
<1>3. AllBlank(q.buf, i, Len(q.buf))
  BY DEF TextFrom, AllBlank
<1> DEFINE m == NonBlank(q, i)
<1> HIDE DEF m
<1>4. ~(m <= Len(q.buf))
  <2>1. SUFFICES ASSUME m <= Len(q.buf) PROVE FALSE
    OBVIOUS
  <2>5. m \in Nat /\ m >= i
    BY <1>2 DEF m
  <2>2. m \in i..Len(q.buf) /\ m >= 1 /\ m \in Nat
    BY <1>1, <2>1, <2>5
  <2>3. At(q, m) = q.buf[m]
    BY <2>1, <2>2, AtIs
  <2>4. q.buf[m] = " "
    BY <1>3, <2>2 DEF AllBlank
  <2> QED BY <1>2, <2>3, <2>4 DEF m
<1>5. AtEol(q, i)
  BY <1>4 DEF AtEol, At, m
<1> QED BY <1>1, <1>3, <1>5

(* Blanks are skipped, up to where there is text.                          *)
LEMMA SkippedTo ==
    ASSUME NEW q \in States, NEW i \in Nat, i >= 1, TextFrom(q.buf, i)
    PROVE  Skipped(q, i) = [q EXCEPT !.pos = NonBlank(q, i) - 1]
BY TextAhead DEF Skipped

-----------------------------------------------------------------------------
(* The parser and the reading agree                                        *)

(* What do_run finds in argv: these arguments and a null pointer.          *)
HasArguments(argv, words) == Terminated(argv) /\ UpToNull(argv) = words

(* Arguments that none of is a null pointer, with or without one behind.   *)
LEMMA UpToNullIs ==
    ASSUME NEW a \in Seq(Text), Len(a) < MaxArgs
    PROVE  HasArguments(a, a) /\ HasArguments(Append(a, NoCell), a)
<1>1. ASSUME NEW b, NEW m \in Nat, DOMAIN b = 1..m, NEW n \in 0..m, n < MaxArgs,
             \A j \in 1..n : b[j] # NoCell, n < m => b[n + 1] = NoCell
      PROVE  Terminated(b) /\ UpToNull(b) = SubSeq(b, 1, n)
  <2> DEFINE S == Nulls(b)
             k == Min(S)
  <2>1. n + 1 \in S
    <3>1. n + 1 \in 1..MaxArgs
      BY <1>1, LinesAssumption
    <3>2. n + 1 \in DOMAIN b => b[n + 1] = NoCell
      BY <1>1
    <3> QED BY <3>1, <3>2 DEF Nulls
  <2>2. S \subseteq 1..MaxArgs
    BY DEF Nulls
  <2>3. \A j \in 1..n : j \notin S
    BY <1>1 DEF Nulls
  <2>4. UpToNull(b) = SubSeq(b, 1, k - 1)
    BY DEF UpToNull
  <2>5. Terminated(b)
    BY <2>1 DEF Terminated
  <2> HIDE DEF S
  <2>6. S \subseteq Nat /\ S # {}
    BY <2>1, <2>2
  <2>7. k \in S /\ \A j \in S : k <= j
    BY <2>6, MinIs
  <2> HIDE DEF k
  <2>8. k \in 1..MaxArgs /\ k <= n + 1 /\ ~(k \in 1..n)
    BY <2>1, <2>2, <2>3, <2>7
  <2>9. k - 1 = n
    BY <2>8
  <2> QED BY <2>4, <2>5, <2>9
<1> DEFINE m == Len(a)
           b == Append(a, NoCell)
<1>2. m \in Nat /\ DOMAIN a = 1..m /\ \A j \in 1..m : a[j] \in Text
  OBVIOUS
<1>3. \A j \in 1..m : a[j] # NoCell
  BY <1>2, LinesAssumption DEF Text
<1>4. /\ DOMAIN b = 1..(m + 1) /\ b[m + 1] = NoCell
      /\ \A j \in 1..m : b[j] = a[j]
  OBVIOUS
<1>5. SubSeq(a, 1, m) = a /\ SubSeq(b, 1, m) = a
  OBVIOUS
<1>6. m + 1 \in Nat /\ m < m + 1 /\ m \in 0..m /\ m \in 0..(m + 1) /\ m < MaxArgs
  BY <1>2
<1> HIDE DEF m, b
<1>7. Terminated(a) /\ UpToNull(a) = SubSeq(a, 1, m)
  BY <1>1, <1>2, <1>3, <1>6
<1>8. \A j \in 1..m : b[j] # NoCell
  BY <1>3, <1>4
<1>9. Terminated(b) /\ UpToNull(b) = SubSeq(b, 1, m)
  BY <1>1, <1>4, <1>6, <1>8
<1> QED BY <1>5, <1>7, <1>9 DEF b, HasArguments

(* The words of a command that is read leave room for a null pointer.      *)
LEMMA WordsFit ==
    ASSUME NEW line \in Text, Readable(line, MaxArgs), NEW i \in 0..Len(line)
    PROVE  Len(Settled(ReadTo(line, i)).words) < MaxArgs
<1> DEFINE r == ReadTo(line, i)
<1>1. r \in Readings
  BY ReadToIs
<1>2. MaxArgs \in Nat /\ 0 < MaxArgs /\ Len(<<>>) = 0
  BY LinesAssumption
<1>3. Len(r.words) < MaxArgs
  <2>1. CASE i = 0
    <3>1. r = Unread
      BY <2>1, ReadToZero
    <3>2. r.words = <<>>
      BY <3>1 DEF Unread
    <3> QED BY <1>2, <3>2
  <2>2. CASE i # 0
    <3>1. i \in 1..Len(line)
      BY <2>2, TextIs
    <3> QED BY <3>1 DEF Readable, Fits
  <2> QED BY <2>1, <2>2
<1> HIDE DEF r
<1>4. Settled(r).words = r.words \/ Settled(r).words = <<>>
  <2>1. "BACKGROUND" \in CommandTypes /\ "PIPED" \in CommandTypes
    BY DEF CommandTypes
  <2> QED BY <1>1, <2>1, NextCommandIs DEF Settled
<1> QED BY <1>2, <1>3, <1>4 DEF r

(* The commands before the last are done.                                  *)
HoldsDone(cs, done) ==
    /\ Len(cs) = Len(done) + 1
    /\ \A k \in 1..Len(done) :
          cs[k].type = done[k].type /\ HasArguments(cs[k].argv, done[k].argv)

(* The last has the words w, and the last of them is written to.           *)
HasWords(q, w) == Argv(q) = w /\ q.element = Len(w) /\ q.chars = Len(w[Len(w)])

Agrees(q, line, s) ==
    /\ q.buf = line /\ q.redirecting = "no" /\ q.ret # "error" /\ q.asked = 0
    /\ q.squote = (s.quote = "'") /\ q.dquote = (s.quote = "\"")
    /\ HoldsDone(q.cmds, s.done) /\ q.cmds[Len(q.cmds)].type = "SINGLE"
    /\ HasWords(q, Opened(s).words)

(* Where the parser stops: not on the second half of an operator, and not  *)
(* on a blank between words.                                               *)
Stands(q, line) ==
    LET r == ReadTo(line, q.pos - 1)
        s == Settled(r)
    IN  /\ q.pos \in 1..Len(line) + 1
        /\ ~s.open => q.pos <= Len(line) /\ line[q.pos] # " " /\ line[q.pos] # r.op
        /\ q.first = q.pos <=> s.words = <<>> /\ s.done = <<>>

(* do_run is given these commands, and a null pointer behind the arguments *)
(* of each.                                                                *)
Gives(q, commands) ==
    (\A i \in DOMAIN q.cmds : Terminated(q.cmds[i].argv)) /\ Given(q) = commands

(* What holds of the parser in a line that is readable.                    *)
Reads(q, line) ==
    IF q.end = "no" THEN Agrees(q, line, Settled(ReadTo(line, q.pos - 1))) /\ Stands(q, line)
    ELSE q.end = "done" /\ q.ret # "error" /\ q.asked = 0 /\ Gives(q, Commands(line))

(* The character that is read next, and how.                               *)
LEMMA NextIs ==
    ASSUME NEW line \in Text, Readable(line, MaxArgs), NEW q \in Parsers,
           q.end = "no", Reads(q, line)
    PROVE  LET r == ReadTo(line, q.pos - 1)
               s == Settled(r)
               c == line[q.pos]
           IN  /\ q \in States /\ q.buf = line /\ Len(line) \in Nat
               /\ q.pos \in Nat /\ q.pos >= 1 /\ q.pos <= Len(line) + 1
               /\ q.pos - 1 \in 0..Len(line)
               /\ r \in Readings /\ s \in Readings /\ s.op = "no" /\ s.open = r.open
               /\ s.quote = r.quote /\ s.escaped = r.escaped
               /\ Escaped(q) <=> s.escaped
               /\ Ignored(q) <=> s.quote # "no" \/ s.escaped
               /\ q.pos > Len(line) => At(q, q.pos) = "NUL" /\ r.op = "no" /\ s.open = TRUE
               /\ q.pos <= Len(line) =>
                     /\ At(q, q.pos) = c /\ c \in Character /\ r.op # c
                     /\ Plain(line, q.pos) /\ Fits(line, q.pos, MaxArgs)
                     /\ ReadTo(line, q.pos) = Read(r, c)
                     /\ ReadTo(line, q.pos) \in Readings
<1> DEFINE r == ReadTo(line, q.pos - 1)
           s == Settled(r)
           c == line[q.pos]
           n == Len(line)
<1>1. q \in States /\ Agrees(q, line, s) /\ Stands(q, line)
  BY DEF Reads, Parsers
<1>2. q.buf = line /\ n \in Nat
  BY <1>1, TextIs DEF Agrees
<1>3. q.pos \in 1..n + 1 /\ (~s.open => q.pos <= n /\ c # " " /\ c # r.op)
  BY <1>1 DEF Stands
<1> DEFINE i == q.pos
<1> HIDE DEF i
<1>12. i \in 1..n + 1
  BY <1>3 DEF i
<1> HIDE DEF n
<1>13. i \in Nat /\ i >= 1 /\ i <= n + 1 /\ i - 1 \in 0..n
  BY <1>2, <1>12
<1>4. /\ q.pos \in Nat /\ q.pos >= 1 /\ q.pos <= n + 1
      /\ q.pos - 1 \in 0..n
  BY <1>13 DEF i
<1>5. r \in Readings
  BY <1>4, ReadToIs DEF n
<1> HIDE DEF r
<1>6. /\ s \in Readings /\ s.op = "no" /\ s.open = r.open /\ s.quote = r.quote
      /\ s.escaped = r.escaped
  BY <1>5, SettledIs
<1> HIDE DEF s
<1>7. Escaped(q) <=> s.escaped
  <2>1. r.escaped <=> i - 1 >= 1 /\ line[i - 1] = "\\"
    BY <1>13, EscapedIs DEF n, r, i
  <2>2. i # 1 => i - 1 \in Nat /\ i - 1 >= 1 /\ i - 1 <= n
    BY <1>2, <1>13
  <2>3. i # 1 => At(q, i - 1) = line[i - 1]
    BY <1>1, <1>2, <2>2, AtIs DEF n
  <2>4. i - 1 >= 1 <=> i # 1
    BY <1>13
  <2> QED BY <1>6, <2>1, <2>3, <2>4 DEF Escaped, i
<1>8. Ignored(q) <=> s.quote # "no" \/ s.escaped
  <2>1. q.squote = (s.quote = "'") /\ q.dquote = (s.quote = "\"")
    BY <1>1 DEF Agrees, s
  <2>2. s.quote \in Quotes
    BY <1>6 DEF Readings
  <2> QED BY <1>7, <2>1, <2>2 DEF Ignored, Quotes
<1>9. ASSUME q.pos > n
      PROVE  At(q, q.pos) = "NUL" /\ r.op = "no" /\ s.open = TRUE
  <2>1. At(q, q.pos) = "NUL"
    BY <1>1, <1>2, <1>4, <1>9, AtIs DEF n
  <2>2. s.open
    <3>1. i > n => ~(i <= n)
      BY <1>2, <1>13
    <3> QED BY <1>3, <1>9, <3>1 DEF i
  <2>3. s.open = TRUE
    BY <1>6, <2>2 DEF Readings
  <2>4. r.op = "no"
    BY <1>5, <1>6, <2>2 DEF Readings
  <2> QED BY <2>1, <2>3, <2>4
<1>10. ASSUME q.pos <= n
       PROVE  /\ At(q, q.pos) = c /\ c \in Character /\ r.op # c
              /\ Plain(line, q.pos) /\ Fits(line, q.pos, MaxArgs)
              /\ ReadTo(line, q.pos) = Read(r, c)
              /\ ReadTo(line, q.pos) \in Readings
  <2>1. At(q, q.pos) = c /\ c \in Character
    BY <1>1, <1>2, <1>4, <1>10, AtIs DEF n
  <2>5. i <= n
    BY <1>10 DEF i
  <2>6. i \in 1..n /\ i \in 0..n
    BY <1>2, <1>13, <2>5
  <2>2. q.pos \in 1..Len(line) /\ q.pos \in 0..Len(line)
    BY <2>6 DEF i, n
  <2>3. Plain(line, q.pos) /\ Fits(line, q.pos, MaxArgs)
    BY <2>2 DEF Readable
  <2>4. ReadTo(line, q.pos) = Read(r, c) /\ ReadTo(line, q.pos) \in Readings
    BY <2>2, ReadToNext, ReadToIs DEF r
  <2>7. r.op # c
    <3>1. CASE s.open
      <4>1. r.op = "no"
        BY <1>5, <1>6, <3>1 DEF Readings
      <4>2. c # "no"
        BY <2>1 DEF Character
      <4> QED BY <4>1, <4>2
    <3> QED BY <1>3, <3>1
  <2> QED BY <2>1, <2>3, <2>4, <2>7
<1> QED BY <1>1, <1>2, <1>4, <1>5, <1>6, <1>7, <1>8, <1>9, <1>10 DEF r, s, n

(* It may stand behind the first m characters.                             *)
MayStand(line, m) ==
    LET t == ReadTo(line, m)
        s == Settled(t)
    IN  /\ ~s.open => m < Len(line) /\ line[m + 1] # " " /\ line[m + 1] # t.op
        /\ s.words # <<>> \/ s.done # <<>>

(* The step to the next turn of the loop.                                  *)
LEMMA MovesOn ==
    ASSUME NEW line \in Text, NEW m \in 1..Len(line), NEW q \in States, Becomes(q),
           q.end = "no", q.pos = m, q.first <= m,
           Agrees(q, line, Settled(ReadTo(line, m))), MayStand(line, m)
    PROVE  Reads(p', line)
<1> DEFINE s == Settled(ReadTo(line, m))
           n == Len(line)
           k == m + 1
           r == [q EXCEPT !.pos = k]
<1>1. n \in Nat /\ q.first \in Nat /\ q.buf = line
  BY TextIs DEF States, Locals, Agrees
<1>2. m \in Nat /\ m >= 1 /\ m <= n /\ m \in 1..n
  BY <1>1
<1>3. k \in 1..n + 1 /\ k - 1 = m /\ k # q.first /\ k <= n + 1 /\ k \in Nat
      /\ (m < n => k <= n)
  BY <1>1, <1>2
<1>4. ~Past(q, k)
  BY <1>1, <1>3 DEF Past
<1>5. p' = r
  BY <1>4 DEF Becomes
<1>6. k = m + 1
  OBVIOUS
<1> HIDE DEF k
<1>7. /\ r.pos = k /\ r.first = q.first /\ r.end = "no" /\ r.buf = q.buf
      /\ r.redirecting = q.redirecting /\ r.ret = q.ret /\ r.asked = q.asked
      /\ r.squote = q.squote /\ r.dquote = q.dquote /\ r.cmds = q.cmds
      /\ r.element = q.element /\ r.chars = q.chars
  BY DEF States, Locals
<1> HIDE DEF r, s, n
<1>8. Agrees(q, line, s)
  BY DEF s
<1>9. Agrees(r, line, s)
  BY <1>7, <1>8 DEF Agrees, HasWords, Argv
<1>10. /\ ~s.open => k <= n /\ line[k] # " " /\ line[k] # ReadTo(line, m).op
       /\ s.words # <<>> \/ s.done # <<>>
  BY <1>3, <1>6 DEF s, MayStand, n
<1>11. Stands(r, line)
  BY <1>3, <1>7, <1>10 DEF Stands, s, n
<1> QED BY <1>3, <1>5, <1>7, <1>9, <1>11 DEF Reads, s

(* Inside a word nothing else is to be shown.                              *)
LEMMA InWord ==
    ASSUME NEW line \in Text, NEW m \in 1..Len(line), NEW q \in States, Becomes(q),
           q.end = "no", q.pos = m, q.first <= m,
           Agrees(q, line, ReadTo(line, m)), ReadTo(line, m) \in Readings,
           ReadTo(line, m).open = TRUE
    PROVE  Reads(p', line)
<1> DEFINE t == ReadTo(line, m)
<1>1. t \in Readings /\ t.open = TRUE
  OBVIOUS
<1> HIDE DEF t
<1>2. t.op = "no" /\ Len(t.words) >= 1
  BY <1>1 DEF Readings
<1>3. Settled(t) = t /\ t.words # <<>>
  BY <1>1, <1>2, SettledIs
<1>4. MayStand(line, m)
  BY <1>1, <1>3 DEF MayStand, t
<1> QED BY <1>1, <1>3, <1>4, MovesOn DEF t

(* write_current: a character of the word.                                 *)
LEMMA WritesOn ==
    ASSUME NEW line \in Text, NEW q \in Parsers, q.end = "no", NEW s \in Readings,
           s.op = "no", Agrees(q, line, s), At(q, q.pos) \in Character
    PROVE  /\ Agrees(Written(q), line, Kept(s, At(q, q.pos)))
           /\ Written(q).end = "no"
<1> DEFINE c == At(q, q.pos)
           w == Opened(s).words
           n == Len(w)
           e == w[n]
           v == Append(e, c)
           b == [w EXCEPT ![n] = v]
           r == Writes(q, v)
           u == Written(q)
           cs == q.cmds
           ds == With(q, b)
           l == Len(cs)
           t == Kept(s, c)
<1>1. q \in States /\ c \in Character
  BY DEF Parsers
<1>2. /\ q.buf = line /\ q.redirecting = "no" /\ q.ret # "error" /\ q.asked = 0
      /\ q.squote = (s.quote = "'") /\ q.dquote = (s.quote = "\"")
      /\ HoldsDone(cs, s.done) /\ cs[l].type = "SINGLE"
      /\ Argv(q) = w /\ q.element = n /\ q.chars = Len(e)
  BY DEF Agrees, HasWords
<1>3. w \in Seq(Text) /\ n >= 1 /\ n \in Nat
  BY OpenedIs
<1> HIDE DEF c, w
<1>4. e \in Text /\ n \in 1..n /\ n \in DOMAIN w
  BY <1>3
<1>5. e # NoCell /\ Len(e) \in Nat
  BY <1>4, LinesAssumption DEF Text
<1>6. HasCell(q)
  BY <1>2, <1>4, <1>5 DEF HasCell
<1>7. Stored(q, c) = r
  <2>4. l \in Nat /\ l >= 1 /\ DOMAIN cs = 1..l /\ Argv(q) = cs[l].argv
    BY <1>1, ArgvIs
  <2>5. l \in 1..l
    BY <2>4
  <2>1. l \in DOMAIN cs /\ cs[l].argv = w
    <3> HIDE DEF l, cs
    <3> QED BY <1>2, <2>4, <2>5
  <2>2. Stored(q, c) = [q EXCEPT !.chars = @ + 1,
                   !.cmds[l].argv[n] = IF Len(@) = q.chars THEN Append(@, c) ELSE @]
    BY <1>2, <1>6 DEF Stored
  <2>3. Stored(q, c) = [q EXCEPT !.chars = q.chars + 1,
                   !.cmds = [cs EXCEPT ![l].argv = [w EXCEPT ![n] = v]]]
    BY <1>1, <1>2, <2>1, <2>2 DEF States, Locals
  <2> QED BY <1>2, <2>3 DEF Writes, With
<1>8. v \in Text
  BY <1>1, <1>4 DEF Text
<1>9. b \in Seq(Text) /\ Len(b) = n /\ b[n] = v
  BY <1>3, <1>4, <1>8
<1>10. Len(v) = Len(e) + 1
  BY <1>4 DEF Text
<1>11. [Argv(q) EXCEPT ![q.element] = v] = b
  BY <1>2
<1> DEFINE k == q.chars + 1
<1>12. r = [q EXCEPT !.chars = k, !.cmds = ds]
  BY <1>11 DEF Writes
<1>13. cs \in CommandList /\ l \in Nat /\ l >= 1
  BY <1>1, ArgvIs DEF States, Locals
<1>14. ds = [cs EXCEPT ![l] = [cs[l] EXCEPT !.argv = b]]
  BY DEF With
<1>15. cs[l] \in Command
  BY <1>13 DEF CommandList
<1>28. Len(cs) = l
  OBVIOUS
<1>16. /\ Len(ds) = l /\ ds[l] = [cs[l] EXCEPT !.argv = b]
       /\ \A j \in 1..l : j # l => ds[j] = cs[j]
  <2> DEFINE f == [cs[l] EXCEPT !.argv = b]
  <2> HIDE DEF f, ds, cs, l
  <2>1. ds = [cs EXCEPT ![l] = f]
    BY <1>14 DEF f
  <2>2. l \in 1..l /\ cs \in Seq(Command)
    BY <1>13 DEF CommandList
  <2>3. Len(ds) = l /\ ds[l] = f /\ \A j \in 1..l : j # l => ds[j] = cs[j]
    BY <1>28, <2>1, <2>2
  <2> QED BY <2>3 DEF f
<1>17. ds[l].argv = b /\ ds[l].type = cs[l].type
  BY <1>15, <1>16 DEF Command
<1>18. k = Len(v)
  BY <1>2, <1>10
<1> HIDE DEF ds, l, r, k, cs
<1>19. u = [r EXCEPT !.ret = "some"] \/ u = r
  BY <1>2, <1>7 DEF Written, c
<1>20. /\ r.buf = q.buf /\ r.redirecting = "no" /\ r.ret # "error" /\ r.asked = 0
       /\ r.squote = q.squote /\ r.dquote = q.dquote /\ r.cmds = ds
       /\ r.element = n /\ r.chars = k /\ r.end = "no"
  BY <1>1, <1>2, <1>12 DEF States, Locals
<1>21. r = [buf |-> r.buf, pos |-> r.pos, first |-> r.first, element |-> r.element,
             chars |-> r.chars, old |-> r.old, squote |-> r.squote, dquote |-> r.dquote,
             redirecting |-> r.redirecting, ret |-> r.ret, cmds |-> r.cmds,
             asked |-> r.asked, end |-> r.end]
  BY <1>1, <1>12 DEF States, Locals
<1> HIDE DEF u
<1>22. /\ u.buf = q.buf /\ u.redirecting = "no" /\ u.ret # "error" /\ u.asked = 0
       /\ u.squote = q.squote /\ u.dquote = q.dquote /\ u.cmds = ds
       /\ u.element = n /\ u.chars = k /\ u.end = "no"
  BY <1>19, <1>20, <1>21
<1>23. /\ t \in Readings /\ t.open = TRUE /\ t.done = s.done /\ t.quote = s.quote
       /\ t.words = b
  BY <1>1, KeptIs DEF w
<1> HIDE DEF t
<1>24. Opened(t).words = b
  BY <1>23 DEF Opened
<1>25. HoldsDone(ds, s.done)
  <2>3. l = Len(s.done) + 1
    BY <1>2, <1>28 DEF HoldsDone
  <2>4. s.done \in Seq(GivenCommand)
    BY DEF Readings
  <2>1. l = Len(s.done) + 1 /\ Len(s.done) \in Nat
    BY <2>3, <2>4
  <2>2. \A j \in 1..Len(s.done) : ds[j] = cs[j]
    BY <1>16, <2>1
  <2> QED BY <1>2, <1>16, <2>1, <2>2 DEF HoldsDone
<1>26. HasWords(u, b)
  <2>1. Argv(u) = b
    BY <1>16, <1>17, <1>22 DEF Argv, Last
  <2> QED BY <1>9, <1>18, <1>22, <2>1 DEF HasWords
<1> QED BY <1>2, <1>16, <1>17, <1>22, <1>23, <1>24, <1>25, <1>26 DEF Agrees, u, t, c

-----------------------------------------------------------------------------
(* The steps inside a word                                                 *)

InLine(line) ==
    /\ line \in Text /\ Readable(line, MaxArgs)
    /\ p \in Parsers /\ p.end = "no" /\ Reads(p, line)

(* What is known when a character is read that is not the NUL.             *)
LEMMA AtCharacter ==
    ASSUME NEW line, InLine(line), NEW c, Reading(c), c # "NUL"
    PROVE  LET r == ReadTo(line, p.pos - 1)
               s == Settled(r)
           IN  /\ p \in States /\ p.pos \in 1..Len(line) /\ p.first <= p.pos
               /\ Agrees(p, line, s) /\ Stands(p, line)
               /\ r \in Readings /\ s \in Readings /\ s.op = "no" /\ r.op # c
               /\ line[p.pos] = c /\ At(p, p.pos) = c /\ c \in Character
               /\ Plain(line, p.pos)
               /\ Escaped(p) <=> s.escaped
               /\ Ignored(p) <=> s.quote # "no" \/ s.escaped
               /\ p.squote = (s.quote = "'") /\ p.dquote = (s.quote = "\"")
               /\ ReadTo(line, p.pos) = Read(r, c) /\ Read(r, c) \in Readings
<1> DEFINE n == Len(line)
<1>1. line \in Text /\ Readable(line, MaxArgs) /\ p \in Parsers /\ p.end = "no" /\ Reads(p, line)
  BY DEF InLine
<1>2. /\ p \in States /\ n \in Nat /\ p.pos \in Nat /\ p.pos >= 1 /\ p.pos <= n + 1
      /\ (p.pos > n => At(p, p.pos) = "NUL")
  BY <1>1, NextIs
<1>3. At(p, p.pos) = c
  BY DEF Reading
<1> HIDE DEF n
<1>4. ~(p.pos > n)
  BY <1>2, <1>3
<1>5. p.pos <= n /\ p.pos \in 1..n
  BY <1>2, <1>4
<1>6. p.first <= p.pos
  BY <1>1 DEF Parsers, Placed
<1>7. Agrees(p, line, Settled(ReadTo(line, p.pos - 1))) /\ Stands(p, line)
  BY <1>1 DEF Reads
<1> DEFINE r == ReadTo(line, p.pos - 1)
           s == Settled(r)
<1>8. /\ r \in Readings /\ s \in Readings /\ s.op = "no"
      /\ Escaped(p) <=> s.escaped
      /\ Ignored(p) <=> s.quote # "no" \/ s.escaped
  BY <1>1, NextIs
<1>9. /\ At(p, p.pos) = line[p.pos] /\ line[p.pos] \in Character /\ r.op # line[p.pos]
      /\ Plain(line, p.pos) /\ ReadTo(line, p.pos) = Read(r, line[p.pos])
      /\ ReadTo(line, p.pos) \in Readings
  BY <1>1, <1>5, NextIs DEF n
<1>10. p.squote = (s.quote = "'") /\ p.dquote = (s.quote = "\"")
  BY <1>7 DEF Agrees
<1> HIDE DEF r, s
<1> QED BY <1>2, <1>3, <1>5, <1>6, <1>7, <1>8, <1>9, <1>10 DEF r, s, n

LEMMA FitsHere ==
    ASSUME NEW line, InLine(line)
    PROVE  Len(Settled(ReadTo(line, p.pos - 1)).words) < MaxArgs
<1>1. /\ line \in Text /\ Readable(line, MaxArgs) /\ p \in Parsers /\ p.end = "no"
      /\ Reads(p, line)
  BY DEF InLine
<1>2. p.pos - 1 \in 0..Len(line)
  BY <1>1, NextIs
<1> QED BY <1>1, <1>2, WordsFit

(* The character belongs to the word, and is written.                      *)
LEMMA WrittenReads ==
    ASSUME NEW line, InLine(line), NEW c, Reading(c), c # "NUL",
           Read(ReadTo(line, p.pos - 1), c) = Kept(Settled(ReadTo(line, p.pos - 1)), c),
           Becomes(Written(p))
    PROVE  Reads(p', line)
<1> DEFINE r == ReadTo(line, p.pos - 1)
           s == Settled(r)
           q == Written(p)
           m == p.pos
<1>1. /\ p.pos \in 1..Len(line) /\ p.first <= p.pos
      /\ Agrees(p, line, s) /\ s \in Readings /\ s.op = "no"
      /\ At(p, p.pos) = c /\ c \in Character
      /\ ReadTo(line, p.pos) = Read(r, c) /\ Read(r, c) \in Readings
  BY AtCharacter
<1>2. line \in Text /\ p \in Parsers /\ p.end = "no"
  BY DEF InLine
<1>3. ReadTo(line, m) = Kept(s, c)
  BY <1>1
<1> HIDE DEF r, s
<1>4. Agrees(q, line, Kept(s, c)) /\ q.end = "no"
  BY <1>1, <1>2, WritesOn
<1>5. p.pos <= Len(p.buf)
  <2>1. p.buf = line
    BY <1>1 DEF Agrees
  <2> QED BY <1>1, <2>1
<1>6. q \in Parsers /\ Same(p, q)
  BY <1>2, <1>5, WrittenIs
<1>7. q \in States /\ q.pos = m /\ q.first <= m
  BY <1>1, <1>6 DEF Parsers, Same
<1>8. Kept(s, c).open = TRUE
  BY <1>1, KeptIs
<1>9. Becomes(q) /\ m \in 1..Len(line)
  BY <1>1
<1>10. ReadTo(line, m) \in Readings
  BY <1>1
<1> HIDE DEF q, m
<1> QED BY <1>2, <1>3, <1>4, <1>7, <1>8, <1>9, <1>10, InWord

(* Of p, only the quotes have changed, to those of t.                      *)
Requoted(q, t) ==
    /\ q \in States /\ q.end = "no" /\ Same(p, q)
    /\ q.redirecting = p.redirecting /\ q.ret = p.ret /\ q.asked = p.asked
    /\ q.cmds = p.cmds /\ q.element = p.element /\ q.chars = p.chars
    /\ q.squote = (t.quote = "'") /\ q.dquote = (t.quote = "\"")

(* The character is none of the word, but goes on with it.                 *)
LEMMA GoesOn ==
    ASSUME NEW line, InLine(line), NEW c, Reading(c), c # "NUL",
           NEW r, r = ReadTo(line, p.pos - 1),
           NEW s, s = Settled(r),
           NEW t, t = Read(r, c),
           t.open = TRUE, t.words = Opened(s).words, t.done = s.done,
           NEW q, Becomes(q), Requoted(q, t)
    PROVE  Reads(p', line)
<1> DEFINE m == p.pos
<1>2. /\ q \in States /\ q.end = "no" /\ Same(p, q)
      /\ q.redirecting = p.redirecting /\ q.ret = p.ret /\ q.asked = p.asked
      /\ q.cmds = p.cmds /\ q.element = p.element /\ q.chars = p.chars
      /\ q.squote = (t.quote = "'") /\ q.dquote = (t.quote = "\"")
  BY DEF Requoted
<1>1. /\ p.pos \in 1..Len(line) /\ p.first <= p.pos
      /\ Agrees(p, line, s) /\ s \in Readings
      /\ ReadTo(line, p.pos) = t /\ t \in Readings
  BY AtCharacter
<1>3. line \in Text
  BY DEF InLine
<1>4. q.buf = p.buf /\ q.pos = m /\ q.first = p.first
  BY <1>2 DEF Same
<1>6. Opened(t) = t
  BY DEF Opened
<1>9. HasWords(q, Opened(t).words)
  <2>1. HasWords(p, Opened(s).words)
    BY <1>1 DEF Agrees
  <2>2. Opened(t).words = Opened(s).words
    BY <1>6
  <2>3. Argv(q) = Argv(p) /\ q.element = p.element /\ q.chars = p.chars
    BY <1>2 DEF Argv
  <2> QED BY <2>1, <2>2, <2>3 DEF HasWords
<1>7. Agrees(q, line, t)
  <2>1. /\ p.buf = line /\ p.redirecting = "no" /\ p.ret # "error" /\ p.asked = 0
        /\ HoldsDone(p.cmds, s.done) /\ p.cmds[Len(p.cmds)].type = "SINGLE"
    BY <1>1 DEF Agrees
  <2>2. /\ q.buf = line /\ q.redirecting = "no" /\ q.ret # "error" /\ q.asked = 0
        /\ HoldsDone(q.cmds, t.done) /\ q.cmds[Len(q.cmds)].type = "SINGLE"
    BY <1>2, <1>4, <2>1
  <2> QED BY <1>2, <1>9, <2>2 DEF Agrees
<1>8. m \in 1..Len(line) /\ q.pos = m /\ q.first <= m /\ ReadTo(line, m) = t
  BY <1>1, <1>4
<1> HIDE DEF m
<1> QED BY <1>1, <1>2, <1>3, <1>7, <1>8, InWord

LEMMA OrdinaryReads ==
    ASSUME NEW line, InLine(line), Ordinary PROVE Reads(p', line)
<1> PICK c \in {"a", "b", "1", "/", "(", "<"} : Reading(c)
  BY DEF Ordinary
<1> DEFINE r == ReadTo(line, p.pos - 1)
           s == Settled(r)
<1>1. c # "NUL" /\ Becomes(Written(p))
  BY DEF Ordinary
<1>2. r \in Readings /\ s \in Readings /\ r.op # c /\ c \in Character
  BY <1>1, AtCharacter
<1> HIDE DEF r
<1>3. s.quote \in Quotes
  BY <1>2 DEF Readings
<1>4. Read(r, c) = Kept(s, c)
  BY <1>2, <1>3, ReadAs DEF Quotes
<1> QED BY <1>1, <1>4, WrittenReads DEF r

LEMMA QuotedReads ==
    ASSUME NEW line, InLine(line), Quoted PROVE Reads(p', line)
<1> PICK c \in {" ", "&", "|", ">", "~"} : Reading(c)
  BY DEF Quoted
<1> DEFINE r == ReadTo(line, p.pos - 1)
           s == Settled(r)
<1>1. c # "NUL" /\ Becomes(Written(p)) /\ Ignored(p)
  BY DEF Quoted
<1>2. /\ r \in Readings /\ s \in Readings /\ r.op # c /\ c \in Character
      /\ s.quote # "no" \/ s.escaped
  BY <1>1, AtCharacter
<1> HIDE DEF r
<1>3. s.quote \in Quotes
  BY <1>2 DEF Readings
<1>4. Read(r, c) = Kept(s, c)
  BY <1>2, <1>3, ReadAs DEF Quotes
<1> QED BY <1>1, <1>4, WrittenReads DEF r

LEMMA TimesAre == Times(p, 0) = p /\ Times(p, 1) = Written(p)
<1>1. ASSUME NEW n \in Nat
      PROVE  Times(p, n) = Writing!Fold(p, [i \in 1..n |-> i])
  BY DEF Times, Writing!Fold, FoldLeft, Writing!FoldLeft, MapThenFoldSet,
     Writing!MapThenFoldSet, Max, Writing!Max
<1>2. ASSUME NEW n \in Nat
      PROVE  \E g : Writing!Steps(g, n, p, [i \in 1..n |-> i])
  BY Writing!FoldPrefixes
<1> DEFINE z == 0
           o == 1
<1>3. z \in Nat /\ o \in Nat
  OBVIOUS
<1>4. Times(p, z) = p
  <2>1. PICK g : Writing!Steps(g, z, p, [i \in 1..z |-> i])
    BY <1>2, <1>3
  <2>2. Writing!Fold(p, [i \in 1..z |-> i]) = g[z] /\ g[0] = p
    BY <2>1 DEF Writing!Steps
  <2> QED BY <1>1, <1>3, <2>2
<1>5. Times(p, o) = Written(p)
  <2>1. PICK g : Writing!Steps(g, o, p, [i \in 1..o |-> i])
    BY <1>2, <1>3
  <2>2. Writing!Fold(p, [i \in 1..o |-> i]) = g[o] /\ g[0] = p
    BY <2>1 DEF Writing!Steps
  <2>3. \A j \in 1..o : g[j] = WrittenAgain(g[j - 1], [i \in 1..o |-> i][j])
    BY <2>1 DEF Writing!Steps
  <2>4. 1 \in 1..o
    OBVIOUS
  <2>5. g[1] = WrittenAgain(g[1 - 1], [i \in 1..o |-> i][1])
    BY <2>3, <2>4
  <2>6. g[1] = Written(g[0])
    BY <2>5 DEF WrittenAgain
  <2> QED BY <1>1, <1>3, <2>2, <2>6
<1> QED BY <1>4, <1>5

LEMMA SingleQuoteReads ==
    ASSUME NEW line, InLine(line), SingleQuote PROVE Reads(p', line)
<1> DEFINE c == "'"
           d == "\""
           r == ReadTo(line, p.pos - 1)
           s == Settled(r)
           u == Opened(s)
<1>1. Reading(c) /\ c # "NUL" /\ c # "\\" /\ c # " " /\ c # ";" /\ c \notin {"&", "|"}
      /\ c # "no" /\ c # d
  BY DEF SingleQuote
<1>2. \/ p.dquote /\ Becomes(Written(p))
      \/ ~p.dquote /\ p.squote /\ Becomes([p EXCEPT !.squote = FALSE])
      \/ /\ ~p.dquote /\ ~p.squote
         /\ IF p.pos # p.first /\ Escaped(p) THEN Becomes(Written(p))
            ELSE Becomes([p EXCEPT !.squote = TRUE])
  BY DEF SingleQuote
<1>3. p.squote = (s.quote = c) /\ p.dquote = (s.quote = d)
  BY <1>1, AtCharacter
<1>4. /\ r \in Readings /\ s \in Readings /\ r.op # c /\ c \in Character
      /\ Escaped(p) <=> s.escaped
      /\ Stands(p, line) /\ p \in States /\ p.end = "no"
  BY <1>1, AtCharacter DEF InLine
<1>14. s.escaped => Len(s.words) >= 1
  BY <1>4 DEF Readings
<1>15. s.escaped => s.words # <<>>
  BY <1>4, <1>14
<1>16. s.quote \in {"no", c, d} /\ (s.escaped => s.quote # c) /\ s.escaped \in BOOLEAN
  BY <1>4 DEF Readings, Quotes
<1>5. s.quote \in {"no", c, d} /\ (s.escaped => s.quote # c /\ s.words # <<>>)
      /\ s.escaped \in BOOLEAN
  BY <1>15, <1>16
<1>6. p.first = p.pos <=> s.words = <<>> /\ s.done = <<>>
  BY <1>4 DEF Stands
<1>7. u = [s EXCEPT !.open = TRUE, !.words = u.words]
  BY <1>4, OpenedIs
<1>8. d \notin {c, "no"}
  OBVIOUS
<1> DEFINE t == Read(r, c)
<1>9. t = IF r.op = c THEN NextCommand(r, IF c = "&" THEN "RUN_AND" ELSE "RUN_OR")
          ELSE IF s.escaped THEN Kept(s, c)
          ELSE IF c = " " /\ s.quote = "no" THEN [s EXCEPT !.open = FALSE]
          ELSE IF c \in {"&", "|"} /\ s.quote = "no"
               THEN [s EXCEPT !.open = FALSE, !.op = c]
          ELSE IF c = ";" /\ s.quote = "no" THEN NextCommand(s, "MULTICMD")
          ELSE IF c = "\\" /\ s.quote # "'" THEN [u EXCEPT !.escaped = TRUE]
          ELSE IF c \in {c, d} /\ s.quote = "no" THEN [u EXCEPT !.quote = c]
          ELSE IF c = s.quote THEN [u EXCEPT !.quote = "no"]
          ELSE Kept(s, c)
  BY <1>4, ReadAs
<1>20. r = ReadTo(line, p.pos - 1) /\ s = Settled(r) /\ t = Read(r, c) /\ u = Opened(s)
  OBVIOUS
<1> HIDE DEF r, s, u, c, d, t
<1>10. CASE p.dquote \/ (~p.dquote /\ ~p.squote /\ p.pos # p.first /\ Escaped(p))
  <2>1. Becomes(Written(p))
    BY <1>2, <1>3, <1>8, <1>10
  <2>2. t = Kept(s, c)
    BY <1>1, <1>3, <1>4, <1>5, <1>8, <1>9, <1>10
  <2> QED BY <1>1, <2>1, <2>2, WrittenReads DEF r, s, t
<1>11. CASE ~p.dquote /\ p.squote
  <2> DEFINE q == [p EXCEPT !.squote = FALSE]
  <2>1. Becomes(q)
    BY <1>2, <1>11
  <2>2. s.quote = c
    BY <1>3, <1>11
  <2>3. t = [u EXCEPT !.quote = "no"]
    BY <1>1, <1>4, <1>5, <1>9, <2>2
  <2>4. /\ t.open = TRUE /\ t.words = u.words /\ t.done = s.done /\ t.quote = "no"
    BY <1>4, <1>7, <2>3 DEF Readings
  <2>5. /\ q \in States /\ q.end = "no" /\ Same(p, q)
        /\ q.redirecting = p.redirecting /\ q.ret = p.ret /\ q.asked = p.asked
        /\ q.cmds = p.cmds /\ q.element = p.element /\ q.chars = p.chars
        /\ q.squote = FALSE /\ q.dquote = p.dquote
    BY <1>4 DEF States, Locals, Same
  <2> HIDE DEF q
  <2>6. q.squote = (t.quote = "'") /\ q.dquote = (t.quote = "\"")
    BY <1>3, <1>11, <2>4, <2>5
  <2>9. Reading(c) /\ c # "NUL"
    BY <1>1
  <2>10. t.open = TRUE /\ t.words = Opened(s).words /\ t.done = s.done
    BY <1>20, <2>4
  <2>11. Requoted(q, t)
    BY <2>5, <2>6 DEF Requoted
  <2> QED BY <1>20, <2>1, <2>9, <2>10, <2>11, GoesOn
<1>12. CASE ~p.dquote /\ ~p.squote /\ ~(p.pos # p.first /\ Escaped(p))
  <2> DEFINE q == [p EXCEPT !.squote = TRUE]
  <2>1. Becomes(q)
    BY <1>2, <1>12
  <2>2. s.quote = "no" /\ ~s.escaped
    BY <1>3, <1>4, <1>5, <1>6, <1>12
  <2>3. t = [u EXCEPT !.quote = c]
    BY <1>1, <1>4, <1>9, <2>2
  <2>4. /\ t.open = TRUE /\ t.words = u.words /\ t.done = s.done /\ t.quote = c
    BY <1>4, <1>7, <2>3 DEF Readings
  <2>5. /\ q \in States /\ q.end = "no" /\ Same(p, q)
        /\ q.redirecting = p.redirecting /\ q.ret = p.ret /\ q.asked = p.asked
        /\ q.cmds = p.cmds /\ q.element = p.element /\ q.chars = p.chars
        /\ q.squote = TRUE /\ q.dquote = p.dquote
    BY <1>4 DEF States, Locals, Same
  <2>7. p.dquote = FALSE
    BY <1>3, <1>12
  <2> HIDE DEF q
  <2>6. q.squote = (t.quote = "'") /\ q.dquote = (t.quote = "\"")
    BY <2>4, <2>5, <2>7 DEF c
  <2>9. Reading(c) /\ c # "NUL"
    BY <1>1
  <2>10. t.open = TRUE /\ t.words = Opened(s).words /\ t.done = s.done
    BY <1>20, <2>4
  <2>11. Requoted(q, t)
    BY <2>5, <2>6 DEF Requoted
  <2> QED BY <1>20, <2>1, <2>9, <2>10, <2>11, GoesOn
<1>13. p.squote \in BOOLEAN /\ p.dquote \in BOOLEAN
  BY <1>3
<1> QED BY <1>2, <1>10, <1>11, <1>12, <1>13

LEMMA DoubleQuoteReads ==
    ASSUME NEW line, InLine(line), DoubleQuote PROVE Reads(p', line)
<1> DEFINE c == "\""
           d == "'"
           r == ReadTo(line, p.pos - 1)
           s == Settled(r)
           u == Opened(s)
<1>1. Reading(c) /\ c # "NUL" /\ c # "\\" /\ c # " " /\ c # ";" /\ c \notin {"&", "|"}
      /\ c # "no" /\ c # d
  BY DEF DoubleQuote
<1>2. IF p.squote \/ Escaped(p) THEN Becomes(Written(p))
      ELSE Becomes([p EXCEPT !.dquote = ~@])
  BY DEF DoubleQuote
<1>3. p.squote = (s.quote = d) /\ p.dquote = (s.quote = c)
  BY <1>1, AtCharacter
<1>4. /\ r \in Readings /\ s \in Readings /\ r.op # c /\ c \in Character
      /\ Escaped(p) <=> s.escaped
      /\ p \in States /\ p.end = "no"
  BY <1>1, AtCharacter DEF InLine
<1>5. s.quote \in {"no", c, d} /\ s.escaped \in BOOLEAN
  BY <1>4 DEF Readings, Quotes
<1>7. u = [s EXCEPT !.open = TRUE, !.words = u.words]
  BY <1>4, OpenedIs
<1>8. d \notin {c, "no"}
  OBVIOUS
<1> DEFINE t == Read(r, c)
<1>9. t = IF r.op = c THEN NextCommand(r, IF c = "&" THEN "RUN_AND" ELSE "RUN_OR")
          ELSE IF s.escaped THEN Kept(s, c)
          ELSE IF c = " " /\ s.quote = "no" THEN [s EXCEPT !.open = FALSE]
          ELSE IF c \in {"&", "|"} /\ s.quote = "no"
               THEN [s EXCEPT !.open = FALSE, !.op = c]
          ELSE IF c = ";" /\ s.quote = "no" THEN NextCommand(s, "MULTICMD")
          ELSE IF c = "\\" /\ s.quote # "'" THEN [u EXCEPT !.escaped = TRUE]
          ELSE IF c \in {d, c} /\ s.quote = "no" THEN [u EXCEPT !.quote = c]
          ELSE IF c = s.quote THEN [u EXCEPT !.quote = "no"]
          ELSE Kept(s, c)
  BY <1>4, ReadAs
<1>20. r = ReadTo(line, p.pos - 1) /\ s = Settled(r) /\ t = Read(r, c) /\ u = Opened(s)
  OBVIOUS
<1> HIDE DEF r, s, u, c, d, t
<1>10. CASE p.squote \/ Escaped(p)
  <2>1. Becomes(Written(p))
    BY <1>2, <1>10
  <2>2. t = Kept(s, c)
    BY <1>1, <1>3, <1>4, <1>5, <1>8, <1>9, <1>10
  <2> QED BY <1>1, <2>1, <2>2, WrittenReads DEF r, s, t
<1>11. CASE ~(p.squote \/ Escaped(p))
  <2> DEFINE e == ~p.dquote
             q == [p EXCEPT !.dquote = e]
             k == IF s.quote = "no" THEN c ELSE "no"
  <2>1. Becomes(q)
    BY <1>2, <1>11
  <2>2. s.quote \in {"no", c} /\ ~s.escaped
    BY <1>3, <1>4, <1>5, <1>11
  <2>3. t = [u EXCEPT !.quote = k]
    BY <1>1, <1>4, <1>9, <2>2
  <2>6. e = (k = c) /\ k # d
    BY <1>1, <1>3, <1>8, <2>2
  <2> HIDE DEF k
  <2>4. /\ t.open = TRUE /\ t.words = u.words /\ t.done = s.done /\ t.quote = k
    BY <1>4, <1>7, <2>3 DEF Readings
  <2> HIDE DEF e
  <2>5. /\ q \in States /\ q.end = "no" /\ Same(p, q)
        /\ q.redirecting = p.redirecting /\ q.ret = p.ret /\ q.asked = p.asked
        /\ q.cmds = p.cmds /\ q.element = p.element /\ q.chars = p.chars
        /\ q.squote = p.squote /\ q.dquote = e
    BY <1>4, <2>6 DEF States, Locals, Same
  <2>8. p.squote = FALSE
    BY <1>3, <1>11
  <2> HIDE DEF q
  <2>7. q.squote = (t.quote = "'") /\ q.dquote = (t.quote = "\"")
    BY <2>4, <2>5, <2>6, <2>8 DEF c, d
  <2>9. Reading(c) /\ c # "NUL"
    BY <1>1
  <2>10. t.open = TRUE /\ t.words = Opened(s).words /\ t.done = s.done
    BY <1>20, <2>4
  <2>11. Requoted(q, t)
    BY <2>5, <2>7 DEF Requoted
  <2> QED BY <1>20, <2>1, <2>9, <2>10, <2>11, GoesOn
<1> QED BY <1>10, <1>11

LEMMA DollarReads ==
    ASSUME NEW line, InLine(line), Dollar PROVE Reads(p', line)
<1>1. PICK c \in {"$", "backquote"} :
          Reading(c) /\ Becomes(Times(p, IF p.squote \/ Escaped(p)
                                         THEN IF c = "$" THEN 2 ELSE 3 ELSE 1))
  BY DEF Dollar
<1> DEFINE r == ReadTo(line, p.pos - 1)
           s == Settled(r)
<1>2. c # "NUL"
  OBVIOUS
<1>3. /\ r \in Readings /\ s \in Readings /\ r.op # c /\ c \in Character
      /\ Plain(line, p.pos) /\ line[p.pos] = c
      /\ p.squote = (s.quote = "'") /\ (Escaped(p) <=> s.escaped)
  BY <1>1, <1>2, AtCharacter
<1>4. s.quote # "'" /\ ~s.escaped
  BY <1>3 DEF Plain
<1> HIDE DEF r
<1>5. s.quote \in Quotes
  BY <1>3 DEF Readings
<1>6. Read(r, c) = Kept(s, c)
  BY <1>3, <1>5, ReadAs DEF Quotes
<1>7. Becomes(Written(p))
  BY <1>1, <1>3, <1>4, TimesAre
<1> QED BY <1>1, <1>2, <1>6, <1>7, WrittenReads DEF r

LEMMA TildeReads ==
    ASSUME NEW line, InLine(line), Tilde PROVE Reads(p', line)
<1> DEFINE c == "~"
           s == Settled(ReadTo(line, p.pos - 1))
<1>1. Reading(c) /\ c # "NUL" /\ ~Ignored(p)
  BY DEF Tilde
<1>2. /\ Ignored(p) <=> s.quote # "no" \/ s.escaped
      /\ Plain(line, p.pos) /\ line[p.pos] = c
  BY <1>1, AtCharacter
<1> HIDE DEF s
<1>3. FALSE
  BY <1>1, <1>2 DEF Plain, s
<1> QED BY <1>3

LEMMA GreaterReads ==
    ASSUME NEW line, InLine(line), Greater PROVE Reads(p', line)
<1> DEFINE c == ">"
           s == Settled(ReadTo(line, p.pos - 1))
<1>1. Reading(c) /\ c # "NUL" /\ ~Ignored(p)
  BY DEF Greater
<1>2. /\ Ignored(p) <=> s.quote # "no" \/ s.escaped
      /\ Plain(line, p.pos) /\ line[p.pos] = c
  BY <1>1, AtCharacter
<1> HIDE DEF s
<1>3. FALSE
  BY <1>1, <1>2 DEF Plain, s
<1> QED BY <1>3

LEMMA HashReads ==
    ASSUME NEW line, InLine(line), Hash PROVE Reads(p', line)
<1> DEFINE c == "#"
           r == ReadTo(line, p.pos - 1)
           s == Settled(r)
<1>1. Reading(c) /\ c # "NUL"
  BY DEF Hash
<1>2. IF p.pos = p.first \/ At(p, p.pos - 1) # " " THEN Becomes(Written(p))
      ELSE Becomes(Stop(UndoBlank(p, 1)))
  BY DEF Hash
<1>3. /\ r \in Readings /\ s \in Readings /\ r.op # c /\ c \in Character
      /\ Plain(line, p.pos) /\ line[p.pos] = c /\ Stands(p, line)
      /\ p \in States /\ Agrees(p, line, s)
  BY <1>1, AtCharacter
<1>4. p.pos \in 1..Len(line) /\ p \in Parsers /\ p.end = "no" /\ line \in Text
  BY <1>1, AtCharacter DEF InLine
<1>5. p.first = p.pos <=> s.words = <<>> /\ s.done = <<>>
  BY <1>3 DEF Stands
<1>6. p.pos > 1 /\ line[p.pos - 1] = " " => s.words = <<>> /\ s.done = <<>>
  BY <1>3 DEF Plain
<1> HIDE DEF r
<1>7. s.quote \in Quotes
  BY <1>3 DEF Readings
<1>8. Read(r, c) = Kept(s, c)
  BY <1>3, <1>7, ReadAs DEF Quotes
<1> HIDE DEF s
<1>9. p.pos = p.first \/ At(p, p.pos - 1) # " "
  <2>1. SUFFICES ASSUME p.pos # p.first PROVE At(p, p.pos - 1) # " "
    OBVIOUS
  <2>2. p.first <= p.pos /\ p.first >= 1 /\ p.first \in Nat /\ Len(line) \in Nat
    <3>1. p.first >= 1 /\ p.first <= p.pos
      BY <1>4 DEF Parsers, Placed
    <3> QED BY <1>3, <1>4, <3>1, TextIs DEF States, Locals
  <2> DEFINE i == p.pos
  <2> HIDE DEF i
  <2>3. i # p.first /\ p.first <= i /\ i \in 1..Len(line)
    BY <1>4, <2>1, <2>2 DEF i
  <2>4. i > 1 /\ i - 1 \in Nat /\ i - 1 >= 1 /\ i - 1 <= Len(line)
    BY <2>2, <2>3
  <2>5. p.buf = line
    BY <1>3 DEF Agrees
  <2>6. At(p, i - 1) = line[i - 1]
    BY <1>3, <2>4, <2>5, AtIs
  <2> QED BY <1>5, <1>6, <2>1, <2>4, <2>6 DEF i
<1>10. Becomes(Written(p))
  BY <1>2, <1>9
<1> QED BY <1>1, <1>8, <1>10, WrittenReads DEF r, s

LEMMA BackslashReads ==
    ASSUME NEW line, InLine(line), Backslash PROVE Reads(p', line)
<1> DEFINE c == "\\"
           m == p.pos
           r == ReadTo(line, p.pos - 1)
           s == Settled(r)
           u == Opened(s)
           t == Read(r, c)
           n == Len(line)
           S == {i \in m..Len(p.buf) + 1 : At(p, i) # c}
           after == Min(S)
           q == [Times(p, (after - m) \div 2) EXCEPT
                    !.pos = IF At(p, after) = "NUL" THEN after ELSE after - 1]
<1>1. Reading(c) /\ c # "NUL" /\ Becomes(q)
  BY DEF Backslash
<1>2. /\ p \in States /\ m \in 1..n /\ Agrees(p, line, s)
      /\ r \in Readings /\ s \in Readings /\ r.op # c /\ c \in Character
      /\ line[m] = c /\ At(p, m) = c /\ Plain(line, m)
      /\ ReadTo(line, m) = t /\ t \in Readings
  BY <1>1, AtCharacter
<1>3. s.quote # "'" /\ ~s.escaped
  BY <1>2 DEF Plain
<1>4. line \in Text /\ Readable(line, MaxArgs) /\ n \in Nat /\ p.end = "no" /\ p.buf = line
  BY <1>2, TextIs DEF InLine, Agrees
<1>5. t = [u EXCEPT !.escaped = TRUE]
  <2>1. s.escaped = FALSE
    BY <1>2, <1>3 DEF Readings
  <2> DEFINE b == c
  <2>2. b = "\\" /\ b \notin {" ", "&", "|", ";"} /\ b \in Character /\ r.op # b
    BY <1>2
  <2>3. t = Read(r, b)
    OBVIOUS
  <2> HIDE DEF b, t, r, u
  <2>4. Read(r, b) = [Opened(Settled(r)) EXCEPT !.escaped = TRUE]
    BY <1>2, <1>3, <2>1, <2>2, ReadAs
  <2> QED BY <2>3, <2>4 DEF u
<1>6. u = [s EXCEPT !.open = TRUE, !.words = u.words]
  BY <1>2, OpenedIs
<1> HIDE DEF u
<1>7. t.open = TRUE /\ t.words = u.words /\ t.done = s.done /\ t.quote = s.quote
  <2> HIDE DEF s, t
  <2> QED BY <1>2, <1>5, <1>6 DEF Readings
<1> HIDE DEF c, m, n, s, t, r
<1>8. m # n
  <2>1. SUFFICES ASSUME m = n PROVE FALSE
    OBVIOUS
  <2>2. n \in 0..n /\ n >= 1 /\ line[n] = "\\"
    BY <1>2, <1>4, <2>1 DEF c
  <2>3. ReadTo(line, n).escaped
    BY <1>4, <2>2, EscapedIs DEF n
  <2>4. ~ReadTo(line, n).escaped
    BY <1>4 DEF Readable, n
  <2> QED BY <2>3, <2>4
<1>9. m + 1 \in 1..n /\ m \in 0..n /\ m \in Nat /\ m >= 1 /\ m <= n /\ (m + 1) - 1 = m
  BY <1>2, <1>4, <1>8
<1>10. line[m + 1] # "\\"
  <2>1. SUFFICES ASSUME line[m + 1] = "\\" PROVE FALSE
    OBVIOUS
  <2>2. ReadTo(line, m).escaped
    BY <1>2, <1>4, <1>9, EscapedIs DEF n, c
  <2>3. Plain(line, m + 1)
    BY <1>4, <1>9 DEF Readable, n
  <2>4. ~Settled(ReadTo(line, m)).escaped
    BY <1>9, <2>1, <2>3 DEF Plain
  <2>5. Settled(ReadTo(line, m)).escaped = ReadTo(line, m).escaped
    BY <1>2, SettledIs
  <2> QED BY <2>2, <2>4, <2>5
<1>11. At(p, m + 1) = line[m + 1] /\ At(p, m + 1) # "NUL"
  BY <1>2, <1>4, <1>9, AtIs DEF n
<1>12. after = m + 1
  <2>1. m + 1 \in S
    <3>1. m + 1 \in m..Len(p.buf) + 1
      BY <1>4, <1>9 DEF n
    <3> QED BY <1>10, <1>11, <3>1 DEF c
  <2>2. S \subseteq m..Len(p.buf) + 1 /\ m \notin S
    BY <1>2
  <2> DEFINE k == Len(p.buf) + 1
  <2>3. k \in Nat /\ S \subseteq m..k
    BY <1>4, <2>2 DEF n
  <2> HIDE DEF S, k
  <2>4. m..k \subseteq Nat
    BY <1>9, <2>3
  <2>5. S \subseteq Nat /\ S # {}
    BY <2>1, <2>3, <2>4
  <2>6. after \in S /\ \A j \in S : after <= j
    BY <2>5, MinIs
  <2>7. after \in m..k /\ after <= m + 1 /\ after # m
    BY <2>1, <2>2, <2>3, <2>6
  <2> HIDE DEF after
  <2> QED BY <1>9, <2>3, <2>7
<1> HIDE DEF after, S
<1>13. q = p
  <2>1. (after - m) \div 2 = 0 /\ after - 1 = m
    BY <1>9, <1>12
  <2>2. At(p, after) # "NUL"
    BY <1>11, <1>12
  <2>3. Times(p, (after - m) \div 2) = p
    BY <2>1, TimesAre
  <2>4. q = [p EXCEPT !.pos = m]
    BY <2>1, <2>2, <2>3
  <2> QED BY <1>2, <2>4 DEF m, States, Locals
<1>14. Becomes(p)
  BY <1>1, <1>13
<1>15. p.squote = (t.quote = "'") /\ p.dquote = (t.quote = "\"")
  BY <1>2, <1>7 DEF Agrees
<1>16. Same(p, p)
  BY DEF Same
<1> DEFINE z == p
<1>17. /\ z \in States /\ Becomes(z) /\ z.end = "no" /\ Same(p, z)
       /\ z.redirecting = p.redirecting /\ z.ret = p.ret /\ z.asked = p.asked
       /\ z.cmds = p.cmds /\ z.element = p.element /\ z.chars = p.chars
       /\ z.squote = (t.quote = "'") /\ z.dquote = (t.quote = "\"")
  BY <1>2, <1>4, <1>14, <1>15, <1>16
<1>18. r = ReadTo(line, p.pos - 1) /\ s = Settled(r) /\ t = Read(r, c) /\ u = Opened(s)
  BY DEF u, t, s, r
<1> HIDE DEF z
<1>19. Reading(c) /\ c # "NUL"
  BY <1>1
<1>20. t.open = TRUE /\ t.words = Opened(s).words /\ t.done = s.done
  BY <1>7, <1>18
<1>21. Requoted(z, t)
  BY <1>17 DEF Requoted
<1>22. Becomes(z)
  BY <1>17
<1> QED BY <1>18, <1>19, <1>20, <1>21, <1>22, GoesOn

-----------------------------------------------------------------------------
(* The steps between words and commands                                    *)

(* A word without characters is taken back: the command has its words.     *)
LEMMA UndoneIs ==
    ASSUME NEW line, NEW q \in Parsers, q.end = "no", NEW s \in Readings,
           Agrees(q, line, s), EndsCommand(s), Len(s.words) < MaxArgs,
           NEW back \in {0, 1}
    PROVE  LET u == UndoBlank(q, back)
           IN  /\ u \in States /\ Same(q, u) /\ u.end = "no"
               /\ u.redirecting = q.redirecting /\ u.ret = q.ret /\ u.asked = q.asked
               /\ u.squote = q.squote /\ u.dquote = q.dquote
               /\ HoldsDone(u.cmds, s.done) /\ HasArguments(Argv(u), s.words)
               /\ back = 1 => HasCell(u)
<1> DEFINE w == Opened(s).words
           n == Len(w)
           u == UndoBlank(q, back)
           cs == q.cmds
           l == Len(cs)
           k == Len(s.words)
<1>1. q \in States /\ u \in Parsers /\ Same(q, u)
  BY UndoBlankIs DEF Parsers
<1>2. /\ HoldsDone(cs, s.done) /\ Argv(q) = w /\ q.element = n /\ q.chars = Len(w[n])
  BY DEF Agrees, HasWords
<1>3. /\ w \in Seq(Text) /\ n >= 1 /\ n \in Nat
      /\ s.open => w = s.words
      /\ ~s.open => w = Append(s.words, <<>>)
  BY OpenedIs
<1>4. s.words \in Seq(Text) /\ s.words # <<>> /\ (s.open => Last(s.words) # <<>>)
  BY DEF EndsCommand, Readings
<1>5. k \in Nat /\ k >= 1 /\ k \in DOMAIN s.words /\ s.words[k] # NoCell
  <2>1. k \in Nat /\ k >= 1 /\ k \in DOMAIN s.words /\ s.words[k] \in Text
    BY <1>4
  <2> QED BY <2>1, LinesAssumption DEF Text
<1>6. u \in States
  BY <1>1 DEF Parsers
<1> HIDE DEF w
<1>7. CASE q.chars # 0
  <2>1. u = q
    BY <1>7 DEF UndoBlank
  <2>2. s.open
    <3>1. SUFFICES ASSUME ~s.open PROVE FALSE
      OBVIOUS
    <3>2. n = k + 1 /\ w[n] = <<>>
      BY <1>3, <1>4, <3>1
    <3> QED BY <1>2, <1>7, <3>2
  <2>3. w = s.words
    BY <1>3, <2>2
  <2>4. HasArguments(Argv(u), s.words)
    BY <1>2, <1>4, <2>1, <2>3, UpToNullIs
  <2>5. HasCell(u)
    BY <1>2, <1>5, <2>1, <2>3 DEF HasCell
  <2> QED BY <1>1, <1>2, <1>6, <2>1, <2>4, <2>5
<1>8. CASE q.chars = 0
  <2>1. ~s.open
    <3>1. SUFFICES ASSUME s.open PROVE FALSE
      OBVIOUS
    <3>2. w[n] = <<>>
      <4> DEFINE e == w[n]
      <4>1. e \in Seq(Character)
        BY <1>3 DEF Text
      <4>2. Len(e) = 0
        BY <1>2, <1>8
      <4> HIDE DEF e
      <4>3. e = <<>>
        BY <4>1, <4>2
      <4> QED BY <4>3 DEF e
    <3>3. Last(s.words) = <<>>
      BY <1>3, <3>1, <3>2 DEF Last
    <3> QED BY <1>4, <3>1, <3>3
  <2>2. w = Append(s.words, <<>>) /\ n = k + 1
    BY <1>3, <1>4, <2>1
  <2> DEFINE b == [w EXCEPT ![n] = NoCell]
             ds == With(q, b)
             e == n - back
  <2>3. b = Append(s.words, NoCell)
    <3>1. Len(w) = k + 1 /\ DOMAIN w = 1..(k + 1) /\ \A j \in 1..k : w[j] = s.words[j]
      BY <1>4, <2>2
    <3> DEFINE a == Append(s.words, NoCell)
    <3>2. /\ DOMAIN a = 1..(k + 1) /\ a[k + 1] = NoCell /\ \A j \in 1..k : a[j] = s.words[j]
          /\ a = [j \in 1..(k + 1) |-> a[j]]
      BY <1>4
    <3>3. b = [j \in 1..(k + 1) |-> b[j]]
      BY <3>1
    <3>5. b[k + 1] = NoCell
      BY <1>5, <2>2, <3>1
    <3>6. \A j \in 1..k : b[j] = w[j]
      <4> SUFFICES ASSUME NEW j \in 1..k PROVE b[j] = w[j]
        OBVIOUS
      <4> HIDE DEF k
      <4>1. j # k + 1 /\ j \in 1..(k + 1)
        BY <1>5
      <4>2. n = k + 1 /\ DOMAIN w = 1..(k + 1)
        BY <2>2, <3>1
      <4> HIDE DEF n
      <4> QED BY <4>1, <4>2
    <3>4. \A j \in 1..(k + 1) : a[j] = b[j]
      <4> SUFFICES ASSUME NEW j \in 1..(k + 1) PROVE a[j] = b[j]
        OBVIOUS
      <4>1. j \in 1..k \/ j = k + 1
        BY <1>5
      <4> HIDE DEF a, b
      <4> QED BY <3>1, <3>2, <3>5, <3>6, <4>1
    <3> HIDE DEF a, b
    <3> QED BY <3>2, <3>3, <3>4 DEF a
  <2>4. u = [q EXCEPT !.chars = q.old, !.element = e, !.cmds = ds]
    <3>1. n # 0
      BY <1>3
    <3>2. u = [q EXCEPT !.chars = q.old, !.element = q.element - back,
                        !.cmds = [cs EXCEPT ![l].argv = [cs[l].argv EXCEPT ![q.element] = NoCell]]]
      BY <1>1, <1>2, <1>8, <3>1 DEF UndoBlank, States, Locals
    <3>3. cs[l].argv = w
      BY <1>1, <1>2, ArgvIs
    <3> QED BY <1>2, <3>2, <3>3 DEF With
  <2>5. cs \in Seq(Command) /\ l \in Nat /\ l >= 1 /\ l \in 1..l /\ Len(cs) = l
    BY <1>1, ArgvIs DEF States, Locals, CommandList
  <2>6. ds = [cs EXCEPT ![l] = [cs[l] EXCEPT !.argv = b]]
    BY DEF With
  <2>7. cs[l] \in Command
    BY <2>5
  <2> HIDE DEF b, cs, l, e
  <2>8. /\ Len(ds) = l /\ ds[l] = [cs[l] EXCEPT !.argv = b]
        /\ \A j \in 1..l : j # l => ds[j] = cs[j]
    <3> DEFINE f == [cs[l] EXCEPT !.argv = b]
    <3>1. ds = [cs EXCEPT ![l] = f]
      BY <2>6
    <3> HIDE DEF f, ds
    <3>2. Len(ds) = l /\ ds[l] = f /\ \A j \in 1..l : j # l => ds[j] = cs[j]
      BY <2>5, <3>1
    <3> QED BY <3>2 DEF f
  <2>9. ds[l].argv = b
    BY <2>7, <2>8 DEF Command
  <2> HIDE DEF ds, u
  <2>10. /\ u.cmds = ds /\ u.element = e /\ u.end = "no"
         /\ u.redirecting = q.redirecting /\ u.ret = q.ret /\ u.asked = q.asked
         /\ u.squote = q.squote /\ u.dquote = q.dquote
    BY <1>1, <2>4 DEF States, Locals
  <2>11. Argv(u) = b
    BY <2>8, <2>9, <2>10 DEF Argv, Last
  <2>12. HasArguments(Argv(u), s.words)
    BY <1>4, <2>3, <2>11, UpToNullIs
  <2>13. HoldsDone(u.cmds, s.done)
    <3>1. l = Len(s.done) + 1
      BY <1>2, <2>5 DEF HoldsDone
    <3>2. s.done \in Seq(GivenCommand)
      BY DEF Readings
    <3>3. Len(s.done) \in Nat
      BY <3>2
    <3>4. \A j \in 1..Len(s.done) : ds[j] = cs[j]
      BY <2>8, <3>1, <3>3
    <3> QED BY <1>2, <2>8, <2>10, <3>1, <3>4 DEF HoldsDone
  <2>14. back = 1 => HasCell(u)
    <3>1. SUFFICES ASSUME back = 1 PROVE HasCell(u)
      OBVIOUS
    <3>2. e = k
      BY <1>5, <2>2, <3>1 DEF e
    <3>3. k \in DOMAIN b /\ b[k] = s.words[k]
      BY <1>4, <1>5, <2>3
    <3> QED BY <1>5, <2>10, <2>11, <3>2, <3>3 DEF HasCell
  <2> QED BY <1>1, <1>6, <2>10, <2>12, <2>13, <2>14 DEF u
<1> QED BY <1>7, <1>8

(* The command of s has ended, and nothing of the next one was read.       *)
Follows(t, s, type) ==
    /\ t.open = FALSE /\ t.words = <<>>
    /\ t.done = Append(s.done, [type |-> type, argv |-> s.words])

(* The parser goes on with the next command.                               *)
LEMMA ChainedAgrees ==
    ASSUME NEW line, NEW q \in Parsers, q.end = "no", q.buf = line,
           NEW s \in Readings, Agrees(q, line, s), s.quote = "no", EndsCommand(s),
           Len(s.words) < MaxArgs, NEW back \in {0, 1}, NEW type \in CommandTypes,
           NEW t \in Readings, t.quote = "no", Follows(t, s, type),
           NEW i \in Nat, i >= 1, TextFrom(line, i)
    PROVE  LET r == IntoNext(Chained(UndoBlank(q, back), type), i)
           IN  /\ r \in States /\ r.end = "no" /\ r.first = q.first
               /\ r.pos = NonBlank(q, i) - 1 /\ Agrees(r, line, t)
<1> DEFINE u == UndoBlank(q, back)
           cs == u.cmds
           n == Len(cs)
           c == [cs[n] EXCEPT !.type = type]
           ds == [cs EXCEPT ![n] = c]
           es == Append(ds, NewCommand)
           v == [u EXCEPT !.cmds = es]
           x1 == [v EXCEPT !.element = 1, !.chars = 0]
           m == NonBlank(q, i) - 1
           r == [x1 EXCEPT !.pos = m]
           d == [type |-> type, argv |-> s.words]
<1>0. t.open = FALSE /\ t.words = <<>> /\ t.done = Append(s.done, d)
  BY DEF Follows
<1>1. /\ u \in States /\ Same(q, u) /\ u.end = "no"
      /\ u.redirecting = q.redirecting /\ u.ret = q.ret /\ u.asked = q.asked
      /\ u.squote = q.squote /\ u.dquote = q.dquote
      /\ HoldsDone(cs, s.done) /\ HasArguments(Argv(u), s.words)
  BY UndoneIs
<1>2. /\ q.redirecting = "no" /\ q.ret # "error" /\ q.asked = 0
      /\ q.squote = FALSE /\ q.dquote = FALSE
  BY DEF Agrees
<1>3. Chained(u, type) = v
  BY DEF Chained
<1>4. v \in States /\ Same(u, v) /\ v.end = u.end /\ Argv(v) = <<<<>>>>
  <2> DEFINE y == Chained(u, type)
  <2>1. y \in States /\ Same(u, y) /\ y.end = u.end /\ Argv(y) = <<<<>>>>
    BY <1>1, ChainedIs
  <2>2. y = v
    BY <1>3
  <2> HIDE DEF y, v, u
  <2> QED BY <2>1, <2>2
<1>5. cs \in Seq(Command) /\ n \in Nat /\ n >= 1 /\ Argv(u) = cs[n].argv
  BY <1>1, ArgvIs DEF States, Locals, CommandList
<1> HIDE DEF u
<1>6. IntoNext(v, i) = Skipped(x1, i)
  BY DEF IntoNext
<1>7. Len(cs) = n /\ n \in 1..n /\ cs[n] \in Command
  BY <1>5
<1>8. c = [type |-> type, argv |-> cs[n].argv, redir |-> cs[n].redir]
  BY <1>7 DEF Command
<1> HIDE DEF cs, n
<1>9. Len(ds) = n /\ ds[n] = c /\ \A j \in 1..n : j # n => ds[j] = cs[j]
  <2> HIDE DEF c
  <2> QED BY <1>5, <1>7
<1>10. ds \in Seq(Command)
  <2>1. c \in Command
    BY <1>7, <1>8 DEF Command
  <2> HIDE DEF c
  <2> QED BY <1>5, <1>7, <2>1
<1> HIDE DEF c, ds
<1>11. /\ Len(es) = n + 1 /\ es[n + 1] = NewCommand /\ \A j \in 1..n : es[j] = ds[j]
       /\ es[Len(es)] = NewCommand
  BY <1>5, <1>9, <1>10
<1> HIDE DEF es
<1>12. /\ v.buf = line /\ v.first = q.first /\ v.end = "no" /\ v.cmds = es
       /\ v.redirecting = "no" /\ v.ret # "error" /\ v.asked = 0
       /\ v.squote = FALSE /\ v.dquote = FALSE
  BY <1>1, <1>2 DEF States, Locals, Same
<1> HIDE DEF v
<1>13. /\ x1.buf = line /\ x1.first = q.first /\ x1.end = "no" /\ x1.cmds = es
       /\ x1.redirecting = "no" /\ x1.ret # "error" /\ x1.asked = 0
       /\ x1.squote = FALSE /\ x1.dquote = FALSE /\ x1.element = 1 /\ x1.chars = 0
       /\ x1 \in States
  <2>1. 1 \in 0..MaxArgs
    BY LinesAssumption
  <2> QED BY <1>4, <1>12, <2>1 DEF States, Locals
<1> HIDE DEF x1
<1>14. NonBlank(x1, i) = NonBlank(q, i)
  BY <1>13 DEF NonBlank, At
<1>15. Skipped(x1, i) = r
  BY <1>13, <1>14, SkippedTo
<1>16. m \in Nat
  <2>1. NonBlank(x1, i) \in i..Len(x1.buf)
    BY <1>13, TextAhead
  <2> DEFINE j == NonBlank(x1, i)
  <2> HIDE DEF j
  <2>2. j \in i..Len(x1.buf) /\ m = j - 1
    BY <1>14, <2>1 DEF j
  <2>3. j \in Nat /\ j >= 1
    BY <2>2
  <2> QED BY <2>2, <2>3
<1> HIDE DEF m
<1>17. /\ r.buf = line /\ r.first = q.first /\ r.end = "no" /\ r.cmds = es
       /\ r.redirecting = "no" /\ r.ret # "error" /\ r.asked = 0
       /\ r.squote = FALSE /\ r.dquote = FALSE /\ r.element = 1 /\ r.chars = 0
       /\ r \in States /\ r.pos = m
  BY <1>13, <1>16 DEF States, Locals
<1> HIDE DEF r
<1>18. NewCommand.argv = <<<<>>>> /\ NewCommand.type = "SINGLE"
  BY DEF NewCommand
<1>19. HasWords(r, Opened(t).words)
  <2>1. Opened(t).words = Append(<<>>, <<>>)
    BY <1>0, OpenedIs
  <2>2. Opened(t).words = <<<<>>>>
    BY <2>1
  <2>3. Argv(r) = <<<<>>>>
    BY <1>11, <1>17, <1>18 DEF Argv, Last
  <2>4. Len(<<<<>>>>) = 1 /\ <<<<>>>>[1] = <<>> /\ Len(<<>>) = 0
    OBVIOUS
  <2> QED BY <1>17, <2>2, <2>3, <2>4 DEF HasWords
<1>20. HoldsDone(es, t.done)
  <2>1. s.done \in Seq(GivenCommand) /\ s.words \in Seq(Text)
    BY DEF Readings
  <2>2. d \in GivenCommand
    BY <2>1 DEF GivenCommand
  <2>3. /\ Len(cs) = Len(s.done) + 1
        /\ \A j \in 1..Len(s.done) :
              cs[j].type = s.done[j].type /\ HasArguments(cs[j].argv, s.done[j].argv)
    BY <1>1 DEF HoldsDone
  <2>4. d.type = type /\ d.argv = s.words
    OBVIOUS
  <2>5. t.done = Append(s.done, d)
    BY <1>0
  <2> HIDE DEF d
  <2> DEFINE k == Len(s.done)
  <2>6. k \in Nat /\ n = k + 1
    BY <1>7, <2>1, <2>3
  <2>7. /\ Len(t.done) = k + 1 /\ t.done[k + 1] = d
        /\ \A j \in 1..k : t.done[j] = s.done[j]
    BY <2>1, <2>2, <2>5
  <2>8. ASSUME NEW j \in 1..k + 1
        PROVE  es[j].type = t.done[j].type /\ HasArguments(es[j].argv, t.done[j].argv)
    <3>1. j \in 1..n /\ (j = n \/ (j \in 1..k /\ j # n))
      BY <2>6
    <3>2. CASE j = n
      <4>1. es[j] = [type |-> type, argv |-> cs[n].argv, redir |-> cs[n].redir]
        BY <1>8, <1>9, <1>11, <3>1, <3>2
      <4>2. es[j].type = type /\ es[j].argv = cs[n].argv
        BY <4>1
      <4>3. t.done[j] = d
        BY <2>6, <2>7, <3>2
      <4> QED BY <1>1, <1>5, <2>4, <4>2, <4>3
    <3>3. CASE j \in 1..k /\ j # n
      <4>1. es[j] = cs[j] /\ t.done[j] = s.done[j]
        BY <1>9, <1>11, <2>7, <3>1, <3>3
      <4> QED BY <2>3, <3>3, <4>1
    <3> QED BY <3>1, <3>2, <3>3
  <2>9. Len(es) = Len(t.done) + 1
    BY <1>11, <2>6, <2>7
  <2> HIDE DEF k
  <2> QED BY <2>7, <2>8, <2>9 DEF HoldsDone
<1>21. es[Len(es)].type = "SINGLE"
  BY <1>11, <1>18
<1>22. Agrees(r, line, t)
  BY <1>17, <1>19, <1>20, <1>21 DEF Agrees
<1>23. IntoNext(Chained(u, type), i) = r
  BY <1>3, <1>6, <1>15
<1> QED BY <1>17, <1>22, <1>23 DEF u, m

(* It does so where the command is seen to begin.                          *)
LEMMA IntoNextReads ==
    ASSUME NEW line, InLine(line), NEW s, s = Settled(ReadTo(line, p.pos - 1)),
           s \in Readings, Agrees(p, line, s), s.quote = "no", EndsCommand(s),
           NEW back \in {0, 1}, NEW type \in CommandTypes,
           NEW i \in 1..Len(line), i > p.pos, TextFrom(line, i),
           NEW t, t = Settled(ReadTo(line, i - 1)),
           Follows(t, s, type), line[i] # ReadTo(line, i - 1).op,
           Becomes(IntoNext(Chained(UndoBlank(p, back), type), i))
    PROVE  Reads(p', line)
<1> DEFINE q == IntoNext(Chained(UndoBlank(p, back), type), i)
           m == NonBlank(p, i) - 1
           n == Len(line)
           v == ReadTo(line, m)
           w == ReadTo(line, i - 1)
<1>1. /\ line \in Text /\ p \in Parsers /\ p.end = "no" /\ p.buf = line
      /\ p \in States /\ n \in Nat /\ p.pos \in Nat /\ p.pos >= 1
  BY NextIs, TextIs DEF InLine
<1>2. p.first <= p.pos /\ p.first \in Nat
  BY <1>1 DEF Parsers, Placed, States, Locals
<1>3. i \in 1..n
  OBVIOUS
<1>17. i \in Nat /\ i >= 1
  BY <1>1, <1>3
<1>4. NonBlank(p, i) \in i..n /\ line[NonBlank(p, i)] # " " /\ AllBlank(line, i, m)
  BY <1>1, <1>17, TextAhead
<1> DEFINE j == NonBlank(p, i)
<1>5. j \in i..n /\ m = j - 1
  BY <1>4
<1> HIDE DEF j, m, n
<1>6. m \in 1..n /\ m + 1 \in 1..n /\ m < n /\ i - 1 \in 0..n /\ m >= i - 1 /\ m >= p.first
      /\ j = m + 1 /\ i \in Nat /\ m \in Nat /\ i >= 1
  <2> DEFINE l == p.pos
  <2>1. i > l /\ l \in Nat /\ l >= 1 /\ p.first <= l /\ n \in Nat
    BY <1>1, <1>2 DEF n
  <2> HIDE DEF l
  <2>2. j \in Nat /\ i <= j /\ j <= n
    BY <1>3, <1>5, <1>17, <2>1
  <2>3. m \in Nat /\ j = m + 1 /\ m < n /\ m >= i - 1 /\ m >= l
    BY <1>5, <1>17, <2>1, <2>2
  <2>4. m >= 1 /\ m >= p.first
    BY <1>2, <2>1, <2>3
  <2>5. m \in 1..n /\ m + 1 \in 1..n
    BY <2>1, <2>3, <2>4
  <2>6. i - 1 \in 0..n
    BY <1>3, <1>17, <2>1
  <2> QED BY <1>17, <2>3, <2>4, <2>5, <2>6
<1>7. w \in Readings /\ v \in Readings
  BY <1>1, <1>6, ReadToIs DEF n
<1>18. t.open = FALSE /\ t.done = Append(s.done, [type |-> type, argv |-> s.words])
  BY DEF Follows
<1>8. t \in Readings /\ t.op = "no" /\ t.quote = w.quote /\ t.escaped = w.escaped
  BY <1>7, SettledIs
<1>9. t.quote = "no" /\ ~t.escaped
  BY <1>8, <1>18 DEF Readings
<1> HIDE DEF q
<1>10. q \in States /\ q.end = "no" /\ q.first = p.first /\ q.pos = m /\ Agrees(q, line, t)
  <2>1. t \in Readings /\ t.quote = "no" /\ i \in Nat /\ i >= 1
    BY <1>8, <1>9, <1>17
  <2>3. Len(s.words) < MaxArgs
    BY FitsHere
  <2>2. /\ q \in States /\ q.end = "no" /\ q.first = p.first
        /\ q.pos = NonBlank(p, i) - 1 /\ Agrees(q, line, t)
    BY <1>1, <2>1, <2>3, ChainedAgrees DEF q
  <2> QED BY <2>2 DEF m
<1>11. line[m + 1] # " "
  BY <1>4, <1>6 DEF j
<1>12. Settled(v) = t /\ line[m + 1] # v.op
  <2>1. CASE m = i - 1
    <3>1. m + 1 = i
      BY <1>6, <2>1
    <3> QED BY <2>1, <3>1
  <2>2. CASE m # i - 1
    <3>1. (i - 1) \in 0..n /\ m \in ((i - 1) + 1)..n /\ (i - 1) + 1 = i
      BY <1>1, <1>6, <2>2 DEF n
    <3>2. AllBlank(line, (i - 1) + 1, m)
      BY <1>4, <3>1
    <3>3. v = [t EXCEPT !.open = FALSE]
      BY <1>1, <1>9, <3>1, <3>2, Blanks DEF n
    <3>4. [t EXCEPT !.open = FALSE] = t
      BY <1>8, <1>18 DEF Readings
    <3>5. v = t
      BY <3>3, <3>4
    <3>6. line[m + 1] \in Character
      BY <1>1, <1>6 DEF Text, n
    <3>7. line[m + 1] # "no"
      BY <3>6 DEF Character
    <3> HIDE DEF v
    <3> QED BY <1>8, <3>5, <3>7, SettledIs
  <2> QED BY <2>1, <2>2
<1>13. t.done # <<>>
  <2>1. s.done \in Seq(GivenCommand)
    BY DEF Readings
  <2> QED BY <1>18, <2>1
<1>14. MayStand(line, m)
  BY <1>6, <1>11, <1>12, <1>13 DEF MayStand, v, n
<1>15. Becomes(q) /\ q.first <= m
  BY <1>6, <1>10 DEF q
<1>16. Agrees(q, line, Settled(ReadTo(line, m)))
  BY <1>10, <1>12 DEF v
<1> QED BY <1>1, <1>6, <1>10, <1>14, <1>15, <1>16, MovesOn DEF n

-----------------------------------------------------------------------------
(* The end of the line                                                     *)

LEMMA CommandsAre ==
    ASSUME NEW line \in Text, NEW m \in 0..Len(line),
           AllBlank(line, m + 1, Len(line)),
           NEW s, s = Settled(ReadTo(line, m)),
           m # Len(line) => s.quote = "no" /\ ~s.escaped
    PROVE  Commands(line) =
               IF s.words = <<>> THEN s.done
               ELSE Append(s.done, [type |-> "SINGLE", argv |-> s.words])
<1> DEFINE n == Len(line)
           t == ReadTo(line, n)
           r == ReadTo(line, m)
<1>1. n \in Nat /\ m \in Nat /\ m <= n /\ n \in 0..n
  BY TextIs
<1>2. Commands(line) =
          IF t.op # "no" THEN Settled(t).done
          ELSE IF t.words = <<>> THEN t.done
          ELSE Append(t.done, [type |-> "SINGLE", argv |-> t.words])
  BY DEF Commands
<1>3. s \in Readings /\ s.op = "no" /\ t \in Readings
  BY <1>1, ReadToIs, SettledIs
<1> HIDE DEF t, n
<1>4. CASE m = n
  <2>1. s = Settled(t)
    BY <1>4 DEF t, n
  <2>2. CASE t.op = "no"
    <3>1. s = t
      BY <1>3, <2>1, <2>2, SettledIs
    <3> QED BY <1>2, <2>2, <3>1
  <2>3. CASE t.op # "no"
    <3>1. PICK type \in {"BACKGROUND", "PIPED"} : s = NextCommand(t, type)
      BY <1>3, <2>1, <2>3 DEF Settled, Readings
    <3>2. type \in CommandTypes
      BY DEF CommandTypes
    <3>3. NextCommand(t, type).words = <<>>
      BY <1>3, <3>2, NextCommandIs
    <3>4. s.words = <<>>
      BY <3>1, <3>3
    <3> QED BY <1>2, <2>1, <2>3, <3>4
  <2> QED BY <2>2, <2>3
<1>5. CASE m # n
  <2>1. n \in m + 1..n
    BY <1>1, <1>5
  <2>2. t = [s EXCEPT !.open = FALSE]
    BY <1>5, <2>1, Blanks DEF t, n
  <2>3. t.op = "no" /\ t.words = s.words /\ t.done = s.done
    BY <1>3, <2>2 DEF Readings
  <2> QED BY <1>2, <2>3
<1> QED BY <1>4, <1>5

LEMMA GivenIs ==
    ASSUME NEW q \in States, NEW done \in Seq(GivenCommand),
           HoldsDone(q.cmds, done), NEW type, q.cmds[Len(q.cmds)].type = type,
           NEW argv, HasArguments(q.cmds[Len(q.cmds)].argv, argv)
    PROVE  Gives(q, Append(done, [type |-> type, argv |-> argv]))
<1> DEFINE cs == q.cmds
           n == Len(done)
           d == [type |-> type, argv |-> argv]
           g == Given(q)
           a == Append(done, d)
           G(i) == [type |-> cs[i].type, argv |-> UpToNull(cs[i].argv)]
<1>1. n \in Nat /\ Len(cs) = n + 1 /\ DOMAIN cs = 1..(n + 1)
  <2>1. Len(cs) = n + 1
    BY DEF HoldsDone
  <2>2. DOMAIN cs = 1..Len(cs)
    BY ArgvIs
  <2> QED BY <2>1, <2>2
<1>2. g = [i \in 1..(n + 1) |-> G(i)]
  BY <1>1 DEF Given
<1>3. a = [i \in 1..(n + 1) |-> a[i]] /\ a[n + 1] = d /\ \A i \in 1..n : a[i] = done[i]
  OBVIOUS
<1>4. \A i \in 1..n : cs[i].type = done[i].type /\ HasArguments(cs[i].argv, done[i].argv)
  BY DEF HoldsDone
<1>5. cs[n + 1].type = type /\ HasArguments(cs[n + 1].argv, argv)
  BY <1>1
<1>10. \A i \in DOMAIN cs : Terminated(cs[i].argv)
  <2> SUFFICES ASSUME NEW i \in 1..(n + 1) PROVE Terminated(cs[i].argv)
    BY <1>1
  <2>1. i \in 1..n \/ i = n + 1
    BY <1>1
  <2> QED BY <1>4, <1>5, <2>1 DEF HasArguments
<1>6. \A i \in 1..n : done[i] = [type |-> done[i].type, argv |-> done[i].argv]
  <2>1. \A i \in 1..n : done[i] \in GivenCommand
    OBVIOUS
  <2> HIDE DEF n
  <2> QED BY <2>1 DEF GivenCommand
<1> HIDE DEF cs
<1>7. \A i \in 1..n : G(i) = done[i]
  BY <1>4, <1>6 DEF HasArguments
<1>8. G(n + 1) = d
  BY <1>5 DEF HasArguments
<1> HIDE DEF n, a, g, d, G
<1>9. \A i \in 1..(n + 1) : a[i] = G(i)
  <2> SUFFICES ASSUME NEW i \in 1..(n + 1) PROVE a[i] = G(i)
    OBVIOUS
  <2>1. i \in 1..n \/ i = n + 1
    BY <1>1
  <2> QED BY <1>3, <1>7, <1>8, <2>1
<1> QED BY <1>2, <1>3, <1>9, <1>10 DEF a, g, d, cs, Gives

(* The last command is done with the line.                                 *)
LEMMA LineEnds ==
    ASSUME NEW line, InLine(line), NEW s, s = Settled(ReadTo(line, p.pos - 1)),
           s.open = TRUE, s.quote = "no", ~s.escaped,
           AllBlank(line, p.pos, Len(line)), Becomes(Stop(p))
    PROVE  Reads(p', line)
<1> DEFINE q == Ended(p, "done")
           w == Opened(s).words
           m == p.pos - 1
           n == Len(w)
<1>1. /\ line \in Text /\ Readable(line, MaxArgs) /\ p \in Parsers /\ p.end = "no"
      /\ Reads(p, line)
  BY DEF InLine
<1>2. p \in States /\ s \in Readings /\ m \in 0..Len(line) /\ p.pos \in Nat
  BY <1>1, NextIs
<1>3. Agrees(p, line, s)
  BY <1>1 DEF Reads
<1>4. w = s.words /\ w \in Seq(Text) /\ n >= 1 /\ n \in Nat
  BY <1>2, OpenedIs
<1>5. Argv(p) = w /\ p.element = n /\ p.ret # "error" /\ p.asked = 0
      /\ HoldsDone(p.cmds, s.done) /\ p.cmds[Len(p.cmds)].type = "SINGLE"
  BY <1>3 DEF Agrees, HasWords
<1> HIDE DEF w
<1>6. HasCell(p)
  <2>1. n \in DOMAIN w /\ w[n] \in Text
    BY <1>4
  <2>2. w[n] # NoCell
    BY <2>1, LinesAssumption DEF Text
  <2> QED BY <1>5, <2>1, <2>2 DEF HasCell
<1>7. Stop(p) = q
  BY <1>6 DEF Stop
<1>8. q = [p EXCEPT !.end = "done"]
  BY <1>1 DEF Ended
<1>9. /\ q.end = "done" /\ q.ret = p.ret /\ q.asked = p.asked /\ q.cmds = p.cmds
      /\ q \in States
  BY <1>2, <1>8 DEF States, Locals, Ends
<1> HIDE DEF q
<1>10. p' = q
  BY <1>7, <1>9 DEF Becomes
<1>11. Gives(q, Append(s.done, [type |-> "SINGLE", argv |-> s.words]))
  <2>1. HasArguments(q.cmds[Len(q.cmds)].argv, s.words)
    <3>1. q.cmds[Len(q.cmds)].argv = Argv(p)
      BY <1>2, <1>9, ArgvIs
    <3>2. Len(s.words) < MaxArgs
      BY FitsHere
    <3> QED BY <1>4, <1>5, <3>1, <3>2, UpToNullIs
  <2>2. s.done \in Seq(GivenCommand)
    BY <1>2 DEF Readings
  <2> QED BY <1>5, <1>9, <2>1, <2>2, GivenIs
<1>12. Commands(line) = Append(s.done, [type |-> "SINGLE", argv |-> s.words])
  <2>1. m + 1 = p.pos
    BY <1>2
  <2>2. s.words # <<>>
    BY <1>4
  <2>3. s = Settled(ReadTo(line, m)) /\ AllBlank(line, m + 1, Len(line))
    BY <2>1
  <2> HIDE DEF m
  <2> QED BY <1>1, <1>2, <2>2, <2>3, CommandsAre
<1> QED BY <1>5, <1>9, <1>10, <1>11, <1>12 DEF Reads

LEMMA NulReads ==
    ASSUME NEW line, InLine(line), Nul PROVE Reads(p', line)
<1> DEFINE s == Settled(ReadTo(line, p.pos - 1))
           n == Len(line)
<1>1. /\ line \in Text /\ Readable(line, MaxArgs) /\ p \in Parsers /\ p.end = "no"
      /\ Reads(p, line)
  BY DEF InLine
<1>2. Reading("NUL")
  BY DEF Nul
<1>3. /\ n \in Nat /\ p.pos \in Nat /\ p.pos >= 1 /\ p.pos <= n + 1
      /\ p.pos <= n => At(p, p.pos) \in Character
      /\ p.pos > n => s.open = TRUE
      /\ Ignored(p) <=> s.quote # "no" \/ s.escaped
  BY <1>1, NextIs
<1>4. "NUL" \notin Character
  BY DEF Character
<1>5. At(p, p.pos) = "NUL"
  BY <1>2 DEF Reading
<1>6. ~(p.pos <= n)
  BY <1>3, <1>4, <1>5
<1>7. p.pos > n /\ p.pos - 1 = n
  BY <1>3, <1>6
<1>8. s.open = TRUE /\ s \in Readings
  BY <1>1, <1>3, <1>7, NextIs
<1>9. s.quote = "no" /\ ~s.escaped
  <2> DEFINE t == ReadTo(line, n)
  <2>1. t.quote = "no" /\ ~t.escaped
    BY <1>1 DEF Readable
  <2>2. t \in Readings
    BY <1>1, <1>3, ReadToIs
  <2>3. s = Settled(t)
    BY <1>7
  <2> HIDE DEF s, t
  <2> QED BY <2>1, <2>2, <2>3, SettledIs
<1>10. AllBlank(line, p.pos, n)
  <2>1. \A k \in p.pos..n : FALSE
    <3> HIDE DEF n
    <3> QED BY <1>3, <1>6
  <2> QED BY <2>1 DEF AllBlank
<1>11. Becomes(Stop(p))
  BY <1>3, <1>9 DEF Nul
<1> QED BY <1>8, <1>9, <1>10, <1>11, LineEnds

LEMMA BlankEndsReads ==
    ASSUME NEW line, InLine(line), BlankEnds PROVE Reads(p', line)
<1> DEFINE c == " "
           z == ReadTo(line, p.pos - 1)
           s == Settled(z)
           l == Len(line)
           q == Skipped(p, p.pos)
<1>1. /\ line \in Text /\ Readable(line, MaxArgs) /\ p \in Parsers /\ p.end = "no"
      /\ Reads(p, line)
  BY DEF InLine
<1>2. Reading(c) /\ ~Ignored(p) /\ c # "NUL"
  BY DEF BlankEnds
<1>3. /\ p \in States /\ p.pos \in 1..l /\ p.first <= p.pos
      /\ Agrees(p, line, s) /\ Stands(p, line) /\ s \in Readings /\ s.op = "no"
      /\ line[p.pos] = c
      /\ Ignored(p) <=> s.quote # "no" \/ s.escaped
  BY <1>2, AtCharacter
<1>4. l \in Nat /\ p.pos \in Nat /\ p.pos >= 1 /\ p.pos <= l /\ p.buf = line
      /\ p.pos - 1 \in 0..l
  <2>1. l \in Nat /\ p.buf = line
    BY <1>1, <1>3, TextIs DEF Agrees
  <2> DEFINE i == p.pos
  <2>2. i \in 1..l
    BY <1>3
  <2> HIDE DEF l, i
  <2>3. i \in Nat /\ i >= 1 /\ i <= l /\ i - 1 \in 0..l
    BY <2>1, <2>2
  <2> QED BY <2>1, <2>3 DEF i
<1>5. s.quote = "no" /\ ~s.escaped
  BY <1>2, <1>3
<1>6. s.open = TRUE
  <2>1. s.open
    BY <1>3 DEF Stands
  <2> QED BY <1>3, <2>1 DEF Readings
<1> DEFINE w == s.words
           n == Len(w)
<1>7. /\ w \in Seq(Text) /\ n >= 1 /\ n \in Nat /\ Opened(s).words = w
      /\ Argv(p) = w /\ p.element = n
  <2>1. w \in Seq(Text) /\ n >= 1 /\ Opened(s).words = w
    BY <1>3, <1>6, OpenedIs
  <2>2. Argv(p) = w /\ p.element = n
    BY <1>3, <2>1 DEF Agrees, HasWords
  <2> QED BY <2>1, <2>2
<1>8. HasCell(p)
  <2>1. n \in DOMAIN w /\ w[n] \in Text
    BY <1>7
  <2>2. w[n] # NoCell
    BY <2>1, LinesAssumption DEF Text
  <2> QED BY <1>7, <2>1, <2>2 DEF HasCell
<1> DEFINE R(r) == [r EXCEPT !.element = @ + 1, !.old = r.chars + 1, !.chars = 0,
                             !.cmds[Len(r.cmds)].argv = SubSeq(@, 1, r.element) \o <<<<>>>>]
<1>9. IF q.end # "no" THEN Becomes(q)
      ELSE IF ~HasCell(q) \/ q.element = MaxArgs THEN Becomes(Ended(q, "astray"))
      ELSE Becomes(R(q))
  BY DEF BlankEnds
<1> HIDE DEF s, w, l
<1>10. CASE ~TextFrom(line, p.pos)
  <2> DEFINE i == p.pos
  <2>0. i \in Nat /\ i >= 1 /\ i <= Len(line) + 1
    <3> HIDE DEF i
    <3>1. i \in Nat /\ i >= 1 /\ i <= l /\ l \in Nat
      BY <1>4 DEF i
    <3>2. i <= l + 1
      BY <3>1
    <3> QED BY <3>1, <3>2 DEF l
  <2>1. ~Past(p, p.pos) /\ AtEol(p, p.pos) /\ AllBlank(line, p.pos, l)
    BY <1>1, <1>3, <1>4, <1>10, <2>0, NoTextAhead DEF l
  <2>2. q = Stop(p)
    BY <2>1 DEF Skipped
  <2>3. q.end # "no"
    BY <1>3, <2>2, StopIs
  <2>4. Becomes(Stop(p))
    BY <1>9, <2>2, <2>3
  <2> QED BY <1>5, <1>6, <2>1, <2>4, LineEnds DEF s, l
<1>11. CASE TextFrom(line, p.pos)
  <2> DEFINE j == NonBlank(p, p.pos)
             m == j - 1
             t == [s EXCEPT !.open = FALSE]
             cs == p.cmds
             k == Len(cs)
             b == SubSeq(w, 1, n) \o <<<<>>>>
             f == [cs[k] EXCEPT !.argv = b]
             ds == [cs EXCEPT ![k] = f]
             o == p.chars + 1
             e == n + 1
             r == [p EXCEPT !.pos = m, !.element = e, !.old = o, !.chars = 0, !.cmds = ds]
  <2>1. /\ ~Past(p, p.pos) /\ ~AtEol(p, p.pos) /\ j \in p.pos..l /\ line[j] # " "
        /\ AllBlank(line, p.pos, m)
    BY <1>3, <1>4, <1>11, TextAhead DEF l
  <2>2. q = [p EXCEPT !.pos = m]
    BY <1>3, <1>4, <1>11, SkippedTo
  <2> DEFINE i == p.pos
  <2>3. j \in i..l /\ i \in Nat /\ i >= 1 /\ i <= l
    BY <1>4, <2>1
  <2>4. j # i
    BY <1>3, <2>1
  <2> HIDE DEF j, i
  <2>5. m \in Nat /\ j = m + 1 /\ m >= i /\ m < l /\ i - 1 \in 0..l /\ m \in ((i - 1) + 1)..l
        /\ (i - 1) + 1 = i /\ m \in 1..l /\ j \in 1..l /\ m \in 0..l
    BY <1>4, <2>3, <2>4
  <2> HIDE DEF m
  <2>6. AllBlank(line, (i - 1) + 1, m)
    BY <2>1, <2>5 DEF i
  <2>7. ReadTo(line, m) = t
    BY <1>1, <1>5, <2>5, <2>6, Blanks DEF s, i, l
  <2>8. /\ t.op = "no" /\ t.open = FALSE /\ t.words = w /\ t.done = s.done
        /\ t.quote = s.quote /\ t.escaped = s.escaped
    BY <1>3 DEF Readings, w
  <2>9. t \in Readings
    BY <1>1, <2>5, <2>7, ReadToIs DEF l
  <2> HIDE DEF t
  <2>10. Settled(t) = t
    BY <2>8, <2>9, SettledIs
  <2>11. Opened(t).words = Append(w, <<>>)
    BY <2>8, <2>9, OpenedIs
  <2>12. n + 1 <= MaxArgs /\ MaxArgs \in Nat
    <3>1. n < MaxArgs
      BY FitsHere DEF s, w
    <3> QED BY <1>7, <3>1, LinesAssumption
  <2>13. HasCell(q) /\ q.end = "no" /\ q.element # MaxArgs
    <3>1. q.end = "no" /\ q.element = n /\ q.cmds = p.cmds
      BY <1>1, <1>3, <1>7, <2>2 DEF States, Locals
    <3>2. HasCell(q)
      BY <1>7, <1>8, <3>1 DEF HasCell, Argv
    <3> HIDE DEF q
    <3>3. n # MaxArgs
      BY <1>7, <2>12
    <3> QED BY <3>1, <3>2, <3>3
  <2>14. b = Append(w, <<>>)
    BY <1>7
  <2>15. R(q) = r
    <3>1. cs[k].argv = w
      BY <1>3, <1>7, ArgvIs
    <3>2. /\ q.element = n /\ q.chars = p.chars /\ q.cmds = cs
      BY <1>3, <1>7, <2>2 DEF States, Locals
    <3>3. R(q) = [q EXCEPT !.element = e, !.old = o, !.chars = 0,
                     !.cmds = [cs EXCEPT ![k].argv = SubSeq(@, 1, n) \o <<<<>>>>]]
      BY <1>3, <2>2, <3>2 DEF States, Locals
    <3>4. [cs EXCEPT ![k].argv = SubSeq(@, 1, n) \o <<<<>>>>] = ds
      BY <3>1
    <3> HIDE DEF ds, R
    <3> QED BY <2>2, <3>3, <3>4
  <2>16. Becomes(r)
    BY <1>9, <2>13, <2>15
  <2> HIDE DEF R, q
  <2>17. cs \in Seq(Command) /\ k \in Nat /\ k >= 1 /\ k \in 1..k /\ Len(cs) = k
    <3>1. cs \in CommandList /\ Len(cs) \in Nat /\ Len(cs) >= 1
      BY <1>3, ArgvIs DEF States, Locals
    <3>2. cs \in Seq(Command)
      BY <3>1 DEF CommandList
    <3> HIDE DEF cs
    <3> QED BY <3>1, <3>2
  <2>18. cs[k] \in Command
    BY <2>17
  <2> DEFINE g == With(p, b)
  <2>19. g = ds
    BY DEF With
  <2>20. ds \in CommandList /\ Len(ds) >= 1
    <3>1. \A a \in 1..n : w[a] # NoCell /\ w[a] \in Cell
      <4>1. \A a \in 1..n : w[a] \in Text
        BY <1>7
      <4> QED BY <4>1, LinesAssumption DEF Text, Cell
    <3>2. b \in Seq(Cell) /\ Len(b) = n + 1 /\ \A a \in 1..n : b[a] = w[a]
      <4>1. <<>> \in Cell
        BY DEF Cell
      <4>2. w \in Seq(Cell)
        BY <1>7, <3>1
      <4> HIDE DEF b
      <4> QED BY <1>7, <2>14, <4>1, <4>2
    <3> HIDE DEF b
    <3>3. \A a \in 1..Len(b) : a < Len(b) => b[a] # NoCell
      BY <1>7, <3>1, <3>2
    <3>4. b \in Arguments
      BY <1>7, <3>2, <3>3 DEF Arguments
    <3> HIDE DEF g, ds
    <3>5. g \in CommandList /\ Len(g) >= 1
      BY <1>3, <3>4, WithIs DEF g
    <3> QED BY <2>19, <3>5
  <2> HIDE DEF cs, k, b, g
  <2>21. Len(ds) = k /\ ds[k] = f /\ \A a \in 1..k : a # k => ds[a] = cs[a]
    <3> HIDE DEF f
    <3> QED BY <2>17
  <2>22. f.argv = b /\ f.type = cs[k].type
    BY <2>18 DEF Command
  <2> HIDE DEF f, ds
  <2>23. e \in 0..MaxArgs /\ o \in Nat
    <3>1. p.chars \in Nat
      BY <1>3 DEF States, Locals
    <3> QED BY <1>7, <2>12, <3>1
  <2> HIDE DEF e, o
  <2>24. /\ r \in States /\ r.end = "no" /\ r.first = p.first /\ r.pos = m /\ r.buf = p.buf
         /\ r.redirecting = p.redirecting /\ r.ret = p.ret /\ r.asked = p.asked
         /\ r.squote = p.squote /\ r.dquote = p.dquote /\ r.cmds = ds
         /\ r.element = e /\ r.chars = 0
    BY <1>1, <1>3, <2>5, <2>20, <2>23 DEF States, Locals
  <2> HIDE DEF r
  <2>25. HasWords(r, Opened(t).words)
    <3>1. Argv(r) = b
      BY <2>21, <2>22, <2>24 DEF Argv, Last
    <3>2. Len(b) = n + 1 /\ b[n + 1] = <<>> /\ Len(<<>>) = 0
      BY <1>7, <2>14
    <3> QED BY <2>11, <2>14, <2>24, <3>1, <3>2 DEF HasWords, e
  <2>26. Agrees(r, line, t)
    <3>1. /\ p.buf = line /\ p.redirecting = "no" /\ p.ret # "error" /\ p.asked = 0
          /\ p.squote = (s.quote = "'") /\ p.dquote = (s.quote = "\"")
          /\ HoldsDone(cs, s.done) /\ cs[k].type = "SINGLE"
      BY <1>3 DEF Agrees, cs, k
    <3>2. HoldsDone(ds, t.done)
      <4>1. k = Len(s.done) + 1
        BY <2>17, <3>1 DEF HoldsDone
      <4>2. s.done \in Seq(GivenCommand)
        BY <1>3 DEF Readings
      <4>3. Len(s.done) \in Nat
        BY <4>2
      <4>4. \A a \in 1..Len(s.done) : ds[a] = cs[a]
        BY <2>21, <4>1, <4>3
      <4> QED BY <2>8, <2>21, <3>1, <4>1, <4>4 DEF HoldsDone
    <3>3. ds[Len(ds)].type = "SINGLE"
      BY <2>21, <2>22, <3>1
    <3> QED BY <2>8, <2>24, <2>25, <3>1, <3>2, <3>3 DEF Agrees
  <2>27. MayStand(line, m)
    <3>1. w # <<>>
      BY <1>7
    <3>2. line[j] \in Character
      BY <1>1, <2>5 DEF Text, l
    <3>3. line[m + 1] # " " /\ line[m + 1] # "no"
      BY <2>1, <2>5, <3>2 DEF Character
    <3> QED BY <2>5, <2>7, <2>8, <2>10, <3>1, <3>3 DEF MayStand, l
  <2>28. r.first <= m
    <3>1. p.first \in Nat
      BY <1>3 DEF States, Locals
    <3>2. p.first <= i
      BY <1>3 DEF i
    <3> QED BY <2>3, <2>5, <2>24, <3>1, <3>2
  <2>29. Agrees(r, line, Settled(ReadTo(line, m)))
    BY <2>7, <2>10, <2>26
  <2> QED BY <1>1, <2>5, <2>16, <2>24, <2>27, <2>28, <2>29, MovesOn DEF l
<1> QED BY <1>10, <1>11

-----------------------------------------------------------------------------
(* The operators                                                           *)

(* Where there is text, no more of the line is asked for.                  *)
LEMMA NotAsked ==
    ASSUME NEW q \in States, NEW z, z.buf = q.buf,
           NEW i \in Nat, i >= 1, TextFrom(q.buf, i)
    PROVE  AskedAt(z, i) = {z}
<1>1. ~Past(q, i) /\ ~AtEol(q, i)
  BY TextAhead
<1>2. ~Past(z, i) /\ ~AtEol(z, i)
  BY <1>1 DEF Past, AtEol, NonBlank, At
<1> QED BY <1>2 DEF AskedAt

(* What is read with the first half of an operator.                        *)
FirstHalf(v, s, c) ==
    /\ v.op = c /\ v.words = s.words /\ v.done = s.done
    /\ v.open = FALSE /\ v.quote = "no" /\ v.escaped = FALSE
    /\ Follows(Settled(v), s, IF c = "&" THEN "BACKGROUND" ELSE "PIPED")

LEMMA OperatorIs ==
    ASSUME NEW line, InLine(line), NEW c \in {"&", "|"}, Reading(c), ~Ignored(p),
           NEW s, s = Settled(ReadTo(line, p.pos - 1)),
           NEW v, v = ReadTo(line, p.pos)
    PROVE  /\ line \in Text /\ p \in Parsers /\ p \in States /\ p.end = "no"
           /\ p.buf = line /\ Agrees(p, line, s)
           /\ s \in Readings /\ s.quote = "no" /\ s.escaped = FALSE /\ s.op = "no"
           /\ EndsCommand(s) /\ p.pos \in 1..Len(line)
           /\ c = "|" => TextFrom(line, p.pos + 2)
           /\ v \in Readings /\ FirstHalf(v, s, c)
<1> DEFINE r == ReadTo(line, p.pos - 1)
<1>1. c # "NUL" /\ c # " " /\ c \in {"&", "|"}
  OBVIOUS
<1>2. /\ p \in States /\ p.pos \in 1..Len(line) /\ Agrees(p, line, s)
      /\ r \in Readings /\ s \in Readings /\ s.op = "no" /\ r.op # c
      /\ line[p.pos] = c /\ c \in Character /\ Plain(line, p.pos)
      /\ Ignored(p) <=> s.quote # "no" \/ s.escaped
      /\ v = Read(r, c) /\ v \in Readings
  BY <1>1, AtCharacter
<1>3. s.quote = "no" /\ s.escaped = FALSE
  BY <1>2 DEF Readings
<1>4. EndsCommand(s) /\ (c = "|" => TextFrom(line, p.pos + 2))
  <2> DEFINE i == p.pos
  <2>1. s = Settled(ReadTo(line, i - 1)) /\ line[i] = c /\ Plain(line, i) /\ r = ReadTo(line, i - 1)
    BY <1>2
  <2> HIDE DEF i
  <2>2. EndsCommand(s) /\ (c = "|" => TextFrom(line, i + 2))
    BY <1>1, <1>2, <1>3, <2>1 DEF Plain
  <2> QED BY <2>2 DEF i
<1>12. s = Settled(r)
  OBVIOUS
<1> HIDE DEF r
<1>5. v = [s EXCEPT !.open = FALSE, !.op = c]
  <2>1. ~s.escaped
    BY <1>3
  <2> QED BY <1>1, <1>2, <1>3, <1>12, <2>1, ReadAs
<1>6. /\ v.op = c /\ v.words = s.words /\ v.done = s.done
      /\ v.open = FALSE /\ v.quote = "no" /\ v.escaped = FALSE
  BY <1>2, <1>3, <1>5 DEF Readings
<1> DEFINE type == IF c = "&" THEN "BACKGROUND" ELSE "PIPED"
<1>7. Settled(v) = NextCommand(v, type)
  BY <1>6 DEF Settled
<1>8. type \in CommandTypes
  BY DEF CommandTypes
<1> HIDE DEF type
<1>9. Follows(Settled(v), s, type)
  <2>1. /\ NextCommand(v, type).open = FALSE /\ NextCommand(v, type).words = <<>>
        /\ NextCommand(v, type).done = Append(v.done, [type |-> type, argv |-> v.words])
    BY <1>2, <1>8, NextCommandIs
  <2> QED BY <1>6, <1>7, <2>1 DEF Follows
<1>10. p.buf = line
  BY <1>2 DEF Agrees
<1>11. FirstHalf(v, s, c)
  BY <1>6, <1>9 DEF FirstHalf, type
<1> QED BY <1>2, <1>3, <1>4, <1>10, <1>11 DEF InLine

(* What is read with the second.                                           *)
LEMMA SecondHalfIs ==
    ASSUME NEW line \in Text, NEW c \in {"&", "|"}, NEW s \in Readings,
           NEW i \in 1..Len(line), line[i] = c,
           NEW v, v = ReadTo(line, i - 1), v \in Readings, FirstHalf(v, s, c),
           NEW t, t = ReadTo(line, i)
    PROVE  /\ t \in Readings /\ t.op = "no" /\ Settled(t) = t
           /\ Follows(t, s, IF c = "&" THEN "RUN_AND" ELSE "RUN_OR")
<1> DEFINE type == IF c = "&" THEN "RUN_AND" ELSE "RUN_OR"
<1>1. t = Read(v, c)
  BY ReadToNext
<1>2. v.op = c /\ v.words = s.words /\ v.done = s.done /\ v.open = FALSE
  BY DEF FirstHalf
<1>3. c \in Character /\ type \in CommandTypes
  BY DEF Character, CommandTypes
<1>4. t = NextCommand(v, type)
  BY <1>1, <1>2, <1>3, ReadAs
<1> HIDE DEF type
<1>5. /\ t.done = Append(v.done, [type |-> type, argv |-> v.words])
      /\ t.words = <<>> /\ t.open = FALSE /\ t.op = "no" /\ t \in Readings
  <2>1. ~v.open
    BY <1>2
  <2> DEFINE n == NextCommand(v, type)
  <2>2. /\ n.done = Append(v.done, [type |-> type, argv |-> v.words])
        /\ n.words = <<>> /\ n.open = FALSE /\ n.op = "no" /\ n \in Readings
    BY <1>3, <2>1, NextCommandIs
  <2> HIDE DEF n
  <2>3. t = n
    BY <1>4 DEF n
  <2> QED BY <2>2, <2>3
<1>6. Settled(t) = t
  BY <1>5, SettledIs
<1>7. Follows(t, s, type)
  BY <1>2, <1>5 DEF Follows
<1> QED BY <1>5, <1>6, <1>7 DEF type

(* On to the command behind one half of an operator.                       *)
LEMMA HalfReads ==
    ASSUME NEW line, InLine(line), NEW c \in {"&", "|"}, Reading(c), ~Ignored(p),
           NEW back \in {0, 1}, NEW type \in CommandTypes,
           type = (IF c = "&" THEN "BACKGROUND" ELSE "PIPED"),
           At(p, p.pos + 1) # c, TextFrom(line, p.pos + 1),
           Becomes(IntoNext(Chained(UndoBlank(p, back), type), p.pos + 1))
    PROVE  Reads(p', line)
<1> DEFINE s == Settled(ReadTo(line, p.pos - 1))
           v == ReadTo(line, p.pos)
           i == p.pos + 1
           j == p.pos
<1>1. /\ line \in Text /\ p \in States /\ p.buf = line /\ Agrees(p, line, s)
      /\ s \in Readings /\ s.quote = "no" /\ EndsCommand(s)
      /\ p.pos \in 1..Len(line) /\ FirstHalf(v, s, c)
  BY OperatorIs
<1>2. Len(line) \in Nat
  BY <1>1, TextIs
<1> DEFINE l == Len(line)
<1>3. i \in 1..l /\ i > j /\ i - 1 = j /\ i \in Nat /\ i >= 1
  <2>1. PICK k \in i..l : line[k] # " "
    BY DEF TextFrom
  <2>2. k \in i..l /\ j \in 1..l /\ i = j + 1
    BY <1>1
  <2> HIDE DEF l, i, j
  <2> QED BY <1>2, <2>2 DEF l
<1>4. line[i] # c
  <2>1. i <= Len(p.buf)
    <3> HIDE DEF i, l
    <3>1. i <= l
      BY <1>2, <1>3 DEF l
    <3> QED BY <1>1, <3>1 DEF l
  <2> HIDE DEF i
  <2>2. At(p, i) = line[i]
    BY <1>1, <1>3, <2>1, AtIs
  <2> QED BY <2>2 DEF i
<1> DEFINE t == Settled(v)
<1>5. Follows(t, s, type) /\ v.op = c
  BY <1>1 DEF FirstHalf
<1>6. v = ReadTo(line, i - 1)
  BY <1>3
<1>7. Becomes(IntoNext(Chained(UndoBlank(p, back), type), i)) /\ TextFrom(line, i)
  OBVIOUS
<1>8. t = Settled(ReadTo(line, i - 1)) /\ line[i] # ReadTo(line, i - 1).op /\ i > p.pos
  BY <1>3, <1>4, <1>5, <1>6
<1>9. i \in 1..Len(line)
  BY <1>3
<1> HIDE DEF s, v, t, i
<1> QED BY <1>1, <1>5, <1>7, <1>8, <1>9, IntoNextReads DEF s

(* And behind both.                                                        *)
LEMMA BothHalvesRead ==
    ASSUME NEW line, InLine(line), NEW c \in {"&", "|"}, Reading(c), ~Ignored(p),
           NEW back \in {0, 1}, NEW type \in CommandTypes,
           type = (IF c = "&" THEN "RUN_AND" ELSE "RUN_OR"),
           At(p, p.pos + 1) = c, TextFrom(line, p.pos + 2),
           Becomes(IntoNext(Chained(UndoBlank(p, back), type), p.pos + 2))
    PROVE  Reads(p', line)
<1> DEFINE s == Settled(ReadTo(line, p.pos - 1))
           v == ReadTo(line, p.pos)
           h == p.pos + 1
           i == p.pos + 2
           j == p.pos
           l == Len(line)
<1>1. /\ line \in Text /\ p \in States /\ p.buf = line /\ Agrees(p, line, s)
      /\ s \in Readings /\ s.quote = "no" /\ EndsCommand(s)
      /\ p.pos \in 1..Len(line) /\ v \in Readings /\ FirstHalf(v, s, c)
  <2>1. c \in {"&", "|"} /\ Reading(c) /\ ~Ignored(p) /\ InLine(line)
    OBVIOUS
  <2> HIDE DEF s, v
  <2> QED BY ONLY <2>1, OperatorIs DEF s, v
<1>2. l \in Nat
  BY <1>1, TextIs
<1>3. i \in 1..l /\ i > j /\ i - 1 = h /\ h - 1 = j /\ h \in Nat /\ h >= 1 /\ h \in 1..l
      /\ h <= l
  <2>1. PICK k \in i..l : line[k] # " "
    BY DEF TextFrom
  <2>2. k \in i..l /\ j \in 1..l /\ i = j + 2 /\ h = j + 1
    BY <1>1
  <2> HIDE DEF l, i, j, h
  <2> QED BY <1>2, <2>2
<1>4. line[h] = c
  <2>1. h <= Len(p.buf)
    BY <1>1, <1>3
  <2> HIDE DEF h
  <2>2. At(p, h) = line[h]
    BY <1>1, <1>3, <2>1, AtIs
  <2> QED BY <2>2 DEF h
<1> DEFINE t == ReadTo(line, h)
<1>5. v = ReadTo(line, h - 1) /\ t = ReadTo(line, i - 1)
  BY <1>3
<1>6. t \in Readings /\ t.op = "no" /\ Settled(t) = t /\ Follows(t, s, type)
  <2> HIDE DEF s, v, h
  <2> QED BY <1>1, <1>3, <1>4, <1>5, SecondHalfIs DEF l
<1>7. Becomes(IntoNext(Chained(UndoBlank(p, back), type), i)) /\ TextFrom(line, i)
  OBVIOUS
<1>8. line[i] # "no"
  <2> HIDE DEF i
  <2>1. line[i] \in Character
    BY <1>1, <1>3 DEF Text, l
  <2> QED BY <2>1 DEF Character
<1>9. /\ t = Settled(ReadTo(line, i - 1)) /\ line[i] # ReadTo(line, i - 1).op
      /\ i > p.pos /\ i \in 1..Len(line)
  <2> HIDE DEF t
  <2>1. t = Settled(ReadTo(line, i - 1)) /\ ReadTo(line, i - 1).op = "no"
    BY <1>5, <1>6
  <2> QED BY <1>3, <1>8, <2>1
<1> HIDE DEF s, v, t, i
<1> QED BY <1>1, <1>6, <1>7, <1>9, IntoNextReads DEF s

(* & is the last there is.                                                 *)
LEMMA BackgroundEnds ==
    ASSUME NEW line, InLine(line), Reading("&"), ~Ignored(p), AtEol(p, p.pos + 1),
           NEW q, q = UndoBlank(p, 1),
           Becomes(Stop([q EXCEPT !.cmds[Len(q.cmds)].type = "BACKGROUND"]))
    PROVE  Reads(p', line)
<1> DEFINE c == "&"
           s == Settled(ReadTo(line, p.pos - 1))
           v == ReadTo(line, p.pos)
           i == p.pos + 1
           j == p.pos
           l == Len(line)
           cs == q.cmds
           n == Len(cs)
           f == [cs[n] EXCEPT !.type = "BACKGROUND"]
           ds == [cs EXCEPT ![n] = f]
           u == [q EXCEPT !.cmds = ds]
           e == [u EXCEPT !.end = "done"]
<1>1. /\ line \in Text /\ p \in Parsers /\ p \in States /\ p.end = "no"
      /\ p.buf = line /\ Agrees(p, line, s)
      /\ s \in Readings /\ s.quote = "no" /\ EndsCommand(s)
      /\ p.pos \in 1..Len(line) /\ v \in Readings /\ FirstHalf(v, s, c)
  <2>1. c \in {"&", "|"} /\ Reading(c) /\ ~Ignored(p)
    OBVIOUS
  <2> HIDE DEF c
  <2> QED BY <2>1, OperatorIs
<1>2. FirstHalf(v, s, "&")
  BY <1>1
<1>3. /\ v.quote = "no" /\ v.escaped = FALSE /\ Follows(Settled(v), s, "BACKGROUND")
  BY <1>2 DEF FirstHalf
<1>4. /\ q \in States /\ q.end = "no" /\ q.ret = p.ret /\ q.asked = p.asked
      /\ HoldsDone(cs, s.done) /\ HasArguments(Argv(q), s.words) /\ HasCell(q)
  <2> DEFINE one == 1
  <2>1. one \in {0, 1} /\ one = 1 /\ q = UndoBlank(p, one) /\ Len(s.words) < MaxArgs
    BY FitsHere
  <2> HIDE DEF one, s
  <2> QED BY <1>1, <2>1, UndoneIs
<1>5. cs \in CommandList /\ n \in Nat /\ n >= 1 /\ Argv(q) = cs[n].argv
  BY <1>4, ArgvIs DEF States, Locals
<1>6. cs \in Seq(Command) /\ n \in 1..n /\ Len(cs) = n
  <2>1. cs \in Seq(Command)
    BY <1>5 DEF CommandList
  <2> HIDE DEF cs
  <2> QED BY <1>5, <2>1
<1>7. f.type = "BACKGROUND" /\ f.argv = cs[n].argv /\ f \in Command
  <2>1. cs[n] \in Command
    <3> HIDE DEF cs, n
    <3> QED BY <1>6
  <2> HIDE DEF cs, n
  <2> QED BY <2>1 DEF Command, CommandTypes
<1>8. [q EXCEPT !.cmds[Len(q.cmds)].type = "BACKGROUND"] = u
  OBVIOUS
<1> HIDE DEF f
<1>9. ds \in Seq(Command) /\ Len(ds) = n /\ ds[n] = f /\ \A a \in 1..n : a # n => ds[a] = cs[a]
  <2> HIDE DEF cs, n
  <2> QED BY <1>6, <1>7
<1> HIDE DEF ds
<1>10. /\ u \in States /\ u.end = "no" /\ u.ret = p.ret /\ u.asked = p.asked
       /\ u.cmds = ds /\ u.element = q.element
  <2>1. ds \in CommandList /\ Len(ds) >= 1
    BY <1>5, <1>9 DEF CommandList
  <2> HIDE DEF n
  <2> QED BY <1>4, <2>1 DEF States, Locals
<1>11. Argv(u) = Argv(q)
  BY <1>5, <1>7, <1>9, <1>10 DEF Argv, Last
<1>12. HasCell(u)
  BY <1>4, <1>10, <1>11 DEF HasCell
<1> HIDE DEF u
<1>13. Stop(u) = e
  BY <1>10, <1>12 DEF Stop, Ended
<1>14. e.end = "done" /\ e.ret = p.ret /\ e.asked = p.asked /\ e.cmds = ds /\ e \in States
  BY <1>10 DEF States, Locals, Ends
<1> HIDE DEF e
<1>15. p' = e
  BY <1>8, <1>13, <1>14 DEF Becomes
<1>16. Gives(e, Append(s.done, [type |-> "BACKGROUND", argv |-> s.words]))
  <2>1. HoldsDone(ds, s.done)
    <3>1. n = Len(s.done) + 1 /\ \A k \in 1..Len(s.done) :
              cs[k].type = s.done[k].type /\ HasArguments(cs[k].argv, s.done[k].argv)
      BY <1>4 DEF HoldsDone
    <3>2. s.done \in Seq(GivenCommand)
      BY <1>1 DEF Readings
    <3>3. Len(s.done) \in Nat
      BY <3>2
    <3> HIDE DEF cs, n, s
    <3>4. \A k \in 1..Len(s.done) : ds[k] = cs[k]
      BY <1>9, <3>1, <3>3
    <3> QED BY <1>9, <3>1, <3>4 DEF HoldsDone
  <2>2. ds[Len(ds)].type = "BACKGROUND" /\ ds[Len(ds)].argv = Argv(q)
    BY <1>5, <1>7, <1>9
  <2>3. s.done \in Seq(GivenCommand)
    BY <1>1 DEF Readings
  <2> HIDE DEF s
  <2> QED BY <1>4, <1>14, <2>1, <2>2, <2>3, GivenIs
<1>17. l \in Nat /\ j \in Nat /\ i \in Nat /\ i >= 1 /\ i <= l + 1 /\ j \in 0..l /\ j + 1 = i
  <2>1. l \in Nat /\ j \in 1..l
    BY <1>1, TextIs
  <2> HIDE DEF l, j
  <2>2. j \in Nat /\ j >= 1 /\ j <= l /\ j + 1 <= l + 1 /\ j \in 0..l /\ i = j + 1
    BY <2>1 DEF j
  <2> QED BY <2>1, <2>2
<1>18. AllBlank(line, j + 1, l)
  <2> HIDE DEF i
  <2>1. AtEol(p, i)
    BY DEF i
  <2>2. ~TextFrom(p.buf, i)
    BY <1>1, <1>17, <2>1, TextAhead
  <2>3. i <= Len(p.buf) + 1
    BY <1>1, <1>17
  <2>4. AllBlank(p.buf, i, Len(p.buf))
    BY <1>1, <1>17, <2>2, <2>3, NoTextAhead
  <2> QED BY <1>1, <1>17, <2>4
<1>19. Commands(line) = Append(s.done, [type |-> "BACKGROUND", argv |-> s.words])
  <2> DEFINE t == Settled(v)
  <2>1. t.quote = "no" /\ ~t.escaped
    BY <1>1, <1>3, SettledIs
  <2>2. t.words = <<>> /\ t.done = Append(s.done, [type |-> "BACKGROUND", argv |-> s.words])
    BY <1>3 DEF Follows
  <2>3. t = Settled(ReadTo(line, j))
    OBVIOUS
  <2> HIDE DEF t, j, s
  <2>4. Commands(line) = t.done
    BY <1>1, <1>17, <1>18, <2>1, <2>2, <2>3, CommandsAre DEF l
  <2> QED BY <2>2, <2>4
<1>20. p.ret # "error" /\ p.asked = 0
  BY <1>1 DEF Agrees
<1> QED BY <1>14, <1>15, <1>16, <1>19, <1>20 DEF Reads

(* What is asked behind an operator is not asked where there is text.      *)
LEMMA NotAskedBehind ==
    ASSUME NEW line, InLine(line), NEW c \in {"&", "|"}, Reading(c), ~Ignored(p),
           NEW back \in {0, 1}, NEW type \in CommandTypes, TextFrom(line, p.pos + 2)
    PROVE  LET z == Chained(UndoBlank(p, back), type)
           IN  AskedAt(z, p.pos + 2) = {z}
<1> DEFINE s == Settled(ReadTo(line, p.pos - 1))
           q == UndoBlank(p, back)
           z == Chained(q, type)
           i == p.pos + 2
<1>1. /\ line \in Text /\ p \in Parsers /\ p \in States /\ p.end = "no"
      /\ p.buf = line /\ Agrees(p, line, s) /\ s \in Readings /\ EndsCommand(s)
      /\ p.pos \in 1..Len(line) /\ Len(s.words) < MaxArgs
  BY OperatorIs, FitsHere
<1> HIDE DEF s
<1>2. q \in States /\ Same(p, q)
  BY <1>1, UndoneIs
<1> HIDE DEF q
<1>3. Same(q, z)
  BY <1>2, ChainedIs
<1>4. z.buf = p.buf
  BY <1>2, <1>3 DEF Same
<1> HIDE DEF z
<1>5. i \in Nat /\ i >= 1
  BY <1>1
<1>6. TextFrom(p.buf, i)
  BY <1>1
<1> HIDE DEF i
<1>7. AskedAt(z, i) = {z}
  BY <1>1, <1>4, <1>5, <1>6, NotAsked
<1> QED BY <1>7 DEF i, z, q

LEMMA AmpersandReads ==
    ASSUME NEW line, InLine(line), Ampersand PROVE Reads(p', line)
<1> DEFINE c == "&"
           one == 1
           q == UndoBlank(p, one)
           i == p.pos + 1
           s == Settled(ReadTo(line, p.pos - 1))
           v == ReadTo(line, p.pos)
<1>1. Reading("&") /\ ~Ignored(p) /\ c \in {"&", "|"} /\ Reading(c) /\ c = "&"
      /\ one \in {0, 1} /\ q = UndoBlank(p, 1)
      /\ "RUN_AND" \in CommandTypes /\ "BACKGROUND" \in CommandTypes
  BY DEF Ampersand, CommandTypes
<1>2. IF AtEol(p, i)
      THEN Becomes(Stop([q EXCEPT !.cmds[Len(q.cmds)].type = "BACKGROUND"]))
      ELSE IF At(p, i) # c
      THEN Becomes(IntoNext(Chained(q, "BACKGROUND"), i))
      ELSE \E r \in AskedAt(Chained(q, "RUN_AND"), p.pos + 2) :
               Becomes(IntoNext(r, p.pos + 2))
  BY DEF Ampersand
<1>3. CASE AtEol(p, i)
  <2>1. AtEol(p, p.pos + 1)
    BY <1>3
  <2>2. Becomes(Stop([q EXCEPT !.cmds[Len(q.cmds)].type = "BACKGROUND"]))
    BY <1>2, <1>3
  <2> HIDE DEF q
  <2> QED BY <1>1, <2>1, <2>2, BackgroundEnds
<1> HIDE DEF c, one
<1>4. /\ line \in Text /\ p \in States /\ p.buf = line /\ p.pos \in 1..Len(line)
      /\ v \in Readings /\ FirstHalf(v, s, c)
  BY <1>1, OperatorIs
<1> HIDE DEF s, v
<1> DEFINE l == Len(line)
           j == p.pos
<1>5. l \in Nat /\ j \in 1..l /\ i \in Nat /\ i >= 1 /\ i <= l + 1 /\ i - 1 = j
  <2>1. l \in Nat /\ j \in 1..l /\ i = j + 1
    BY <1>4, TextIs
  <2> HIDE DEF l, j, i
  <2> QED BY <2>1
<1>6. CASE ~AtEol(p, i) /\ At(p, i) # c
  <2>1. TextFrom(line, i)
    <3> HIDE DEF i
    <3>1. i <= Len(p.buf) + 1
      BY <1>4, <1>5
    <3> QED BY <1>4, <1>5, <1>6, <3>1, NoTextAhead
  <2> DEFINE type == "BACKGROUND"
  <2>2. type \in CommandTypes /\ type = IF c = "&" THEN "BACKGROUND" ELSE "PIPED"
    BY <1>1
  <2>3. Becomes(IntoNext(Chained(q, type), i))
    BY <1>2, <1>6
  <2> HIDE DEF type
  <2> QED BY <1>1, <1>6, <2>1, <2>2, <2>3, HalfReads
<1>7. CASE ~AtEol(p, i) /\ At(p, i) = c
  <2>1. i \in 1..l /\ line[i] = c
    <3>1. i <= l
      <4>1. c # "NUL"
        BY <1>1
      <4> HIDE DEF i, l
      <4>2. i > l => At(p, i) = "NUL"
        BY <1>4, <1>5, AtIs DEF l
      <4>3. ~(i > l)
        BY <1>7, <4>1, <4>2
      <4> QED BY <1>5, <4>3
    <3> HIDE DEF i
    <3>2. i <= Len(p.buf)
      BY <1>4, <3>1
    <3>3. At(p, i) = line[i]
      BY <1>4, <1>5, <3>2, AtIs
    <3>4. i \in 1..l
      <4> HIDE DEF l
      <4> QED BY <1>5, <3>1
    <3> QED BY <1>7, <3>3, <3>4
  <2>2. TextFrom(line, i + 1)
    <3>1. Plain(line, i)
      <4> HIDE DEF i
      <4>1. Readable(line, MaxArgs)
        BY DEF InLine
      <4> QED BY <2>1, <4>1 DEF Readable
    <3>2. v = ReadTo(line, i - 1) /\ v.op = "&" /\ v.quote = "no" /\ v.escaped = FALSE
      BY <1>1, <1>4, <1>5 DEF FirstHalf, v
    <3>3. Settled(v).quote = "no" /\ ~Settled(v).escaped
      BY <1>4, <3>2, SettledIs
    <3>4. line[i] = "&"
      BY <1>1, <2>1
    <3> HIDE DEF i
    <3> QED BY <3>1, <3>2, <3>3, <3>4 DEF Plain
  <2>3. p.pos + 2 = i + 1
    <3>1. j \in Nat /\ i = j + 1
      BY <1>5
    <3> HIDE DEF i
    <3> QED BY <3>1
  <2>4. TextFrom(line, p.pos + 2)
    BY <2>2, <2>3
  <2> DEFINE type == "RUN_AND"
             z == Chained(q, type)
  <2>5. type \in CommandTypes /\ type = IF c = "&" THEN "RUN_AND" ELSE "RUN_OR"
    BY <1>1
  <2>6. \E r \in AskedAt(z, p.pos + 2) : Becomes(IntoNext(r, p.pos + 2))
    BY <1>2, <1>7
  <2> HIDE DEF type
  <2>7. AskedAt(z, p.pos + 2) = {z}
    BY <1>1, <2>4, <2>5, NotAskedBehind
  <2>8. Becomes(IntoNext(z, p.pos + 2))
    <3> HIDE DEF z
    <3> QED BY <2>6, <2>7
  <2>9. At(p, p.pos + 1) = c
    BY <1>7
  <2> QED BY <1>1, <2>4, <2>5, <2>8, <2>9, BothHalvesRead
<1> QED BY <1>3, <1>6, <1>7

LEMMA BarReads ==
    ASSUME NEW line, InLine(line), Bar PROVE Reads(p', line)
<1> DEFINE c == "|"
           none == 0
           q == UndoBlank(p, none)
           i == p.pos + 1
           s == Settled(ReadTo(line, p.pos - 1))
<1>1. c \in {"&", "|"} /\ Reading(c) /\ c = "|" /\ c # "&" /\ ~Ignored(p)
      /\ none \in {0, 1} /\ "RUN_OR" \in CommandTypes /\ "PIPED" \in CommandTypes
  BY DEF Bar, CommandTypes
<1>2. IF At(p, i) = c
      THEN \E r \in AskedAt(Chained(q, "RUN_OR"), p.pos + 2) :
               Becomes(IntoNext(r, p.pos + 2))
      ELSE \E r \in AskedAt(Chained(q, "PIPED"), p.pos + 2) :
               Becomes(IntoNext(r, i))
  BY DEF Bar
<1> HIDE DEF c, none
<1>3. line \in Text /\ p.pos \in 1..Len(line) /\ TextFrom(line, p.pos + 2)
  BY <1>1, OperatorIs
<1>4. \A type \in CommandTypes :
          AskedAt(Chained(q, type), p.pos + 2) = {Chained(q, type)}
  BY <1>1, <1>3, NotAskedBehind
<1> HIDE DEF q
<1>5. CASE At(p, i) = c
  <2> DEFINE type == "RUN_OR"
             z == Chained(q, type)
  <2>1. type \in CommandTypes /\ type = IF c = "&" THEN "RUN_AND" ELSE "RUN_OR"
    BY <1>1
  <2>2. \E r \in AskedAt(z, p.pos + 2) : Becomes(IntoNext(r, p.pos + 2))
    BY <1>2, <1>5
  <2> HIDE DEF type
  <2>3. Becomes(IntoNext(z, p.pos + 2))
    BY <1>4, <2>1, <2>2
  <2>4. At(p, p.pos + 1) = c
    BY <1>5
  <2> QED BY <1>1, <1>3, <2>1, <2>3, <2>4, BothHalvesRead DEF q
<1>6. CASE At(p, i) # c
  <2> DEFINE type == "PIPED"
             z == Chained(q, type)
  <2>1. type \in CommandTypes /\ type = IF c = "&" THEN "BACKGROUND" ELSE "PIPED"
    BY <1>1
  <2>2. \E r \in AskedAt(z, p.pos + 2) : Becomes(IntoNext(r, i))
    BY <1>2, <1>6
  <2> HIDE DEF type, i
  <2>3. Becomes(IntoNext(z, i))
    BY <1>4, <2>1, <2>2
  <2>4. At(p, p.pos + 1) # c
    BY <1>6 DEF i
  <2>5. TextFrom(line, p.pos + 1)
    <3> DEFINE j == p.pos
               l == Len(line)
    <3>1. l \in Nat /\ j \in 1..l
      BY <1>3, TextIs
    <3>2. PICK k \in (j + 2)..l : line[k] # " "
      BY <1>3 DEF TextFrom
    <3> HIDE DEF j, l
    <3>3. k \in (j + 1)..l
      BY <3>1
    <3> QED BY <3>2, <3>3 DEF TextFrom, j, l
  <2> QED BY <1>1, <2>1, <2>3, <2>4, <2>5, HalfReads DEF q, i
<1> QED BY <1>5, <1>6

LEMMA SemicolonReads ==
    ASSUME NEW line, InLine(line), Semicolon PROVE Reads(p', line)
<1> DEFINE c == ";"
           none == 0
           type == "MULTICMD"
           r == ReadTo(line, p.pos - 1)
           s == Settled(r)
           t == ReadTo(line, p.pos)
           j == p.pos
           h == j + 1
           i == j + 2
           l == Len(line)
           q == UndoBlank(p, none)
           w == IntoNext(Chained(q, type), i)
           more == {k \in w.pos..Len(w.buf) + 1 : At(w, k) # c}
<1>1. Reading(c) /\ c # "NUL" /\ c = ";"
  BY DEF Semicolon
<1>2. IF Ignored(p) THEN Becomes(Ended(Written(p), "astray"))
      ELSE IF AtEol(p, h)
           THEN Becomes([Stop(q) EXCEPT !.cmds = Chained(q, type).cmds])
      ELSE IF w.end # "no" THEN Becomes(w)
      ELSE Becomes([w EXCEPT !.pos = Min(more) - 1])
  BY DEF Semicolon
<1> HIDE DEF c
<1>3. /\ p \in States /\ p.pos \in 1..l /\ p.first <= p.pos
      /\ Agrees(p, line, s) /\ r \in Readings /\ s \in Readings /\ r.op # c
      /\ line[p.pos] = c /\ Plain(line, p.pos)
      /\ Ignored(p) <=> s.quote # "no" \/ s.escaped
      /\ t = Read(r, c) /\ t \in Readings /\ c \in Character /\ s.op = "no"
  BY <1>1, AtCharacter
<1>4. line \in Text /\ p \in Parsers /\ p.end = "no" /\ p.buf = line
  BY <1>3 DEF InLine, Agrees
<1>5. /\ s.quote = "no" /\ ~s.escaped /\ EndsCommand(s)
      /\ i <= l /\ line[h] \notin {" ", ";"} /\ line[i] # " "
  <2>1. Plain(line, j) /\ line[j] = ";" /\ s = Settled(ReadTo(line, j - 1))
    BY <1>1, <1>3
  <2>2. h = j + 1 /\ i = j + 2
    OBVIOUS
  <2> HIDE DEF j, s, h, i, l
  <2> QED BY <2>1, <2>2 DEF Plain, l
<1>6. none \in {0, 1} /\ type \in CommandTypes
  BY DEF CommandTypes
<1> HIDE DEF none, type
<1>7. l \in Nat /\ j \in 1..l /\ j \in Nat /\ j >= 1 /\ i <= l /\ h = j + 1 /\ i = j + 2
  <2>1. j \in 1..l /\ l \in Nat
    BY <1>3, <1>4, TextIs
  <2>2. j + 2 <= l
    BY <1>5
  <2> HIDE DEF l, j
  <2> QED BY <2>1, <2>2
<1> HIDE DEF r, s, t
<1>8. t = NextCommand(s, "MULTICMD")
  <2>1. s.quote = "no" /\ ~s.escaped
    BY <1>5
  <2> QED BY <1>1, <1>3, <2>1, ReadAs DEF s
<1>9. /\ t.done = Append(s.done, [type |-> type, argv |-> s.words])
      /\ t.words = <<>> /\ t.open = FALSE /\ t.op = "no" /\ t.quote = "no"
  <2> DEFINE n == NextCommand(s, type)
  <2>1. /\ n.done = Append(s.done, [type |-> type, argv |-> s.words])
        /\ n.words = <<>> /\ n.open = FALSE /\ n.op = "no" /\ n.quote = s.quote
    BY <1>3, <1>6, NextCommandIs
  <2> HIDE DEF n
  <2>2. t = n
    BY <1>8 DEF n, type
  <2> QED BY <1>5, <2>1, <2>2
<1>10. Follows(t, s, type)
  BY <1>9 DEF Follows
<1> HIDE DEF j, h, i, q, w
<1>11. h \in 1..l /\ i \in 1..l /\ h \in Nat /\ h >= 1 /\ i \in Nat /\ i >= 1 /\ i - 1 = h /\ h - 1 = j
       /\ h <= l /\ i <= l /\ j < l /\ h \in h..l /\ i \in i..l /\ h <= l + 1
  <2> HIDE DEF l
  <2> QED BY <1>7
<1>12. line[h] # " " /\ line[h] # c /\ line[i] # " "
  BY <1>1, <1>5
<1>13. TextFrom(line, h) /\ TextFrom(line, i)
  <2>1. (\E k \in h..l : line[k] # " ") /\ (\E k \in i..l : line[k] # " ")
    BY <1>11, <1>12
  <2> QED BY <2>1 DEF TextFrom, l
<1>14. ~AtEol(p, h)
  BY <1>3, <1>4, <1>11, <1>13, TextAhead
<1>15. NonBlank(p, i) = i
  <2> DEFINE n == NonBlank(p, i)
  <2>1. n \in i..l /\ AllBlank(line, i, n - 1)
    BY <1>3, <1>4, <1>11, <1>13, TextAhead DEF l
  <2> HIDE DEF n
  <2>2. n > i => i \in i..(n - 1)
    BY <1>7, <1>11, <2>1
  <2>3. n > i => line[i] = " "
    BY <2>1, <2>2 DEF AllBlank
  <2>4. ~(n > i)
    BY <1>12, <2>3
  <2>5. n = i
    BY <1>7, <1>11, <2>1, <2>4
  <2> QED BY <2>5 DEF n
<1>16. w \in States /\ w.end = "no" /\ w.first = p.first /\ w.pos = h /\ Agrees(w, line, t)
  <2>1. w.pos = NonBlank(p, i) - 1 /\ w \in States /\ w.end = "no" /\ w.first = p.first
        /\ Agrees(w, line, t)
    <3>1. /\ p \in Parsers /\ p.end = "no" /\ p.buf = line /\ s \in Readings
          /\ Agrees(p, line, s) /\ s.quote = "no" /\ EndsCommand(s) /\ none \in {0, 1}
          /\ type \in CommandTypes /\ t \in Readings /\ t.quote = "no" /\ Follows(t, s, type)
          /\ i \in Nat /\ i >= 1 /\ TextFrom(line, i)
      BY <1>3, <1>4, <1>5, <1>6, <1>9, <1>10, <1>11, <1>13
    <3>2. w = IntoNext(Chained(UndoBlank(p, none), type), i)
      BY DEF w, q
    <3>3. Len(s.words) < MaxArgs
      BY FitsHere DEF s, r
    <3> QED BY ONLY <3>1, <3>2, <3>3, ChainedAgrees
  <2> QED BY <1>11, <1>15, <2>1
<1>17. w.buf = line
  BY <1>16 DEF Agrees
<1>18. Min(more) = h
  <2>1. h \in more
    <3>1. h <= Len(w.buf)
      BY <1>11, <1>17 DEF l
    <3>2. At(w, h) = line[h]
      BY <1>11, <1>16, <1>17, <3>1, AtIs
    <3>3. h \in h..(l + 1)
      <4> HIDE DEF l
      <4> QED BY <1>7, <1>11
    <3> QED BY <1>12, <1>16, <1>17, <3>2, <3>3 DEF l
  <2>2. \A k \in more : k \in h..(l + 1)
    BY <1>16, <1>17 DEF l
  <2> HIDE DEF more, l
  <2>3. more \subseteq Nat /\ more # {} /\ \A k \in more : k >= h
    BY <1>7, <1>11, <2>1, <2>2
  <2>4. Min(more) \in more /\ Min(more) <= h
    BY <2>1, <2>3, MinIs
  <2> DEFINE m == Min(more)
  <2>5. m \in Nat /\ m >= h /\ m <= h /\ h \in Nat
    BY <1>11, <2>3, <2>4
  <2> HIDE DEF m
  <2>6. m = h
    BY <2>5
  <2> QED BY <2>6 DEF m
<1> DEFINE y == [w EXCEPT !.pos = j]
<1>19. Becomes(y)
  <2>1. ~Ignored(p)
    BY <1>3, <1>5
  <2>2. Becomes([w EXCEPT !.pos = Min(more) - 1])
    BY <1>2, <1>14, <1>16, <2>1
  <2> HIDE DEF more
  <2>3. Min(more) - 1 = j
    BY <1>11, <1>18
  <2> QED BY <2>2, <2>3
<1>20. y \in States /\ y.pos = j /\ y.first = p.first /\ y.end = "no" /\ y.buf = w.buf
       /\ y.redirecting = w.redirecting /\ y.ret = w.ret /\ y.asked = w.asked
       /\ y.squote = w.squote /\ y.dquote = w.dquote /\ y.cmds = w.cmds
       /\ y.element = w.element /\ y.chars = w.chars
  BY <1>7, <1>16 DEF States, Locals
<1> HIDE DEF y
<1>21. Agrees(y, line, t)
  <2>1. Argv(y) = Argv(w)
    BY <1>20 DEF Argv
  <2>2. HasWords(y, Opened(t).words)
    BY <1>16, <1>20, <2>1 DEF Agrees, HasWords
  <2> QED BY <1>16, <1>20, <2>2 DEF Agrees
<1>22. Settled(t) = t
  BY <1>3, <1>9, SettledIs
<1>23. MayStand(line, j)
  <2>1. t.done # <<>>
    <3>1. s.done \in Seq(GivenCommand)
      BY <1>3 DEF Readings
    <3> QED BY <1>9, <3>1
  <2>2. line[h] # "no"
    <3>1. line[h] \in Character
      BY <1>4, <1>11 DEF Text, l
    <3> QED BY <3>1 DEF Character
  <2>3. j < Len(line) /\ line[j + 1] # " " /\ line[j + 1] # t.op
    BY <1>7, <1>9, <1>11, <1>12, <2>2 DEF l
  <2>4. t = ReadTo(line, j)
    BY DEF t, j
  <2> HIDE DEF l
  <2> QED BY <1>22, <2>1, <2>3, <2>4 DEF MayStand
<1>24. Agrees(y, line, Settled(ReadTo(line, j)))
  BY <1>21, <1>22 DEF t, j
<1>25. y.first <= j
  BY <1>3, <1>20 DEF j
<1>26. j \in 1..Len(line)
  BY <1>7 DEF l
<1> QED BY <1>4, <1>19, <1>20, <1>23, <1>24, <1>25, <1>26, MovesOn

-----------------------------------------------------------------------------
(* The line as a whole                                                     *)

LEMMA UnreadIs ==
    Unread \in Readings /\ Settled(Unread) = Unread /\ Opened(Unread).words = <<<<>>>>
<1>1. <<>> \in Seq(GivenCommand) /\ <<>> \in Seq(Text) /\ Append(<<>>, <<>>) = <<<<>>>>
  OBVIOUS
<1>2. Unread \in Readings
  BY <1>1 DEF Unread, Readings, Quotes
<1>3. Settled(Unread) = Unread
  BY DEF Unread, Settled
<1>4. Opened(Unread).words = Append(<<>>, <<>>)
  BY DEF Unread, Opened
<1> QED BY <1>1, <1>2, <1>3, <1>4

(* Nothing is read of the blanks before the first word.                    *)
LEMMA BlanksBefore ==
    ASSUME NEW line \in Text, NEW m \in 0..Len(line), AllBlank(line, 1, m)
    PROVE  ReadTo(line, m) = Unread
<1> DEFINE n == 0
<1>1. ReadTo(line, n) = Unread
  BY ReadToZero
<1>2. Settled(ReadTo(line, n)) = Unread /\ Unread.quote = "no" /\ ~Unread.escaped
  BY <1>1, UnreadIs DEF Unread
<1>3. Len(line) \in Nat
  BY TextIs
<1>4. CASE m = 0
  BY <1>1, <1>4
<1>5. CASE m # 0
  <2> DEFINE l == Len(line)
  <2>1. n \in 0..l /\ n + 1 = 1 /\ m \in (n + 1)..l
    <3> HIDE DEF l
    <3> QED BY <1>3, <1>5 DEF l
  <2>2. AllBlank(line, n + 1, m)
    BY <2>1
  <2> HIDE DEF n
  <2>3. ReadTo(line, m) = [Unread EXCEPT !.open = FALSE]
    BY <1>2, <2>1, <2>2, Blanks
  <2>4. [Unread EXCEPT !.open = FALSE] = Unread
    <3>1. Unread.open = FALSE
      BY DEF Unread
    <3> QED BY <3>1, UnreadIs DEF Readings
  <2> QED BY <2>3, <2>4
<1> QED BY <1>4, <1>5

LEMMA BeginReads ==
    ASSUME NEW line \in Text, Readable(line, MaxArgs), p' = Begin(line)
    PROVE  Reads(p', line)
<1> DEFINE f == Fresh(line)
           one == 1
           q == Skipped(f, one)
           l == Len(line)
           j == NonBlank(f, one)
           m == j - 1
           cs == <<NewCommand>>
           y == [f EXCEPT !.pos = j, !.first = j]
<1>1. l \in Nat
  BY TextIs
<1>2. TextFrom(line, 1)
  <2>1. SUFFICES ASSUME ~TextFrom(line, 1) PROVE FALSE
    OBVIOUS
  <2>2. AllBlank(line, 1, l)
    BY <2>1 DEF TextFrom, AllBlank
  <2>3. l \in 0..l
    <3> HIDE DEF l
    <3> QED BY <1>1
  <2>4. ReadTo(line, l) = Unread
    BY <2>2, <2>3, BlanksBefore
  <2> DEFINE u == ReadTo(line, l)
  <2>5. u.op # "no" \/ u.words # <<>> \/ u.done # <<>>
    BY DEF Readable
  <2> HIDE DEF u
  <2>6. u = Unread
    BY <2>4 DEF u
  <2> QED BY <2>5, <2>6 DEF Unread
<1>3. /\ f \in States /\ Argv(f) = <<<<>>>> /\ f.element = 1 /\ f.buf = line /\ f.first = 1
  BY FreshIs DEF Text
<1>4. /\ f.end = "no" /\ f.redirecting = "no" /\ f.ret # "error" /\ f.asked = 0
      /\ f.squote = FALSE /\ f.dquote = FALSE /\ f.cmds = cs /\ f.chars = 0
  BY DEF Fresh
<1>5. one \in Nat /\ one >= 1 /\ one = 1
  OBVIOUS
<1>6. p' = IF q.end = "no" THEN [q EXCEPT !.pos = @ + 1, !.first = q.pos + 1] ELSE q
  BY DEF Begin
<1> HIDE DEF f, one
<1>7. TextFrom(f.buf, one)
  BY <1>2, <1>3, <1>5
<1>8. j \in one..l /\ line[j] # " " /\ AllBlank(line, one, m)
  BY <1>3, <1>5, <1>7, TextAhead
<1>9. q = [f EXCEPT !.pos = m]
  BY <1>3, <1>5, <1>7, SkippedTo
<1> HIDE DEF j
<1>10. j \in Nat /\ j >= 1 /\ j <= l /\ m \in Nat /\ m + 1 = j /\ m \in 0..l /\ j \in 1..l + 1
  <2>1. j \in one..l
    BY <1>8
  <2> HIDE DEF l
  <2> QED BY <1>1, <1>5, <2>1
<1>11. ReadTo(line, m) = Unread
  <2>1. AllBlank(line, 1, m)
    BY <1>5, <1>8
  <2> HIDE DEF m
  <2> QED BY <1>10, <2>1, BlanksBefore DEF l
<1>12. p' = y
  <2>1. q.end = "no" /\ q.pos = m
    BY <1>3, <1>4, <1>9 DEF States, Locals
  <2>2. p' = [q EXCEPT !.pos = j, !.first = j]
    BY <1>6, <1>10, <2>1
  <2> HIDE DEF m, q
  <2>3. [[f EXCEPT !.pos = m] EXCEPT !.pos = j, !.first = j] = y
    BY <1>3 DEF States, Locals
  <2> QED BY <1>9, <2>2, <2>3
<1>13. /\ y.pos = j /\ y.first = j /\ y.end = "no" /\ y.buf = line
       /\ y.redirecting = "no" /\ y.ret # "error" /\ y.asked = 0
       /\ y.squote = FALSE /\ y.dquote = FALSE /\ y.cmds = cs /\ y.element = 1 /\ y.chars = 0
  BY <1>3, <1>4 DEF States, Locals
<1> HIDE DEF y, m
<1>14. Agrees(y, line, Unread)
  <2>1. Argv(y) = <<<<>>>>
    <3>1. Argv(y) = Argv(f)
      BY <1>4, <1>13 DEF Argv
    <3> QED BY <1>3, <3>1
  <2>2. HasWords(y, Opened(Unread).words)
    <3> DEFINE w == <<<<>>>>
    <3>1. Len(w) = 1 /\ Len(w[1]) = 0
      OBVIOUS
    <3> QED BY <1>13, <2>1, <3>1, UnreadIs DEF HasWords
  <2>3. cs[Len(cs)].type = "SINGLE" /\ Len(cs) = 1
    BY DEF NewCommand
  <2>4. HoldsDone(cs, <<>>)
    BY <2>3 DEF HoldsDone
  <2>5. Unread.done = <<>> /\ Unread.quote = "no"
    BY DEF Unread
  <2> HIDE DEF cs
  <2> QED BY <1>13, <2>2, <2>3, <2>4, <2>5 DEF Agrees
<1>15. Stands(y, line)
  <2>1. line[j] # "no"
    <3>1. line[j] \in Character
      BY <1>10 DEF Text, l
    <3> QED BY <3>1 DEF Character
  <2>2. y.pos - 1 = m
    BY <1>10, <1>13
  <2>3. ReadTo(line, y.pos - 1) = Unread
    BY <1>11, <2>2
  <2>4. Unread.words = <<>> /\ Unread.done = <<>> /\ Unread.op = "no"
    BY DEF Unread
  <2>5. y.pos \in 1..Len(line) + 1 /\ y.pos <= Len(line)
    BY <1>10, <1>13 DEF l
  <2> QED BY <1>8, <1>13, <2>1, <2>3, <2>4, <2>5, UnreadIs DEF Stands
<1>16. Agrees(y, line, Settled(ReadTo(line, y.pos - 1)))
  <2>1. y.pos - 1 = m
    BY <1>10, <1>13
  <2> QED BY <1>11, <1>14, <2>1, UnreadIs
<1> QED BY <1>12, <1>13, <1>15, <1>16 DEF Reads

LEMMA ReadCharReads ==
    ASSUME NEW line, InLine(line), ReadChar PROVE Reads(p', line)
BY OrdinaryReads, QuotedReads, SingleQuoteReads, DoubleQuoteReads, BackslashReads,
   DollarReads, TildeReads, BlankEndsReads, AmpersandReads, BarReads, SemicolonReads,
   HashReads, NulReads, GreaterReads DEF ReadChar

-----------------------------------------------------------------------------
(* The shell                                                               *)

(* Where it is said what is meant by a line, the line is one that psh is   *)
(* to read, and means what the reading says.                               *)
Meant ==
    \A s \in Sessions :
        s.commands # Unknown =>
            Readable(s.line, MaxArgs) /\ s.commands = Commands(s.line)

ReadsInv ==
    session.commands # Unknown =>
        /\ mode \in {"parsing", "running"} => Reads(p, session.line)
        /\ mode = "running" => p.end = "done"

LEMMA ParseReads ==
    ASSUME Meant, FrontendInv, ReadsInv, Parse, session.commands # Unknown
    PROVE  Reads(p', session.line)
<1> DEFINE line == session.line
<1>1. mode = "parsing" /\ ReadChar
  BY DEF Parse
<1>2. p.end = "no"
  BY <1>1 DEF ReadChar, Ordinary, Quoted, SingleQuote, DoubleQuote, Backslash, Dollar,
     Tilde, BlankEnds, Ampersand, Bar, Semicolon, Hash, Nul, Greater, Reading
<1>3. p \in Parsers
  BY DEF FrontendInv, ParserInv
<1>4. line \in Text /\ Readable(line, MaxArgs)
  BY SessionIs DEF FrontendInv, Meant, Text
<1>5. Reads(p, line)
  BY <1>1 DEF ReadsInv
<1>6. InLine(line)
  BY <1>2, <1>3, <1>4, <1>5 DEF InLine
<1> HIDE DEF line
<1>7. Reads(p', line)
  BY <1>1, <1>6, ReadCharReads
<1> QED BY <1>7 DEF line

LEMMA StepReads ==
    ASSUME Meant
    PROVE  FrontendInv /\ ReadsInv /\ [Next]_vars => ReadsInv'
<1> SUFFICES ASSUME FrontendInv, ReadsInv, [Next]_vars PROVE ReadsInv'
  OBVIOUS
<1>1. ASSUME mode' \notin {"parsing", "running"} PROVE ReadsInv'
  BY <1>1 DEF ReadsInv
<1>2. CASE Expand
  BY <1>1, <1>2 DEF Expand
<1>3. CASE Prompt
  BY <1>1, <1>3 DEF Prompt
<1>4. CASE ShowPrompt
  BY <1>1, <1>4 DEF ShowPrompt
<1>5. CASE EndOfInput
  BY <1>1, <1>5 DEF EndOfInput
<1>6. CASE Crash
  BY <1>1, <1>6 DEF Crash
<1>7. CASE ReadLine
  <2>1. p' = Begin(session.line) /\ session' = session /\ mode' = "parsing"
    BY <1>7 DEF ReadLine
  <2>2. ASSUME session.commands # Unknown PROVE Reads(p', session.line)
    <3> DEFINE line == session.line
    <3>1. line \in Text /\ Readable(line, MaxArgs)
      BY <2>2, SessionIs DEF FrontendInv, Meant, Text
    <3>2. p' = Begin(line)
      BY <2>1
    <3> HIDE DEF line
    <3>3. Reads(p', line)
      BY <3>1, <3>2, BeginReads
    <3> QED BY <3>3 DEF line
  <2> QED BY <2>1, <2>2 DEF ReadsInv
<1>8. CASE Parse
  <2>1. session' = session /\ mode = "parsing" /\ mode' = mode
    BY <1>8 DEF Parse
  <2> QED BY <1>8, <2>1, ParseReads DEF ReadsInv
<1>9. CASE HandOver
  BY <1>9 DEF HandOver, ReadsInv
<1>10. CASE UNCHANGED vars
  BY <1>10 DEF vars, ReadsInv
<1>11. CASE RunExits
  BY <1>1, <1>11 DEF RunExits
<1> QED BY <1>2, <1>3, <1>4, <1>5, <1>6, <1>7, <1>8, <1>9, <1>10, <1>11
        DEF Next, MainLoop, EmptyLine, SyntaxError, CommandsRun

LEMMA ReadsInvariance == ASSUME Meant PROVE Spec => []ReadsInv
<1>1. Init => ReadsInv
  BY DEF Init, ReadsInv
<1>2. FrontendInv /\ ReadsInv /\ [Next]_vars => ReadsInv'
  BY StepReads
<1> QED BY <1>1, <1>2, Invariance, PTL DEF Spec

(* However long the line, and whatever quotes, escapes, blanks, comments   *)
(* and operators it is made of: do_run is given the commands and the       *)
(* arguments that were meant.                                              *)
THEOREM ReadsWhatWasWrittenCorrect ==
    ASSUME Meant PROVE Spec => []ReadsWhatWasWritten
<1>1. FrontendInv /\ ReadsInv => ReadsWhatWasWritten
  <2> SUFFICES ASSUME FrontendInv, ReadsInv, mode = "running", session.commands # Unknown
               PROVE  Gives(p, session.commands)
    BY DEF ReadsWhatWasWritten, Gives
  <2>1. Reads(p, session.line) /\ p.end = "done"
    BY DEF ReadsInv
  <2>2. Gives(p, Commands(session.line))
    BY <2>1 DEF Reads
  <2> QED BY <2>2 DEF FrontendInv, Meant
<1> QED BY <1>1, Invariance, ReadsInvariance, PTL

(* The parser never leaves its memory on such a line, never reports a      *)
(* syntax error and never asks for more of it.                             *)
GoesThrough ==
    mode = "parsing" /\ session.commands # Unknown =>
        p.end \in {"no", "done"} /\ p.ret # "error" /\ p.asked = 0

THEOREM LinesGoThrough == ASSUME Meant PROVE Spec => []GoesThrough
<1>1. ReadsInv => GoesThrough
  BY DEF ReadsInv, GoesThrough, Reads, Agrees
<1> QED BY <1>1, ReadsInvariance, PTL
=============================================================================
