---------------------------- MODULE Session_proofs ----------------------------
(***************************************************************************)
(* Theorems about Session, for every tree of directories with its links,   *)
(* every PATH, all lines and all aliases: types, PWD and the directory,    *)
(* the path cache, and the arguments of an alias.                          *)
(***************************************************************************)
EXTENDS Session, TLAPS, SequenceTheorems, WellFoundedInduction

(* What each operator that is folded over a sequence computes.             *)
Entering == INSTANCE LeftFolds WITH Op <- Enter
Shortening == INSTANCE LeftFolds WITH Op <- AppendPart
Wording == INSTANCE LeftFolds WITH Op <- AddWord
CdParsing == INSTANCE LeftFolds WITH Op <- CdArgument
HashParsing == INSTANCE LeftFolds WITH Op <- HashArgument
Hashing == INSTANCE LeftFolds WITH Op <- HashName
Aliasing == INSTANCE LeftFolds WITH Op <- AliasArgument

Name == Strings \ {"", ".", ".."}
Root == <<>>
Upto(s, j) == SubSeq(s, 1, j)

-----------------------------------------------------------------------------
(* Directories and paths                                                   *)

LEMMA FollowIsFold ==
    ASSUME NEW d, NEW parts
    PROVE  Entering!Fold(d, parts) = Follow(d, parts)
BY DEF Follow, Entering!Fold, FoldLeft, Entering!FoldLeft,
       MapThenFoldSet, Entering!MapThenFoldSet, Max, Entering!Max

LEMMA FollowNothing ==
    ASSUME NEW d PROVE Follow(d, <<>>) = d
<1>1. PICK g : Entering!Steps(g, 0, d, <<>>)
  <2>1. DOMAIN <<>> = 1..0 /\ 0 \in Nat
    OBVIOUS
  <2> QED BY <2>1, Entering!FoldPrefixes
<1> QED BY <1>1, FollowIsFold DEF Entering!Steps

(* A path with one component more leads one step further.                  *)
LEMMA FollowAppend ==
    ASSUME NEW d, NEW parts \in Seq(Strings), NEW part \in Strings
    PROVE  Follow(d, Append(parts, part)) = Enter(Follow(d, parts), part)
<1> DEFINE n == Len(parts)
           longer == Append(parts, part)
<1>1. n \in Nat
  OBVIOUS
<1>2. DOMAIN parts = 1..n
  OBVIOUS
<1>3. DOMAIN longer = 1..(n + 1)
  OBVIOUS
<1>4. \A j \in 1..n : longer[j] = parts[j]
  OBVIOUS
<1>5. longer[n + 1] = part
  OBVIOUS
<1> HIDE DEF n, longer
<1>6. Entering!Fold(d, longer) = Enter(Entering!Fold(d, parts), longer[n + 1])
  BY <1>1, <1>2, <1>3, <1>4, Entering!FoldExtends
<1>7. Follow(d, longer) = Enter(Follow(d, parts), part)
  BY <1>5, <1>6, FollowIsFold
<1> QED BY <1>7 DEF longer

LEMMA DirFacts ==
    ASSUME NEW d \in Dirs
    PROVE  d \in Seq(Name) /\ d \in Seq(Strings) /\ d # Nowhere
<1>1. d \in Seq(Name) /\ d # Nowhere
  BY DirsAssumption DEF Name
<1>2. Name \subseteq Strings
  BY DEF Name
<1> QED BY <1>1, <1>2, SeqMonotonic

LEMMA DirTree ==
    /\ Root \in Dirs
    /\ \A d \in Dirs : d = Root \/ Front(d) \in Dirs
BY DirsAssumption DEF Root

(* Paths lead to directories or nowhere.                                   *)
LEMMA EnterStays ==
    ASSUME NEW d \in Dirs \cup {Nowhere}, NEW part \in Strings
    PROVE  Enter(d, part) \in Dirs \cup {Nowhere}
<1>1. CASE d = Nowhere
  BY <1>1 DEF Enter
<1>2. CASE d # Nowhere /\ part \in {"", "."}
  BY <1>2 DEF Enter
<1>3. CASE d # Nowhere /\ part = ".."
  <2>1. Enter(d, part) = IF d = Root THEN d ELSE Front(d)
    BY <1>3 DEF Enter, Root
  <2> QED BY <1>3, <2>1, DirTree
<1>4. CASE d # Nowhere /\ part \notin {"", ".", ".."}
  <2> DEFINE e == Append(d, part)
  <2>1. Enter(d, part) = IF e \in DOMAIN Links THEN Links[e]
                         ELSE IF e \in Dirs THEN e ELSE Nowhere
    BY <1>4 DEF Enter
  <2> HIDE DEF e
  <2> QED BY <2>1, DirsAssumption
<1> QED BY <1>1, <1>2, <1>3, <1>4

LEMMA FollowStays ==
    ASSUME NEW d \in Dirs, NEW parts \in Seq(Strings)
    PROVE  Follow(d, parts) \in Dirs \cup {Nowhere}
<1> DEFINE n == Len(parts)
           T == Dirs \cup {Nowhere}
<1>1. n \in Nat
  OBVIOUS
<1>2. DOMAIN parts = 1..n
  OBVIOUS
<1>3. \A x \in T : \A j \in 1..n : Enter(x, parts[j]) \in T
  <2> TAKE x \in T
  <2> TAKE j \in 1..n
  <2>1. parts[j] \in Strings
    OBVIOUS
  <2> QED BY <2>1, EnterStays
<1>4. d \in T
  OBVIOUS
<1> HIDE DEF n, T
<1>5. Entering!Fold(d, parts) \in T
  BY <1>1, <1>2, <1>3, <1>4, Entering!FoldStaysIn
<1> QED BY <1>5, FollowIsFold DEF T

(* The way to a directory from the root is made of directories.            *)
LEMMA PrefixesAreDirs ==
    ASSUME NEW d \in Dirs
    PROVE  \A j \in 0..Len(d) : Upto(d, j) \in Dirs
<1> DEFINE n == Len(d)
           S == {j \in 0..n : Upto(d, n - j) \in Dirs}
<1>1. d \in Seq(Strings) /\ n \in Nat
  BY DirFacts
<1>2. 0 \in S
  <2>1. Upto(d, n - 0) = d
    BY <1>1, SubSeqFull DEF Upto
  <2> QED BY <1>1, <2>1
<1>3. ASSUME NEW j \in 0..n, j < n, j \in S
      PROVE  j + 1 \in S
  <2> DEFINE e == Upto(d, n - j)
  <2>4. n - j \in 1..n
    BY <1>1, <1>3
  <2>5. Len(e) = n - j
    BY <1>1, <2>4 DEF Upto
  <2>6. Len(<<>>) = 0
    OBVIOUS
  <2>1. e \in Dirs /\ Len(e) = n - j /\ e # <<>>
    BY <1>3, <2>4, <2>5, <2>6
  <2>2. Front(e) \in Dirs
    BY <2>1, DirsAssumption
  <2>3. Front(e) = Upto(d, n - (j + 1))
    BY <1>1, <1>3 DEF Front, Upto
  <2> QED BY <1>1, <1>3, <2>2, <2>3
<1> HIDE DEF S, n
<1>4. 0..n \subseteq S
  BY <1>1, <1>2, <1>3, Entering!BoundedInduction
<1>5. ASSUME NEW j \in 0..n
      PROVE  Upto(d, j) \in Dirs
  <2>1. n - j \in 0..n /\ n - (n - j) = j
    BY <1>1
  <2> QED BY <1>4, <2>1 DEF S
<1> QED BY <1>5 DEF n

(* The name getcwd() gives a directory leads there.                        *)
LEMMA FollowOwnName ==
    ASSUME NEW d \in Dirs
    PROVE  Follow(Root, d) = d
<1> DEFINE n == Len(d)
           S == {j \in 0..n : Follow(Root, Upto(d, j)) = Upto(d, j)}
<1>1. d \in Seq(Strings) /\ d \in Seq(Name) /\ n \in Nat
  BY DirFacts
<1>2. 0 \in S
  <2>1. Upto(d, 0) = <<>>
    BY SubSeqEmpty DEF Upto
  <2> QED BY <1>1, <2>1, FollowNothing DEF Root
<1>3. ASSUME NEW j \in 0..n, j < n, j \in S
      PROVE  j + 1 \in S
  <2> DEFINE e == Upto(d, j)
             part == d[j + 1]
  <2>7. j + 1 \in 1..n
    BY <1>1, <1>3
  <2>8. part \in Name
    BY <1>1, <2>7, ElementOfSeq
  <2>9. e \in Seq(Strings)
    BY <1>1, <1>3 DEF Upto
  <2>1. e \in Seq(Strings) /\ part \in Strings \ {"", ".", ".."} /\ part \in Strings
    BY <2>8, <2>9 DEF Name
  <2>2. Upto(d, j + 1) = Append(e, part)
    BY <1>1, <1>3 DEF Upto
  <2>3. e \in Dirs /\ Append(e, part) \in Dirs
    <3>1. j \in 0..Len(d) /\ j + 1 \in 0..Len(d)
      BY <1>1, <1>3
    <3> HIDE DEF n
    <3> QED BY <2>2, <3>1, PrefixesAreDirs
  <2>4. Follow(Root, e) = e
    BY <1>3
  <2> HIDE DEF e, part
  <2>5. Enter(e, part) = Append(e, part)
    BY <2>1, <2>3, DirsAssumption DEF Enter
  <2>10. part \in Strings
    BY <2>1
  <2> HIDE DEF n
  <2>11. Follow(Root, Append(e, part)) = Enter(Follow(Root, e), part)
    BY <2>9, <2>10, FollowAppend
  <2>6. Follow(Root, Upto(d, j + 1)) = Upto(d, j + 1)
    BY <2>2, <2>4, <2>5, <2>11
  <2> QED BY <1>1, <1>3, <2>6
<1> HIDE DEF S
<1>4. 0..n \subseteq S
  <2> HIDE DEF n
  <2> QED BY <1>1, <1>2, <1>3, Entering!BoundedInduction
<1>5. n \in S /\ Upto(d, n) = d
  BY <1>1, <1>4, SubSeqFull DEF Upto
<1> QED BY <1>5 DEF S
-----------------------------------------------------------------------------
(* What canonicalize_path makes of the components of a path                *)

LEMMA WithoutDotsIsFold ==
    ASSUME NEW parts
    PROVE  Shortening!Fold(<<>>, parts) = WithoutDots(parts)
BY DEF WithoutDots, Shortening!Fold, FoldLeft, Shortening!FoldLeft,
       MapThenFoldSet, Shortening!MapThenFoldSet, Max, Shortening!Max

LEMMA FrontStays ==
    ASSUME NEW S, NEW s \in Seq(S), s # <<>>
    PROVE  Front(s) \in Seq(S)
<1>1. Len(s) \in Nat /\ \A i \in 1..(Len(s) - 1) : s[i] \in S
  BY ElementOfSeq
<1>2. Front(s) = SubSeq(s, 1, Len(s) - 1) /\ Len(s) - 1 \in Int /\ 1 \in Int
  BY <1>1 DEF Front
<1> QED BY <1>1, <1>2, SubSeqProperties

(* No component of the result is empty or a dot or two.                    *)
LEMMA AppendPartStays ==
    ASSUME NEW new \in Seq(Name), NEW part \in Strings
    PROVE  AppendPart(new, part) \in Seq(Name)
<1>1. CASE part \in {"", "."}
  BY <1>1 DEF AppendPart
<1>2. CASE part = ".."
  <2>1. CASE new = <<>>
    BY <1>2, <2>1 DEF AppendPart
  <2>2. CASE new # <<>>
    BY <1>2, <2>2, FrontStays DEF AppendPart
  <2> QED BY <2>1, <2>2
<1>3. CASE part \notin {"", ".", ".."}
  <2>1. part \in Name
    BY <1>3 DEF Name
  <2> QED BY <1>3, <2>1, AppendProperties DEF AppendPart
<1> QED BY <1>1, <1>2, <1>3

LEMMA WithoutDotsStays ==
    ASSUME NEW parts \in Seq(Strings)
    PROVE  WithoutDots(parts) \in Seq(Name)
<1> DEFINE n == Len(parts)
           T == Seq(Name)
<1>1. n \in Nat
  OBVIOUS
<1>2. DOMAIN parts = 1..n
  OBVIOUS
<1>3. \A x \in T : \A j \in 1..n : AppendPart(x, parts[j]) \in T
  <2> TAKE x \in T
  <2> TAKE j \in 1..n
  <2>1. parts[j] \in Strings
    OBVIOUS
  <2> QED BY <2>1, AppendPartStays
<1>4. <<>> \in T
  OBVIOUS
<1> HIDE DEF n, T
<1>5. Shortening!Fold(<<>>, parts) \in T
  BY <1>1, <1>2, <1>3, <1>4, Shortening!FoldStaysIn
<1> QED BY <1>5, WithoutDotsIsFold DEF T

(* One component more leads from the same directory to the same one,       *)
(* whether or not it is written, unless it is a step back.                 *)
LEMMA AppendPartLeads ==
    ASSUME NEW new \in Seq(Name), NEW part \in Strings, part # ".."
    PROVE  Follow(Root, AppendPart(new, part)) = Enter(Follow(Root, new), part)
<1>1. CASE part \in {"", "."}
  <2>1. AppendPart(new, part) = new
    BY <1>1 DEF AppendPart
  <2>2. Enter(Follow(Root, new), part) = Follow(Root, new)
    BY <1>1 DEF Enter
  <2> QED BY <2>1, <2>2
<1>2. CASE part \notin {"", "."}
  <2>1. AppendPart(new, part) = Append(new, part)
    BY <1>2 DEF AppendPart
  <2>2. Name \subseteq Strings
    BY DEF Name
  <2>3. new \in Seq(Strings)
    BY <2>2, SeqMonotonic
  <2> QED BY <2>1, <2>3, FollowAppend
<1> QED BY <1>1, <1>2

(* Without a step back the canonical name of a directory leads to it.      *)
LEMMA WithoutDotsLeads ==
    ASSUME NEW parts \in Seq(Strings), ".." \notin Range(parts)
    PROVE  Follow(Root, WithoutDots(parts)) = Follow(Root, parts)
<1> DEFINE n == Len(parts)
<1>1. n \in Nat
  OBVIOUS
<1>2. DOMAIN parts = 1..n
  OBVIOUS
<1>3. \A j \in 1..n : parts[j] \in Strings /\ parts[j] # ".."
  BY <1>2 DEF Range
<1> HIDE DEF n
<1>4. PICK w : Shortening!Steps(w, n, <<>>, parts)
  BY <1>1, <1>2, Shortening!FoldPrefixes
<1>5. PICK g : Entering!Steps(g, n, Root, parts)
  BY <1>1, <1>2, Entering!FoldPrefixes
<1>6. /\ w[0] = <<>> /\ w[n] = WithoutDots(parts)
      /\ \A j \in 1..n : w[j] = AppendPart(w[j - 1], parts[j])
  BY <1>4, WithoutDotsIsFold DEF Shortening!Steps
<1>7. /\ g[0] = Root /\ g[n] = Follow(Root, parts)
      /\ \A j \in 1..n : g[j] = Enter(g[j - 1], parts[j])
  BY <1>5, FollowIsFold DEF Entering!Steps
<1> DEFINE S == {j \in 0..n : w[j] \in Seq(Name) /\ Follow(Root, w[j]) = g[j]}
<1>8. 0 \in S
  <2>1. Follow(Root, Root) = Root
    BY FollowNothing DEF Root
  <2>2. Root \in Seq(Name)
    BY DEF Root
  <2>3. w[0] = Root
    BY <1>6 DEF Root
  <2> QED BY <1>1, <1>7, <2>1, <2>2, <2>3
<1>9. ASSUME NEW j \in 0..n, j < n, j \in S
      PROVE  j + 1 \in S
  <2>1. j + 1 \in 1..n /\ (j + 1) - 1 = j
    BY <1>1, <1>9
  <2>2. parts[j + 1] \in Strings /\ parts[j + 1] # ".."
    BY <1>3, <2>1
  <2>3. w[j + 1] = AppendPart(w[j], parts[j + 1]) /\ g[j + 1] = Enter(g[j], parts[j + 1])
    BY <1>6, <1>7, <2>1
  <2>4. w[j] \in Seq(Name) /\ Follow(Root, w[j]) = g[j]
    BY <1>9
  <2>5. w[j + 1] \in Seq(Name)
    BY <2>2, <2>3, <2>4, AppendPartStays
  <2>6. Follow(Root, w[j + 1]) = g[j + 1]
    BY <2>2, <2>3, <2>4, AppendPartLeads
  <2> QED BY <2>1, <2>5, <2>6
<1> HIDE DEF S
<1>10. 0..n \subseteq S
  BY <1>1, <1>8, <1>9, Entering!BoundedInduction
<1>11. n \in S
  BY <1>1, <1>10
<1> QED BY <1>6, <1>7, <1>11 DEF S

(* A canonical path: absolute, and all of its components are names.        *)
LEMMA CanonicalPath ==
    ASSUME NEW path \in Path, NEW physical \in BOOLEAN, pwd \in Path, cwd \in Dirs
    PROVE  LET new == Canonicalize(path, physical) IN
           new \in Path /\ new.abs = TRUE /\ new.parts \in Seq(Name)
<1> DEFINE base == IF path.abs THEN <<>> ELSE IF physical THEN cwd ELSE pwd.parts
<1>1. base \in Seq(Strings) /\ path.parts \in Seq(Strings)
  BY DirFacts DEF Path
<1> HIDE DEF base
<1>2. base \o path.parts \in Seq(Strings)
  BY <1>1
<1> DEFINE short == WithoutDots(base \o path.parts)
<1>3. short \in Seq(Name)
  BY <1>2, WithoutDotsStays
<1>4. Name \subseteq Strings
  BY DEF Name
<1>5. short \in Seq(Strings)
  BY <1>3, <1>4, SeqMonotonic
<1>6. Canonicalize(path, physical) = [abs |-> TRUE, parts |-> short]
  BY DEF Canonicalize, Absolute, base
<1> HIDE DEF short
<1> QED BY <1>3, <1>5, <1>6 DEF Path

LEMMA NamesAreNoDots ==
    ASSUME NEW parts \in Seq(Name)
    PROVE  {".", ".."} \cap Range(parts) = {} /\ ".." \notin Range(parts)
<1>1. \A i \in DOMAIN parts : parts[i] \in Name
  OBVIOUS
<1> QED BY <1>1 DEF Name, Range
-----------------------------------------------------------------------------
(* What the words of a line and the options of a builtin are               *)

Flags == {"-p", "-d", "-l", "-r", "-t"}
CdOptionSet == [path : {Unset} \cup Strings, physical : BOOLEAN, bad : BOOLEAN]
HashOptionSet == [flags : SUBSET Flags, path : Strings, names : Seq(Strings),
                  bad : BOOLEAN, state : {"options", "path", "names"}]

LEMMA WordsAre ==
    ASSUME text \in Seq(Strings)
    PROVE  Words \in Seq(Strings)
<1> DEFINE n == Len(text)
           T == Seq(Strings)
<1>1. n \in Nat
  OBVIOUS
<1>2. DOMAIN text = 1..n
  OBVIOUS
<1>3. \A x \in T : \A j \in 1..n : AddWord(x, text[j]) \in T
  <2> TAKE x \in T
  <2> TAKE j \in 1..n
  <2>1. text[j] \in Strings
    OBVIOUS
  <2>2. Append(x, text[j]) \in Seq(Strings)
    BY <2>1, AppendProperties
  <2> QED BY <2>2 DEF AddWord
<1>4. <<>> \in T
  OBVIOUS
<1> HIDE DEF n, T
<1>5. Wording!Fold(<<>>, text) \in T
  BY <1>1, <1>2, <1>3, <1>4, Wording!FoldStaysIn
<1>6. Wording!Fold(<<>>, text) = Words
  BY DEF Words, Wording!Fold, FoldLeft, Wording!FoldLeft,
         MapThenFoldSet, Wording!MapThenFoldSet, Max, Wording!Max
<1> QED BY <1>5, <1>6 DEF T

LEMMA EmptyString == "" \in Strings
BY DirsAssumption

LEMMA ArgsAre ==
    ASSUME text \in Seq(Strings)
    PROVE  Command \in Strings /\ Args \in Seq(Strings)
<1>1. Words \in Seq(Strings)
  BY WordsAre
<1>2. CASE Words = <<>>
  <2>1. Command = "" /\ Args = Root
    BY <1>2 DEF Command, Args, Root
  <2>3. Root \in Seq(Strings)
    BY DEF Root
  <2>2. Args \in Seq(Strings)
    BY <2>1, <2>3
  <2> QED BY <2>1, <2>2, EmptyString
<1>3. CASE Words # <<>>
  <2>1. Command = Words[1] /\ Args = Tail(Words)
    BY <1>3 DEF Command, Args
  <2>2. Len(Words) \in Nat \ {0}
    BY <1>1, <1>3, EmptySeq
  <2>3. Words[1] \in Strings
    BY <1>1, <2>2
  <2>4. Tail(Words) \in Seq(Strings)
    BY <1>1, <1>3, HeadTailProperties
  <2> QED BY <2>1, <2>3, <2>4
<1> QED BY <1>2, <1>3

LEMMA CdOptionsAre ==
    ASSUME NEW args \in Seq(Strings)
    PROVE  CdOptions(args) \in CdOptionSet
<1> DEFINE n == Len(args)
           start == [path |-> Unset, physical |-> FALSE, bad |-> FALSE]
<1>1. n \in Nat
  OBVIOUS
<1>2. DOMAIN args = 1..n
  OBVIOUS
<1>3. \A x \in CdOptionSet : \A j \in 1..n : CdArgument(x, args[j]) \in CdOptionSet
  <2> TAKE x \in CdOptionSet
  <2> TAKE j \in 1..n
  <2> DEFINE a == args[j]
  <2>1. a \in Strings
    OBVIOUS
  <2> HIDE DEF a
  <2>2. /\ [x EXCEPT !.path = a] \in CdOptionSet
        /\ [x EXCEPT !.physical = TRUE] \in CdOptionSet
        /\ [x EXCEPT !.physical = FALSE] \in CdOptionSet
        /\ [x EXCEPT !.bad = TRUE] \in CdOptionSet
    BY <2>1 DEF CdOptionSet
  <2>3. CdArgument(x, a) \in CdOptionSet
    BY <2>2 DEF CdArgument
  <2> QED BY <2>3 DEF a
<1>4. start \in CdOptionSet
  BY DEF CdOptionSet
<1> HIDE DEF n, start
<1>5. CdParsing!Fold(start, args) \in CdOptionSet
  BY <1>1, <1>2, <1>3, <1>4, CdParsing!FoldStaysIn
<1>6. CdParsing!Fold(start, args) = CdOptions(args)
  BY DEF CdOptions, start, CdParsing!Fold, FoldLeft, CdParsing!FoldLeft,
         MapThenFoldSet, CdParsing!MapThenFoldSet, Max, CdParsing!Max
<1> QED BY <1>5, <1>6

LEMMA CdTargetIs ==
    ASSUME NEW o \in CdOptionSet, oldpwd = Unset \/ oldpwd \in Path
    PROVE  CdTarget(o) = Unset \/ CdTarget(o) \in Path
<1>1. CASE o.path = Unset
  BY <1>1, PathsAssumption DEF CdTarget
<1>2. CASE o.path # Unset /\ o.path = "-"
  BY <1>2 DEF CdTarget
<1>3. CASE o.path # Unset /\ o.path # "-"
  <2>1. CdTarget(o) = Named(o.path) /\ o.path \in Strings
    BY <1>3 DEF CdTarget, CdOptionSet
  <2>2. Relative(<<o.path>>) \in Path
    BY <2>1 DEF Relative, Path
  <2>3. Named(o.path) \in Path
    BY <2>2, PathsAssumption DEF Named
  <2> QED BY <2>1, <2>3
<1> QED BY <1>1, <1>2, <1>3

LEMMA HashOptionsAre ==
    ASSUME NEW args \in Seq(Strings)
    PROVE  HashOptions(args) \in HashOptionSet
<1> DEFINE n == Len(args)
           start == [flags |-> {}, path |-> "", names |-> <<>>,
                     bad |-> FALSE, state |-> "options"]
<1>1. n \in Nat
  OBVIOUS
<1>2. DOMAIN args = 1..n
  OBVIOUS
<1>3. \A x \in HashOptionSet : \A j \in 1..n : HashArgument(x, args[j]) \in HashOptionSet
  <2> TAKE x \in HashOptionSet
  <2> TAKE j \in 1..n
  <2> DEFINE a == args[j]
  <2>1. a \in Strings
    OBVIOUS
  <2> HIDE DEF a
  <2>2. x.names \in Seq(Strings) /\ Append(x.names, a) \in Seq(Strings)
    BY <2>1, AppendProperties DEF HashOptionSet
  <2>3. /\ [x EXCEPT !.path = a, !.state = "options"] \in HashOptionSet
        /\ [x EXCEPT !.names = Append(@, a)] \in HashOptionSet
        /\ [x EXCEPT !.names = Append(@, a), !.state = "names"] \in HashOptionSet
        /\ [x EXCEPT !.state = "names"] \in HashOptionSet
        /\ [x EXCEPT !.bad = TRUE] \in HashOptionSet
    BY <2>1, <2>2 DEF HashOptionSet
  <2>4. ASSUME a \in Flags
        PROVE  /\ [x EXCEPT !.flags = @ \cup {a}] \in HashOptionSet
               /\ [x EXCEPT !.flags = @ \cup {a}, !.state = "path"] \in HashOptionSet
    <3>1. x.flags \cup {a} \in SUBSET Flags
      BY <2>4 DEF HashOptionSet
    <3> QED BY <3>1 DEF HashOptionSet
  <2>5. HashArgument(x, a) \in HashOptionSet
    BY <2>3, <2>4 DEF HashArgument, Flags
  <2> QED BY <2>5 DEF a
<1>4. start \in HashOptionSet
  <2>1. <<>> \in Seq(Strings) /\ {} \in SUBSET Flags
    OBVIOUS
  <2> QED BY <2>1, EmptyString DEF HashOptionSet
<1> HIDE DEF n, start
<1>5. HashParsing!Fold(start, args) \in HashOptionSet
  BY <1>1, <1>2, <1>3, <1>4, HashParsing!FoldStaysIn
<1>6. HashParsing!Fold(start, args) = HashOptions(args)
  BY DEF HashOptions, start, HashParsing!Fold, FoldLeft, HashParsing!FoldLeft,
         MapThenFoldSet, HashParsing!MapThenFoldSet, Max, HashParsing!Max
<1> QED BY <1>5, <1>6
-----------------------------------------------------------------------------
(* The search of PATH, and the loop of hash over its names                 *)

LEMMA MinIs ==
    ASSUME NEW n \in Nat, NEW S \in SUBSET (1..n), S # {}
    PROVE  Min(S) \in S /\ \A j \in S : Min(S) <= j
<1>1. S \subseteq Nat
  OBVIOUS
<1>2. PICK m \in S : \A l \in S : ~(<<l, m>> \in OpToRel(<, Nat))
  BY <1>1, NatLessThanWellFounded, WFMin
<1>3. \A j \in S : m <= j
  <2> TAKE j \in S
  <2>1. ~(j < m)
    BY <1>1, <1>2 DEF OpToRel
  <2> QED BY <1>1, <2>1
<1> QED BY <1>3 DEF Min

LEMMA EntriesArePaths ==
    /\ SearchPath \in Seq(Path)
    /\ Len(SearchPath) \in Nat /\ DOMAIN SearchPath = 1..Len(SearchPath)
    /\ \A i \in DOMAIN SearchPath : SearchPath[i] \in Path
<1>1. SearchPath \in Seq(Path)
  BY CommandsAssumption
<1> HIDE DEF Path
<1>2. Len(SearchPath) \in Nat /\ DOMAIN SearchPath = 1..Len(SearchPath)
  BY <1>1, LenProperties
<1> QED BY <1>1, <1>2, ElementOfSeq

(* Where PATH has n.                                                       *)
FoundIn(n) == {i \in DOMAIN SearchPath : FileExists(File(SearchPath[i], n))}

LEMMA SearchIs ==
    ASSUME NEW n
    PROVE  \/ FoundIn(n) = {} /\ Search(n) = NotFound
           \/ \E i \in FoundIn(n) : /\ Search(n) = File(SearchPath[i], n)
                                    /\ \A j \in FoundIn(n) : i <= j
<1>1. CASE FoundIn(n) = {}
  BY <1>1 DEF FoundIn, Search
<1>2. CASE FoundIn(n) # {}
  <2>1. Search(n) = File(SearchPath[Min(FoundIn(n))], n)
    BY <1>2 DEF FoundIn, Search
  <2>2. Len(SearchPath) \in Nat /\ DOMAIN SearchPath = 1..Len(SearchPath)
    BY EntriesArePaths
  <2>3. FoundIn(n) \in SUBSET (1..Len(SearchPath))
    BY <2>2 DEF FoundIn
  <2> HIDE DEF FoundIn
  <2>4. Min(FoundIn(n)) \in FoundIn(n) /\ \A j \in FoundIn(n) : Min(FoundIn(n)) <= j
    BY <1>2, <2>2, <2>3, MinIs
  <2> QED BY <2>1, <2>4
<1> QED BY <1>1, <1>2

LEMMA SearchFinds ==
    ASSUME NEW n \in Commands
    PROVE  Search(n) \in {NotFound} \cup FilePath
<1>1. CASE Search(n) = NotFound
  BY <1>1
<1>2. ASSUME NEW i \in FoundIn(n), Search(n) = File(SearchPath[i], n)
      PROVE  Search(n) \in FilePath
  <2>1. SearchPath[i] \in Path
    BY EntriesArePaths DEF FoundIn
  <2>2. n \in Strings
    BY CommandsAssumption
  <2> QED BY <1>2, <2>1, <2>2 DEF File, FilePath
<1> QED BY <1>1, <1>2, SearchIs

LEMMA FileNamedIs ==
    ASSUME NEW a \in Strings
    PROVE  FileNamed(a) \in FilePath
<1>1. Relative(<<>>) \in Path
  <2>1. <<>> \in Seq(Strings)
    OBVIOUS
  <2> QED BY <2>1 DEF Relative, Path
<1>2. File(Relative(<<>>), a) \in FilePath
  BY <1>1 DEF File, FilePath
<1> QED BY <1>2, CommandsAssumption DEF FileNamed, FilePath

(* What is cached and not outdated is what a search finds.                 *)
Fresh(c, o) == \A n \in Commands \ o : c[n] = NotFound \/ c[n] = Search(n)
HashLoop == [cache : [Commands -> {NotFound} \cup FilePath],
             outdated : SUBSET Commands, status : {0, 1},
             flags : SUBSET Flags, path : Strings]
FreshLoop == {r \in HashLoop : Fresh(r.cache, r.outdated)}

LEMMA HashNameStays ==
    ASSUME NEW r \in HashLoop, NEW n
    PROVE  HashName(r, n) \in HashLoop
<1>1. CASE n \notin Commands
  <2> DEFINE s == IF "-p" \in r.flags THEN r.status ELSE 1
  <2>1. HashName(r, n) = [r EXCEPT !.status = s]
    BY <1>1 DEF HashName
  <2>2. s \in {0, 1}
    BY DEF HashLoop
  <2> HIDE DEF s
  <2> QED BY <2>1, <2>2 DEF HashLoop
<1> SUFFICES ASSUME n \in Commands PROVE HashName(r, n) \in HashLoop
  BY <1>1
<1>2. FileNamed(r.path) \in FilePath
  BY FileNamedIs DEF HashLoop
<1>3. ASSUME NEW f \in {NotFound} \cup FilePath, NEW o \in SUBSET Commands
      PROVE  [r EXCEPT !.cache[n] = f, !.outdated = o] \in HashLoop
  BY <1>3 DEF HashLoop
<1>8. ASSUME NEW f \in {NotFound} \cup FilePath, NEW s \in {0, 1}
      PROVE  [r EXCEPT !.status = s, !.cache[n] = f] \in HashLoop
  BY <1>8 DEF HashLoop
<1>4. r.outdated \in SUBSET Commands /\ r.status \in {0, 1} /\ r.cache[n] \in {NotFound} \cup FilePath
  BY DEF HashLoop
<1>5. CASE "-p" \in r.flags
  <2> DEFINE o == r.outdated \cup {n}
             f == FileNamed(r.path)
  <2>1. HashName(r, n) = [r EXCEPT !.cache[n] = f, !.outdated = o]
    BY <1>5 DEF HashName
  <2>2. o \in SUBSET Commands /\ f \in {NotFound} \cup FilePath
    BY <1>2, <1>4
  <2> HIDE DEF o, f
  <2> QED BY <1>3, <2>1, <2>2
<1>6. CASE "-p" \notin r.flags /\ r.flags \cap {"-d", "-t"} # {}
  <2> DEFINE s == IF r.cache[n] = NotFound THEN 1 ELSE r.status
             f == IF "-d" \in r.flags THEN NotFound ELSE r.cache[n]
  <2>1. HashName(r, n) = [r EXCEPT !.status = s, !.cache[n] = f]
    BY <1>6 DEF HashName
  <2>2. s \in {0, 1} /\ f \in {NotFound} \cup FilePath
    BY <1>4
  <2> HIDE DEF s, f
  <2> QED BY <1>8, <2>1, <2>2
<1>7. CASE "-p" \notin r.flags /\ r.flags \cap {"-d", "-t"} = {}
  <2>1. HashName(r, n) = IF Search(n) = NotFound THEN [r EXCEPT !.status = 1]
                         ELSE [r EXCEPT !.cache[n] = Search(n), !.outdated = r.outdated \ {n}]
    BY <1>7 DEF HashName
  <2>2. r.outdated \ {n} \in SUBSET Commands /\ [r EXCEPT !.status = 1] \in HashLoop
    BY <1>4 DEF HashLoop
  <2> QED BY <1>3, <2>1, <2>2, SearchFinds
<1> QED BY <1>5, <1>6, <1>7
LEMMA HashNameKeepsFresh ==
    ASSUME NEW r \in FreshLoop, NEW n
    PROVE  HashName(r, n) \in FreshLoop
<1> DEFINE q == HashName(r, n)
<1> SUFFICES q \in FreshLoop
  OBVIOUS
<1>1. r \in HashLoop /\ Fresh(r.cache, r.outdated)
  BY DEF FreshLoop
<1>2. q \in HashLoop
  BY <1>1, HashNameStays
<1>3. CASE n \notin Commands
  <2>1. q.cache = r.cache /\ q.outdated = r.outdated
    BY <1>1, <1>3 DEF HashName, HashLoop
  <2> QED BY <1>1, <1>2, <2>1 DEF FreshLoop
<1>4. CASE n \in Commands /\ "-p" \in r.flags
  <2>1. q.outdated = r.outdated \cup {n} /\ \A m \in Commands \ {n} : q.cache[m] = r.cache[m]
    BY <1>1, <1>4 DEF HashName, HashLoop
  <2> HIDE DEF q
  <2> QED BY <1>1, <1>2, <2>1 DEF FreshLoop, Fresh
<1>5. CASE n \in Commands /\ "-p" \notin r.flags /\ r.flags \cap {"-d", "-t"} # {}
  <2>1. /\ q.outdated = r.outdated /\ \A m \in Commands \ {n} : q.cache[m] = r.cache[m]
        /\ q.cache[n] = NotFound \/ q.cache[n] = r.cache[n]
    BY <1>1, <1>5 DEF HashName, HashLoop
  <2> HIDE DEF q
  <2>2. ASSUME NEW m \in Commands \ q.outdated
        PROVE  q.cache[m] = NotFound \/ q.cache[m] = Search(m)
    <3>1. r.cache[m] = NotFound \/ r.cache[m] = Search(m)
      BY <1>1, <2>1 DEF Fresh
    <3> QED BY <2>1, <3>1
  <2> QED BY <1>2, <2>2 DEF FreshLoop, Fresh
<1>6. CASE n \in Commands /\ "-p" \notin r.flags /\ r.flags \cap {"-d", "-t"} = {}
  <2>1. q = IF Search(n) = NotFound THEN [r EXCEPT !.status = 1]
            ELSE [r EXCEPT !.cache[n] = Search(n), !.outdated = r.outdated \ {n}]
    BY <1>6 DEF HashName
  <2>2. CASE Search(n) = NotFound
    <3>1. q.cache = r.cache /\ q.outdated = r.outdated
      BY <1>1, <2>1, <2>2 DEF HashLoop
    <3> HIDE DEF q
    <3> QED BY <1>1, <1>2, <3>1 DEF FreshLoop
  <2>3. CASE Search(n) # NotFound
    <3>1. /\ q.outdated = r.outdated \ {n} /\ q.cache[n] = Search(n)
          /\ \A m \in Commands \ {n} : q.cache[m] = r.cache[m]
      BY <1>1, <1>6, <2>1, <2>3 DEF HashLoop
    <3> HIDE DEF q
    <3>2. ASSUME NEW m \in Commands \ q.outdated
          PROVE  q.cache[m] = NotFound \/ q.cache[m] = Search(m)
      BY <1>1, <3>1 DEF Fresh
    <3> QED BY <1>2, <3>2 DEF FreshLoop, Fresh
  <2> QED BY <2>2, <2>3
<1> QED BY <1>3, <1>4, <1>5, <1>6

(* hash with names: the result of the whole loop.                          *)
LEMMA HashResultIs ==
    ASSUME NEW o \in HashOptionSet,
           cache \in [Commands -> {NotFound} \cup FilePath], outdated \in SUBSET Commands
    PROVE  /\ HashResult(o) \in HashLoop
           /\ Fresh(cache, outdated) => HashResult(o) \in FreshLoop
<1> DEFINE n == Len(o.names)
           names == o.names
<1>1. n \in Nat
  BY DEF HashOptionSet
<1>2. DOMAIN names = 1..n
  BY DEF HashOptionSet
<1>3. HashStart(o) \in HashLoop
  BY DEF HashStart, HashLoop, HashOptionSet
<1>4. Fresh(cache, outdated) => HashStart(o) \in FreshLoop
  BY <1>3 DEF FreshLoop, HashStart
<1>5. Hashing!Fold(HashStart(o), names) = HashResult(o)
  BY DEF HashResult, Hashing!Fold, FoldLeft, Hashing!FoldLeft,
         MapThenFoldSet, Hashing!MapThenFoldSet, Max, Hashing!Max
<1> HIDE DEF n, names
<1>6. \A x \in HashLoop : \A j \in 1..n : HashName(x, names[j]) \in HashLoop
  BY HashNameStays
<1>7. \A x \in FreshLoop : \A j \in 1..n : HashName(x, names[j]) \in FreshLoop
  BY HashNameKeepsFresh
<1>8. Hashing!Fold(HashStart(o), names) \in HashLoop
  BY <1>1, <1>2, <1>3, <1>6, Hashing!FoldStaysIn
<1>9. ASSUME Fresh(cache, outdated)
      PROVE  Hashing!Fold(HashStart(o), names) \in FreshLoop
  <2>1. HashStart(o) \in FreshLoop
    BY <1>4, <1>9
  <2> QED BY <1>1, <1>2, <1>7, <2>1, Hashing!FoldStaysIn
<1> QED BY <1>5, <1>8, <1>9

(* alias: the table after its arguments.                                   *)
Aliased == [AliasNames -> {NoAlias} \cup Seq(Strings)]
AliasLoop == [table : Aliased, status : {0, 1}]

LEMMA AliasResultIs ==
    ASSUME NEW args \in Seq(Strings), aliases \in Aliased
    PROVE  AliasResult(args) \in AliasLoop
<1> DEFINE n == Len(args)
<1>1. n \in Nat
  OBVIOUS
<1>2. DOMAIN args = 1..n
  OBVIOUS
<1>3. AliasStart \in AliasLoop
  BY DEF AliasStart, AliasLoop
<1>4. Aliasing!Fold(AliasStart, args) = AliasResult(args)
  BY DEF AliasResult, Aliasing!Fold, FoldLeft, Aliasing!FoldLeft,
         MapThenFoldSet, Aliasing!MapThenFoldSet, Max, Aliasing!Max
<1> HIDE DEF n
<1>5. ASSUME NEW r \in AliasLoop, NEW a
      PROVE  AliasArgument(r, a) \in AliasLoop
  <2>1. CASE a \in DOMAIN Definitions
    <3> DEFINE m == Definitions[a].name
               v == Definitions[a].value
    <3>1. AliasArgument(r, a) = [r EXCEPT !.table[m] = v]
      BY <2>1 DEF AliasArgument
    <3>2. m \in AliasNames /\ v \in Seq(Strings)
      BY <2>1, DefinitionsAssumption, LinesAssumption
    <3> HIDE DEF m, v
    <3> QED BY <3>1, <3>2 DEF AliasLoop, Aliased
  <2>2. CASE a \notin DOMAIN Definitions
    <3>1. AliasArgument(r, a) = IF a \in AliasNames /\ r.table[a] # NoAlias THEN r
                                ELSE [r EXCEPT !.status = 1]
      BY <2>2 DEF AliasArgument
    <3>2. [r EXCEPT !.status = 1] \in AliasLoop
      BY DEF AliasLoop
    <3> QED BY <3>1, <3>2
  <2> QED BY <2>1, <2>2
<1>6. \A r \in AliasLoop : \A j \in 1..n : AliasArgument(r, args[j]) \in AliasLoop
  BY <1>5
<1>7. Aliasing!Fold(AliasStart, args) \in AliasLoop
  BY <1>1, <1>2, <1>3, <1>6, Aliasing!FoldStaysIn
<1> QED BY <1>4, <1>7
-----------------------------------------------------------------------------
(* The steps of a session                                                  *)

LEMMA TypeFacts ==
    ASSUME TypeOK
    PROVE  /\ text \in Seq(Strings) /\ cwd \in Dirs /\ pwd \in Path
           /\ (oldpwd = Unset \/ oldpwd \in Path)
           /\ cache \in [Commands -> {NotFound} \cup FilePath]
           /\ outdated \in SUBSET Commands /\ aliases \in Aliased
           /\ Command \in Strings /\ Args \in Seq(Strings)
<1>1. text \in Seq(Strings)
  BY DEF TypeOK
<1>2. Command \in Strings /\ Args \in Seq(Strings)
  BY <1>1, ArgsAre
<1> QED BY <1>1, <1>2 DEF TypeOK, Aliased

(* A cd stays where it was, or arrives at a canonical path that is then    *)
(* the value of PWD, unless there is no OLDPWD.                            *)
Stays == UNCHANGED dirVars
ArrivesAt(d, s) ==
    /\ d \in Path /\ d.abs = TRUE /\ d.parts \in Seq(Name)
    /\ cwd' = Follow(Root, d.parts) /\ cwd' \in Dirs
    /\ \/ s = SegFault /\ UNCHANGED <<pwd, oldpwd>>
       \/ s = 0 /\ oldpwd' = pwd /\ pwd' = d

LEMMA CdStep ==
    ASSUME TypeOK, NEW s \in Statuses, BuiltinCd(Args, s)
    PROVE  Stays \/ \E d : ArrivesAt(d, s)
<1> DEFINE o == CdOptions(Args)
           target == CdTarget(o)
           d == Canonicalize(target, o.physical)
<1>1. o \in CdOptionSet
  BY TypeFacts, CdOptionsAre
<1>2. target = Unset \/ target \in Path
  BY <1>1, TypeFacts, CdTargetIs
<1>3. o.physical \in BOOLEAN
  BY <1>1 DEF CdOptionSet
<1>4. Stays \/ /\ target # Unset /\ Resolve(d) # Nowhere /\ cwd' = Resolve(d)
               /\ \/ s = SegFault /\ UNCHANGED <<pwd, oldpwd>>
                  \/ s = 0 /\ oldpwd' = pwd /\ pwd' = d
  BY DEF BuiltinCd, Stays, Arrived
<1> HIDE DEF o, target, d
<1>5. CASE target \in Path
  <2>1. d \in Path /\ d.abs = TRUE /\ d.parts \in Seq(Name)
    BY <1>3, <1>5, TypeFacts, CanonicalPath DEF d
  <2>2. d.parts \in Seq(Strings)
    BY <2>1 DEF Path
  <2>3. Resolve(d) = Follow(Root, d.parts)
    BY <2>1 DEF Resolve, Root
  <2>4. Root \in Dirs
    BY DirTree
  <2>5. Resolve(d) \in Dirs \cup {Nowhere}
    BY <2>2, <2>3, <2>4, FollowStays
  <2>6. ASSUME ~Stays
        PROVE  ArrivesAt(d, s)
    BY <1>4, <2>1, <2>3, <2>5, <2>6 DEF ArrivesAt
  <2> QED BY <2>6
<1> QED BY <1>2, <1>4, <1>5

LEMMA HashStep ==
    ASSUME TypeOK, NEW s, BuiltinHash(Args, s)
    PROVE  /\ cache' \in [Commands -> {NotFound} \cup FilePath]
           /\ outdated' \in SUBSET Commands
           /\ Fresh(cache, outdated) => Fresh(cache', outdated')
<1> DEFINE o == HashOptions(Args)
<1>1. o \in HashOptionSet
  BY TypeFacts, HashOptionsAre
<1>2. \/ UNCHANGED cacheVars
      \/ Cleared
      \/ cache' = HashResult(o).cache /\ outdated' = HashResult(o).outdated
  BY DEF BuiltinHash
<1> HIDE DEF o
<1>3. CASE UNCHANGED cacheVars
  BY <1>3, TypeFacts DEF cacheVars
<1>4. CASE Cleared
  BY <1>4 DEF Cleared, Fresh
<1>5. CASE cache' = HashResult(o).cache /\ outdated' = HashResult(o).outdated
  <2>1. HashResult(o) \in HashLoop
    BY <1>1, TypeFacts, HashResultIs
  <2>2. Fresh(cache, outdated) => HashResult(o) \in FreshLoop
    BY <1>1, TypeFacts, HashResultIs
  <2>3. cache' \in [Commands -> {NotFound} \cup FilePath] /\ outdated' \in SUBSET Commands
    BY <1>5, <2>1 DEF HashLoop
  <2> QED BY <1>5, <2>2, <2>3 DEF FreshLoop
<1> QED BY <1>2, <1>3, <1>4, <1>5

LEMMA AliasStep ==
    ASSUME TypeOK, NEW s,
           IF Command = "alias" THEN BuiltinAlias(Args, s) ELSE BuiltinUnalias(Args, s)
    PROVE  aliases' \in Aliased
<1>1. CASE Command = "alias"
  <2>1. aliases' = AliasResult(Args).table
    BY <1>1 DEF BuiltinAlias
  <2>2. AliasResult(Args) \in AliasLoop
    BY TypeFacts, AliasResultIs
  <2> QED BY <2>1, <2>2 DEF AliasLoop
<1>2. CASE Command # "alias"
  BY <1>2, TypeFacts DEF BuiltinUnalias, Aliased
<1> QED BY <1>1, <1>2

(* The first word of a line that is expanded is an alias, so that there is *)
(* one; its value takes its place.                                         *)
LEMMA ExpandStep ==
    ASSUME TypeOK, ExpandOnce
    PROVE  /\ text # <<>> /\ text[1] \notin Ending
           /\ \E v \in Seq(Strings) : text' = v \o Tail(text)
           /\ text' \in Seq(Strings) /\ UNCHANGED aliases
<1> DEFINE w == FirstWord(text)
           v == AliasOf(w)
<1>1. v # NoAlias /\ text' = v \o Tail(text) /\ UNCHANGED aliases
  BY DEF ExpandOnce
<1>2. w \in AliasNames /\ v = aliases[w]
  BY <1>1 DEF AliasOf
<1>3. v \in Seq(Strings)
  BY <1>1, <1>2, TypeFacts DEF Aliased
<1>4. w # ""
  BY <1>2, DefinitionsAssumption
<1>5. text # <<>> /\ text[1] \notin Ending
  BY <1>4 DEF FirstWord
<1> HIDE DEF w, v
<1>6. Tail(text) \in Seq(Strings)
  BY <1>5, TypeFacts, HeadTailProperties
<1>7. v \o Tail(text) \in Seq(Strings)
  BY <1>3, <1>6, ConcatProperties
<1> QED BY <1>1, <1>3, <1>5, <1>7
-----------------------------------------------------------------------------
(* Types                                                                   *)

LEMMA TypeInit == Init => TypeOK
<1> SUFFICES ASSUME Init PROVE TypeOK
  OBVIOUS
<1>1. PICK i \in Inherited : cwd = i.cwd /\ DirInit(i.pwd, i.oldpwd) /\ hasPath = i.hasPath
  BY DEF Init
<1>2. cwd \in Dirs /\ hasPath \in BOOLEAN
  BY <1>1, InheritedAssumption
<1>3. Absolute(cwd) \in Path
  BY <1>2, DirFacts DEF Absolute, Path
<1>4. pwd \in Path /\ (oldpwd = Unset \/ oldpwd \in Path)
  BY <1>1, <1>3, InheritedAssumption DEF DirInit
<1>5. /\ aliases \in [AliasNames -> {NoAlias} \cup Seq(Strings)]
      /\ cache \in [Commands -> {NotFound} \cup FilePath]
  BY DEF Init
<1>6. text \in Seq(Strings) /\ typed \in Seq(Strings) /\ files \subseteq Dirs \X Commands
  BY DEF Init
<1>7. mode = "reading" /\ outdated = {} /\ res.status \in Statuses
  BY DEF Init, NoResult, Statuses
<1> QED BY <1>2, <1>4, <1>5, <1>6, <1>7 DEF TypeOK

(* Every builtin and every command leaves no line behind.                  *)
LEMMA RunsStep ==
    ASSUME NEW result, result.status \in Statuses, Runs(result)
    PROVE  /\ mode' \in {"reading", "crashed"} /\ text' = <<>> /\ typed' = <<>>
           /\ res' = result /\ res'.status \in Statuses /\ UNCHANGED files
           /\ text' \in Seq(Strings) /\ typed' \in Seq(Strings) /\ UNCHANGED hasPath
           /\ mode' = "crashed" <=> result.status = SegFault
BY DEF Runs

(* What RunCommand makes of a status and of a file that execve() is given. *)
Ran(s, f) == [NoResult EXCEPT !.status = s, !.ran = f,
                              !.cmd = IF s = SegFault THEN @ ELSE Command]

LEMMA RunStep ==
    ASSUME Run
    PROVE  /\ mode = "running"
           /\ \E result : result.status \in Statuses /\ Runs(result)
<1>1. CASE RunCd
  <2>1. PICK s \in Statuses : BuiltinCd(Args, s) /\ Runs([NoResult EXCEPT !.status = s])
    BY <1>1 DEF RunCd
  <2>2. [NoResult EXCEPT !.status = s].status = s
    BY DEF NoResult
  <2> QED BY <1>1, <2>1, <2>2 DEF RunCd
<1>2. CASE RunPwd
  <2>1. PICK s \in {0, 1}, o \in {pwd, Absolute(cwd), Unset} :
           Runs([NoResult EXCEPT !.status = s, !.out = o])
    BY <1>2 DEF RunPwd
  <2>2. [NoResult EXCEPT !.status = s, !.out = o].status = s /\ s \in Statuses
    BY DEF NoResult, Statuses
  <2> QED BY <1>2, <2>1, <2>2 DEF RunPwd
<1>3. CASE RunHash
  <2>1. PICK s \in {0, 1, SegFault} : Runs([NoResult EXCEPT !.status = s])
    BY <1>3 DEF RunHash
  <2>2. [NoResult EXCEPT !.status = s].status = s /\ s \in Statuses
    BY DEF NoResult, Statuses
  <2> QED BY <1>3, <2>1, <2>2 DEF RunHash
<1>4. CASE RunAlias
  <2>1. PICK s \in {0, 1, 2} : Runs([NoResult EXCEPT !.status = s])
    BY <1>4 DEF RunAlias
  <2>2. [NoResult EXCEPT !.status = s].status = s /\ s \in Statuses
    BY DEF NoResult, Statuses
  <2> QED BY <1>4, <2>1, <2>2 DEF RunAlias
<1>5. CASE RunIdle
  <2>1. NoResult.status \in Statuses
    BY DEF NoResult, Statuses
  <2> QED BY <1>5, <2>1 DEF RunIdle
<1>6. CASE RunCommand
  <2>1. PICK s \in {0, SegFault} :
           \E f : Runs([NoResult EXCEPT !.status = s, !.ran = f,
                                        !.cmd = IF s = SegFault THEN @ ELSE Command])
    BY <1>6 DEF RunCommand
  <2>2. PICK f : Runs(Ran(s, f))
    BY <2>1 DEF Ran
  <2>3. NoResult = [status |-> 0, out |-> Unset, cmd |-> "", ran |-> NotFound]
    BY DEF NoResult
  <2>4. Ran(s, f).status = s
    BY <2>3 DEF Ran
  <2>5. s \in Statuses
    BY DEF Statuses
  <2> QED BY <1>6, <2>2, <2>4, <2>5 DEF RunCommand
<1> QED BY <1>1, <1>2, <1>3, <1>4, <1>5, <1>6 DEF Run

(* What a run changes in the state of the shell keeps its type.            *)
LEMMA RunTypes ==
    ASSUME TypeOK, Run
    PROVE  /\ aliases' \in Aliased /\ cwd' \in Dirs /\ pwd' \in Path
           /\ (oldpwd' = Unset \/ oldpwd' \in Path)
           /\ cache' \in [Commands -> {NotFound} \cup FilePath]
           /\ outdated' \in SUBSET Commands
<1>1. CASE RunCd
  <2>1. PICK s \in Statuses : BuiltinCd(Args, s)
    BY <1>1 DEF RunCd
  <2>2. Moved /\ UNCHANGED <<aliases, cache>>
    BY <1>1 DEF RunCd
  <2>3. outdated' \in SUBSET Commands
    BY <2>2, TypeFacts DEF Moved
  <2>4. CASE Stays
    BY <2>2, <2>3, <2>4, TypeFacts DEF Stays, dirVars
  <2>5. ASSUME NEW d, ArrivesAt(d, s)
        PROVE  cwd' \in Dirs /\ pwd' \in Path /\ (oldpwd' = Unset \/ oldpwd' \in Path)
    BY <2>5, TypeFacts DEF ArrivesAt
  <2> QED BY <2>1, <2>2, <2>3, <2>4, <2>5, TypeFacts, CdStep
<1>2. CASE RunPwd \/ RunIdle
  BY <1>2, TypeFacts DEF RunPwd, RunIdle, dirVars, cacheVars
<1>3. CASE RunHash
  <2>1. PICK s : BuiltinHash(Args, s)
    BY <1>3 DEF RunHash
  <2>2. UNCHANGED <<aliases, dirVars>>
    BY <1>3 DEF RunHash
  <2> QED BY <2>1, <2>2, TypeFacts, HashStep DEF dirVars
<1>4. CASE RunAlias
  <2>1. PICK s : IF Command = "alias" THEN BuiltinAlias(Args, s) ELSE BuiltinUnalias(Args, s)
    BY <1>4 DEF RunAlias
  <2>2. UNCHANGED <<dirVars, cacheVars>>
    BY <1>4 DEF RunAlias
  <2> QED BY <2>1, <2>2, TypeFacts, AliasStep DEF dirVars, cacheVars
<1>5. CASE RunCommand
  <2>1. PICK s, f : GetCmdRealpath(Command, s, f)
    BY <1>5 DEF RunCommand
  <2>2. UNCHANGED <<aliases, dirVars>>
    BY <1>5 DEF RunCommand
  <2>3. cache' \in [Commands -> {NotFound} \cup FilePath] /\ outdated' \in SUBSET Commands
    BY <2>1, TypeFacts, SearchFinds DEF GetCmdRealpath, cacheVars
  <2> QED BY <2>2, <2>3, TypeFacts DEF dirVars
<1> QED BY <1>1, <1>2, <1>3, <1>4, <1>5 DEF Run

LEMMA TypeInductive == TypeOK /\ [Next]_vars => TypeOK'
<1> SUFFICES ASSUME TypeOK, [Next]_vars PROVE TypeOK'
  OBVIOUS
<1>1. ASSUME NEW line \in Lines, Type(line)
      PROVE  TypeOK'
  <2>1. line \in Seq(Strings)
    BY LinesAssumption
  <2>2. res'.status \in Statuses
    BY <1>1 DEF Type, NoResult, Statuses
  <2> QED BY <1>1, <2>1, <2>2 DEF Type, TypeOK, dirVars, cacheVars
<1>2. CASE Expand
  <2>1. text' \in Seq(Strings)
    BY <1>2, ExpandStep DEF Expand
  <2>2. UNCHANGED <<aliases, dirVars, files, hasPath, cacheVars, mode, typed, res>>
    BY <1>2 DEF Expand, ExpandOnce
  <2> QED BY <2>1, <2>2 DEF TypeOK, dirVars, cacheVars
<1>3. CASE HandOver
  BY <1>3 DEF HandOver, TypeOK, aliasVars, dirVars, cacheVars
<1>4. CASE Run
  <2>1. PICK result : result.status \in Statuses /\ Runs(result)
    BY <1>4, RunStep
  <2>2. /\ mode' \in {"reading", "crashed"} /\ res'.status \in Statuses /\ UNCHANGED <<files, hasPath>>
        /\ text' \in Seq(Strings) /\ typed' \in Seq(Strings)
    BY <2>1, RunsStep
  <2> QED BY <1>4, <2>2, RunTypes DEF TypeOK, Aliased
<1>5. CASE OthersChangeFiles
  <2>1. PICK n \in Commands : FileChanged(n)
    BY <1>5 DEF OthersChangeFiles
  <2>2. PICK d \in FileDirs : files' = IF <<d, n>> \in files THEN files \ {<<d, n>>}
                                       ELSE files \cup {<<d, n>>}
    BY <2>1 DEF FileChanged, FilesChange
  <2>3. <<d, n>> \in Dirs \X Commands
    BY DirsAssumption
  <2>4. files' \subseteq Dirs \X Commands
    BY <2>2, <2>3 DEF TypeOK
  <2>5. /\ UNCHANGED <<aliases, text, pwd, oldpwd, hasPath, mode, typed, cwd, cache>>
        /\ outdated' \subseteq Commands /\ res' = NoResult
    BY <1>5, <2>1 DEF OthersChangeFiles, FileChanged, TypeOK
  <2>6. res'.status \in Statuses
    BY <2>5 DEF NoResult, Statuses
  <2> QED BY <2>4, <2>5, <2>6 DEF TypeOK
<1>6. CASE UNCHANGED vars
  BY <1>6 DEF TypeOK, vars
<1> QED BY <1>1, <1>2, <1>3, <1>4, <1>5, <1>6 DEF Next

(* The state of the shell and of the line that runs is well typed; in      *)
(* particular the process is in a directory and PWD is a path.             *)
THEOREM TypeCorrect == Spec => []TypeOK
BY TypeInit, TypeInductive, PTL DEF Spec
-----------------------------------------------------------------------------
(* PWD and the directory                                                   *)

(* PWD leads to the directory and never back on its way; what pwd printed  *)
(* is another such name, without dots.                                     *)
NamesCwd ==
    mode # "crashed" => /\ pwd.abs = TRUE /\ ".." \notin Range(pwd.parts)
                        /\ Follow(Root, pwd.parts) = cwd
Printed ==
    res.out # Unset => /\ res.out.abs = TRUE /\ Follow(Root, res.out.parts) = cwd
                       /\ {".", ".."} \cap Range(res.out.parts) = {}
DirInv == TypeOK /\ NamesCwd /\ Printed

LEMMA CwdNamesItself ==
    ASSUME NEW d \in Dirs
    PROVE  /\ Absolute(d).abs = TRUE /\ Absolute(d).parts = d
           /\ {".", ".."} \cap Range(d) = {} /\ ".." \notin Range(d)
           /\ Follow(Root, d) = d
BY DirFacts, NamesAreNoDots, FollowOwnName DEF Absolute

LEMMA DirInit0 == RightPwd(Inherited) => (Init => NamesCwd /\ Printed)
<1> SUFFICES ASSUME RightPwd(Inherited), Init PROVE NamesCwd /\ Printed
  OBVIOUS
<1>1. PICK i \in Inherited : cwd = i.cwd /\ DirInit(i.pwd, i.oldpwd)
  BY DEF Init
<1>2. Printed
  BY DEF Init, NoResult, Printed
<1>3. CASE i.pwd = Unset
  <2>1. pwd = Absolute(cwd) /\ cwd \in Dirs
    BY <1>1, <1>3, InheritedAssumption DEF DirInit
  <2>2. pwd.abs = TRUE /\ ".." \notin Range(pwd.parts) /\ Follow(Root, pwd.parts) = cwd
    BY <2>1, CwdNamesItself
  <2> QED BY <1>2, <2>2 DEF NamesCwd
<1>4. CASE i.pwd # Unset
  <2>1. pwd = i.pwd /\ i.pwd \in Path
    BY <1>1, <1>4, InheritedAssumption DEF DirInit
  <2>2. i.pwd.abs = TRUE
    BY <1>4, <2>1 DEF RightPwd, Path
  <2>3. ".." \notin Range(i.pwd.parts) /\ Follow(Root, i.pwd.parts) = i.cwd
    BY <1>4 DEF RightPwd, Root
  <2> QED BY <1>1, <1>2, <2>1, <2>2, <2>3 DEF NamesCwd
<1> QED BY <1>3, <1>4

(* Only cd moves, and then OLDPWD is the name of the directory before.     *)
LEMMA MovingStep ==
    ASSUME DirInv, [Next]_vars
    PROVE  \/ UNCHANGED dirVars /\ (mode = "crashed" => mode' = "crashed")
           \/ \E d, s : RunCd /\ ArrivesAt(d, s) /\ (s = SegFault => mode' = "crashed")
<1>1. CASE RunCd
  <2>1. PICK s \in Statuses : BuiltinCd(Args, s) /\ Runs([NoResult EXCEPT !.status = s])
    BY <1>1 DEF RunCd
  <2>2. s = SegFault => mode' = "crashed"
    BY <2>1 DEF Runs, NoResult
  <2>3. Stays \/ \E d : ArrivesAt(d, s)
    BY <2>1, CdStep DEF DirInv
  <2>4. mode = "running"
    BY <1>1 DEF RunCd
  <2> QED BY <1>1, <2>2, <2>3, <2>4 DEF Stays
<1>2. CASE RunPwd \/ RunHash \/ RunAlias \/ RunIdle \/ RunCommand
  BY <1>2 DEF RunPwd, RunHash, RunAlias, RunIdle, RunCommand
<1>3. CASE (\E line \in Lines : Type(line)) \/ Expand \/ HandOver \/ OthersChangeFiles
  <2>1. mode # "crashed"
    BY <1>3 DEF Type, Expand, HandOver, OthersChangeFiles
  <2>2. UNCHANGED dirVars
    BY <1>3 DEF Type, Expand, HandOver, OthersChangeFiles, FileChanged, dirVars
  <2> QED BY <2>1, <2>2
<1>4. CASE UNCHANGED vars
  BY <1>4 DEF vars, dirVars
<1> QED BY <1>1, <1>2, <1>3, <1>4 DEF Next, Run

LEMMA NamesCwdInductive == DirInv /\ [Next]_vars => NamesCwd'
<1> SUFFICES ASSUME DirInv, [Next]_vars PROVE NamesCwd'
  OBVIOUS
<1>1. CASE UNCHANGED dirVars /\ (mode = "crashed" => mode' = "crashed")
  BY <1>1 DEF DirInv, NamesCwd, dirVars
<1>2. ASSUME NEW d, NEW s, ArrivesAt(d, s), s = SegFault => mode' = "crashed"
      PROVE  NamesCwd'
  <2>1. CASE s = SegFault
    BY <1>2, <2>1 DEF NamesCwd
  <2>2. CASE s # SegFault
    <3>1. pwd' = d /\ d.abs = TRUE /\ cwd' = Follow(Root, d.parts) /\ d.parts \in Seq(Name)
      BY <1>2, <2>2 DEF ArrivesAt
    <3>2. ".." \notin Range(d.parts)
      BY <3>1, NamesAreNoDots
    <3> QED BY <3>1, <3>2 DEF NamesCwd
  <2> QED BY <2>1, <2>2
<1> QED BY <1>1, <1>2, MovingStep

LEMMA PrintedInductive == DirInv /\ [Next]_vars => Printed'
<1> SUFFICES ASSUME DirInv, [Next]_vars PROVE Printed'
  OBVIOUS
<1>1. CASE RunPwd
  <2>1. PICK s, o : BuiltinPwd(Args, s, o) /\ Runs([NoResult EXCEPT !.status = s, !.out = o])
    BY <1>1 DEF RunPwd
  <2>2. UNCHANGED dirVars /\ mode = "running"
    BY <1>1 DEF RunPwd
  <2>3. res'.out = o
    BY <2>1 DEF Runs, NoResult
  <2>4. \/ o = Unset
        \/ o = Absolute(cwd)
        \/ o = pwd /\ {".", ".."} \cap Range(pwd.parts) = {}
    BY <2>1 DEF BuiltinPwd
  <2>5. CASE o = Absolute(cwd)
    <3>1. cwd \in Dirs /\ cwd' = cwd
      BY <2>2 DEF DirInv, TypeOK, dirVars
    <3>2. o.abs = TRUE /\ Follow(Root, o.parts) = cwd /\ {".", ".."} \cap Range(o.parts) = {}
      BY <2>5, <3>1, CwdNamesItself
    <3> QED BY <2>3, <3>1, <3>2 DEF Printed
  <2>6. CASE o = pwd /\ {".", ".."} \cap Range(pwd.parts) = {}
    BY <2>2, <2>3, <2>6 DEF DirInv, NamesCwd, Printed, dirVars
  <2> QED BY <2>3, <2>4, <2>5, <2>6 DEF Printed
<1>2. CASE res'.out = Unset
  BY <1>2 DEF Printed
<1>3. CASE UNCHANGED <<dirVars, res>>
  BY <1>3 DEF DirInv, Printed, dirVars
<1>4. CASE RunCd \/ RunHash \/ RunAlias \/ RunIdle \/ RunCommand
  <2>1. ASSUME NEW s, Runs([NoResult EXCEPT !.status = s])
        PROVE  res'.out = Unset
    BY <2>1 DEF Runs, NoResult
  <2>2. ASSUME NEW s, NEW f, Runs(Ran(s, f))
        PROVE  res'.out = Unset
    BY <2>2 DEF Runs, Ran, NoResult
  <2>3. CASE RunCd
    BY <1>2, <2>1, <2>3 DEF RunCd
  <2>4. CASE RunHash
    BY <1>2, <2>1, <2>4 DEF RunHash
  <2>5. CASE RunAlias
    BY <1>2, <2>1, <2>5 DEF RunAlias
  <2>6. CASE RunIdle
    BY <1>2, <2>6 DEF RunIdle, Runs, NoResult
  <2>7. CASE RunCommand
    BY <1>2, <2>2, <2>7 DEF RunCommand, Ran
  <2> QED BY <1>4, <2>3, <2>4, <2>5, <2>6, <2>7
<1>5. CASE (\E line \in Lines : Type(line)) \/ OthersChangeFiles
  <2>1. res' = NoResult
    BY <1>5 DEF Type, OthersChangeFiles
  <2>2. res'.out = Unset
    BY <2>1 DEF NoResult
  <2> QED BY <1>2, <2>2
<1>6. CASE Expand \/ HandOver \/ UNCHANGED vars
  BY <1>3, <1>6 DEF Expand, HandOver, vars, dirVars
<1> QED BY <1>1, <1>4, <1>5, <1>6 DEF Next, Run

LEMMA DirAlways == RightPwd(Inherited) => (Spec => []DirInv)
<1> SUFFICES ASSUME RightPwd(Inherited) PROVE Spec => []DirInv
  OBVIOUS
<1>1. Init => NamesCwd /\ Printed
  BY DirInit0
<1>2. TypeOK /\ NamesCwd /\ Printed /\ [Next]_vars => NamesCwd' /\ Printed'
  BY NamesCwdInductive, PrintedInductive DEF DirInv
<1>3. TypeOK /\ NamesCwd /\ Printed => DirInv
  BY DEF DirInv
<1> QED BY <1>1, <1>2, <1>3, TypeCorrect, PTL DEF Spec

(* Whatever links and dots cd is given, and however it comes back, PWD is  *)
(* a name of the current directory, and so is what pwd prints, if that was *)
(* so of the PWD the shell inherited.                                      *)
THEOREM PwdCorrect == RightPwd(Inherited) => (Spec => []PwdNamesCwd)
<1> SUFFICES ASSUME RightPwd(Inherited) PROVE Spec => []PwdNamesCwd
  OBVIOUS
<1>1. DirInv => PwdNamesCwd
  BY DEF DirInv, NamesCwd, Printed, PwdNamesCwd, Resolve, Root
<1> QED BY <1>1, DirAlways, PTL

(* After every cd that moves, OLDPWD leads cd - back to where it was.      *)
THEOREM WayBackCorrect == RightPwd(Inherited) => (Spec => CdLeavesWayBack)
<1> SUFFICES ASSUME RightPwd(Inherited) PROVE Spec => CdLeavesWayBack
  OBVIOUS
<1>1. ASSUME DirInv, [Next]_vars, cwd' # cwd, mode' # "crashed"
      PROVE  Resolve(Canonicalize(oldpwd', FALSE)) = cwd
  <2>1. PICK d, s : ArrivesAt(d, s) /\ (s = SegFault => mode' = "crashed") /\ RunCd
    BY <1>1, MovingStep DEF dirVars
  <2>2. oldpwd' = pwd /\ mode = "running"
    BY <1>1, <2>1 DEF ArrivesAt, RunCd
  <2>3. /\ pwd.abs = TRUE /\ pwd.parts \in Seq(Strings)
        /\ ".." \notin Range(pwd.parts) /\ Follow(Root, pwd.parts) = cwd
    BY <1>1, <2>2 DEF DirInv, NamesCwd, TypeOK, Path
  <2>4. <<>> \o pwd.parts = pwd.parts
    BY <2>3, ConcatEmptySeq
  <2>5. Canonicalize(oldpwd', FALSE) = Absolute(WithoutDots(pwd.parts))
    BY <2>2, <2>3, <2>4 DEF Canonicalize
  <2>6. Resolve(Absolute(WithoutDots(pwd.parts))) = Follow(Root, WithoutDots(pwd.parts))
    BY DEF Resolve, Absolute, Root
  <2> QED BY <2>3, <2>5, <2>6, WithoutDotsLeads
<1>2. DirInv /\ [Next]_vars
      => [cwd' # cwd /\ mode' # "crashed"
          => Resolve(Canonicalize(oldpwd', FALSE)) = cwd]_vars
  BY <1>1
<1> QED BY <1>2, DirAlways, PTL DEF Spec, CdLeavesWayBack
-----------------------------------------------------------------------------
(* The path cache                                                          *)

(* A search finds the same when PATH has the same files as before.         *)
LEMMA SearchSame ==
    ASSUME NEW n, FoundIn(n)' = FoundIn(n)
    PROVE  Search(n)' = Search(n)
BY DEF Search, FoundIn

LEMMA SearchUnmoved ==
    ASSUME UNCHANGED <<cwd, files>>
    PROVE  \A n : Search(n)' = Search(n)
<1> TAKE n
<1>1. FoundIn(n)' = FoundIn(n)
  BY DEF FoundIn, FileExists, Resolve
<1> QED BY <1>1, SearchSame

(* What is found by absolute entries of PATH is found from everywhere.     *)
LEMMA SearchFixed ==
    ASSUME NEW n \in Commands, Search(n) # NotFound, FixedAt(Search(n)), UNCHANGED files
    PROVE  Search(n)' = Search(n)
<1>1. PICK m \in FoundIn(n) : /\ Search(n) = File(SearchPath[m], n)
                              /\ \A j \in FoundIn(n) : m <= j
  BY SearchIs
<1>2. PICK i \in DOMAIN SearchPath : /\ Search(n).dir = SearchPath[i]
                                     /\ \A j \in 1..i : SearchPath[j].abs
  BY DEF FixedAt
<1>3. /\ Len(SearchPath) \in Nat /\ DOMAIN SearchPath = 1..Len(SearchPath)
      /\ m \in 1..Len(SearchPath) /\ i \in 1..Len(SearchPath)
  BY EntriesArePaths DEF FoundIn
<1>4. SearchPath[i] = SearchPath[m]
  BY <1>1, <1>2 DEF File
<1>5. i \in FoundIn(n)
  BY <1>4 DEF FoundIn
<1>6. m <= i
  BY <1>1, <1>5
<1>7. \A j \in 1..m : j \in FoundIn(n)' <=> j \in FoundIn(n)
  <2> TAKE j \in 1..m
  <2>1. j \in 1..i /\ SearchPath[j].abs
    BY <1>2, <1>3, <1>6
  <2>2. Resolve(SearchPath[j])' = Resolve(SearchPath[j])
    BY <2>1 DEF Resolve
  <2>3. FileExists(File(SearchPath[j], n))' <=> FileExists(File(SearchPath[j], n))
    BY <2>2 DEF FileExists, File
  <2> QED BY <2>3 DEF FoundIn
<1>8. FoundIn(n)' \in SUBSET (1..Len(SearchPath)) /\ m \in FoundIn(n)'
  BY <1>3, <1>7 DEF FoundIn
<1> DEFINE least == Min(FoundIn(n)')
<1>9. Search(n)' = File(SearchPath[least], n)
  BY <1>8 DEF Search, FoundIn
<1>10. least \in FoundIn(n)' /\ \A j \in FoundIn(n)' : least <= j
  BY <1>3, <1>8, MinIs
<1> HIDE DEF least
<1>11. least \in 1..m
  BY <1>3, <1>8, <1>10
<1>12. least \in FoundIn(n)
  BY <1>7, <1>10, <1>11
<1>13. least = m
  BY <1>1, <1>3, <1>11, <1>12
<1> QED BY <1>1, <1>9, <1>13

(* Files with other names come and go.                                     *)
LEMMA SearchOthers ==
    ASSUME NEW n, FilesChange(n), UNCHANGED cwd, NEW m, m # n
    PROVE  Search(m)' = Search(m)
<1>1. \A d : <<d, m>> \in files' <=> <<d, m>> \in files
  BY DEF FilesChange
<1>2. FoundIn(m)' = FoundIn(m)
  BY <1>1 DEF FoundIn, FileExists, Resolve, File
<1> QED BY <1>2, SearchSame

CacheFresh == Fresh(cache, outdated)

LEMMA CacheFreshCd ==
    ASSUME TypeOK, CacheFresh, RunCd
    PROVE  CacheFresh'
<1>1. Moved /\ UNCHANGED cache /\ UNCHANGED files
  BY DEF RunCd, Runs
<1> SUFFICES ASSUME NEW n \in Commands \ outdated', cache[n] # NotFound
             PROVE  cache[n] = Search(n)'
  BY <1>1 DEF CacheFresh, Fresh
<1>2. n \notin outdated
  BY <1>1 DEF Moved
<1>3. cache[n] = Search(n)
  BY <1>2 DEF CacheFresh, Fresh
<1>4. CASE cwd' = cwd
  BY <1>1, <1>3, <1>4, SearchUnmoved
<1>5. CASE cwd' # cwd
  <2>1. FixedAt(cache[n])
    BY <1>1, <1>5 DEF Moved
  <2> QED BY <1>1, <1>3, <2>1, SearchFixed
<1> QED BY <1>4, <1>5

(* A command that runs is in the cache from then on, or has a slash.       *)
LEMMA CommandStep ==
    ASSUME TypeOK, CacheFresh, RunCommand
    PROVE  CacheFresh' /\ RunsWhatSearchFinds'
<1>1. PICK s, f : GetCmdRealpath(Command, s, f) /\ Runs(Ran(s, f))
  BY DEF RunCommand, Ran
<1>2. UNCHANGED <<cwd, files>> /\ res' = Ran(s, f)
  BY <1>1 DEF RunCommand, Runs, dirVars
<1>3. \A n : Search(n)' = Search(n)
  BY <1>2, SearchUnmoved
<1>4. CASE s = SegFault
  <2>1. UNCHANGED cacheVars
    <3>1. NeedsSearch(Command)
      BY <1>1, <1>4 DEF GetCmdRealpath, SegFault
    <3> QED BY <1>1, <1>4, <3>1 DEF GetCmdRealpath, NeedsSearch
  <2>2. res'.cmd = ""
    BY <1>2, <1>4 DEF Ran, NoResult
  <2> QED BY <1>3, <2>1, <2>2, CommandsAssumption
          DEF CacheFresh, Fresh, RunsWhatSearchFinds, cacheVars
<1>5. CASE s # SegFault
  <2>1. res'.cmd = Command /\ res'.ran = f
    BY <1>2, <1>5 DEF Ran, NoResult
  <2>2. CASE Command \notin Commands
    <3>1. UNCHANGED cacheVars
      BY <1>1, <2>2 DEF GetCmdRealpath
    <3> QED BY <1>3, <2>1, <2>2, <3>1 DEF CacheFresh, Fresh, RunsWhatSearchFinds, cacheVars
  <2>3. CASE Command \in Commands /\ cache[Command] # NotFound
    <3>1. f = cache[Command] /\ UNCHANGED cacheVars
      BY <1>1, <1>5, <2>3, CommandsAssumption DEF GetCmdRealpath
    <3> QED BY <1>3, <2>1, <2>3, <3>1 DEF CacheFresh, Fresh, RunsWhatSearchFinds, cacheVars
  <2>4. CASE Command \in Commands /\ cache[Command] = NotFound
    <3>1. /\ f = Search(Command) /\ cache' = [cache EXCEPT ![Command] = f]
          /\ outdated' = outdated \ {Command}
      BY <1>1, <1>5, <2>4, CommandsAssumption DEF GetCmdRealpath
    <3>2. ASSUME NEW n \in Commands \ outdated'
          PROVE  cache'[n] = NotFound \/ cache'[n] = Search(n)'
      BY <1>3, <3>1, TypeFacts DEF CacheFresh, Fresh
    <3> QED BY <1>3, <2>1, <3>1, <3>2 DEF CacheFresh, Fresh, RunsWhatSearchFinds
  <2> QED BY <2>2, <2>3, <2>4
<1> QED BY <1>4, <1>5

LEMMA CacheInductive ==
    TypeOK /\ CacheFresh /\ RunsWhatSearchFinds /\ [Next]_vars
    => CacheFresh' /\ RunsWhatSearchFinds'
<1> SUFFICES ASSUME TypeOK, CacheFresh, RunsWhatSearchFinds, [Next]_vars
             PROVE  CacheFresh' /\ RunsWhatSearchFinds'
  OBVIOUS
<1>1. ASSUME res'.cmd = ""
      PROVE  RunsWhatSearchFinds'
  BY <1>1, CommandsAssumption DEF RunsWhatSearchFinds
<1>2. ASSUME UNCHANGED <<cwd, files, cache, outdated>>
      PROVE  CacheFresh'
  BY <1>2, SearchUnmoved DEF CacheFresh, Fresh
<1>3. ASSUME NEW s, Runs([NoResult EXCEPT !.status = s])
      PROVE  res'.cmd = "" /\ UNCHANGED files
  BY <1>3 DEF Runs, NoResult
<1>4. CASE \E line \in Lines : Type(line)
  <2>1. res' = NoResult /\ UNCHANGED <<cwd, files, cache, outdated>>
    BY <1>4 DEF Type, dirVars, cacheVars
  <2>2. res'.cmd = ""
    BY <2>1 DEF NoResult
  <2> QED BY <1>1, <1>2, <2>1, <2>2
<1>5. CASE Expand \/ HandOver \/ UNCHANGED vars
  <2>1. UNCHANGED <<cwd, files, cache, outdated, res>>
    BY <1>5 DEF Expand, HandOver, vars, dirVars, cacheVars
  <2> QED BY <1>2, <2>1, SearchUnmoved DEF RunsWhatSearchFinds
<1>6. CASE RunCd
  <2>1. res'.cmd = ""
    BY <1>3, <1>6 DEF RunCd
  <2> QED BY <1>1, <1>6, <2>1, CacheFreshCd
<1>7. CASE RunPwd
  <2>1. PICK s, o : Runs([NoResult EXCEPT !.status = s, !.out = o])
    BY <1>7 DEF RunPwd
  <2>2. res'.cmd = "" /\ UNCHANGED files
    BY <2>1 DEF Runs, NoResult
  <2>3. UNCHANGED <<cwd, cache, outdated>>
    BY <1>7 DEF RunPwd, dirVars, cacheVars
  <2> QED BY <1>1, <1>2, <2>2, <2>3
<1>8. CASE RunHash
  <2>1. PICK s : BuiltinHash(Args, s) /\ Runs([NoResult EXCEPT !.status = s])
    BY <1>8 DEF RunHash
  <2>2. res'.cmd = "" /\ UNCHANGED <<cwd, files>>
    BY <1>3, <1>8, <2>1 DEF RunHash, dirVars
  <2>3. Fresh(cache', outdated')
    BY <2>1, HashStep DEF CacheFresh
  <2>4. CacheFresh'
    BY <2>2, <2>3, SearchUnmoved DEF CacheFresh, Fresh
  <2> QED BY <1>1, <2>2, <2>4
<1>9. CASE RunAlias
  <2>1. res'.cmd = "" /\ UNCHANGED files
    BY <1>3, <1>9 DEF RunAlias
  <2>2. UNCHANGED <<cwd, cache, outdated>>
    BY <1>9 DEF RunAlias, dirVars, cacheVars
  <2> QED BY <1>1, <1>2, <2>1, <2>2
<1>10. CASE OthersChangeFiles
  <2>1. PICK n \in Commands : FileChanged(n)
    BY <1>10 DEF OthersChangeFiles
  <2>2. FilesChange(n) /\ outdated' = outdated \cup {n} /\ UNCHANGED <<cwd, cache>>
    BY <2>1 DEF FileChanged
  <2>3. \A m : m # n => Search(m)' = Search(m)
    BY <2>2, SearchOthers
  <2>4. CacheFresh'
    BY <2>2, <2>3 DEF CacheFresh, Fresh
  <2>5. res' = NoResult
    BY <1>10 DEF OthersChangeFiles
  <2>6. res'.cmd = ""
    BY <2>5 DEF NoResult
  <2> QED BY <1>1, <2>4, <2>6
<1>11. CASE RunIdle
  <2>1. res' = NoResult /\ UNCHANGED <<cwd, files, cache, outdated>>
    BY <1>11 DEF RunIdle, Runs, dirVars, cacheVars
  <2>2. res'.cmd = ""
    BY <2>1 DEF NoResult
  <2> QED BY <1>1, <1>2, <2>1, <2>2
<1> QED BY <1>4, <1>5, <1>6, <1>7, <1>8, <1>9, <1>10, <1>11, CommandStep DEF Next, Run

(* A command is run from where a search of PATH finds it, as long as it is *)
(* not outdated: the entries that a cd, hash or a lookup leaves in the     *)
(* cache are those a search would find now, in this directory.             *)
THEOREM CacheCorrect == Spec => []RunsWhatSearchFinds
<1>1. Init => CacheFresh
  BY DEF Init, CacheFresh, Fresh
<1>2. Init => RunsWhatSearchFinds
  <2>1. SUFFICES ASSUME Init PROVE RunsWhatSearchFinds
    OBVIOUS
  <2>2. res = NoResult
    BY <2>1 DEF Init
  <2>3. res.cmd = ""
    BY <2>2 DEF NoResult
  <2> QED BY <2>3, CommandsAssumption DEF RunsWhatSearchFinds
<1>3. TypeOK /\ CacheFresh /\ RunsWhatSearchFinds /\ [Next]_vars
      => CacheFresh' /\ RunsWhatSearchFinds'
  BY CacheInductive
<1> QED BY <1>1, <1>2, <1>3, TypeCorrect, PTL DEF Spec

-----------------------------------------------------------------------------
(* The arguments of an alias                                               *)

LEMMA SuffixIs ==
    ASSUME NEW S, NEW s \in Seq(S), NEW t \in Seq(S)
    PROVE  IsSuffix(s, t) <=> /\ Len(s) <= Len(t)
                              /\ \A i \in 1..Len(s) : s[i] = t[Len(t) - Len(s) + i]
<1> DEFINE rs == Reverse(s)
           rt == Reverse(t)
<1>1. /\ rs \in Seq(S) /\ Len(rs) = Len(s) /\ \A i \in 1..Len(s) : rs[i] = s[Len(s) - i + 1]
      /\ rt \in Seq(S) /\ Len(rt) = Len(t) /\ \A i \in 1..Len(t) : rt[i] = t[Len(t) - i + 1]
  BY DEF Reverse
<1>2. Len(s) \in Nat /\ Len(t) \in Nat
  OBVIOUS
<1>3. IsSuffix(s, t) <=> Len(s) <= Len(t) /\ SubSeq(rs, 1, Len(s)) = SubSeq(rt, 1, Len(s))
  BY <1>1 DEF IsSuffix, IsPrefix
<1> HIDE DEF rs, rt
<1>4. SUFFICES ASSUME Len(s) <= Len(t)
               PROVE  SubSeq(rs, 1, Len(s)) = SubSeq(rt, 1, Len(s))
                      <=> \A i \in 1..Len(s) : s[i] = t[Len(t) - Len(s) + i]
  BY <1>3
<1>5. SubSeq(rs, 1, Len(s)) = SubSeq(rt, 1, Len(s)) <=> \A i \in 1..Len(s) : rs[i] = rt[i]
  <2>1. /\ SubSeq(rs, 1, Len(s)) \in Seq(S) /\ Len(SubSeq(rs, 1, Len(s))) = Len(s)
        /\ \A i \in 1..Len(s) : SubSeq(rs, 1, Len(s))[i] = rs[i]
    BY <1>1, <1>2
  <2>2. /\ SubSeq(rt, 1, Len(s)) \in Seq(S) /\ Len(SubSeq(rt, 1, Len(s))) = Len(s)
        /\ \A i \in 1..Len(s) : SubSeq(rt, 1, Len(s))[i] = rt[i]
    BY <1>1, <1>2, <1>4
  <2> DEFINE a == SubSeq(rs, 1, Len(s))
             b == SubSeq(rt, 1, Len(s))
  <2> HIDE DEF a, b
  <2>3. a \in Seq(S) /\ b \in Seq(S) /\ Len(a) = Len(s) /\ Len(b) = Len(s)
        /\ \A i \in 1..Len(s) : a[i] = rs[i] /\ b[i] = rt[i]
    BY <2>1, <2>2 DEF a, b
  <2>4. a = b <=> \A i \in 1..Len(s) : a[i] = b[i]
    BY <2>3, SeqEqual
  <2> QED BY <2>3, <2>4 DEF a, b
<1>6. ASSUME \A i \in 1..Len(s) : rs[i] = rt[i], NEW i \in 1..Len(s)
      PROVE  s[i] = t[Len(t) - Len(s) + i]
  <2> DEFINE j == Len(s) - i + 1
  <2>1. j \in 1..Len(s) /\ j \in 1..Len(t) /\ Len(s) - j + 1 = i
        /\ Len(t) - j + 1 = Len(t) - Len(s) + i
    BY <1>2, <1>4
  <2> HIDE DEF j
  <2> QED BY <1>1, <1>6, <2>1
<1>7. ASSUME \A i \in 1..Len(s) : s[i] = t[Len(t) - Len(s) + i], NEW i \in 1..Len(s)
      PROVE  rs[i] = rt[i]
  <2> DEFINE j == Len(s) - i + 1
  <2>1. j \in 1..Len(s) /\ i \in 1..Len(t) /\ Len(t) - Len(s) + j = Len(t) - i + 1
    BY <1>2, <1>4
  <2>2. rs[i] = s[j] /\ rt[i] = t[Len(t) - i + 1]
    BY <1>1, <2>1 DEF j
  <2> HIDE DEF j
  <2> QED BY <1>7, <2>1, <2>2
<1> QED BY <1>5, <1>6, <1>7

(* A word that is replaced is not among the arguments: what is left of the *)
(* line by then ends in them, and they begin with what ended the word.     *)
LEMMA ReplacedBeforeArguments ==
    ASSUME NEW l \in Lines, NEW t \in Seq(Strings), t # <<>>, t[1] \notin Ending,
           l[1] \notin Ending, IsSuffix(Tail(l), t)
    PROVE  IsSuffix(Tail(l), Tail(t))
<1> DEFINE a == Tail(l)
           r == Tail(t)
<1>1. l \in Seq(Strings) /\ l # <<>> /\ (Len(l) > 1 => l[2] \in Ending)
  BY LinesAssumption
<1>2. /\ a \in Seq(Strings) /\ Len(a) = Len(l) - 1
      /\ \A i \in 1..Len(a) : a[i] = l[i + 1]
  BY <1>1, HeadTailProperties
<1>3. /\ r \in Seq(Strings) /\ Len(r) = Len(t) - 1
      /\ \A i \in 1..Len(r) : r[i] = t[i + 1]
  BY HeadTailProperties
<1>4. Len(l) \in Nat /\ Len(t) \in Nat /\ Len(a) \in Nat /\ Len(r) \in Nat
  BY <1>1, <1>2, <1>3
<1> HIDE DEF a, r
<1>5. /\ Len(a) <= Len(t)
      /\ \A i \in 1..Len(a) : a[i] = t[Len(t) - Len(a) + i]
  BY <1>2, SuffixIs DEF a
<1>6. Len(a) # Len(t)
  <2>1. SUFFICES ASSUME Len(a) = Len(t) PROVE FALSE
    OBVIOUS
  <2>2. Len(t) > 0
    BY <1>4, EmptySeq
  <2>3. 1 \in 1..Len(a) /\ Len(l) > 1 /\ Len(t) - Len(a) + 1 = 1
    BY <1>2, <1>4, <2>1, <2>2
  <2>4. a[1] = l[2] /\ a[1] = t[1]
    BY <1>2, <1>5, <2>3
  <2> QED BY <1>1, <2>3, <2>4
<1>7. Len(a) <= Len(r)
  BY <1>3, <1>4, <1>5, <1>6
<1>8. ASSUME NEW i \in 1..Len(a) PROVE a[i] = r[Len(r) - Len(a) + i]
  <2> DEFINE j == Len(r) - Len(a) + i
  <2>1. j \in 1..Len(r) /\ j + 1 = Len(t) - Len(a) + i
    BY <1>3, <1>4, <1>7
  <2> HIDE DEF j
  <2>2. r[j] = t[Len(t) - Len(a) + i]
    BY <1>3, <2>1
  <2> QED BY <1>5, <2>2 DEF j
<1>9. IsSuffix(a, r)
  BY <1>2, <1>3, <1>7, <1>8, SuffixIs
<1> QED BY <1>9 DEF a, r

(* What ends a line still ends it behind anything that is put before it.   *)
LEMMA SuffixBehind ==
    ASSUME NEW s \in Seq(Strings), NEW t \in Seq(Strings), NEW v \in Seq(Strings),
           IsSuffix(s, t)
    PROVE  IsSuffix(s, v \o t)
<1> DEFINE vt == v \o t
<1>1. /\ vt \in Seq(Strings) /\ Len(vt) = Len(v) + Len(t)
      /\ \A i \in 1..Len(vt) : vt[i] = IF i <= Len(v) THEN v[i] ELSE t[i - Len(v)]
  BY ConcatProperties
<1>2. Len(s) \in Nat /\ Len(t) \in Nat /\ Len(v) \in Nat
  OBVIOUS
<1>3. Len(s) <= Len(t) /\ \A i \in 1..Len(s) : s[i] = t[Len(t) - Len(s) + i]
  BY SuffixIs
<1> HIDE DEF vt
<1>4. ASSUME NEW i \in 1..Len(s) PROVE s[i] = vt[Len(vt) - Len(s) + i]
  <2> DEFINE j == Len(vt) - Len(s) + i
  <2>1. j \in 1..Len(vt) /\ ~(j <= Len(v)) /\ j - Len(v) = Len(t) - Len(s) + i
    BY <1>1, <1>2, <1>3
  <2> HIDE DEF j
  <2>2. vt[j] = t[Len(t) - Len(s) + i]
    BY <1>1, <2>1
  <2> QED BY <1>3, <2>2 DEF j
<1>5. Len(s) <= Len(vt)
  BY <1>1, <1>2, <1>3
<1>6. IsSuffix(s, vt)
  BY <1>1, <1>4, <1>5, SuffixIs
<1> QED BY <1>6 DEF vt

(* A line that begins with what ends a word is never expanded.             *)
Untouched == mode \in {"expanding", "running"} => text = typed \/ typed[1] \notin Ending

LEMMA ArgumentsInductive ==
    TypeOK /\ Untouched /\ ExpansionKeepsArguments /\ [Next]_vars
    => Untouched' /\ ExpansionKeepsArguments'
<1>1. SUFFICES ASSUME TypeOK, Untouched, ExpansionKeepsArguments, [Next]_vars
               PROVE  Untouched' /\ ExpansionKeepsArguments'
  OBVIOUS
<1>2. CASE UNCHANGED <<text, mode, typed>>
  BY <1>1, <1>2 DEF Untouched, ExpansionKeepsArguments
<1>3. CASE \E line \in Lines : Type(line)
  <2>1. PICK line \in Lines : Type(line)
    BY <1>3
  <2>2. text' = line /\ typed' = line
    BY <2>1 DEF Type
  <2>3. line \in Seq(Strings) /\ line # <<>>
    BY LinesAssumption
  <2>4. Tail(line) \in Seq(Strings) /\ Len(Tail(line)) = Len(line) - 1
        /\ \A i \in 1..Len(Tail(line)) : Tail(line)[i] = line[i + 1]
    BY <2>3, HeadTailProperties
  <2> DEFINE a == Tail(line)
  <2> HIDE DEF a
  <2>5. a \in Seq(Strings) /\ Len(a) = Len(line) - 1 /\ Len(line) \in Nat /\ Len(a) \in Nat
        /\ \A i \in 1..Len(a) : a[i] = line[i + 1]
    BY <2>3, <2>4 DEF a
  <2>6. \A i \in 1..Len(a) : a[i] = line[Len(line) - Len(a) + i]
    <3>1. \A i \in 1..Len(a) : Len(line) - Len(a) + i = i + 1
      BY <2>5
    <3> QED BY <2>5, <3>1
  <2>7. IsSuffix(a, line)
    BY <2>3, <2>5, <2>6, SuffixIs
  <2> QED BY <2>2, <2>7 DEF a, Untouched, ExpansionKeepsArguments
<1>4. CASE Expand
  <2>1. mode = "expanding" /\ ExpandOnce /\ UNCHANGED <<mode, typed>>
    BY <1>4 DEF Expand
  <2>2. typed \in Lines /\ text \in Seq(Strings)
    BY <1>1, <2>1 DEF TypeOK
  <2>3. text # <<>> /\ text[1] \notin Ending
    BY <1>1, <2>1, ExpandStep
  <2>4. PICK v \in Seq(Strings) : text' = v \o Tail(text)
    BY <1>1, <2>1, ExpandStep
  <2>5. typed[1] \notin Ending
    BY <1>1, <2>1, <2>3 DEF Untouched
  <2>6. IsSuffix(Tail(typed), text)
    BY <1>1, <2>1 DEF ExpansionKeepsArguments
  <2>7. IsSuffix(Tail(typed), Tail(text))
    BY <2>2, <2>3, <2>5, <2>6, ReplacedBeforeArguments
  <2>8. typed \in Seq(Strings) /\ typed # <<>>
    BY <2>2, LinesAssumption
  <2>9. Tail(typed) \in Seq(Strings) /\ Tail(text) \in Seq(Strings)
    BY <2>2, <2>3, <2>8, HeadTailProperties
  <2>10. IsSuffix(Tail(typed), text')
    BY <2>4, <2>7, <2>9, SuffixBehind
  <2> QED BY <2>1, <2>5, <2>10 DEF Untouched, ExpansionKeepsArguments
<1>5. CASE HandOver
  <2>1. mode = "expanding" /\ UNCHANGED <<text, typed>>
    BY <1>5 DEF HandOver, aliasVars
  <2> QED BY <1>1, <2>1 DEF Untouched, ExpansionKeepsArguments
<1>6. CASE Run
  <2>1. mode' \notin {"expanding", "running"}
    BY <1>6 DEF Run, RunCd, RunPwd, RunHash, RunAlias, RunIdle, RunCommand, Runs
  <2> QED BY <2>1 DEF Untouched, ExpansionKeepsArguments
<1>7. CASE OthersChangeFiles
  BY <1>2, <1>7 DEF OthersChangeFiles
<1>8. CASE UNCHANGED vars
  BY <1>2, <1>8 DEF vars
<1> QED BY <1>1, <1>3, <1>4, <1>5, <1>6, <1>7, <1>8 DEF Next

(* However often the first word of a line is replaced, the line keeps the  *)
(* arguments that were typed behind it.                                    *)
THEOREM ArgumentsCorrect == Spec => []ExpansionKeepsArguments
<1>1. Init => Untouched /\ ExpansionKeepsArguments
  BY DEF Init, Untouched, ExpansionKeepsArguments
<1>2. TypeOK /\ Untouched /\ ExpansionKeepsArguments /\ [Next]_vars
      => Untouched' /\ ExpansionKeepsArguments'
  BY ArgumentsInductive
<1> QED BY <1>1, <1>2, TypeCorrect, PTL DEF Spec
=============================================================================
