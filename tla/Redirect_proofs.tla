---------------------------- MODULE Redirect_proofs ----------------------------
(***************************************************************************)
(* Proofs about Redirect, for every list of redirections and every number  *)
(* of descriptors: what a child and a builtin find on their descriptors,   *)
(* and, for orderly lists, what the shell is left with afterwards.         *)
(***************************************************************************)
EXTENDS Redirect, TLAPS, SequenceTheorems

Meanings   == INSTANCE LeftFolds WITH Op <- Meant
Restorings == INSTANCE LeftFolds WITH Op <- Restored

-----------------------------------------------------------------------------
(* Numbers, files and lists                                                *)

LEMMA FdFacts ==
    /\ Fd \subseteq Nat /\ 0 \in Fd /\ 1 \in Fd /\ 2 \in Fd /\ -1 \notin Fd
    /\ 0..2 \subseteq Fd
    /\ Std # Closed /\ Closed \notin Names /\ Names \subseteq File /\ Closed \in File
BY RedirectAssumption DEF Fd, File

LEMMA RedirFacts ==
    ASSUME NEW r \in Redirection
    PROVE  /\ r.fd \in Fd /\ r.type \in {"file", "fd2fd", "closefd"}
           /\ r.type = "file" => r.rhs \in Names
           /\ r.type = "fd2fd" => r.rhs \in Fd
BY DEF Redirection

LEMMA ListFacts ==
    ASSUME NEW l \in Lists \cup {<<>>}
    PROVE  /\ l \in Seq(Redirection) /\ Len(l) \in Nat /\ DOMAIN l = 1..Len(l)
           /\ \A j \in 1..Len(l) : l[j] \in Redirection
<1>1. <<>> \in Seq(Redirection)
  OBVIOUS
<1>2. l \in Seq(Redirection)
  BY <1>1, RedirectAssumption
<1> QED BY <1>2

-----------------------------------------------------------------------------
(* The calls of set_up_redirection                                         *)

(* What open() or dup() return is closed, and no standard descriptor while *)
(* those are all open.                                                     *)
LEMMA LowestFacts ==
    ASSUME NEW t \in FdTable, NEW c \in Lowest(t)
    PROVE  /\ c \in Fd /\ t[c] = Closed
           /\ (\A g \in 0..2 : t[g] # Closed) => c \notin 0..2
BY DEF Lowest

LEMMA ReplacedAt ==
    ASSUME NEW t \in FdTable, NEW from \in Fd, NEW fd \in Fd
    PROVE  /\ Replaced(t, from, fd).table \in FdTable
           /\ Replaced(t, from, fd).ok =>
                 /\ from # fd /\ t[from] # Closed
                 /\ \A g \in Fd : Replaced(t, from, fd).table[g] =
                                     IF g = fd THEN t[from] ELSE t[g]
BY FdFacts DEF Replaced, FdTable

(* BACKUP_FD(fd) adds a copy of fd, and only where nothing was.            *)
LEMMA BackedUpAt ==
    ASSUME TypeOK, NEW t \in FdTable, NEW fd \in Fd, NEW b \in BackedUp(t, fd)
    PROVE  \E c \in Fd \cup {-1} :
              /\ b[1] \in FdTable
              /\ \A g \in Fd : b[1][g] = IF g = c THEN t[fd] ELSE t[g]
              /\ b[2] \in Seq(Fd \X (Fd \cup {-1}))
              /\ IF Backing THEN b[2] = Append(backup, <<fd, c>>)
                 ELSE b[2] = backup /\ c = -1
              /\ c \in Fd => t[c] = Closed /\ c # fd
              /\ Backing /\ t[fd] # Closed => c \in Lowest(t)
              /\ (\A g \in 0..2 : t[g] # Closed) => c \notin 0..2
<1>1. CASE ~Backing
  <2>1. b = <<t, backup>>
    BY <1>1 DEF BackedUp
  <2> QED BY <1>1, <2>1, FdFacts DEF TypeOK
<1>2. CASE Backing
  <2> PICK e \in Entries(t, fd) : b = <<WithCopy(t, e), Append(backup, e)>>
    BY <1>2 DEF BackedUp
  <2>1. CASE t[fd] = Closed
    <3>1. e = <<fd, -1>>
      BY <2>1 DEF Entries
    <3>2. b[1] = t /\ b[2] = Append(backup, <<fd, -1>>)
      BY <3>1 DEF WithCopy
    <3>3. -1 \in Fd \cup {-1} /\ -1 \notin Fd /\ -1 \notin 0..2
      BY FdFacts
    <3>4. <<fd, -1>> \in Fd \X (Fd \cup {-1}) /\ backup \in Seq(Fd \X (Fd \cup {-1}))
      BY DEF TypeOK
    <3>5. b[2] \in Seq(Fd \X (Fd \cup {-1}))
      BY <3>2, <3>4, AppendProperties
    <3>6. \A g \in Fd : b[1][g] = IF g = -1 THEN t[fd] ELSE t[g]
      BY <3>2, <3>3
    <3> QED BY <1>2, <2>1, <3>2, <3>3, <3>5, <3>6
  <2>2. CASE t[fd] # Closed
    <3> PICK c \in Lowest(t) : e = <<fd, c>>
      BY <2>2 DEF Entries
    <3>1. c \in Fd /\ t[c] = Closed /\ c # fd /\ c # -1
      BY <2>2, LowestFacts, FdFacts
    <3>2. b[1] = [t EXCEPT ![c] = t[fd]] /\ b[2] = Append(backup, <<fd, c>>)
      BY <3>1 DEF WithCopy
    <3>3. b[1] \in FdTable /\ \A g \in Fd : b[1][g] = IF g = c THEN t[fd] ELSE t[g]
      BY <3>1, <3>2 DEF FdTable
    <3>4. b[2] \in Seq(Fd \X (Fd \cup {-1}))
      BY <3>1, <3>2, AppendProperties DEF TypeOK
    <3> QED BY <1>2, <3>1, <3>2, <3>3, <3>4, LowestFacts
  <2> QED BY <2>1, <2>2
<1> QED BY <1>1, <1>2

(* What redirecting Redir.fd puts on it, with its old file copied to c.    *)
NewFile(c) ==
    CASE Redir.type = "file"    -> Redir.rhs
      [] Redir.type = "fd2fd"   -> IF Redir.rhs = c THEN fds[Redir.fd] ELSE fds[Redir.rhs]
      [] Redir.type = "closefd" -> Closed

(* One redirection is set up, and the old file of Redir.fd copied to c; -1 *)
(* is no copy.                                                             *)
Redirects(c) ==
    /\ c \in Fd \cup {-1}
    /\ fds' \in FdTable
    /\ \A g \in Fd : fds'[g] = IF g = Redir.fd THEN NewFile(c)
                               ELSE IF g = c THEN fds[Redir.fd] ELSE fds[g]
    /\ IF Backing THEN backup' = Append(backup, <<Redir.fd, c>>)
       ELSE backup' = backup /\ c = -1
    /\ backup' \in Seq(Fd \X (Fd \cup {-1}))
    /\ c \in Fd => fds[c] = Closed /\ c # Redir.fd
    /\ Backing /\ fds[Redir.fd] # Closed => c \in Fd
    /\ (\A g \in 0..2 : fds[g] # Closed) => c \notin 0..2
    /\ Redir.type # "closefd" => NewFile(c) # Closed
    /\ pc = "setup" /\ k <= Len(list)
    /\ k' = k + 1 /\ UNCHANGED <<before, mode, list, pc>>

(* The position in the list of the command.                                *)
Position ==
    /\ pc # "prompt" => list \in Lists /\ k >= 1
    /\ pc = "run" => k = Len(list) + 1

LEMMA SetUpStep ==
    ASSUME TypeOK, Position, ToFile \/ ToFd \/ CloseFd
    PROVE  (\E c : Redirects(c)) \/ (\E t \in FdTable : GiveUp(t))
<1>1. /\ pc = "setup" /\ k <= Len(list) /\ k \in 1..Len(list)
      /\ Redir \in Redirection /\ fds \in FdTable
  BY ListFacts DEF TypeOK, Position, ToFile, ToFd, CloseFd, Redir
<1>2. /\ Redir.fd \in Fd /\ Redir.type \in {"file", "fd2fd", "closefd"}
      /\ Redir.type = "file" => Redir.rhs \in Names
      /\ Redir.type = "fd2fd" => Redir.rhs \in Fd
  BY <1>1, RedirFacts
<1>3. CASE ToFile
  <2>1. Redir.type = "file" /\ Redir.rhs \in Names /\ Redir.rhs # Closed
    BY <1>2, <1>3, FdFacts DEF ToFile
  <2> PICK f \in Lowest(fds) :
              \E b \in BackedUp([fds EXCEPT ![f] = Redir.rhs], Redir.fd) :
                 LET new == Replaced(b[1], f, Redir.fd)
                 IN  IF new.ok THEN Proceed([new.table EXCEPT ![f] = Closed], b[2])
                               ELSE GiveUp(new.table)
    BY <1>3 DEF ToFile
  <2> PICK b \in BackedUp([fds EXCEPT ![f] = Redir.rhs], Redir.fd) :
              LET new == Replaced(b[1], f, Redir.fd)
              IN  IF new.ok THEN Proceed([new.table EXCEPT ![f] = Closed], b[2])
                            ELSE GiveUp(new.table)
    OBVIOUS
  <2> DEFINE t == [fds EXCEPT ![f] = Redir.rhs]
             new == Replaced(b[1], f, Redir.fd)
  <2>2. f \in Fd /\ fds[f] = Closed /\ ((\A g \in 0..2 : fds[g] # Closed) => f \notin 0..2)
    BY <1>1, LowestFacts
  <2>3. t \in FdTable /\ \A g \in Fd : t[g] = IF g = f THEN Redir.rhs ELSE fds[g]
    BY <1>1, <2>1, <2>2, FdFacts DEF FdTable
  <2>4. b \in BackedUp(t, Redir.fd)
    OBVIOUS
  <2> HIDE DEF t
  <2> PICK c \in Fd \cup {-1} :
              /\ b[1] \in FdTable
              /\ \A g \in Fd : b[1][g] = IF g = c THEN t[Redir.fd] ELSE t[g]
              /\ b[2] \in Seq(Fd \X (Fd \cup {-1}))
              /\ IF Backing THEN b[2] = Append(backup, <<Redir.fd, c>>)
                 ELSE b[2] = backup /\ c = -1
              /\ c \in Fd => t[c] = Closed /\ c # Redir.fd
              /\ Backing /\ t[Redir.fd] # Closed => c \in Lowest(t)
              /\ (\A g \in 0..2 : t[g] # Closed) => c \notin 0..2
    <3>1. t \in FdTable /\ Redir.fd \in Fd
      BY <1>2, <2>3
    <3> QED BY <2>4, <3>1, BackedUpAt
  <2>5. CASE new.ok
    <3>1. /\ new.table \in FdTable /\ f # Redir.fd
          /\ \A g \in Fd : new.table[g] = IF g = Redir.fd THEN b[1][f] ELSE b[1][g]
      BY <1>2, <2>2, <2>5, ReplacedAt
    <3>2. Proceed([new.table EXCEPT ![f] = Closed], b[2])
      BY <2>5
    <3> HIDE DEF new
    <3>3. c # f /\ c # Redir.fd
      BY <2>1, <2>2, <2>3, <1>2, FdFacts
    <3>4. fds' \in FdTable /\ backup' = b[2]
          /\ \A g \in Fd : fds'[g] = IF g = f THEN Closed
                                     ELSE IF g = Redir.fd THEN b[1][f] ELSE b[1][g]
      BY <2>2, <3>1, <3>2, FdFacts DEF FdTable, Proceed
    <3>5. \A g \in Fd : fds'[g] = IF g = Redir.fd THEN Redir.rhs
                                  ELSE IF g = c THEN fds[Redir.fd] ELSE fds[g]
      BY <1>2, <2>2, <2>3, <3>1, <3>3, <3>4
    <3>6. k' = k + 1 /\ UNCHANGED <<before, mode, list, pc>>
      BY <3>2 DEF Proceed
    <3>7. NewFile(c) = Redir.rhs
      BY <2>1 DEF NewFile
    <3>8. Backing /\ fds[Redir.fd] # Closed => c \in Fd
      BY <1>2, <2>3, <3>1, LowestFacts
    <3>9. c \in Fd => fds[c] = Closed
      BY <2>3, <3>3
    <3>10. (\A g \in 0..2 : fds[g] # Closed) => c \notin 0..2
      BY <2>1, <2>2, <2>3, FdFacts
    <3> QED BY <1>1, <2>1, <3>3, <3>4, <3>5, <3>6, <3>7, <3>8, <3>9, <3>10 DEF Redirects
  <2>6. CASE ~new.ok
    BY <1>2, <2>2, <2>6, ReplacedAt
  <2> QED BY <2>5, <2>6
<1>4. CASE ToFd
  <2>1. Redir.type = "fd2fd" /\ Redir.rhs \in Fd
    BY <1>2, <1>4 DEF ToFd
  <2> PICK b \in BackedUp(fds, Redir.fd) :
              LET new == Replaced(b[1], Redir.rhs, Redir.fd)
              IN  IF new.ok THEN Proceed(new.table, b[2]) ELSE GiveUp(new.table)
    BY <1>4 DEF ToFd
  <2> DEFINE new == Replaced(b[1], Redir.rhs, Redir.fd)
  <2> PICK c \in Fd \cup {-1} :
              /\ b[1] \in FdTable
              /\ \A g \in Fd : b[1][g] = IF g = c THEN fds[Redir.fd] ELSE fds[g]
              /\ b[2] \in Seq(Fd \X (Fd \cup {-1}))
              /\ IF Backing THEN b[2] = Append(backup, <<Redir.fd, c>>)
                 ELSE b[2] = backup /\ c = -1
              /\ c \in Fd => fds[c] = Closed /\ c # Redir.fd
              /\ Backing /\ fds[Redir.fd] # Closed => c \in Lowest(fds)
              /\ (\A g \in 0..2 : fds[g] # Closed) => c \notin 0..2
    BY <1>1, <1>2, BackedUpAt
  <2>5. CASE new.ok
    <3>1. /\ new.table \in FdTable /\ Redir.rhs # Redir.fd /\ b[1][Redir.rhs] # Closed
          /\ \A g \in Fd : new.table[g] = IF g = Redir.fd THEN b[1][Redir.rhs] ELSE b[1][g]
      BY <1>2, <2>1, <2>5, ReplacedAt
    <3>2. Proceed(new.table, b[2])
      BY <2>5
    <3> HIDE DEF new
    <3>3. NewFile(c) = b[1][Redir.rhs]
      BY <2>1 DEF NewFile
    <3>4. /\ fds' \in FdTable /\ backup' = b[2]
          /\ k' = k + 1 /\ UNCHANGED <<before, mode, list, pc>>
          /\ \A g \in Fd : fds'[g] = IF g = Redir.fd THEN b[1][Redir.rhs] ELSE b[1][g]
      BY <3>1, <3>2 DEF Proceed
    <3>5. Backing /\ fds[Redir.fd] # Closed => c \in Fd
      BY <1>1, LowestFacts
    <3> QED BY <1>1, <3>1, <3>3, <3>4, <3>5 DEF Redirects
  <2>6. CASE ~new.ok
    BY <1>2, <2>1, <2>6, ReplacedAt
  <2> QED BY <2>5, <2>6
<1>5. CASE CloseFd
  <2>1. Redir.type = "closefd"
    BY <1>5 DEF CloseFd
  <2> PICK b \in BackedUp(fds, Redir.fd) : Proceed([b[1] EXCEPT ![Redir.fd] = Closed], b[2])
    BY <1>5 DEF CloseFd
  <2> PICK c \in Fd \cup {-1} :
              /\ b[1] \in FdTable
              /\ \A g \in Fd : b[1][g] = IF g = c THEN fds[Redir.fd] ELSE fds[g]
              /\ b[2] \in Seq(Fd \X (Fd \cup {-1}))
              /\ IF Backing THEN b[2] = Append(backup, <<Redir.fd, c>>)
                 ELSE b[2] = backup /\ c = -1
              /\ c \in Fd => fds[c] = Closed /\ c # Redir.fd
              /\ Backing /\ fds[Redir.fd] # Closed => c \in Lowest(fds)
              /\ (\A g \in 0..2 : fds[g] # Closed) => c \notin 0..2
    BY <1>1, <1>2, BackedUpAt
  <2>2. NewFile(c) = Closed
    BY <2>1 DEF NewFile
  <2>3. /\ fds' \in FdTable /\ backup' = b[2]
        /\ k' = k + 1 /\ UNCHANGED <<before, mode, list, pc>>
        /\ \A g \in Fd : fds'[g] = IF g = Redir.fd THEN Closed ELSE b[1][g]
    BY <1>2, FdFacts DEF Proceed, FdTable
  <2>4. Backing /\ fds[Redir.fd] # Closed => c \in Fd
    BY <1>1, LowestFacts
  <2> QED BY <1>1, <2>1, <2>2, <2>3, <2>4 DEF Redirects
<1> QED BY <1>3, <1>4, <1>5

-----------------------------------------------------------------------------
(* What the two loops over a list compute                                  *)

(* Through the list of the command: the tables its redirections mean.      *)
Path(g) ==
    g[0] = before /\ \A j \in 1..Len(list) : g[j] = Meant(g[j - 1], list[j])

LEMMA WantedIsPath ==
    ASSUME TypeOK
    PROVE  \E g : Path(g) /\ Wanted = g[Len(list)]
<1> DEFINE n == Len(list)
<1>1. n \in Nat /\ DOMAIN list = 1..n
  BY ListFacts DEF TypeOK
<1>2. Meanings!Fold(before, list) = Wanted
  BY DEF Wanted, Meanings!Fold, FoldLeft, Meanings!FoldLeft,
         MapThenFoldSet, Meanings!MapThenFoldSet, Max, Meanings!Max
<1> HIDE DEF n
<1>3. PICK g : Meanings!Steps(g, n, before, list)
  BY <1>1, Meanings!FoldPrefixes
<1>4. /\ g[0] = before
      /\ \A j \in 1..n : g[j] = Meant(g[j - 1], list[j])
      /\ Meanings!Fold(before, list) = g[n]
  BY <1>3 DEF Meanings!Steps
<1> QED BY <1>2, <1>4 DEF Path, n

MeantFile(t, r) ==
    CASE r.type = "file"    -> r.rhs
      [] r.type = "fd2fd"   -> t[r.rhs]
      [] r.type = "closefd" -> Closed

LEMMA MeantAt ==
    ASSUME NEW t \in FdTable, NEW r \in Redirection
    PROVE  /\ Meant(t, r) \in FdTable
           /\ \A f \in Fd : Meant(t, r)[f] = IF f = r.fd THEN MeantFile(t, r) ELSE t[f]
BY RedirFacts, FdFacts DEF Meant, MeantFile, FdTable

(* Through the backup list: the tables of restore_fds.                     *)
Start == [stopped |-> FALSE, table |-> fds]
Way(g) ==
    g[0] = Start /\ \A j \in 1..Len(backup) : g[j] = Restored(g[j - 1], backup[j])

BackupEntry == Fd \X (Fd \cup {-1})
Restoring == [stopped : BOOLEAN, table : FdTable]

LEMMA RestoredIsWay ==
    ASSUME TypeOK
    PROVE  \E g : Way(g) /\ FoldLeft(Restored, Start, backup) = g[Len(backup)]
<1> DEFINE n == Len(backup)
<1>1. n \in Nat /\ DOMAIN backup = 1..n
  BY DEF TypeOK
<1>2. Restorings!Fold(Start, backup) = FoldLeft(Restored, Start, backup)
  BY DEF Restorings!Fold, FoldLeft, Restorings!FoldLeft,
         MapThenFoldSet, Restorings!MapThenFoldSet, Max, Restorings!Max
<1> HIDE DEF n
<1>3. PICK g : Restorings!Steps(g, n, Start, backup)
  BY <1>1, Restorings!FoldPrefixes
<1>4. /\ g[0] = Start
      /\ \A j \in 1..n : g[j] = Restored(g[j - 1], backup[j])
      /\ Restorings!Fold(Start, backup) = g[n]
  BY <1>3 DEF Restorings!Steps
<1> QED BY <1>2, <1>4 DEF Way, n

LEMMA RestoredType ==
    ASSUME NEW r \in Restoring, NEW e \in BackupEntry
    PROVE  Restored(r, e) \in Restoring
<1>1. /\ r.stopped \in BOOLEAN /\ r.table \in FdTable /\ e[1] \in Fd /\ e[2] \in Fd \cup {-1}
  BY DEF Restoring, BackupEntry
<1> DEFINE shut == [r.table EXCEPT ![e[1]] = Closed]
           lost == e[2] # -1 /\ shut[e[2]] = Closed
           back == [shut EXCEPT ![e[1]] = shut[e[2]], ![e[2]] = Closed]
<1>2. shut \in FdTable
  BY <1>1, FdFacts DEF FdTable
<1>3. lost \in BOOLEAN
  OBVIOUS
<1>4. [stopped |-> lost, table |-> shut] \in Restoring
  <2> HIDE DEF shut, lost
  <2> QED BY <1>2, <1>3 DEF Restoring
<1>5. e[2] # -1 => back \in FdTable
  <2> HIDE DEF shut
  <2> QED BY <1>1, <1>2, FdFacts DEF FdTable
<1>6. e[2] # -1 => [r EXCEPT !.table = back] \in Restoring
  <2> HIDE DEF back
  <2> QED BY <1>5 DEF Restoring
<1>7. Restored(r, e) = IF r.stopped THEN r
                       ELSE IF e[2] = -1 \/ lost THEN [stopped |-> lost, table |-> shut]
                       ELSE [r EXCEPT !.table = back]
  BY DEF Restored
<1> HIDE DEF shut, lost, back
<1> QED BY <1>4, <1>6, <1>7

LEMMA WayType ==
    ASSUME TypeOK, NEW g, Way(g)
    PROVE  \A j \in 0..Len(backup) : g[j] \in Restoring
<1> DEFINE n == Len(backup)
           S == {j \in 0..n : g[j] \in Restoring}
<1>1. n \in Nat /\ \A j \in 1..n : backup[j] \in BackupEntry
  BY DEF TypeOK, BackupEntry
<1>2. g[0] = Start /\ \A j \in 1..n : g[j] = Restored(g[j - 1], backup[j])
  BY DEF Way
<1> HIDE DEF n
<1>3. 0 \in S
  <2>1. Start \in Restoring
    BY DEF Start, Restoring, TypeOK
  <2> QED BY <1>1, <1>2, <2>1
<1>4. ASSUME NEW j \in 0..n, j < n, j \in S
      PROVE  j + 1 \in S
  <2>1. j + 1 \in 1..n /\ (j + 1) - 1 = j /\ j + 1 \in 0..n
    BY <1>1, <1>4
  <2>2. g[j + 1] = Restored(g[j], backup[j + 1])
    BY <1>2, <2>1
  <2> QED BY <1>1, <1>4, <2>1, <2>2, RestoredType
<1> HIDE DEF S
<1>5. 0..n \subseteq S
  BY <1>1, <1>3, <1>4, Restorings!BoundedInduction
<1> QED BY <1>5 DEF S, n

LEMMA RestoreFdsType ==
    ASSUME TypeOK
    PROVE  FoldLeft(Restored, Start, backup).table \in FdTable
<1> PICK g : Way(g) /\ FoldLeft(Restored, Start, backup) = g[Len(backup)]
  BY RestoredIsWay
<1>1. Len(backup) \in 0..Len(backup)
  BY DEF TypeOK
<1>2. g[Len(backup)] \in Restoring
  BY <1>1, WayType
<1> QED BY <1>2 DEF Restoring

-----------------------------------------------------------------------------
(* Types                                                                   *)

(* Every way out of a command leads back to the prompt with a table.       *)
LEMMA BackAtPrompt ==
    ASSUME TypeOK, NEW t \in FdTable, BackToPrompt(t)
    PROVE  TypeOK' /\ pc' = "prompt"
<1>1. list' = <<>> /\ k' = 0 /\ backup' = <<>> /\ Len(<<>>) = 0
  BY DEF BackToPrompt
<1>2. k' \in 0..(Len(list') + 1)
  BY <1>1
<1>3. backup' \in Seq(Fd \X (Fd \cup {-1}))
  BY <1>1
<1> QED BY <1>1, <1>2, <1>3 DEF BackToPrompt, TypeOK

(* What ends a command, and what it leaves.                                *)
LEMMA Endings ==
    ASSUME TypeOK, Position,
           \/ OpenFails \/ BackupFails \/ ChildEnds \/ ExecReturns \/ RestoreFds
           \/ \E t \in FdTable : GiveUp(t)
    PROVE  \E t \in FdTable : BackToPrompt(t)
<1>0. fds \in FdTable /\ before \in FdTable
  BY DEF TypeOK
<1>1. CASE \E t \in FdTable : GiveUp(t)
  BY <1>0, <1>1 DEF GiveUp
<1>2. CASE OpenFails
  BY <1>0, <1>1, <1>2 DEF OpenFails
<1>3. CASE BackupFails
  <2>1. CASE \E f \in Lowest(fds) : GiveUp([fds EXCEPT ![f] = Redir.rhs])
                                    /\ Redir.type = "file" /\ k <= Len(list) /\ pc = "setup"
    <3> PICK f \in Lowest(fds) : GiveUp([fds EXCEPT ![f] = Redir.rhs])
      BY <2>1
    <3>1. k \in 1..Len(list)
      BY <2>1, ListFacts DEF TypeOK, Position
    <3>2. Redir \in Redirection
      BY <3>1, ListFacts DEF TypeOK, Redir
    <3>3. Redir.rhs \in File
      BY <2>1, <3>2, RedirFacts, FdFacts
    <3>4. [fds EXCEPT ![f] = Redir.rhs] \in FdTable
      BY <1>0, <3>3, LowestFacts DEF FdTable
    <3> QED BY <1>1, <3>4
  <2>2. CASE GiveUp(fds)
    BY <1>0, <1>1, <2>2
  <2> QED BY <1>3, <2>1, <2>2 DEF BackupFails
<1>4. CASE ChildEnds \/ ExecReturns
  BY <1>0, <1>4 DEF ChildEnds, ExecReturns
<1>5. CASE RestoreFds
  BY <1>5, RestoreFdsType DEF RestoreFds, Start
<1> QED BY <1>1, <1>2, <1>3, <1>4, <1>5

LEMMA RedirectsType ==
    ASSUME TypeOK, Position, NEW c, Redirects(c)
    PROVE  TypeOK' /\ Position' /\ pc' = "setup"
<1>1. k \in Nat /\ Len(list) \in Nat /\ k <= Len(list)
  BY ListFacts DEF TypeOK, Redirects
<1>2. k' \in 0..(Len(list) + 1) /\ k' >= 1
  BY <1>1 DEF Redirects
<1> QED BY <1>2 DEF Redirects, TypeOK, Position

(* The rest.                                                               *)
LEMMA BeginType ==
    ASSUME TypeOK, Begin
    PROVE  TypeOK' /\ Position' /\ pc' = "setup"
<1>1. list' \in Lists /\ k' = 1 /\ backup' = <<>>
  BY DEF Begin
<1>2. Len(list') \in Nat
  BY <1>1, ListFacts
<1>3. k' \in 0..(Len(list') + 1) /\ k' >= 1
  BY <1>1, <1>2
<1>4. backup' \in Seq(Fd \X (Fd \cup {-1}))
  BY <1>1
<1> QED BY <1>1, <1>3, <1>4 DEF Begin, TypeOK, Position

LEMMA TypeInit == Init => TypeOK /\ Position
<1> SUFFICES ASSUME Init PROVE TypeOK /\ Position
  OBVIOUS
<1>1. StdTable \in FdTable
  BY FdFacts DEF StdTable, FdTable, File
<1>2. k \in 0..(Len(list) + 1) /\ backup \in Seq(Fd \X (Fd \cup {-1}))
  BY DEF Init
<1> QED BY <1>1, <1>2 DEF Init, TypeOK, Position, Mode

LEMMA TypeInductive == TypeOK /\ Position /\ [Next]_vars => TypeOK' /\ Position'
<1> SUFFICES ASSUME TypeOK, Position, [Next]_vars
             PROVE  TypeOK' /\ Position'
  OBVIOUS
<1>1. CASE \E t \in FdTable : BackToPrompt(t)
  BY <1>1, BackAtPrompt DEF Position
<1>2. CASE \E c : Redirects(c)
  BY <1>2, RedirectsType
<1>3. CASE Begin
  BY <1>3, BeginType
<1>4. CASE Crash \/ ExecReplaces
  BY <1>4 DEF Crash, ExecReplaces, TypeOK, Position
<1>5. CASE SetUp
  <2>1. k = Len(list) + 1
    BY <1>5, ListFacts DEF SetUp, TypeOK
  <2> QED BY <1>5, <2>1 DEF SetUp, TypeOK, Position
<1>6. CASE UNCHANGED vars
  BY <1>6 DEF vars, TypeOK, Position
<1> QED BY <1>1, <1>2, <1>3, <1>4, <1>5, <1>6, SetUpStep, Endings DEF Next

LEMMA TypeAlways == Spec => [](TypeOK /\ Position)
BY TypeInit, TypeInductive, PTL DEF Spec

(* The descriptors, the position in the list and the backups are what the  *)
(* code may make of them.                                                  *)
THEOREM TypeCorrect == Spec => []TypeOK
BY TypeAlways, PTL

-----------------------------------------------------------------------------
(* What children and builtins get                                          *)

(* The descriptors follow what the redirections mean: those of a child     *)
(* exactly, those of a shell but for copies on descriptors that are closed.*)
Tracks ==
    pc \in {"setup", "run"} => \A g : Path(g) =>
       /\ g[k - 1] \in FdTable
       /\ mode = "child" => fds = g[k - 1]
       /\ \A f \in Fd : g[k - 1][f] # Closed => fds[f] = g[k - 1][f]

LEMMA RedirectsTrack ==
    ASSUME TypeOK, Position, Tracks, NEW c, Redirects(c)
    PROVE  Tracks'
<1> SUFFICES ASSUME NEW g, Path(g)'
             PROVE  /\ g[k' - 1] \in FdTable
                    /\ mode' = "child" => fds' = g[k' - 1]
                    /\ \A f \in Fd : g[k' - 1][f] # Closed => fds'[f] = g[k' - 1][f]
  BY DEF Tracks
<1>1. /\ k \in 1..Len(list) /\ k' - 1 = k /\ pc = "setup" /\ UNCHANGED <<before, mode, list>>
      /\ Redir \in Redirection /\ fds \in FdTable /\ fds' \in FdTable
  BY ListFacts DEF TypeOK, Position, Redirects, Redir
<1> DEFINE t == g[k - 1]
<1>2. Path(g)
  BY <1>1 DEF Path
<1>3. /\ t \in FdTable /\ (mode = "child" => fds = t)
      /\ \A f \in Fd : t[f] # Closed => fds[f] = t[f]
  BY <1>1, <1>2 DEF Tracks
<1>4. g[k] = Meant(t, Redir)
  BY <1>1, <1>2 DEF Path, Redir
<1> HIDE DEF t
<1>5. /\ g[k] \in FdTable
      /\ \A f \in Fd : g[k][f] = IF f = Redir.fd THEN MeantFile(t, Redir) ELSE t[f]
  BY <1>1, <1>3, <1>4, MeantAt
<1>6. /\ Redir.fd \in Fd /\ Redir.type \in {"file", "fd2fd", "closefd"}
      /\ Redir.type = "fd2fd" => Redir.rhs \in Fd
  BY <1>1, RedirFacts
<1>7. /\ c \in Fd => fds[c] = Closed /\ c # Redir.fd
      /\ \A f \in Fd : fds'[f] = IF f = Redir.fd THEN NewFile(c)
                                 ELSE IF f = c THEN fds[Redir.fd] ELSE fds[f]
      /\ mode = "child" => c = -1
  BY DEF Redirects, Backing
<1>8. \A f \in Fd : g[k][f] # Closed => fds'[f] = g[k][f]
  <2> SUFFICES ASSUME NEW f \in Fd, g[k][f] # Closed PROVE fds'[f] = g[k][f]
    OBVIOUS
  <2>1. CASE f # Redir.fd
    BY <1>3, <1>5, <1>7, <2>1
  <2>2. CASE f = Redir.fd
    BY <1>3, <1>5, <1>6, <1>7, <2>2 DEF NewFile, MeantFile
  <2> QED BY <2>1, <2>2
<1>9. ASSUME mode = "child" PROVE fds' = g[k]
  <2>1. \A f \in Fd : fds'[f] = g[k][f]
    BY <1>3, <1>5, <1>6, <1>7, <1>9, FdFacts DEF NewFile, MeantFile
  <2> QED BY <1>1, <1>5, <2>1 DEF FdTable
<1> QED BY <1>1, <1>5, <1>8, <1>9

LEMMA TracksInductive ==
    TypeOK /\ Position /\ Tracks /\ [Next]_vars => Tracks'
<1> SUFFICES ASSUME TypeOK, Position, Tracks, [Next]_vars PROVE Tracks'
  OBVIOUS
<1>1. CASE \E t \in FdTable : BackToPrompt(t)
  BY <1>1 DEF BackToPrompt, Tracks
<1>2. CASE \E c : Redirects(c)
  BY <1>2, RedirectsTrack
<1>3. CASE Begin
  BY <1>3 DEF Begin, Tracks, Path, TypeOK
<1>4. CASE Crash \/ ExecReplaces
  BY <1>4 DEF Crash, ExecReplaces, Tracks
<1>5. CASE SetUp \/ UNCHANGED vars
  BY <1>5 DEF SetUp, Tracks, Path, vars
<1> QED BY <1>1, <1>2, <1>3, <1>4, <1>5, SetUpStep, Endings DEF Next

LEMMA TracksAlways == Spec => [](TypeOK /\ Position /\ Tracks)
<1>1. Init => Tracks
  BY DEF Init, Tracks
<1> QED BY <1>1, TracksInductive, TypeAlways, PTL DEF Spec

(* When the command runs the whole list has been gone through.             *)
LEMMA RunsOnWanted ==
    ASSUME TypeOK, Position, Tracks, pc = "run"
    PROVE  /\ mode = "child" => fds = Wanted
           /\ \A f \in Fd : Wanted[f] # Closed => fds[f] = Wanted[f]
<1>1. PICK g : Path(g) /\ Wanted = g[Len(list)]
  BY WantedIsPath
<1>2. k - 1 = Len(list)
  BY ListFacts DEF TypeOK, Position
<1> QED BY <1>1, <1>2 DEF Tracks

(* A child runs its program with exactly the descriptors its redirections  *)
(* mean, whichever number open() gave to the files on the way.             *)
THEOREM ChildCorrect == Spec => []ChildGetsWhatItAsked
<1>1. TypeOK /\ Position /\ Tracks => ChildGetsWhatItAsked
  BY RunsOnWanted DEF ChildGetsWhatItAsked
<1> QED BY <1>1, TracksAlways, PTL

(* What the redirections of a builtin or of exec put on a descriptor is    *)
(* there, in spite of the copies the shell keeps beside it.                *)
THEOREM BuiltinCorrect == Spec => []BuiltinGetsWhatItAsked
<1>1. TypeOK /\ Position /\ Tracks => BuiltinGetsWhatItAsked
  BY RunsOnWanted DEF BuiltinGetsWhatItAsked
<1> QED BY <1>1, TracksAlways, PTL

-----------------------------------------------------------------------------
(* Orderly lists: what is saved, and what comes back                       *)

LEMMA OrderlyAt ==
    ASSUME Orderly(Lists), TypeOK, Position, pc # "prompt"
    PROVE  /\ \A j \in 1..Len(list) : /\ list[j].fd \in 0..2
                                      /\ list[j].type = "fd2fd" => list[j].rhs \in 0..2
           /\ \A j, m \in 1..Len(list) :
                 j < m => list[j].fd # list[m].fd /\ list[j].type # "closefd"
BY DEF Orderly, Position

(* Each redirected descriptor has its copy, on one that was closed before; *)
(* everything else is as it was.  Standard descriptors stay open as long   *)
(* as there are redirections to come.                                      *)
Saved ==
    pc \in {"setup", "run"} /\ mode # "child" =>
       /\ Len(backup) = k - 1
       /\ \A j \in 1..(k - 1) :
             /\ backup[j][1] = list[j].fd
             /\ backup[j][2] \in Fd \ 0..2
             /\ before[backup[j][2]] = Closed
             /\ fds[backup[j][2]] = before[list[j].fd]
       /\ \A j, m \in 1..(k - 1) : backup[j][2] = backup[m][2] => j = m
       /\ \A f \in Fd : \/ fds[f] = before[f]
                        \/ \E j \in 1..(k - 1) : f = list[j].fd \/ f = backup[j][2]
       /\ \A f \in 0..2 : before[f] # Closed
       /\ k <= Len(list) => \A f \in 0..2 : fds[f] # Closed

(* Copies are never on a standard descriptor, so those are as wanted.      *)
Standards ==
    pc \in {"setup", "run"} => \A g : Path(g) => \A f \in 0..2 : fds[f] = g[k - 1][f]

LEMMA RedirectsSaved ==
    ASSUME Orderly(Lists), TypeOK, Position, Saved, NEW c, Redirects(c)
    PROVE  Saved'
<1> SUFFICES ASSUME mode # "child" PROVE Saved'
  BY DEF Redirects, Saved
<1>0. Backing /\ pc = "setup"
  BY DEF Backing, Redirects
<1>1. /\ k \in Nat /\ k >= 1 /\ k' - 1 = k /\ k' = k + 1 /\ Len(list) \in Nat /\ k <= Len(list)
      /\ UNCHANGED <<before, mode, list, pc>>
      /\ backup \in Seq(Fd \X (Fd \cup {-1})) /\ k \in 1..Len(list)
  BY ListFacts DEF TypeOK, Position, Redirects
<1>2. /\ Redir.fd \in 0..2 /\ Redir.fd \in Fd
      /\ \A j \in 1..(k - 1) : list[j].fd \in 0..2 /\ list[j].fd # Redir.fd
      /\ k < Len(list) => Redir.type # "closefd"
  <2>1. k < Len(list) => k + 1 \in 1..Len(list)
    BY <1>1
  <2> QED BY <1>0, <1>1, <2>1, OrderlyAt, FdFacts DEF Redir
<1>3. /\ Len(backup) = k - 1
      /\ \A j \in 1..(k - 1) :
            /\ backup[j][1] = list[j].fd
            /\ backup[j][2] \in Fd \ 0..2
            /\ before[backup[j][2]] = Closed
            /\ fds[backup[j][2]] = before[list[j].fd]
      /\ \A j, m \in 1..(k - 1) : backup[j][2] = backup[m][2] => j = m
      /\ \A f \in Fd : \/ fds[f] = before[f]
                       \/ \E j \in 1..(k - 1) : f = list[j].fd \/ f = backup[j][2]
      /\ \A f \in 0..2 : before[f] # Closed /\ fds[f] # Closed
  BY <1>0, <1>1 DEF Saved
<1>4. /\ c \in Fd \ 0..2 /\ fds[c] = Closed /\ c # Redir.fd
      /\ \A f \in Fd : fds'[f] = IF f = Redir.fd THEN NewFile(c)
                                 ELSE IF f = c THEN fds[Redir.fd] ELSE fds[f]
      /\ backup' = Append(backup, <<Redir.fd, c>>)
      /\ Redir.type # "closefd" => NewFile(c) # Closed
  BY <1>0, <1>2, <1>3 DEF Redirects
<1>5. /\ Len(backup') = k
      /\ \A j \in 1..(k - 1) : backup'[j] = backup[j]
      /\ backup'[k] = <<Redir.fd, c>>
  <2>1. <<Redir.fd, c>> \in Fd \X (Fd \cup {-1})
    BY <1>2, <1>4
  <2> QED BY <1>1, <1>3, <1>4, <2>1, AppendProperties
<1>6. \A j \in 1..(k - 1) : backup[j][2] # c /\ backup[j][2] # Redir.fd
  BY <1>2, <1>3, <1>4
<1>7. before[c] = Closed
  BY <1>2, <1>3, <1>4, <1>6
<1>8. fds[Redir.fd] = before[Redir.fd]
  BY <1>2, <1>3, <1>6
<1>9. ASSUME NEW j \in 1..k
      PROVE  /\ backup'[j][1] = list[j].fd
             /\ backup'[j][2] \in Fd \ 0..2
             /\ before[backup'[j][2]] = Closed
             /\ fds'[backup'[j][2]] = before[list[j].fd]
  <2>1. CASE j = k
    BY <1>2, <1>4, <1>5, <1>7, <1>8, <2>1 DEF Redir
  <2>2. CASE j # k
    <3>1. j \in 1..(k - 1)
      BY <1>1, <2>2
    <3> QED BY <1>3, <1>4, <1>5, <1>6, <3>1
  <2> QED BY <2>1, <2>2
<1>10. ASSUME NEW j \in 1..k, NEW m \in 1..k, backup'[j][2] = backup'[m][2]
       PROVE  j = m
  <2>1. \A l \in 1..k : l = k \/ l \in 1..(k - 1)
    BY <1>1
  <2> QED BY <1>3, <1>5, <1>6, <1>10, <2>1
<1>11. ASSUME NEW f \in Fd
       PROVE  \/ fds'[f] = before[f]
              \/ \E j \in 1..k : f = list[j].fd \/ f = backup'[j][2]
  <2>1. k \in 1..k /\ \A j \in 1..(k - 1) : j \in 1..k
    BY <1>1
  <2>2. CASE f = Redir.fd \/ f = c
    BY <1>5, <2>1, <2>2 DEF Redir
  <2>3. CASE f # Redir.fd /\ f # c
    BY <1>3, <1>4, <1>5, <2>1, <2>3
  <2> QED BY <2>2, <2>3
<1>12. ASSUME k' <= Len(list), NEW f \in 0..2
       PROVE  fds'[f] # Closed
  <2>1. k < Len(list)
    BY <1>1, <1>12
  <2> QED BY <1>2, <1>3, <1>4, <2>1, FdFacts
<1>13. \A f \in 0..2 : before'[f] # Closed
  BY <1>1, <1>3
<1>14. /\ Len(backup') = k' - 1
       /\ \A j \in 1..(k' - 1) :
             /\ backup'[j][1] = list'[j].fd
             /\ backup'[j][2] \in Fd \ 0..2
             /\ before'[backup'[j][2]] = Closed
             /\ fds'[backup'[j][2]] = before'[list'[j].fd]
  BY <1>1, <1>5, <1>9
<1>15. \A j, m \in 1..(k' - 1) : backup'[j][2] = backup'[m][2] => j = m
  BY <1>1, <1>10
<1>16. \A f \in Fd : \/ fds'[f] = before'[f]
                     \/ \E j \in 1..(k' - 1) : f = list'[j].fd \/ f = backup'[j][2]
  BY <1>1, <1>11
<1>17. k' <= Len(list') => \A f \in 0..2 : fds'[f] # Closed
  BY <1>1, <1>12
<1> QED BY <1>13, <1>14, <1>15, <1>16, <1>17 DEF Saved

LEMMA RedirectsStandards ==
    ASSUME Orderly(Lists), TypeOK, Position, Tracks, Saved, Standards, NEW c, Redirects(c)
    PROVE  Standards'
<1> SUFFICES ASSUME NEW g, Path(g)', NEW f \in 0..2
             PROVE  fds'[f] = g[k' - 1][f]
  BY DEF Standards
<1>1. /\ k \in 1..Len(list) /\ k' - 1 = k /\ pc = "setup" /\ UNCHANGED <<before, mode, list>>
      /\ k <= Len(list) /\ Redir \in Redirection /\ f \in Fd
  BY ListFacts, FdFacts DEF TypeOK, Position, Redirects, Redir
<1> DEFINE t == g[k - 1]
<1>2. Path(g)
  BY <1>1 DEF Path
<1>3. t \in FdTable /\ \A h \in 0..2 : fds[h] = t[h]
  BY <1>1, <1>2 DEF Tracks, Standards
<1>4. g[k] = Meant(t, Redir)
  BY <1>1, <1>2 DEF Path, Redir
<1> HIDE DEF t
<1>5. g[k][f] = IF f = Redir.fd THEN MeantFile(t, Redir) ELSE t[f]
  BY <1>1, <1>3, <1>4, MeantAt
<1>6. /\ Redir.type \in {"file", "fd2fd", "closefd"} /\ Redir.fd \in 0..2
      /\ Redir.type = "fd2fd" => Redir.rhs \in 0..2
  BY <1>1, RedirFacts, OrderlyAt DEF Redir
<1>7. c \notin 0..2
  <2>1. mode # "child" => \A h \in 0..2 : fds[h] # Closed
    BY <1>1 DEF Saved
  <2>2. mode = "child" => c = -1
    BY DEF Redirects, Backing
  <2> QED BY <2>1, <2>2, FdFacts DEF Redirects
<1>8. fds'[f] = IF f = Redir.fd THEN NewFile(c) ELSE fds[f]
  BY <1>1, <1>7 DEF Redirects
<1> QED BY <1>1, <1>3, <1>5, <1>6, <1>7, <1>8 DEF NewFile, MeantFile

LEMMA SavedInductive ==
    /\ Orderly(Lists) /\ TypeOK /\ Position /\ Tracks /\ Saved /\ Standards /\ [Next]_vars
    => Saved' /\ Standards'
<1> SUFFICES ASSUME Orderly(Lists), TypeOK, Position, Tracks, Saved, Standards, [Next]_vars
             PROVE  Saved' /\ Standards'
  OBVIOUS
<1>1. CASE \E t \in FdTable : BackToPrompt(t)
  BY <1>1 DEF BackToPrompt, Saved, Standards
<1>2. CASE \E c : Redirects(c)
  BY <1>2, RedirectsSaved, RedirectsStandards
<1>3. CASE Begin
  <2>1. k' = 1 /\ backup' = <<>> /\ before' = fds /\ fds' = fds /\ \A f \in 0..2 : fds[f] # Closed
    BY <1>3 DEF Begin
  <2>2. Len(backup') = k' - 1 /\ 1..(k' - 1) = {}
    BY <2>1
  <2>3. Saved'
    BY <2>1, <2>2 DEF Saved
  <2>4. Standards'
    BY <2>1 DEF Standards, Path
  <2> QED BY <2>3, <2>4
<1>4. CASE Crash \/ ExecReplaces
  BY <1>4 DEF Crash, ExecReplaces, Saved, Standards
<1>5. CASE SetUp \/ UNCHANGED vars
  <2>1. UNCHANGED <<before, fds, list, k, mode, backup>> /\ (pc' = pc \/ (pc = "setup" /\ pc' = "run"))
    BY <1>5 DEF SetUp, vars
  <2>2. Saved'
    BY <2>1 DEF Saved
  <2>3. Standards'
    BY <2>1 DEF Standards, Path
  <2> QED BY <2>2, <2>3
<1> QED BY <1>1, <1>2, <1>3, <1>4, <1>5, SetUpStep, Endings DEF Next

OrderlyInv == TypeOK /\ Position /\ Tracks /\ Saved /\ Standards

LEMMA OrderlyAlways == Orderly(Lists) => (Spec => []OrderlyInv)
<1> SUFFICES ASSUME Orderly(Lists) PROVE Spec => []OrderlyInv
  OBVIOUS
<1>1. Init => Saved /\ Standards
  BY DEF Init, Saved, Standards
<1>2. TypeOK /\ Position /\ Tracks /\ Saved /\ Standards /\ [Next]_vars => Saved' /\ Standards'
  BY SavedInductive
<1>3. TypeOK /\ Position /\ Tracks /\ Saved /\ Standards => OrderlyInv
  BY DEF OrderlyInv
<1> QED BY <1>1, <1>2, <1>3, TracksAlways, PTL DEF Spec

(* A builtin's copies come back one after the other: what the loop of      *)
(* restore_fds has done after m turns.                                     *)
BackUpTo(r, m) ==
    /\ r.stopped = FALSE
    /\ r.table \in FdTable
    /\ \A f \in Fd : r.table[f] =
          IF \E j \in 1..m : f = list[j].fd THEN before[f]
          ELSE IF \E j \in 1..m : f = backup[j][2] THEN Closed
          ELSE fds[f]

LEMMA RestoredAfter ==
    ASSUME Orderly(Lists), OrderlyInv, pc = "run", mode = "builtin", NEW g, Way(g)
    PROVE  \A m \in 0..Len(backup) : BackUpTo(g[m], m)
<1> DEFINE n == Len(backup)
           S == {m \in 0..n : BackUpTo(g[m], m)}
<1>1. TypeOK /\ Position /\ Saved /\ k = Len(list) + 1 /\ Len(list) \in Nat
  BY ListFacts DEF OrderlyInv, TypeOK, Position
<1>2. /\ n = Len(list) /\ n \in Nat
      /\ \A j \in 1..n : /\ backup[j][1] = list[j].fd /\ list[j].fd \in 0..2
                         /\ backup[j][2] \in Fd \ 0..2
                         /\ fds[backup[j][2]] = before[list[j].fd]
                         /\ before[list[j].fd] # Closed
      /\ \A j, m \in 1..n : backup[j][2] = backup[m][2] => j = m
      /\ \A j, m \in 1..n : j < m => list[j].fd # list[m].fd
  <2>1. n = Len(list) /\ n \in Nat
    BY <1>1 DEF Saved
  <2>2. \A j \in 1..n : list[j].fd \in 0..2
    BY <1>1, <2>1, OrderlyAt
  <2>3. \A j, m \in 1..n : j < m => list[j].fd # list[m].fd
    BY <1>1, <2>1, OrderlyAt
  <2>4. /\ \A j \in 1..n : /\ backup[j][1] = list[j].fd
                           /\ backup[j][2] \in Fd \ 0..2
                           /\ fds[backup[j][2]] = before[list[j].fd]
        /\ \A j, m \in 1..n : backup[j][2] = backup[m][2] => j = m
        /\ \A f \in 0..2 : before[f] # Closed
    BY <1>1, <2>1 DEF Saved
  <2> HIDE DEF n
  <2> QED BY <2>1, <2>2, <2>3, <2>4
<1>3. g[0] = Start /\ \A j \in 1..n : g[j] = Restored(g[j - 1], backup[j])
  BY DEF Way
<1> HIDE DEF n
<1>4. 0 \in S
  BY <1>1, <1>2, <1>3 DEF Start, TypeOK, BackUpTo
<1>5. ASSUME NEW m \in 0..n, m < n, m \in S
      PROVE  m + 1 \in S
  <2> DEFINE e == backup[m + 1]
             t == g[m].table
             shut == [t EXCEPT ![e[1]] = Closed]
             lost == e[2] # -1 /\ shut[e[2]] = Closed
  <2>1. /\ m + 1 \in 1..n /\ (m + 1) - 1 = m /\ m + 1 \in 0..n
        /\ \A j \in 1..(m + 1) : j = m + 1 \/ j \in 1..m
        /\ \A j \in 1..m : j \in 1..n /\ j < m + 1 /\ j \in 1..(m + 1)
        /\ m + 1 \in 1..(m + 1)
    BY <1>2, <1>5
  <2>2. g[m + 1] = Restored(g[m], e)
    BY <1>3, <2>1
  <2>3. /\ e[1] = list[m + 1].fd /\ e[1] \in 0..2 /\ e[1] \in Fd
        /\ e[2] \in Fd /\ e[2] \notin 0..2 /\ e[2] # -1 /\ e[1] # e[2]
        /\ fds[e[2]] = before[e[1]] /\ before[e[1]] # Closed
    BY <1>2, <2>1, FdFacts
  <2>4. /\ g[m].stopped = FALSE /\ t \in FdTable
        /\ \A f \in Fd : t[f] =
              IF \E j \in 1..m : f = list[j].fd THEN before[f]
              ELSE IF \E j \in 1..m : f = backup[j][2] THEN Closed
              ELSE fds[f]
    BY <1>5 DEF BackUpTo
  <2>5. t[e[2]] = before[e[1]]
    <3>1. \A j \in 1..m : e[2] # list[j].fd /\ e[2] # backup[j][2]
      BY <1>2, <2>1, <2>3
    <3> QED BY <2>3, <2>4, <3>1
  <2>6. /\ shut \in FdTable
        /\ \A f \in Fd : shut[f] = IF f = e[1] THEN Closed ELSE t[f]
    BY <2>3, <2>4, FdFacts DEF FdTable
  <2>7. lost = FALSE /\ shut[e[2]] = before[e[1]]
    BY <2>3, <2>5, <2>6
  <2>8. g[m + 1] = [g[m] EXCEPT !.table = [shut EXCEPT ![e[1]] = shut[e[2]], ![e[2]] = Closed]]
    BY <2>2, <2>3, <2>4, <2>7 DEF Restored
  <2> DEFINE back == [shut EXCEPT ![e[1]] = shut[e[2]], ![e[2]] = Closed]
  <2>9. before[e[1]] \in File
    BY <1>1, <2>3 DEF TypeOK, FdTable
  <2>10. /\ back \in FdTable
         /\ \A f \in Fd : back[f] = IF f = e[2] THEN Closed
                                    ELSE IF f = e[1] THEN before[e[1]] ELSE t[f]
    <3> HIDE DEF shut, e, t
    <3> QED BY <2>3, <2>6, <2>7, <2>9, FdFacts DEF FdTable
  <2>11. g[m] \in Restoring
    BY <1>1, <1>5, WayType DEF n
  <2>12. g[m + 1].stopped = FALSE /\ g[m + 1].table = back
    <3> HIDE DEF back, shut, e, t
    <3>1. g[m + 1] = [g[m] EXCEPT !.table = back]
      BY <2>8 DEF back, shut, e, t
    <3> QED BY <2>4, <2>11, <3>1 DEF Restoring
  <2>13. ASSUME NEW f \in Fd
         PROVE  back[f] = IF \E j \in 1..(m + 1) : f = list[j].fd THEN before[f]
                          ELSE IF \E j \in 1..(m + 1) : f = backup[j][2] THEN Closed
                          ELSE fds[f]
    <3> HIDE DEF back, shut, t
    <3>1. CASE f = e[1]
      BY <2>1, <2>3, <2>10, <3>1
    <3>2. CASE f = e[2]
      <4>1. \A j \in 1..(m + 1) : f # list[j].fd
        BY <1>2, <2>1, <2>3, <3>2
      <4> QED BY <2>1, <2>3, <2>10, <3>2, <4>1
    <3>3. CASE f # e[1] /\ f # e[2]
      <4>1. back[f] = t[f]
        BY <2>10, <3>3
      <4>2. (\E j \in 1..(m + 1) : f = list[j].fd) <=> (\E j \in 1..m : f = list[j].fd)
        BY <2>1, <2>3, <3>3
      <4>3. (\E j \in 1..(m + 1) : f = backup[j][2]) <=> (\E j \in 1..m : f = backup[j][2])
        BY <2>1, <2>3, <3>3
      <4> QED BY <2>4, <4>1, <4>2, <4>3
    <3> QED BY <3>1, <3>2, <3>3
  <2> HIDE DEF back, shut, t, e
  <2> QED BY <2>1, <2>10, <2>12, <2>13 DEF BackUpTo
<1> HIDE DEF S
<1>6. 0..n \subseteq S
  BY <1>2, <1>4, <1>5, Restorings!BoundedInduction
<1> QED BY <1>6 DEF S, n

LEMMA RestoreFdsRestores ==
    ASSUME Orderly(Lists), OrderlyInv, RestoreFds
    PROVE  fds' = before
<1>1. /\ pc = "run" /\ mode = "builtin" /\ fds' = FoldLeft(Restored, Start, backup).table
      /\ TypeOK /\ Position /\ Saved
  BY DEF RestoreFds, BackToPrompt, Start, OrderlyInv
<1>2. PICK g : Way(g) /\ FoldLeft(Restored, Start, backup) = g[Len(backup)]
  BY <1>1, RestoredIsWay
<1>3. /\ k - 1 = Len(list) /\ Len(list) \in Nat /\ Len(backup) = Len(list)
      /\ Len(backup) \in 0..Len(backup)
  BY <1>1, ListFacts DEF Saved, TypeOK, Position
<1>4. BackUpTo(g[Len(backup)], Len(backup))
  BY <1>1, <1>2, <1>3, RestoredAfter
<1>5. \A f \in Fd : fds'[f] = before[f]
  BY <1>1, <1>2, <1>3, <1>4 DEF Saved, BackUpTo
<1> QED BY <1>1, <1>2, <1>4, <1>5 DEF TypeOK, FdTable, BackUpTo

(* "Restore file descriptors as we are returning to shell": after a        *)
(* builtin whose redirections were set up the shell has exactly the        *)
(* descriptors it had before.                                              *)
THEOREM RestoreCorrect == Orderly(Lists) => (Spec => RestoredAfterBuiltin)
<1> SUFFICES ASSUME Orderly(Lists) PROVE Spec => RestoredAfterBuiltin
  OBVIOUS
<1>1. OrderlyInv /\ [Next]_vars => [RestoreFds => fds' = before]_vars
  BY RestoreFdsRestores
<1> QED BY <1>1, OrderlyAlways, PTL DEF Spec, RestoredAfterBuiltin

(* What exec redirected stays redirected, in the shell that goes on and in *)
(* the program that replaces it.                                           *)
THEOREM ExecCorrect == Orderly(Lists) => (Spec => ExecKeepsRedirections)
<1> SUFFICES ASSUME Orderly(Lists) PROVE Spec => ExecKeepsRedirections
  OBVIOUS
<1>1. ASSUME OrderlyInv, ExecReturns \/ ExecReplaces, NEW r \in ToSet(list)
      PROVE  fds'[r.fd] = Wanted[r.fd]
  <2>1. /\ pc = "run" /\ fds' = fds /\ TypeOK /\ Position /\ Standards
        /\ k - 1 = Len(list) /\ DOMAIN list = 1..Len(list)
    BY <1>1, ListFacts DEF ExecReturns, ExecReplaces, BackToPrompt, OrderlyInv, TypeOK, Position
  <2>2. r.fd \in 0..2
    BY <1>1, <2>1, OrderlyAt DEF ToSet
  <2>3. PICK g : Path(g) /\ Wanted = g[Len(list)]
    BY <2>1, WantedIsPath
  <2> QED BY <2>1, <2>2, <2>3 DEF Standards
<1>2. OrderlyInv /\ [Next]_vars =>
         [ExecReturns \/ ExecReplaces =>
             \A r \in ToSet(list) : fds'[r.fd] = Wanted[r.fd]]_vars
  BY <1>1
<1> QED BY <1>2, OrderlyAlways, PTL DEF Spec, ExecKeepsRedirections
=============================================================================
