------------------------------- MODULE Redirect -------------------------------
(***************************************************************************)
(* Redirections: set_up_redirection and restore_fds of                     *)
(* src/backends/posix2/run.c, as psh_backend_do_run uses them for builtins *)
(* in the shell itself and execute_single_cmd in a child.  One process and *)
(* its descriptor table; every open() may fail.                            *)
(*                                                                         *)
(* The backup list is an int ** of uninitialised memory: the first write   *)
(* through it crashes the shell, or hits memory that serves the purpose.   *)
(*                                                                         *)
(* The lists are those command.h describes.  The present parser            *)
(* (src/filpinfo.c) gives a command at most one redirection, and never its *)
(* right-hand side: MCParserLists are what it makes of ">&".               *)
(***************************************************************************)
EXTENDS Integers, SequencesExt

CONSTANTS
    MaxFd,      \* the largest file descriptor
    Names,      \* files that redirections name
    Std,        \* what descriptors 0, 1 and 2 are at start-up
    Closed,
    Lists,      \* the redirection lists commands may have
    MaxLeft     \* bound: no command is begun with more open descriptors

Fd == 0..MaxFd
File == Names \cup {Std, Closed}
FdTable == [Fd -> File]

(* All of >, >>, <, <> and here-documents open a file (rhs) and put it on  *)
(* the descriptor fd; the others copy the descriptor rhs or close fd.      *)
Redirection ==
    [type : {"file"}, fd : Fd, rhs : Names] \cup
    [type : {"fd2fd"}, fd : Fd, rhs : Fd] \cup
    [type : {"closefd"}, fd : Fd]

ASSUME RedirectAssumption ==
    /\ MaxFd \in Nat /\ MaxFd >= 2 /\ MaxLeft \in Nat
    /\ Std # Closed /\ Names \cap {Std, Closed} = {}
    /\ Lists \subseteq Seq(Redirection)

(* Lists that redirect different standard descriptors, copy standard       *)
(* descriptors only, and close none before another one is redirected.      *)
Orderly(ls) ==
    \A l \in ls :
       /\ \A a \in 1..Len(l) :
             l[a].fd \in 0..2 /\ (l[a].type = "fd2fd" => l[a].rhs \in 0..2)
       /\ \A a, b \in 1..Len(l) :
             a < b => l[a].fd # l[b].fd /\ l[a].type # "closefd"

(* Where the redirections are for: a child, a builtin in the shell, exec.  *)
Mode == {"child", "builtin", "exec"}

VARIABLES
    fds,        \* the descriptors of the process that redirects
    before,     \* those of the shell when the command began
    mode, list, k,  \* the command and the position in its list
    backup,     \* backed_up: the descriptor and its copy, or -1
    pc
vars == <<fds, before, mode, list, k, backup, pc>>

StdTable == [f \in Fd |-> IF f <= 2 THEN Std ELSE Closed]

Init ==
    /\ fds = StdTable /\ before = StdTable
    /\ mode = "child" /\ list = <<>> /\ k = 0 /\ backup = <<>>
    /\ pc = "prompt"

(* The lowest descriptor that is free in t, if there is one: what open()   *)
(* and dup() return.                                                       *)
Lowest(t) == {f \in Fd : t[f] = Closed /\ \A g \in Fd : g < f => t[g] # Closed}

Redir == list[k]
Backing == mode # "child"

(* A command is begun.  Bounds: with at most MaxLeft open descriptors, and *)
(* with 0, 1 and 2 open, which exec and failures may have closed for good. *)
Begin ==
    /\ pc = "prompt"
    /\ Cardinality({f \in Fd : fds[f] # Closed}) <= MaxLeft
    /\ \A f \in 0..2 : fds[f] # Closed
    /\ mode' \in Mode /\ list' \in Lists
    /\ k' = 1 /\ backup' = <<>> /\ before' = fds
    /\ pc' = "setup" /\ UNCHANGED fds

(* BACKUP_FD(fd) in the table t: the entries it may add, none if dup()     *)
(* fails for want of a descriptor.  A closed descriptor is saved as -1.    *)
Entries(t, fd) ==
    IF t[fd] = Closed THEN {<<fd, -1>>} ELSE {<<fd, c>> : c \in Lowest(t)}

WithCopy(t, entry) ==
    IF entry[2] = -1 THEN t ELSE [t EXCEPT ![entry[2]] = t[entry[1]]]

(* The table and the list after BACKUP_FD(fd), as a set of pairs.          *)
BackedUp(t, fd) ==
    IF ~Backing THEN {<<t, backup>>}
    ELSE {<<WithCopy(t, e), Append(backup, e)>> : e \in Entries(t, fd)}

(* Mutant: the arguments of dup2() in the wrong order.                     *)
ReplacedSwapped(t, from, fd) ==
    LET shut == [t EXCEPT ![from] = Closed]
    IN  [ok |-> shut[fd] # Closed, table |-> [shut EXCEPT ![from] = shut[fd]]]

(* close(fd); dup2(from, fd): fails when from is closed by then.           *)
Replaced(t, from, fd) ==
    LET shut == [t EXCEPT ![fd] = Closed]
    IN  [ok |-> shut[from] # Closed, table |-> [shut EXCEPT ![fd] = shut[from]]]

BackToPrompt(t) ==
    /\ fds' = t /\ pc' = "prompt" /\ list' = <<>> /\ k' = 0 /\ backup' = <<>>
    /\ UNCHANGED <<before, mode>>

(* A failing set_up_redirection: the child exits, the shell skips the      *)
(* builtin and stays with the table t.                                     *)
GiveUp(t) == BackToPrompt(IF mode = "child" THEN before ELSE t)

(* Mutant: the next redirection is skipped.                                *)
ProceedSkipping(t, saved) ==
    /\ fds' = t /\ backup' = saved /\ k' = k + 2
    /\ UNCHANGED <<before, mode, list, pc>>

(* On to the next redirection, with the table t and the backup list saved. *)
Proceed(t, saved) ==
    /\ fds' = t /\ backup' = saved /\ k' = k + 1
    /\ UNCHANGED <<before, mode, list, pc>>

(* Mutant: the descriptor open() gave is left open.                        *)
ToFileKeepsFd ==
    /\ pc = "setup" /\ k <= Len(list) /\ Redir.type = "file"
    /\ \E f \in Lowest(fds) :
       \E b \in BackedUp([fds EXCEPT ![f] = Redir.rhs], Redir.fd) :
          LET new == Replaced(b[1], f, Redir.fd)
          IN  IF new.ok THEN Proceed(new.table, b[2]) ELSE GiveUp(new.table)

(* open, BACKUP_FD, close, dup2, close.  If open() gave the very number    *)
(* that is redirected, the close() is of the file.                         *)
ToFile ==
    /\ pc = "setup" /\ k <= Len(list) /\ Redir.type = "file"
    /\ \E f \in Lowest(fds) :
       \E b \in BackedUp([fds EXCEPT ![f] = Redir.rhs], Redir.fd) :
          LET new == Replaced(b[1], f, Redir.fd)
          IN  IF new.ok THEN Proceed([new.table EXCEPT ![f] = Closed], b[2])
                        ELSE GiveUp(new.table)

OpenFails ==
    /\ pc = "setup" /\ k <= Len(list) /\ Redir.type = "file"
    /\ GiveUp(fds)

(* The backup of the descriptor fails: "return 2", the file stays open.    *)
BackupFails ==
    /\ pc = "setup" /\ k <= Len(list) /\ Backing
    /\ \/ /\ Redir.type = "file"
          /\ \E f \in Lowest(fds) :
                LET t == [fds EXCEPT ![f] = Redir.rhs]
                IN  BackedUp(t, Redir.fd) = {} /\ GiveUp(t)
       \/ /\ Redir.type # "file"
          /\ BackedUp(fds, Redir.fd) = {} /\ GiveUp(fds)

ToFd ==
    /\ pc = "setup" /\ k <= Len(list) /\ Redir.type = "fd2fd"
    /\ \E b \in BackedUp(fds, Redir.fd) :
          LET new == Replaced(b[1], Redir.rhs, Redir.fd)
          IN  IF new.ok THEN Proceed(new.table, b[2]) ELSE GiveUp(new.table)

CloseFd ==
    /\ pc = "setup" /\ k <= Len(list) /\ Redir.type = "closefd"
    /\ \E b \in BackedUp(fds, Redir.fd) :
          Proceed([b[1] EXCEPT ![Redir.fd] = Closed], b[2])

(* The first BACKUP_FD writes through backup[used_size], which nobody has  *)
(* made point to an int[2].                                                *)
Crash ==
    /\ pc = "setup" /\ k <= Len(list) /\ Backing
    /\ pc' = "crashed" /\ UNCHANGED <<fds, before, mode, list, k, backup>>

(* The command runs with its redirections.                                 *)
SetUp ==
    /\ pc = "setup" /\ k > Len(list)
    /\ pc' = "run" /\ UNCHANGED <<fds, before, mode, list, k, backup>>

(* The child ends; the shell never noticed its redirections.               *)
ChildEnds == pc = "run" /\ mode = "child" /\ BackToPrompt(before)

(* Mutant: exec is restored like any other builtin.                        *)
ExecReturnsRestored == pc = "run" /\ mode = "exec" /\ BackToPrompt(before)

(* builtin_exec without a command, or with one that cannot be executed     *)
ExecReturns == pc = "run" /\ mode = "exec" /\ BackToPrompt(fds)

ExecReplaces ==
    /\ pc = "run" /\ mode = "exec"
    /\ pc' = "replaced" /\ UNCHANGED <<fds, before, mode, list, k, backup>>

(* Mutant: the copies are not closed.                                      *)
RestoredKeepsCopy(r, entry) ==
    LET shut == [r.table EXCEPT ![entry[1]] = Closed]
        lost == entry[2] # -1 /\ shut[entry[2]] = Closed
    IN  IF r.stopped THEN r
        ELSE IF entry[2] = -1 \/ lost THEN [stopped |-> lost, table |-> shut]
        ELSE [r EXCEPT !.table = [shut EXCEPT ![entry[1]] = shut[entry[2]]]]

(* One turn of the loop of restore_fds: close, dup2, close.  It stops when *)
(* the copy is not there any more.                                         *)
Restored(r, entry) ==
    LET shut == [r.table EXCEPT ![entry[1]] = Closed]
        lost == entry[2] # -1 /\ shut[entry[2]] = Closed
    IN  IF r.stopped THEN r
        ELSE IF entry[2] = -1 \/ lost THEN [stopped |-> lost, table |-> shut]
        ELSE [r EXCEPT !.table = [shut EXCEPT ![entry[1]] = shut[entry[2]],
                                              ![entry[2]] = Closed]]

(* restore_fds goes through the list from its head.  Its caller does not   *)
(* look at what it returns.                                                *)
RestoreFds ==
    /\ pc = "run" /\ mode = "builtin"
    /\ BackToPrompt(FoldLeft(Restored, [stopped |-> FALSE, table |-> fds],
                             backup).table)

Next ==
    \/ Begin \/ ToFile \/ OpenFails \/ BackupFails \/ ToFd \/ CloseFd \/ Crash
    \/ SetUp \/ ChildEnds \/ ExecReturns \/ ExecReplaces \/ RestoreFds

Spec == Init /\ [][Next]_vars

-----------------------------------------------------------------------------
TypeOK ==
    /\ fds \in FdTable /\ before \in FdTable
    /\ mode \in Mode /\ list \in Lists \cup {<<>>} /\ k \in 0..Len(list) + 1
    /\ backup \in Seq(Fd \X (Fd \cup {-1}))
    /\ pc \in {"prompt", "setup", "run", "crashed", "replaced"}

(* What the redirections mean, one after the other, whatever numbers the   *)
(* system gives to files on the way.                                       *)
Meant(t, r) ==
    CASE r.type = "file"    -> [t EXCEPT ![r.fd] = r.rhs]
      [] r.type = "fd2fd"   -> [t EXCEPT ![r.fd] = t[r.rhs]]
      [] r.type = "closefd" -> [t EXCEPT ![r.fd] = Closed]
Wanted == FoldLeft(Meant, before, list)

(* A child that runs its program has exactly the descriptors its           *)
(* redirections say: each on its file, nothing left over from open().      *)
ChildGetsWhatItAsked == pc = "run" /\ mode = "child" => fds = Wanted

(* A builtin finds on the redirected descriptors what it should, although  *)
(* copies of the old ones are open beside them.                            *)
BuiltinGetsWhatItAsked ==
    pc = "run" => \A f \in Fd : Wanted[f] # Closed => fds[f] = Wanted[f]

(* "Restore file descriptors as we are returning to shell": after a        *)
(* builtin whose redirections succeeded the shell has the descriptors it   *)
(* had before, and no copy stays open.                                     *)
RestoredAfterBuiltin == [][RestoreFds => fds' = before]_vars

(* The same, however the redirections went.                                *)
ShellKeepsItsFds == pc = "prompt" /\ mode = "builtin" => fds = before

(* The redirections of exec outlive it: the shell, or what replaces it,    *)
(* goes on with them.                                                      *)
ExecKeepsRedirections ==
    [][ExecReturns \/ ExecReplaces =>
          \A r \in ToSet(list) : fds'[r.fd] = Wanted[r.fd]]_vars
=============================================================================
