------------------------------- MODULE Kernel -------------------------------
(***************************************************************************)
(* What psh uses of the operating system: file descriptor tables, pipes    *)
(* and the open files that descriptors stand for.  None of it is code of   *)
(* the repository; the operators say what close(2), dup2(2) and pipe(2) do *)
(* to one process's table, as backends/posix2/run.c relies on them.        *)
(***************************************************************************)
EXTENDS Integers

CONSTANTS
    Pipes,      \* pipe objects, by number
    MaxFd,      \* the largest file descriptor (RLIMIT_NOFILE less one)
    Tty,        \* the terminal: what standard input, output and error are
    Disk,       \* a file that a redirection opened
    Closed      \* a descriptor that is not open

ASSUME KernelAssumption ==
    /\ MaxFd \in Nat /\ MaxFd >= 2 /\ Pipes \subseteq Nat
    /\ Tty # Closed /\ Disk # Closed /\ Tty # Disk
    /\ \A q \in Pipes, e \in {"r", "w"} : <<q, e>> \notin {Tty, Disk, Closed}

Fd == 0..MaxFd
File == {Closed, Tty, Disk} \cup (Pipes \X {"r", "w"})
FdTable == [Fd -> File]

ReadEnd(q)  == <<q, "r">>
WriteEnd(q) == <<q, "w">>

(* The table of a process that has no pipe: 0, 1 and 2 are the terminal.   *)
TtyTable == [f \in Fd |-> IF f <= 2 THEN Tty ELSE Closed]
ClosedTable == [f \in Fd |-> Closed]

Holds(t, file) == \E f \in Fd : t[f] = file

Close(t, f) == [t EXCEPT ![f] = Closed]
(* "if (f) close(f)": run.c takes descriptor 0 for "there is none".        *)
CloseIf(t, f) == IF f = 0 THEN t ELSE Close(t, f)
(* close(to); dup2(from, to); close(from), or nothing for descriptor 0.    *)
Move(t, from, to) ==
    IF from = 0 THEN t ELSE [t EXCEPT ![to] = t[from], ![from] = Closed]

(* pipe(2) takes the two lowest free descriptors, the read end first.      *)
LowestTwo(t, a, b) ==
    /\ a < b
    /\ t[a] = Closed /\ t[b] = Closed
    /\ \A f \in Fd : f < b /\ t[f] = Closed => f = a
=============================================================================
