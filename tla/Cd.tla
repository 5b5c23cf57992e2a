---------------------------------- MODULE Cd ----------------------------------
(***************************************************************************)
(* The directory of the shell: builtin_cd and canonicalize_path of         *)
(* src/builtins/cd.c, builtin_pwd of src/builtins/pwd.c, and the variables *)
(* PWD and OLDPWD as load_shell_vars of src/main.c leaves them.            *)
(*                                                                         *)
(* An argument is an option or a path: PathOf gives what it stands for     *)
(* when it is more than a name in the current directory.                   *)
(***************************************************************************)
EXTENDS Directories

CONSTANTS
    PathOf,         \* argument with a slash or of dots -> the path it is
    HomeVar,        \* the value of HOME
    Unset           \* a variable that is not set, or a null pointer

ASSUME PathsAssumption ==
    /\ HomeVar = Unset \/ HomeVar \in Path
    /\ \A a \in DOMAIN PathOf : PathOf[a] \in Path

VARIABLES
    pwd, oldpwd     \* the values of the variables, shared with nobody

dirVars == <<cwd, pwd, oldpwd>>

(* load_shell_vars: PWD is the current directory and OLDPWD is unset; then *)
(* what was inherited replaces both.                                       *)
DirInit(inheritedPwd, inheritedOldpwd) ==
    /\ pwd = IF inheritedPwd = Unset THEN Absolute(cwd) ELSE inheritedPwd
    /\ oldpwd = inheritedOldpwd

(* The components but for slashes and dots; .. takes one back.             *)
AppendPart(new, part) ==
    CASE part \in {"", "."} -> new
      [] part = ".." -> IF new = <<>> THEN new ELSE Front(new)
      [] OTHER -> Append(new, part)
WithoutDots(parts) == FoldLeft(AppendPart, <<>>, parts)

(* canonicalize_path: a slash is put before whatever PWD is.               *)
Canonicalize(path, physical) ==
    LET base == IF path.abs THEN <<>> ELSE IF physical THEN cwd ELSE pwd.parts
    IN  Absolute(WithoutDots(base \o path.parts))

(* The arguments that begin with -; no option of cd has the letter z.      *)
Dashed == {"-", "-P", "-L", "-e", "-@", "-z"}

(* The arguments of cd, one after the other: the last of -L and -P         *)
(* matters, - replaces a path and a path does not.                         *)
CdArgument(o, a) ==
    CASE a = "-" -> [o EXCEPT !.path = a]
      [] a = "-P" -> [o EXCEPT !.physical = TRUE]
      [] a = "-L" -> [o EXCEPT !.physical = FALSE]
      [] a \in {"-e", "-@"} -> o
      [] OTHER -> IF a \notin Dashed /\ o.path = Unset THEN [o EXCEPT !.path = a]
                  ELSE [o EXCEPT !.bad = TRUE]

CdOptions(args) ==
    FoldLeft(CdArgument, [path |-> Unset, physical |-> FALSE, bad |-> FALSE], args)

Named(a) == IF a \in DOMAIN PathOf THEN PathOf[a] ELSE Relative(<<a>>)

(* Where cd is to go; the value of OLDPWD is read whether or not there is  *)
(* an OLDPWD.                                                              *)
CdTarget(o) ==
    IF o.path = Unset THEN HomeVar
    ELSE IF o.path = "-" THEN oldpwd ELSE Named(o.path)

(* Mutant: OLDPWD becomes the new directory.                               *)
ArrivedKeepsOld(destination) ==
    /\ cwd' = Resolve(destination)
    /\ oldpwd' = destination
    /\ pwd' = destination

(* Mutant: PWD and OLDPWD change places, as after cd -.                    *)
ArrivedSwapped(destination) ==
    /\ cwd' = Resolve(destination)
    /\ oldpwd' = pwd
    /\ pwd' = oldpwd

(* psh_backend_chdir has succeeded.                                        *)
Arrived(destination) ==
    /\ cwd' = Resolve(destination)
    /\ oldpwd' = pwd
    /\ pwd' = destination

(* builtin_cd, which returns status.  To read or to write OLDPWD while     *)
(* there is none is to follow a null pointer.                              *)
BuiltinCd(args, status) ==
    LET o == CdOptions(args)
        target == CdTarget(o)
        destination == Canonicalize(target, o.physical)
    IN  IF o.bad \/ target = Relative(<<>>) \/ (target = Unset /\ o.path = Unset)
        THEN status = 1 /\ UNCHANGED dirVars
        ELSE IF target = Unset THEN status = SegFault /\ UNCHANGED dirVars
        ELSE IF Resolve(destination) = Nowhere
        THEN status = 1 /\ UNCHANGED dirVars
        ELSE IF oldpwd = Unset
        THEN status = SegFault /\ cwd' = Resolve(destination) /\ UNCHANGED <<pwd, oldpwd>>
        ELSE status = 0 /\ Arrived(destination)

(* builtin_pwd, which prints what is in out: PWD, unless it is no plain    *)
(* absolute path; the current directory then and with -P.                  *)
BuiltinPwd(args, status, out) ==
    LET options == {args[i] : i \in {i \in DOMAIN args :
                                        \A j \in 1..i : args[j] \in Dashed}}
    IN  IF options \subseteq {"-P", "-L"}
        THEN /\ status = 0
             /\ out = IF \/ "-P" \in options \/ ~pwd.abs
                         \/ {".", ".."} \cap Range(pwd.parts) # {}
                      THEN Absolute(cwd) ELSE pwd
        ELSE status = 1 /\ out = Unset
=============================================================================
