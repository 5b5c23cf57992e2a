----------------------------- MODULE Directories -----------------------------
(***************************************************************************)
(* The file system as the builtins of the shell meet it, through access(), *)
(* chdir() and getcwd(): a fixed tree of directories with symbolic links   *)
(* to directories, and the files in them that others create and remove.    *)
(* A directory is the sequence of the names that lead to it from the root. *)
(***************************************************************************)
EXTENDS Integers, SequencesExt

CONSTANTS
    Strings,        \* components of paths, and words of command lines
    Dirs,           \* the directories
    Links,          \* symbolic link -> the directory it leads to
    FileDirs,       \* those that others create and remove files in
    Nowhere         \* no directory

ASSUME DirsAssumption ==
    /\ {"", ".", ".."} \subseteq Strings
    /\ FileDirs \subseteq Dirs /\ Nowhere \notin Dirs
    /\ \A d \in Dirs : d \in Seq(Strings \ {"", ".", ".."})
    /\ <<>> \in Dirs /\ \A d \in Dirs \ {<<>>} : Front(d) \in Dirs
    /\ \A l \in DOMAIN Links : l \notin Dirs /\ Links[l] \in Dirs

SegFault == -1  \* the status of what does not return

VARIABLES
    cwd,            \* the current directory of the process
    files           \* the files there are: <<directory, name>>

(* A path as it is written: absolute or not, and its components.           *)
Path == [abs : BOOLEAN, parts : Seq(Strings)]
Absolute(parts) == [abs |-> TRUE, parts |-> parts]
Relative(parts) == [abs |-> FALSE, parts |-> parts]

(* One component further.                                                  *)
Enter(d, part) ==
    IF d = Nowhere THEN Nowhere
    ELSE CASE part \in {"", "."} -> d
           [] part = ".." -> IF d = <<>> THEN d ELSE Front(d)
           [] OTHER -> LET e == Append(d, part)
                       IN  IF e \in DOMAIN Links THEN Links[e]
                           ELSE IF e \in Dirs THEN e ELSE Nowhere

(* The directory that components, one after the other, lead to from d, and *)
(* the one a path leads to.                                                *)
Follow(d, parts) == FoldLeft(Enter, d, parts)
Resolve(path) == Follow(IF path.abs THEN <<>> ELSE cwd, path.parts)

(* A file named by the directory it is in and its name there:              *)
(* psh_backend_file_exists only asks whether it is there.                  *)
FileExists(f) == <<Resolve(f.dir), f.name>> \in files

(* Others create and remove files.                                         *)
FilesChange(n) ==
    \E d \in FileDirs :
        files' = IF <<d, n>> \in files THEN files \ {<<d, n>>}
                 ELSE files \cup {<<d, n>>}
=============================================================================
