------------------------------ MODULE PathCache ------------------------------
(***************************************************************************)
(* Where commands are found: get_cmd_realpath of                           *)
(* src/backends/posix2/run.c, builtin_hash of src/builtins/hash.c and      *)
(* psh_search_path of lib/path_searcher.c.  The table of the commands that *)
(* were found is the hash table HashTable models, here the map KVMap that  *)
(* it implements.                                                          *)
(*                                                                         *)
(* Names outside of Commands are of no file; that hash -p may cache them   *)
(* all the same is left out.                                               *)
(*                                                                         *)
(* A path to a file is [dir, name]; dir may be relative when an entry of   *)
(* PATH is.  An empty entry of PATH gives /name, as the root does.  There  *)
(* may be no PATH, as nothing gives it a value but the environment.        *)
(***************************************************************************)
EXTENDS Directories

CONSTANTS
    Commands,       \* names without a slash
    SearchPath,     \* the entries of PATH, if it is set
    FileOf,         \* argument with a slash -> the file it names
    NotFound

FilePath == [dir : Path, name : Strings]

ASSUME CommandsAssumption ==
    /\ Commands \subseteq Strings \ {""} /\ Commands \cap DOMAIN FileOf = {}
    /\ SearchPath \in Seq(Path)
    /\ \A a \in DOMAIN FileOf : FileOf[a] \in FilePath

VARIABLES
    hasPath,        \* PATH is set
    cache,          \* state->command_table
    outdated        \* history: commands a search may not find where they are
                    \* cached, as files changed or a path was set since

cacheVars == <<cache, outdated>>

File(dir, name) == [dir |-> dir, name |-> name]
FileNamed(a) ==
    IF a \in DOMAIN FileOf THEN FileOf[a] ELSE File(Relative(<<>>), a)

(* psh_search_path: the first entry of PATH that has the file.             *)
Search(n) ==
    LET found == {i \in DOMAIN SearchPath : FileExists(File(SearchPath[i], n))}
    IN  IF found = {} THEN NotFound ELSE File(SearchPath[Min(found)], n)

(* Cached where no search from another directory would find another.       *)
FixedAt(f) ==
    \E i \in DOMAIN SearchPath :
        f.dir = SearchPath[i] /\ \A j \in 1..i : SearchPath[j].abs

(* History: the directory changes, or files with the name n do.            *)
Moved ==
    outdated' = outdated \cup
        IF cwd' = cwd THEN {}
        ELSE {n \in Commands : cache[n] # NotFound /\ ~FixedAt(cache[n])}
FileChanged(n) ==
    FilesChange(n) /\ outdated' = outdated \cup {n} /\ UNCHANGED <<cwd, cache>>

(* What get_cmd_realpath does not know without a search.                   *)
NeedsSearch(cmd) ==
    /\ cmd \notin DOMAIN FileOf /\ cmd # ""
    /\ cmd \in Commands => cache[cmd] = NotFound

(* get_cmd_realpath: ran is the file that execve() is given.  The search   *)
(* follows the null pointer that a PATH which is not set is.               *)
GetCmdRealpath(cmd, status, ran) ==
    /\ status = IF NeedsSearch(cmd) /\ ~hasPath THEN SegFault ELSE 0
    /\ IF cmd \in DOMAIN FileOf THEN ran = FileOf[cmd] /\ UNCHANGED cacheVars
       ELSE IF cmd \notin Commands \/ status = SegFault
       THEN ran = NotFound /\ UNCHANGED cacheVars
       ELSE IF cache[cmd] # NotFound THEN ran = cache[cmd] /\ UNCHANGED cacheVars
       ELSE /\ ran = Search(cmd)
            /\ cache' = [cache EXCEPT ![cmd] = ran]
            /\ outdated' = outdated \ {cmd}

-----------------------------------------------------------------------------
(* The options of hash: they end at --, at - (which is taken for a name)   *)
(* and at the first argument that is none; -p takes the next argument.     *)
HashArgument(o, a) ==
    IF o.bad THEN o
    ELSE IF o.state = "path" THEN [o EXCEPT !.path = a, !.state = "options"]
    ELSE IF o.state = "names" THEN [o EXCEPT !.names = Append(@, a)]
    ELSE CASE a = "-p" -> [o EXCEPT !.flags = @ \cup {a}, !.state = "path"]
           [] a \in {"-d", "-l", "-r", "-t"} -> [o EXCEPT !.flags = @ \cup {a}]
           [] a = "--" -> [o EXCEPT !.state = "names"]
           [] a = "-z" -> [o EXCEPT !.bad = TRUE]
           [] OTHER -> [o EXCEPT !.names = Append(@, a), !.state = "names"]

HashOptions(args) ==
    FoldLeft(HashArgument, [flags |-> {}, path |-> "", names |-> <<>>,
                            bad |-> FALSE, state |-> "options"], args)

(* Mutant: no new table is made.                                           *)
ClearedOnly ==
    /\ cache' = [n \in {} |-> NotFound]
    /\ outdated' = {}

(* psh_hash_free and psh_hash_create                                       *)
Cleared ==
    /\ cache' = [n \in Commands |-> NotFound]
    /\ outdated' = {}

(* Mutant: what is cached already is kept.                                 *)
HashNameKeeps(r, n) ==
    LET found == Search(n) IN
    CASE "-p" \in r.flags ->
             [r EXCEPT !.cache[n] = FileNamed(r.path), !.outdated = @ \cup {n}]
      [] "-p" \notin r.flags /\ r.flags \cap {"-d", "-t"} # {} ->
             [r EXCEPT !.status = IF r.cache[n] = NotFound THEN 1 ELSE @,
                       !.cache[n] = IF "-d" \in r.flags THEN NotFound ELSE @]
      [] OTHER -> IF found = NotFound THEN [r EXCEPT !.status = 1]
                  ELSE [r EXCEPT !.cache[n] = IF @ = NotFound THEN found ELSE @,
                                 !.outdated = @ \ {n}]

(* The loop over the names, r: -p wins over -d and -d over -t.             *)
HashName(r, n) ==
    LET found == Search(n) IN
    CASE n \notin Commands -> [r EXCEPT !.status = IF "-p" \in r.flags THEN @ ELSE 1]
      [] n \in Commands /\ "-p" \in r.flags ->
             [r EXCEPT !.cache[n] = FileNamed(r.path), !.outdated = @ \cup {n}]
      [] n \in Commands /\ "-p" \notin r.flags /\ r.flags \cap {"-d", "-t"} # {} ->
             [r EXCEPT !.status = IF r.cache[n] = NotFound THEN 1 ELSE @,
                       !.cache[n] = IF "-d" \in r.flags THEN NotFound ELSE @]
      [] OTHER -> IF found = NotFound THEN [r EXCEPT !.status = 1]
                  ELSE [r EXCEPT !.cache[n] = found, !.outdated = @ \ {n}]

HashStart(o) == [cache |-> cache, outdated |-> outdated, status |-> 0,
                 flags |-> o.flags, path |-> o.path]
HashResult(o) == FoldLeft(HashName, HashStart(o), o.names)

(* builtin_hash, which returns status; a name without -p, -d and -t is     *)
(* searched for.                                                           *)
BuiltinHash(args, status) ==
    LET o == HashOptions(args)
        result == HashResult(o)
    IN  IF o.bad \/ o.state = "path" THEN status = 1 /\ UNCHANGED cacheVars
        ELSE IF "-r" \in o.flags THEN status = 0 /\ Cleared
        ELSE IF o.names = <<>>
        THEN status = (IF "-t" \in o.flags THEN 1 ELSE 0) /\ UNCHANGED cacheVars
        ELSE IF o.flags \cap {"-p", "-d", "-t"} = {} /\ ~hasPath
        THEN status = SegFault /\ UNCHANGED cacheVars
        ELSE /\ status = result.status
             /\ cache' = result.cache /\ outdated' = result.outdated
=============================================================================
