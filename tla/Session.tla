------------------------------- MODULE Session -------------------------------
(***************************************************************************)
(* A session of simple commands: expand_alias (Aliases) works on the line  *)
(* that was typed, and psh_backend_do_run then has a builtin do it (cd and *)
(* pwd from Cd, alias and unalias from Aliases, hash from PathCache) or    *)
(* looks up where the command is (PathCache) for a child to execute it.    *)
(* What the children do is PshRun.  The lines have one command and no      *)
(* quotes; Frontend has the parser.  Meanwhile others create and remove    *)
(* commands.                                                               *)
(***************************************************************************)
EXTENDS Aliases, Cd, PathCache

CONSTANTS
    Lines,          \* what may be typed
    Idle,           \* builtins that do nothing to this state, such as echo
    Inherited       \* start: the directory and the inherited PWD and OLDPWD,
                    \* and whether a PATH is inherited

ASSUME InheritedAssumption ==
    \A i \in Inherited :
        /\ i.cwd \in Dirs
        /\ i.pwd = Unset \/ i.pwd \in Path
        /\ i.oldpwd = Unset \/ i.oldpwd \in Path
        /\ i.hasPath \in BOOLEAN

(* Words are as long as they can be, so that what follows one ends it.     *)
(* The lines have no builtin that ends the session or runs another: what   *)
(* is no builtin of this module is a command.                              *)
ASSUME LinesAssumption ==
    /\ \A l \in Lines : /\ l \in Seq(Strings) /\ l # <<>>
                        /\ Len(l) > 1 => l[1] \in Ending \/ l[2] \in Ending
    /\ \A a \in DOMAIN Definitions : Definitions[a].value \in Seq(Strings)
    /\ {"exit", "logout", "quit", "exec", "builtin"} \cap Strings = {}
    /\ {"cd", "chdir", "pwd", "hash", "alias", "unalias"} \cap Idle = {}

(* load_shell_vars believes the PWD it inherits: it is a name of the       *)
(* directory that does not go back by ..                                   *)
RightPwd(start) ==
    \A i \in start :
        i.pwd = Unset \/ /\ i.pwd.abs /\ ".." \notin Range(i.pwd.parts)
                         /\ Follow(<<>>, i.pwd.parts) = i.cwd

VARIABLES
    mode,           \* where main() is
    typed,          \* the line that was typed last
    res             \* what the last command did

vars == <<aliases, text, cwd, files, pwd, oldpwd, hasPath, cache, outdated, mode, typed, res>>

NoResult == [status |-> 0, out |-> Unset, cmd |-> "", ran |-> NotFound]

Init ==
    /\ aliases = [n \in AliasNames |-> NoAlias] /\ text = <<>>
    /\ cache = [n \in Commands |-> NotFound] /\ outdated = {}
    /\ files = {}
    /\ \E i \in Inherited :
          cwd = i.cwd /\ DirInit(i.pwd, i.oldpwd) /\ hasPath = i.hasPath
    /\ mode = "reading" /\ typed = <<>> /\ res = NoResult

Type(line) ==
    /\ mode = "reading"
    /\ mode' = "expanding" /\ text' = line /\ typed' = line /\ res' = NoResult
    /\ UNCHANGED <<aliases, dirVars, files, hasPath, cacheVars>>

Expand ==
    /\ mode = "expanding" /\ ExpandOnce
    /\ UNCHANGED <<dirVars, files, hasPath, cacheVars, mode, typed, res>>

(* The first word is no alias: on to filpinfo and psh_backend_do_run.      *)
HandOver ==
    /\ mode = "expanding" /\ Expanded
    /\ mode' = "running"
    /\ UNCHANGED <<aliasVars, dirVars, files, hasPath, cacheVars, typed, res>>

AddWord(words, w) == IF w = " " THEN words ELSE Append(words, w)
Words == FoldLeft(AddWord, <<>>, text)
Command == IF Words = <<>> THEN "" ELSE Words[1]
Args == IF Words = <<>> THEN <<>> ELSE Tail(Words)

(* What has run gives this result, and on to the next line.                *)
Runs(result) ==
    /\ mode' = IF result.status = SegFault THEN "crashed" ELSE "reading"
    /\ text' = <<>> /\ typed' = <<>>
    /\ res' = result
    /\ UNCHANGED <<files, hasPath>>

Statuses == {0, 1, 2, SegFault}

RunCd ==
    /\ mode = "running" /\ Command \in {"cd", "chdir"}
    /\ \E s \in Statuses :
          BuiltinCd(Args, s) /\ Runs([NoResult EXCEPT !.status = s])
    /\ Moved
    /\ UNCHANGED <<aliases, cache>>

RunPwd ==
    /\ mode = "running" /\ Command = "pwd"
    /\ \E s \in {0, 1}, o \in {pwd, Absolute(cwd), Unset} :
          BuiltinPwd(Args, s, o) /\ Runs([NoResult EXCEPT !.status = s, !.out = o])
    /\ UNCHANGED <<aliases, dirVars, cacheVars>>

RunHash ==
    /\ mode = "running" /\ Command = "hash"
    /\ \E s \in {0, 1, SegFault} :
          BuiltinHash(Args, s) /\ Runs([NoResult EXCEPT !.status = s])
    /\ UNCHANGED <<aliases, dirVars>>

RunAlias ==
    /\ mode = "running" /\ Command \in {"alias", "unalias"}
    /\ \E s \in {0, 1, 2} :
          /\ IF Command = "alias" THEN BuiltinAlias(Args, s) ELSE BuiltinUnalias(Args, s)
          /\ Runs([NoResult EXCEPT !.status = s])
    /\ UNCHANGED <<dirVars, cacheVars>>

(* Their status is left out.                                               *)
RunIdle ==
    /\ mode = "running" /\ Command \in Idle
    /\ Runs(NoResult)
    /\ UNCHANGED <<aliases, dirVars, cacheVars>>

(* What is no builtin.                                                     *)
RunCommand ==
    /\ mode = "running"
    /\ Command \notin {"cd", "chdir", "pwd", "hash", "alias", "unalias"} \cup Idle
    /\ \E s \in {0, SegFault},
          f \in Range(cache) \cup Range(FileOf) \cup {Search(Command), NotFound} :
          /\ GetCmdRealpath(Command, s, f)
          /\ Runs([NoResult EXCEPT !.status = s, !.ran = f,
                                   !.cmd = IF s = SegFault THEN @ ELSE Command])
    /\ UNCHANGED <<aliases, dirVars>>

OthersChangeFiles ==
    /\ mode = "reading"
    /\ \E n \in Commands : FileChanged(n)
    /\ res' = NoResult
    /\ UNCHANGED <<aliases, text, pwd, oldpwd, hasPath, mode, typed>>

Run == RunCd \/ RunPwd \/ RunHash \/ RunAlias \/ RunIdle \/ RunCommand
Next ==
    (\E line \in Lines : Type(line)) \/ Expand \/ HandOver \/ Run \/ OthersChangeFiles

Spec == Init /\ [][Next]_vars /\ WF_vars(Expand \/ HandOver)

-----------------------------------------------------------------------------
TypeOK ==
    /\ mode \in {"reading", "expanding", "running", "crashed"}
    /\ aliases \in [AliasNames -> {NoAlias} \cup Seq(Strings)]
    /\ text \in Seq(Strings) /\ typed \in Seq(Strings)
    /\ mode \in {"expanding", "running"} => typed \in Lines
    /\ cwd \in Dirs /\ pwd \in Path /\ (oldpwd = Unset \/ oldpwd \in Path)
    /\ files \subseteq Dirs \X Commands /\ hasPath \in BOOLEAN
    /\ cache \in [Commands -> {NotFound} \cup FilePath]
    /\ outdated \subseteq Commands
    /\ res.status \in Statuses

(* However one comes to it, by .. , by links or back by -, PWD names the   *)
(* current directory, and pwd prints a name of it without dots.            *)
PwdNamesCwd ==
    /\ mode # "crashed" => Resolve(pwd) = cwd
    /\ res.out # Unset => /\ res.out.abs /\ Resolve(res.out) = cwd
                          /\ {".", ".."} \cap Range(res.out.parts) = {}

(* A cd that changes the directory leaves cd - a way back.                 *)
CdLeavesWayBack ==
    [][cwd' # cwd /\ mode' # "crashed" =>
          Resolve(Canonicalize(oldpwd', FALSE)) = cwd]_vars

(* A command is run from where a search of PATH finds it first, as long as *)
(* no file of its name came or went since it was cached, no hash -p set    *)
(* its path, and no entry before it depends on the directory.              *)
RunsWhatSearchFinds ==
    \A n \in Commands : res.cmd = n /\ n \notin outdated => res.ran = Search(n)

(* However often the first word is replaced, the line keeps the arguments  *)
(* that were typed behind it.                                              *)
ExpansionKeepsArguments ==
    mode \in {"expanding", "running"} => IsSuffix(Tail(typed), text)

(* Unless aliases go in a circle, the expansion of a line comes to an end. *)
ExpansionEnds == mode = "expanding" /\ Acyclic ~> mode = "running"
=============================================================================
