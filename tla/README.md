# Verification of psh

psh is a POSIX-like command shell: a read loop, a character-driven command
line parser, a backend that forks pipelines, a job list, shell variables and a
hash table under most of it. This directory holds TLA+ models of its core, the
TLC configurations that check them and proofs about them. Paths below are
relative to the repository.

## Inventory

| Component | State | Operations | Talks to | Hard behaviour | What makes it correct |
|---|---|---|---|---|---|
| Process execution (`src/backends/posix2/run.c`) | `last_pipe_fd`, `pipe_fd`, `pid`, the descriptor table; the children | `psh_backend_do_run`, `execute_single_cmd`, `get_cmd_realpath` | parser (command list), jobs, variables (`?`), builtins, kernel | children run beside the shell; `fork`, `pipe`, `open` fail; descriptor numbers are reused while stale copies of them survive | each stage reads its predecessor and writes its successor; no process holds an end it should not; the prompt always returns |
| Redirections (`run.c`, `builtin_exec.c`) | the descriptor table, the backup list | set up, back up, restore, `exec` | kernel, builtins | any step may fail after others took effect; copies take numbers later redirections use | a command sees its redirections, the shell gets its descriptors back |
| Jobs and exit (`src/jobs.c`, `src/util.c`, `src/builtins/exit.c`) | `state->jobs` | `psh_jobs_add`, `psh_jobs_free`, `exit_psh` | run.c, kernel (`kill`) | a forked child has its own copy of the list and also runs `exit_psh` | SIGHUP reaches jobs only, never a recycled process number |
| Main loop (`src/main.c`, `src/args.c`, `src/input.c`, `lifecycle.c`) | `psh_state` | read, expand aliases, parse, run, free | everything | end of input, signals | a line is run completely before the next |
| Hash table (`lib/hash.c`, `lib/hasher.c`) | buckets: count, head, tail; items | create, add, add_chk, realloc, get, rm, free | variables, aliases, path cache | loops trust the counts, stale `next` and `tail` pointers | it is a map; nothing is leaked or freed twice |
| Variables (`src/variable.c`) | array of contexts (hash tables), `environ` | new/destroy context, set, get, unset, export | hash table, expansion, cd, run.c | growth at the limit, unset markers over older scopes, ownership of payloads | lookup finds the innermost live definition; each payload has one owner; `environ` is what is exported |
| Parser (`src/filpinfo.c`, `src/command.c`, `src/parser.c`) | position, ignore mode, the command list | `filpinfo`, continuation lines | input, variables, aliases | a position that each case moves in its own way; blanks that are taken back; memory of fixed size | a line is read as what was meant; the loop ends |
| cd / pwd (`src/builtins/cd.c`, `pwd.c`) | `PWD`, `OLDPWD`, the process directory | `cd`, `cd -`, `pwd`, -L and -P | variables, kernel | copies of the same fact; symbolic links make `..` by name and by directory differ | they agree, and `cd -` leads back |
| Aliases (`src/builtins/alias.c`) | alias table | alias, unalias, `expand_alias` | hash table, main loop | an alias of an alias | expansion ends, and keeps the arguments |
| Path cache (`builtins/hash.c`, `lib/path_searcher.c`) | `command_table` | lookup, `hash -r`, `hash -d` | run.c, hash table, PATH | entries outlive what they were computed from | a hit is what a search would find |
| Prompts (`src/prompts.c`) | none | `ps_expander` | variables, string builder | the text is changed under pieces that are read later; escapes at its end | a prompt is shown as what it means; expansion ends |
| String utilities (`lib/stringbuilder.c`, `lib/util.c`, `lib/xmalloc.c`) | list of pieces; a growing buffer | add, create, free; `psh_getstring` | parser, prompts | growth at the limit | what is built is the concatenation |
| Other builtins (`src/builtins/*.c`) | none, but for `history` (GNU library) and `exec` | print; replace the shell | run.c | `exec` keeps its redirections | - |
| Environment backend (`misc_impl.c`, `lifecycle.c`) | none | one library call each | everything | - | - |

## Modules

| Module | What it models |
|---|---|
| `Kernel` | descriptor tables, `close`, `dup2`, the numbers `pipe` gives: external, as run.c relies on them |
| `PshRun` (extends `Kernel`) | the shell process running command lines, with its children, job list, pipes and exit |
| `MCPshRun` | the command lines PshRun is checked on |
| `PshRun_proofs` | theorems about PshRun: types, jobs and SIGHUP, the ends of its pipes, and what is left of them |
| `Redirect` | the redirections of one command, in a child, a builtin or `exec` |
| `MCRedirect` | redirection lists |
| `LeftFolds` | what `FoldLeft` computes, for any operator: lemmas for the proofs |
| `Redirect_proofs` | theorems about Redirect |
| `KVMap` | abstract specification: the map a hash table promises |
| `HashTable` | `lib/hash.c` on a heap of cells; implements `KVMap` (`IsMap`) |
| `MCHashTable` | keys and their hash values |
| `HashTable_proofs` | theorems about HashTable, with the refinement of `KVMap` |
| `Filpinfo` | the parser: `filpinfo()` of `src/filpinfo.c`, one action per character class |
| `Prompts` | `ps_expander` of `src/prompts.c` on the string builder |
| `Frontend` (extends `Filpinfo`, `Prompts`) | the main loop: prompt, read, parse, run |
| `Meanings` | abstract specification: what a line and a prompt mean, read once from left to right |
| `MCFrontend` | prompts and lines, with what is meant by them |
| `Frontend_proofs` | theorems about Frontend: types, elements, and what is shown for PS1 |
| `FrontendReads_proofs` | theorems about Frontend: what lines are read as |
| `Directories` | a tree of directories with links, and files: external |
| `Cd` (extends `Directories`) | `cd`, `canonicalize_path`, `pwd`, `PWD`, `OLDPWD` |
| `PathCache` (extends `Directories`) | `get_cmd_realpath`, `hash`, `psh_search_path` |
| `Aliases` | `alias`, `unalias`, `expand_alias` |
| `Session` (extends `Aliases`, `Cd`, `PathCache`) | lines of simple commands: expanded, then run |
| `MCSession` | a small tree, lines and inherited variables |
| `Session_proofs` | theorems about Session |
| `Scopes` | abstract specification: variables in nested scopes |
| `Variables` | `src/variable.c`; implements `Scopes` (`IsScoped`) |
| `MCVariables` | the symmetry of names, values and cells |
| `Variables_proofs` | theorems about Variables, with the refinement of `Scopes` |

### PshRun and the code

`pc` says where the shell is: `prompt` is the read loop of `main`, `top` the
head of the `while` loop of `psh_backend_do_run`, `fork` the call of
`execute_single_cmd`, `close` what follows it up to the `switch`, `wait` the
`waitpid`, `exited` after `exit_psh`. `line` is the list of `_psh_command`, `i`
the position of `cmd`. `last_pipe_fd`, `pipe_fd`, `pid` are the locals (reset
when the function returns), `ques` the variable `?`, `jobs` the process numbers of
`state->jobs`. `fds[x]` is the descriptor table of a process; `pstate`, `call`,
`todo`, `wstat` describe the children: not existing, forked and not yet set
up, running, or dead and not waited for; what they were called with; how
much they still write; the status waitpid would give. `buf` counts the items in
each pipe.

Each action is one run of the code between two points where another process
can make a difference: `MakePipe`/`PipeFails`, `Fork`/`ForkFails`, `CloseEnds`
(both closes, the copy into `last_pipe_fd`, the `switch`), `Wait`. A builtin runs
in the shell (`RunBuiltin`, `RunExit`) with the `goto cont` that skips the
closes. A child first sets up (`ChildSetup`: the two moves, the two closes, the
redirection, in that order) and then behaves as its program: `seq` writes, `cat`
copies, `echo` is a builtin that writes, `cd` a builtin that may fail, `nosuch`
an unknown command, `exit` runs `exit_psh` on the child's copy of the job list.
The set-up of a child is one action: it touches only the child's own table, and
the only thing others see of it is which ends it still holds.

The set-up of SIGINT, history, wording and option parsing are left out. The
statements of `-c` behave as a line followed by the end of input.

### Redirect and the code

`fds` is the table of the process that redirects, `before` that of the shell
when the command began, `list` its `rlist` and `k` the position in it, `backup`
the backup list. One action is one turn of the loop of `set_up_redirection`: `ToFile`
stands for the five cases that open a file, `ToFd` and `CloseFd` for the others,
`OpenFails` and `BackupFails` for the early returns; a failing `dup2` is part of
`ToFile` and `ToFd`, because it depends on what is open. Then the command runs
(`SetUp`) and a child ends, `exec` returns or replaces the shell, or
`RestoreFds` goes through the list. Between these steps nobody else touches the
table, so PshRun uses the result only: a redirection of a child and a failing
one (`Redirected`, `BuiltinRedirFails`).

The backup list is an array of uninitialised pointers that `BACKUP_FD` writes
through. This is undefined; `Crash` is one outcome, and the others assume the memory
written to is nothing else's.

The lists are what `struct _psh_redirect` may hold by `command.h`. The present
parser makes far fewer: one redirection, with an empty right-hand side, of
descriptor 0 when no number is written. With it every `open()` fails. What PshRun and
`redirect` show is what run.c does with redirections that have their right-hand
side; `redirect_parsed` takes one that the parser makes today.

### HashTable and the code

An item is a cell of the heap with key, value and next; a bucket has the
count, head and tail of `struct _psh_hash`'s array. The loops of the code are
bounded by the count, not by a null pointer, and `Walk` gives the pointers they
take. A step that follows or writes through a pointer to no live cell sets
`ub` and ends the behaviour. `res` records the last call and its result, in both
modules, so that the refinement compares each call with the same call of the map. `Append1` is `add__psh_hash_item`; `Realloc`
settles the items of one list after the other in an empty array, a fold over the
lists of folds over their items, which it has walked first (settling an item of
a list writes only to one that is settled already, so the code, which walks on the
way, sees the same pointers); `Unlinked` is the three branches of `psh_hash_rm`. The hash function is a constant (any function), the value's
ownership (`if_free`) is not modelled yet.

### Filpinfo, Prompts, Frontend and the code

`p` is the record of the locals of `filpinfo()`, with the names of the code
shortened (`pos` is `cnt_buffer`, `element` and `chars` the `cnt_argument_*`,
`old` is `cnt_old_parameter`), the buffer and the list of commands; `x` is that
of `ps_expander`. A character stands for its class. Each action is one case of
the `switch` with the `++` of the loop behind it (`Becomes`, `Goes`), so that
every position the code computes is a position of the model. `ignIFS` is
`Skipped`, `write_current` is `Written`; `goto done` and an error return set
`end`. What the code does outside its memory (a position past the NUL, an
element that was not allocated, a null pointer) also sets `end`, to
`astray`: the program may then do anything, and `Crash` stands for that.
`argv` has room for `MaxArgs` pointers, which are 0 until something is written
there, so the pointer behind the last element is a null pointer exactly where
there is room for one. A known user or nobody may be named behind a `~`
(`Users`, `Username`); any home directory is the one character `home`.

`Frontend` is the `while` loop of `main()` around both. `read_cmdline` is
`EndOfInput`, `EmptyLine` and `ReadLine` (the history library between reading
and returning is left out). A session fixes PS1, the directory and the line that is
typed, over and over, and gives what was meant by them where that is known.
`psh_backend_do_run` is `running`: PshRun has what happens there. Of it
`Runnable` has what it asks of the parser's list: each command needs a name,
which `find_builtin` compares with those of the builtins, and a null pointer
behind its arguments, which `get_argc` and `execv` look for. If all have both,
the prompt returns (`CommandsRun`); `RunExits` is a line with `exit` or `exec`
in it; a line like `; b` or one with as many words as argv has room for goes to
`Crash`. Redirections
are parsed as the code does it (`Greater`); their right-hand side is never stored.

`Meanings` is no model of code. It says what a shell user means by a line and by PS1: two readings
(`Read`, `Show`) that take one character after the other, know nothing of what follows, and have no
elements that are taken back, no position that is moved about and no pieces that point into a text. `Readable` is
the domain in which psh agrees with the first; it is the list of the parser's flaws, turned
round. One of them is that a command has fewer words than argv has room for
(`Fits`), so that a null pointer stands behind them. The second needs no domain. What an escape such as `\w` puts into the prompt is given to
it (`Escapes`): the directory as `workdir_expander` shortens it, checked on its own by `Cwds` of MCFrontend.

### Session and the code

A line is a sequence of words and blanks. `Type` reads one, `Expand` is one turn
of the loop of `expand_alias`, `HandOver` the parser, and a `Run...` action the
whole builtin or, for other commands, the lookup of the file a child executes.
`Strings` is the set of all words and components there are. A path is absolute
or not, with a sequence of components; an argument that `PathOf` does not list is
a name in the current directory. `canonicalize_path`
is what it does to the components. `cwd` is the directory of the process, which
chdir() finds through links, while `pwd` and `oldpwd` are the values of the
variables. Builtins return a status; `SegFault` stands for a null pointer that
is followed: the container of OLDPWD in `cd`, or, where the environment gives no
PATH (`hasPath`), the path that `get_cmd_realpath` and `hash` search. `chdir` is
another name of `cd`; the builtins that change nothing here (`Idle`) are not
looked for in PATH. `outdated` is a history variable: the code has nothing like it.

The arguments of `cd` are options or one path, and `hash` has all its options;
what they print is not modelled, except for the directory that `pwd` prints.

### Variables and the code

`contexts` is the array of frames, each a map from names to containers or
`None`; `memory` holds the payloads that are allocated, so that freeing twice,
leaking and using what was freed show. `environ` is what setenv() made of it.
`psh_vf_set` is one action with its four callees; the caller's allocation of the
payload is part of it, before the old one is freed. The attributes that the code
tells apart are integer or not, code or not, exported or not, unset or not, and
`NO_UPDATE`. Functions are the same code on a second table; arrays and
references are attributes nothing in `src/` sets. (An exported indexed array
would reach setenv(): 0xc0a, with which `put_to_environ` means to leave arrays
out, lacks their bit.)

`res` records the last call, with the `is_local` and the exporting it was given, and
what it returned, here and in `Scopes`. `IsScoped` therefore says of every call on its
own that it is done in the right frame: a `psh_vf_set` that takes everything for local, or
nothing, is no step of `Scopes`. `Get` reads the payload through the container,
so a lookup in either module returns a value and not a frame.

`CarefulSpec` restricts the calls to those for which the code keeps its
promise; the comment on `CarefulSet` lists what is left out, and what fails there
is below.

## Runs

| Run | Question | Instance |
|---|---|---|
| `run_sound` | is everything right when no call fails and every pipe has a forked command on both sides? | 5 processes, 3 pipes, 6 descriptors, pipes of 1 item, writers of 2 items; lines with 4 stages, AND and OR lists, background, `exit` in a child |
| `run_failing` | what survives failing `fork`, `pipe`, `open`, no free process, no free descriptor, and leaked read ends? | 2 processes, 2 pipes, 6 descriptors, 1 item |
| `run_leak` | does the shell hold no pipe at the prompt, as the comment says? No | a pipeline ending in `cd` |
| `run_and_list` | does the second command of an AND list run only on success? No | `cd && seq` |
| `run_echo` | is everything printed by a forked builtin written? No | stdout not line buffered |
| `redirect` | does everyone get the redirections asked for, and the shell its descriptors back? | 6 descriptors, 2 files, every list of up to three redirections of different standard descriptors that closes only last |
| `redirect_parsed` | does the shell keep its descriptors whatever fails? No | `cmd >&2` as the parser stores it |
| `hash_map` | is the table a map, through collisions, edits, removal, growth and reuse of freed cells? | 3 keys that collide, 2 values, 3 cells, initial length 1 |
| `hash_tail` | is `tail` the last item, as the header says? No | the same |
| `frontend` | are lines read and prompts shown as what they mean, and does every loop end, on any line? | about 8000 sessions: prompts of up to three escapes, lines of up to three words or commands, and every string of up to 4 characters over several alphabets; one continuation line, an argv of 4 pointers, two users |
| `session` | do `PWD` and the directory agree, is a cached command where a search finds it, do aliases expand rightly and to an end? | `/`, `/d`, `/d/e` and a link to it; one command in three directories of PATH; two aliases; four inherited environments; 35 lines in any order |
| `variables` | are variables scoped, payloads owned once, and exported ones inherited? | 2 names, 2 values, 3 frames, 2 cells for payloads |

Bounds and why they are enough:

* `Pids`, `Pipes`: a child gets the least number not in use and a pipe the least
  object not in use. Numbers are only compared, so this loses nothing but names,
  and it makes reuse happen as soon as it can. In `run_sound`, `ReadLine` waits
  until the free numbers and the unused pipes suffice for the line (`Room`), so
  that `fork` and `pipe` never fail there; with `"limits"` among the failures it
  does not wait. Jobs are never waited for, in the code or the model: each keeps its
  number, so a run of the shell comes to its end with its numbers.
* `MaxFd = 5`: three descriptors beside 0, 1, 2: a middle stage needs the read
  end of the previous pipe and both ends of the next, so that the third stage's
  `pipe_close2` (closed long before) has been given to another pipe. A leak of
  two read ends leaves no room for the next pipe.
* `PipeCap = 1`, `Writes = 2`: a writer can block on a full pipe, a reader on an
  empty one, and a writer outlive its reader.
* `redirect`: `MaxFd = 5` leaves three descriptors free, of which two redirections
  need three; copies leaked by `exec` and by failures use them up, so that
  backups fail too. `MaxLeft` only avoids beginning with none free. Two
  restrictions are the domain in which the properties hold. The lists redirect a
  descriptor once and close only last: `restore_fds` restores in order of
  saving, and an `open()` or `dup()` that gets the number of a closed standard descriptor
  puts a file or copy where the next redirection goes. And a command begins with 0, 1 and 2 open,
  for the same reason.
* `InitLen = 1`: the first two growths (1 to 2, 2 to 4) and all keys in one
  bucket; three cells, so every insertion after a removal reuses memory.
* Command lines are four and four (MCPshRun), chosen to reach every action; lines
  follow each other in any order, with the jobs of the earlier ones still alive.
* Deadlock is not checked for PshRun and Frontend (the shell exits or crashes),
  Session (it crashes) and Variables (`psh_vfa_free`, and the careful domain).
* `frontend`: the meaning of a line is put together with the line, from words
  (quoted, escaped, empty, with operators or `#` in them), operators and
  optional blanks, so it does not come from the model of the parser. Three words
  or three commands are the least in which one has something on both sides. Two
  restrictions are the domain in which the code reads lines rightly: a command directly
  behind `|` has at least two characters (`Seen`), and so has what is directly
  behind `;` (`Sequence`). The strings nobody put together (`Raw`, `RawPrompts`)
  mean what `Meanings` reads in them, where that is something psh is to read; up to
  four characters reach every two characters the code looks ahead and one it looks
  back. `MeantAssumption` and `ShownAssumption` compare `Meanings` with the meanings
  that were put together by hand, so that neither is taken on trust. `MaxArgs = 4`, where
  the code has 8: `new_command` allocates `MAXARG * P_CS` bytes, and 64 bytes hold 8
  pointers of 8 bytes. Three words fit with their null pointer, four leave no
  room for it and five run over the end of argv; all three are in `Raw`. `MCUsers`
  has two users of whose names one begins the other.
* `session`: `/l` leads to `/d/e`, so that `..` from it differs by name and by
  directory. PATH has an entry that is relative and one through the link.
  `hash`, `alias` and `cd` have each option that changes what they do. An alias
  of the other and back is a circle; an empty value and one of two words are
  there. Two of the inherited environments have a right PWD, one with a dot and one through
  the link, the third has none, nor an OLDPWD, and the fourth has no PATH.
* `variables`: calls are recorded in `res`, which is left out of the `VIEW`: no
  action and no property reads what was recorded before a step, and TLC checks `IsScoped` of every
  step it computes. A name is found in the inner frame, in the outer, in both or in
  neither, with a frame between them; with two names a payload may be taken for
  another's. The allocator may give any free cell; a set waits for one (the bound
  `Cells`). Names, values and cells are symmetric. More than `FirstSlots` frames are outside of the careful domain.
* Standard input other than a pipe is taken to be at its end.

Fairness (`FairSpec`): weak fairness of the shell's steps inside a command line
and of each child's steps. The operating system goes on scheduling every
process that can run. Nothing is assumed of the user: reading another line and
the end of input have no fairness. A failing call is an alternative of the same
fair step, so a failure is never forced and never excluded. The liveness
properties say that the prompt returns after every line, and that every child
ends, which fails as soon as one process keeps an end of a pipe it should not.

In Frontend the main loop is weakly fair: the process is scheduled, and
nothing in it waits but for the user. The user may end the input instead of
typing a line, which is not assumed to happen; that a continuation line may be
the end of input is an alternative of the fair step. In Session only the
expansion and what follows it are fair, as that is all `ExpansionEnds` needs.
Variables, Redirect and HashTable are called and return; no liveness is stated.

## What the runs found

* A pipeline whose last command is a builtin leaks the read end of its pipe in
  the shell (`run_leak`), and the writer never gets its SIGPIPE. `run_failing`
  shows that this exhausts descriptors, and that the prompt still returns.
* A builtin whose redirection fails leaves the shell with the descriptor closed
  (`redirect_parsed`).
* `should_be_run` is never read: AND and OR lists do not look at the status
  (`run_and_list`).
* `_Exit` in a forked builtin loses buffered output (`run_echo`).
* Parser, seen while modelling; each of these is in `Filpinfo`: the test after `|`
  (`filpinfo.c:330`) looks one character too far and asks for another line
  after `a|b`; after `;` two characters are stepped over, so that a command of one
  character or one behind two blanks is misread (`:658`); a quoted `;` writes through a
  null pointer (`:660`); so does a blank before the last `;` of a line; a
  backslash at the end of the line runs past its NUL (`:416`), and the continuation
  meant for it (`:437`) is reached only by open quotes; a line that ends in an open
  quote and is continued by an empty one runs past the NUL; the end of input at `> ` is
  a null pointer to strlen() (`:258`); a second `>` aborts the shell (`:459`);
  `; b` and `| b` have a command with a null name (`:637`, `:287`), which `find_builtin` follows
  (`run.c:390`); eight words leave no null pointer in argv (`command.c:51`), more are written behind it; `#` behind a blank
  cuts a quoted argument (`:616`).
* Prompts: an empty PS1 is read past its NUL (`prompts.c:533`), one that adds nothing
  makes `psh_stringbuilder_free` follow a null pointer (`stringbuilder.c:133`),
  an empty time never ends (`prompts.c:126`).
* `cd` without an inherited OLDPWD has changed the directory and then follows
  a null pointer (`cd.c:288`); `cd -` does so before (`:272`). Without PATH a command
  that is not cached does so too (`path_searcher.c:40`).
* A circle of aliases is expanded for ever (`alias.c:105`).
* Variables outside the careful domain: the frame behind the first four is
  written past the array (`variable.c:143`); a local variable that is unset
  loses its payload but is still found (`:266`), so that lookup, set and the end of
  the frame use it after it was freed; a set without EXPORT leaves the old value
  in `environ` (`:172`).
* `psh_hash_rm` leaves `tail` at a freed item (`hash_tail`). `hash_map` therefore
  uses `CarefulSpec`, which never removes the last item of a list that has
  others; in it, everything holds.

## Proofs

Every action property and every invariant of the passing runs is a theorem, for all
values of the constants, and so are both refinements.

`PshRun_proofs` proves, for every set of lines, processes, pipes, failures and
bounds that meets `KernelAssumption` and `RunAssumption`:

* `TypeCorrect`: `Spec => []TypeOK`. Inductive as it stands, because it says that
  `i` is a position of `line` while a line runs, and that the shell waits only
  for a process it has. One lemma for the shell's steps, one for the
  children's; the effect of `Advance`, `Die` and the descriptor operators are
  lemmas of their own.
* `JobPidsStayTaken`: `Spec => []JobPidsUnreaped`. The invariant is inductive
  relative to `TypeOK`: `fork` hands out free numbers, `waitpid` frees only
  `pid`, and the third conjunct keeps `pid` out of every copy of the list.
* `SighupOnlyJobs`: `Spec => HupOnlyJobs`. An action property: its steps need
  that a child's copy of the list names no live process which is not in the
  shell's list (`CopiesAreJobs`). This is inductive relative to the two
  theorems above: the shell's list only grows until it exits and then all in
  it are dead, and a number in a copy cannot have been recycled.
* `PipesHaveOneWriter` and `ChildrenGetRightEnds`: `Spec => []OneWriter` and
  `Spec => []RightEnds`. Neither is inductive alone. `EndsInv` adds what the
  `int[2]`s of run.c hold (`ShellEnds`: 0 or an open end of the right kind, never a
  standard descriptor, two different read ends while a stage of a pipeline is
  being forked) and what a child has inherited before it is set up
  (`ForkedEnds`). Nothing is needed about `last_pipe_fd[1]`, which is stale, except that
  it is not 1 or 2: `PipedAt` shows that closing it after the moves is harmless.
  `ChildSheds` says that no child ever gains an end, so only `fork` and `pipe`
  spread them.

It also says what is left over of the pipes. `StdinIsPredecessors`
holds whatever fails, for lines that meet `ReadersFork(Lines)`: no pipe leads into a
builtin of the shell. `ShellKeepsNoPipe` and `ChildrenHoldNoPipe` are also about
behaviours that meet `PipedForkWorks`: no fork of a command before a `|` fails.
Without the first hypothesis `run_leak` is a counterexample, without the second
the `return` of `execute_single_cmd` with the new pipe open (`run.c:447`) is one.
`MCPshRun` assumes the first of the lines of `run_sound`, where TLC evaluates it. `PipeOfPredecessor`
says where `last_pipe_fd` and `pipe_fd` come from between the two ends of a pipeline, `LeftOver` which
descriptors of the shell and of its children are ends of pipes at each `pc`.

`Variables_proofs`, for every set of names, values and cells and every number of
slots, under `CarefulSpec`:

* `TypeCorrect`, `PayloadsCorrect`, `EnvironCorrect` (`TypeOK`, `PayloadsOwnedOnce`, `EnvironIsExported`)
  from one invariant, `IInv`. It adds that the frames fit the slots there are at
  first (`FitSlots`) and that no container is marked as unset (`NothingMarked`): this
  is what keeping to the careful domain means for the state, and without either the
  step fails. `PayloadsOwnedOnce` is proved as three parts, one pointwise fact
  each: `Alive`, `NoLeak`, `Once`.
* `ScopesCorrect`: `CarefulSpec => IsScoped`. Each action is a step of `Scopes`, or
  a stutter where only attributes change; the frame that `psh_vf_set` picks by looking
  for a container is the one `Scopes` picks by looking for a value.

`Redirect_proofs`, for every set of files and number of descriptors:

* `TypeCorrect`, and `ChildCorrect` and `BuiltinCorrect` for any lists at all. The
  invariant `Tracks` compares the table with what the first `k - 1` redirections mean:
  equal in a child; equal where that is open in the shell, which has copies beside it.
* `RestoreCorrect` and `ExecCorrect` for lists that meet `Orderly(Lists)`, of any length. `Saved` says
  which copy each entry of the backup list has, that the copies are different
  and beyond 2, and that 0, 1 and 2 stay open as long as there are redirections to
  come; `Standards` follows: no copy hides what was asked for. Disorderly lists break both, as described under the bounds.

`Session_proofs`, for every tree of directories with links, PATH, set of lines and of aliases:

* `TypeCorrect`: `Spec => []TypeOK`, from one lemma for each fold over arguments.
* `PwdCorrect` and `WayBackCorrect` (`PwdNamesCwd`, `CdLeavesWayBack`), if `RightPwd(Inherited)`:
  `load_shell_vars` believes the PWD it inherits, so a wrong one stays wrong. The
  invariant is that PWD leads to the directory and has no `..` (`NamesCwd`). The
  lemma under it says that `canonicalize_path` leaves neither dots nor slashes,
  and that what is left leads to where the last step of the code, `chdir`, has gone.
* `CacheCorrect` (`RunsWhatSearchFinds`) from `CacheFresh`: every cached command that is
  not outdated is what a search finds. The step of `cd` is the hard one: the search depends on
  the directory unless it ends before the first relative entry.
* `ArgumentsCorrect` (`ExpansionKeepsArguments`). It needs `Untouched`: as long as the first
  word is a blank or an operator, nothing has been replaced.

`HashTable_proofs`, for every set of keys, values and cells, every hash function and the
lengths the assumption lists, under `CarefulSpec`:

* The invariant is `Good(h)`: the table has its types (`Typed`), live items have
  keys, no two the same (`Keyed`), and there is a `W` that gives each bucket its list of items (`Lists`):
  `Chained` (head, every next but the last, tail and count agree with it), `Homed`
  (each item is in the bucket of its key, once) and `Complete` (every live item is in a list, and the table counts them).
  Nothing is said of the `next` of a last item, which is stale after a resize or a removal.
* `TypeCorrect`, `PointersCorrect`, `TailCorrect` and `ListsCorrect` follow from it; the count of the
  items, by a bijection to the positions in the lists.
* `MapCorrect`: `CarefulSpec => IsMap`, the refinement of `KVMap`, call by call; a resize
  in the middle of an insertion changes no lookup.

`Frontend_proofs`, for every set of sessions and continuation lines over the character
classes and every `MAXARG`:

* `TypeCorrect` and `NoGapsCorrect` (`TypeOK`, `NoGaps`), from an invariant for each of the two loops. That of the expander,
  `Within`, is the part of `TypeOK` about it with the types of the text. That of the parser,
  `ParserInv`, has two parts that hold until the parse ends. `Placed`: the position never goes back before the
  first character that is no blank, although blanks and `;` step back. `Arranged`: the
  element written to is the last of `argv`, or the last but the null pointer an operator
  left when it took an element back. An element without characters is the
  last one; therefore taking it back leaves no gap, and it is not taken
  back twice, as `chars` becomes what `old` was, which is no 0 behind another element. One lemma per character.
* What these do not say: that the parser never strays. It does (see `hazards` in PROJECT.json), and the model ends there as `astray`.
* `ExpanderShowsItsMeaning`: whenever the expander is done, `out` is `Shown(PS1)`, for prompts of
  any length and any directory; and it leaves its memory exactly on the prompts that
  show nothing. `PromptShownCorrect` (`PromptShown`) follows, if what the sessions say is
  shown is that (`PromptMeant`, which TLC evaluates in the run).
  The invariant is `KeepsUp`, for the `i` characters before the position. `Laid`: the text is still
  PS1 from the part on that is being read, and every piece lies before it. That is what makes writing
  into the text safe: the pieces are only read at the end. `Where`: part, count and the backslash or
  digits taken add up to `i`. `Says`: pieces and counted characters are what the reading is sure of, and
  an open escape of one is an open escape of the other. One lemma per action (`KeepOneShows` to
  `DateShows`), over `PartShows`: a new piece keeps all of this if
  the characters written over are not in an older one.
* `TurnsAdvance`: a turn of either loop ends it or leaves the position behind the character it read, although
  `;`, blanks and runs of backslashes step back; the prompt keeps its length, and the line is longer only after
  an answer. This is the rank that `LoopGoesOn` descends by, one lemma per character and per action; that a turn
  is taken at all is the fairness of the run.

`FrontendReads_proofs`, for the same constants:

* `ReadsWhatWasWrittenCorrect` (`ReadsWhatWasWritten`), for lines of any length that meet `Readable`, where
  sessions say what is meant (`Meant`, evaluated by TLC as `MeantAssumption`). The invariant `Reads`
  says of the parser between two characters that it `Agrees` with the reading of the
  characters before its position (commands ended, words of the present one, quote, whether the last word is open) and where
  it `Stands`: what has been taken back, whether a blank or an operator is behind it. The hard steps are those
  that read several characters at once (`&&`, `||`, blanks, `;`, an escape): the reading takes
  the same characters singly, and `Settled` joins them. One lemma per case of the `switch`.
  That there is a null pointer is `WordsFit`: a readable line has fewer words in a command than argv has
  room for, at any point of the line, so what `get_argc` counts is what was read (`UpToNullIs`).
* `LinesGoThrough`: on such a line nothing strays, nothing is a syntax error and no continuation is
  asked for; the safety half of `WrittenLinesRun`.

A fold of the community modules is a recursive function underneath, and what
it computes can be proved: `LeftFolds` does, by induction on the number of
elements, for an operator that is a constant (`FoldPrefixes`: the values on the way;
`FoldStaysIn`: a set that is not left; `FoldExtends`: one element more). A module takes an
instance of it with its operator for `Op`, as in
`Appending == INSTANCE LeftFolds WITH Op <- Append1`.

The proofs use the assumptions on the constants that the modules declare, and these are
about shapes: sets do not overlap with the values that stand for nothing, paths are
sequences of strings, hash values are numbers. TLC evaluates each of them in the runs.

What only TLC checks: liveness (`PromptReturns`, `EveryStageEnds`, `LoopGoesOn`, `WrittenLinesRun`,
`ExpansionEnds`), which fairness and ENABLED put out of reach of the prover; and that the meanings put
together by hand in MCFrontend are those of `Meanings`.

## Not modelled

* Option parsing (`args.c`), the history library (`input.c`, `builtins/history.c`), help texts
  and the printing of builtins: data, wording and calls of a library.
* The size of an argument (`MAXEACHARG`), the growth of the buffers of `psh_getstring`
  and `psh_fgets`, and failing malloc() (`xmalloc` ends the program).
* `psh_backend_get_all_env`: names and values are model values (`misc_impl.c:120`).
* The status `exit` passes on after a command (`run.c:464`).

## Plan

1. `Session` with the environment: an exported PWD (`cd.c:290`).
2. The status of `exit` after a command (`run.c:464`).
