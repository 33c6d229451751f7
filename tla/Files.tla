-------------------------------- MODULE Files --------------------------------
(***************************************************************************)
(* What the commands do with the file system below config->root: resolving *)
(* the path a client gives, numbering the entries of a directory, changing *)
(* and listing directories, and completing a path on TAB.  All of it is    *)
(* functions of the session's directory, cwd, and of the text typed.       *)
(*                                                                         *)
(* Text is a sequence of characters; a path is the sequence of the names   *)
(* below "/", and a name a text without "/".  There are no symbolic links, *)
(* readdir() gives "." and ".." first, and files do not change.            *)
(***************************************************************************)
EXTENDS Integers, Sequences, SequencesExt, Completion

CONSTANTS
  Root,       \* config->root
  Here,       \* the directory the daemon runs in, as a path
  Listing,    \* the entries of every directory, in readdir()'s order
  Regular,    \* the paths of the regular files
  MaxListed   \* the limit given to load_dir

Dirs   == DOMAIN Listing
NoPath == << <<>> >>
Slash  == <<"/">>

Space       == " "
DoubleQuote == "\""

Paths     == Dirs \cup Regular
NameChars == UNION {UNION {Range(name) : name \in Range(path)} : path \in Paths}

ASSUME FilesAssumption ==
  /\ Root \in Seq(Range(Root)) /\ Root # <<>> /\ Head(Root) = "/"
  /\ <<>> \in Dirs /\ Here \in Dirs
  /\ Dirs \cap Regular = {}
  /\ \A path \in Paths :
       /\ path \in Seq(Seq(NameChars))
       /\ path # <<>> => Front(path) \in Dirs
       /\ Range(path) \cap {<<>>, <<".">>, <<".", ".">>} = {}
  /\ "/" \notin NameChars
  /\ \A path \in Dirs :
       /\ Listing[path] \in Seq(Seq(NameChars))
       /\ Range(Listing[path]) = {Last(p) : p \in {q \in Paths : q # <<>> /\ Front(q) = path}}
  /\ MaxListed \in Nat

-----------------------------------------------------------------------------
(* The C library.                                                          *)

Walk(path, name) ==
  CASE path \in Dirs /\ name \in {<<>>, <<".">>}        -> path
    [] path \in Dirs /\ name = <<".", ".">>             -> IF path = <<>> THEN <<>> ELSE Front(path)
    [] path \in Dirs /\ Append(path, name) \in Paths    -> Append(path, name)
    [] OTHER                                            -> NoPath

\* realpath(); its argument may be relative to the daemon's own directory.  The
\* name that is being read is looked up at the next "/", or at the end.
Realpath(text) ==
  LET at[n \in 0..Len(text)] ==
        IF n = 0 THEN [dir |-> IF Head(text) = "/" THEN <<>> ELSE Here, name |-> <<>>]
        ELSE IF text[n] = "/" THEN [dir |-> Walk(at[n - 1].dir, at[n - 1].name), name |-> <<>>]
        ELSE [at[n - 1] EXCEPT !.name = Append(@, text[n])]
  IN  IF text = <<>> THEN NoPath ELSE Walk(at[Len(text)].dir, at[Len(text)].name)

Text(path) ==
  LET text[n \in 0..Len(path)] == IF n = 0 THEN <<>> ELSE text[n - 1] \o Slash \o path[n]
  IN  IF path = <<>> THEN Slash ELSE text[Len(path)]

-----------------------------------------------------------------------------
(* fileops.c.                                                              *)

\* x++ > max: max + 2 entries are listed before the limit stops it.
LoadDir(path, max) ==
  SubSeq(Listing[path], 1, IF Len(Listing[path]) < max + 2 THEN Len(Listing[path]) ELSE max + 2)

NoEntry == <<>>

\* Mutant of LoadDirEntry: the first entry is number 0.
LoadDirEntryFromZero(path, entry) ==
  IF path \in Dirs /\ entry + 1 \in DOMAIN Listing[path] THEN Listing[path][entry + 1] ELSE NoEntry

LoadDirEntry(path, entry) ==
  IF path \in Dirs /\ entry \in DOMAIN Listing[path] THEN Listing[path][entry] ELSE NoEntry

-----------------------------------------------------------------------------
(* Paths that clients give.                                                *)

\* strncmp(config->root, new_path, strlen(config->root)) == 0
InRoot(path) == IsPrefix(Root, Text(path))

Absolute(file) == file # <<>> /\ Head(file) = "/"
InCwd(cwd, file) == Root \o Slash \o cwd \o Slash \o file
Below(cwd, file) == IF Absolute(file) THEN Root \o Slash \o file ELSE InCwd(cwd, file)

CheckPath(cwd, file) ==
  LET path == Realpath(Below(cwd, file))
  IN  IF path # NoPath /\ InRoot(path) THEN path ELSE NoPath

\* Mutant of Cd: the path is kept as it was given, and not as it was resolved.
CdUnresolved(cwd, dir) ==
  LET path == Realpath(Below(cwd, dir))
  IN  IF path \in Dirs /\ InRoot(path)
      THEN SubSeq(Below(cwd, dir), Len(Root) + 1, Len(Below(cwd, dir))) ELSE cwd

\* CMD_CD: the new directory of the session; cwd itself stands for an error.
Cd(cwd, dir) ==
  LET path == Realpath(Below(cwd, dir))
  IN  IF path \in Dirs /\ InRoot(path)
      THEN IF Len(Text(path)) = Len(Root) THEN Slash
           ELSE SubSeq(Text(path), Len(Root) + 1, Len(Text(path)))
      ELSE cwd

\* CMD_LS with an argument: a relative one is not looked for below the root.
LsPath(cwd, dir) ==
  LET path == Realpath(IF Absolute(dir) THEN Root \o Slash \o dir ELSE cwd \o Slash \o dir)
  IN  IF path # NoPath /\ InRoot(path) THEN path ELSE NoPath

CwdPath(cwd) == Realpath(Root \o Slash \o cwd)

Listed(path) == IF path \in Dirs THEN LoadDir(path, MaxListed) ELSE <<>>

\* cmd_do_dirdump, cmd_do_filedump: the paths that are sent, in no order.
DirDump(path)  == {d \in Dirs : IsStrictPrefix(path, d)}
FileDump(path) == {f \in Regular : f # <<>> /\ Front(f) = path}

-----------------------------------------------------------------------------
(* tab_complete_dirs, for a line that has a space.                         *)

Quotes == {DoubleQuote, "'"}

\* From the last space on.
LastWord(line) == SubSeq(line, SelectLastInSeq(line, LAMBDA c : c = Space), Len(line))

\* What was typed of the path, and whether a relative one starts with a quote.
Typed(word) ==
  LET skipped == SelectInSeq(word, LAMBDA c : c \notin Quotes \cup {Space})
      text    == IF skipped = 0 THEN <<>> ELSE SubSeq(word, skipped, Len(word))
      quoted  == Len(word) > 1 /\ word[2] \in Quotes
  IN  IF Absolute(text) THEN [text |-> text, quote |-> FALSE]
      ELSE [text |-> SubSeq(word, IF quoted THEN 3 ELSE 2, Len(word)), quote |-> quoted]

CompleteDirs(cwd, line) ==
  LET typed  == Typed(LastWord(line))
      full   == Below(cwd, typed.text)
      cut    == SelectLastInSeq(full, LAMBDA c : c = "/")
      dir    == SubSeq(full, 1, cut - 1)
      part   == SubSeq(full, cut + 1, Len(full))
      path   == Realpath(IF dir = <<>> THEN Slash ELSE dir)
      where  == IF path # NoPath /\ ~InRoot(path) THEN Realpath(Root) ELSE path
      found  == IF where \in Dirs THEN Candidates(part, Listing[where]) ELSE <<>>
      only   == Head(found)
  IN  [matches |-> Len(found),
       append  |-> CASE Len(found) = 0 -> <<>>
                     [] Len(found) = 1 ->
                          SubSeq(only, Len(part) + 1, Len(only))
                          \o (IF Realpath(dir \o Slash \o only) \in Dirs THEN Slash ELSE <<>>)
                          \o (IF typed.quote THEN <<DoubleQuote>> ELSE <<>>)
                     [] OTHER -> GetUnique(found, Len(part))]
=============================================================================
