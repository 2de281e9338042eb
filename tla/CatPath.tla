------------------------------ MODULE CatPath ------------------------------
(***************************************************************************)
(* The paths of catcierge (catcierge_util.c): the relative path from one   *)
(* path to another, and the making of a directory with its parents by      *)
(* several callers at once, which are the instances of the program and the *)
(* signal handlers that interrupt them.                                    *)
(*                                                                         *)
(* Paths are absolute and without ".", ".." and empty names, as realpath   *)
(* returns them; one that ends in a slash is taken for a directory.  Of    *)
(* the root catcierge_get_abs_path makes "//", which is left out of the    *)
(* relative paths.                                                         *)
(***************************************************************************)
EXTENDS Integers, FiniteSets, SequencesExt

CONSTANTS
  Names,     \* the names in a path, as sequences of characters
  MaxDepth,  \* bound: the length of a path in names
  Caller     \* those who make a path

ASSUME PathAssumption ==
  /\ \A name \in Names : name \in Seq(STRING) /\ name # <<>> /\ ~Contains(name, "/")
  /\ MaxDepth \in Nat

VARIABLES
  path,      \* the path each caller works with
  files,     \* the regular files, which nobody makes or removes
  dirs,      \* the directories
  denied,    \* those that cannot be made: no permission, no space
  pc,        \* "stat", "mkdir" or "done"
  level,     \* the name of the path a caller has come to
  ret        \* what catcierge_make_path returned

pathVars == <<path, files, dirs, denied, pc, level, ret>>

NamesUpTo(n) == UNION {[1..k -> Names] : k \in 0..n}

Path == {p \in [names : NamesUpTo(MaxDepth), slash : BOOLEAN] : p.names = <<>> => p.slash}

-----------------------------------------------------------------------------
(***************************************************************************)
(* The relative path.  A text is a sequence of characters.                 *)
(***************************************************************************)
DirText(names) == <<"/">> \o FlattenSeq([i \in DOMAIN names |-> Append(names[i], "/")])

Text(p) == IF p.slash THEN DirText(p.names) ELSE Front(DirText(p.names))

\* catcierge_path_common_prefix.  The end of the first text counts as the end of
\* a name whatever follows in the second.
CommonPrefix_Mutant(t1, t2) ==
  LET Common(n) == /\ SubSeq(t1, 1, n) = SubSeq(t2, 1, n)
                   /\ n = Len(t1) \/ t1[n + 1] = "/"
  IN  Max({0} \cup {n \in 0..Min({Len(t1), Len(t2)}) : Common(n)})

CommonPrefix(t1, t2) ==
  LET Common(n) == /\ SubSeq(t1, 1, n) = SubSeq(t2, 1, n)
                   /\ \/ n = Len(t1)
                      \/ t1[n + 1] = "/" /\ n < Len(t2) /\ t2[n + 1] = "/"
  IN  Max({0} \cup {n \in 0..Min({Len(t1), Len(t2)}) : Common(n)})

SkipSlash(t) == IF t # <<>> /\ Head(t) = "/" THEN Tail(t) ELSE t

\* How often catcierge_path_find_next_component finds one.
Components(t) ==
  Cardinality({i \in DOMAIN t : t[i] = "/"}) + (IF t # <<>> /\ Last(t) # "/" THEN 1 ELSE 0)

\* catcierge_relative_path, as the number of "../" and the text after them.
RelativePath(from, to) ==
  LET prefix == CommonPrefix(from, to)
      left == Components(SkipSlash(SubSeq(from, prefix + 1, Len(from))))
  IN  IF from = <<"/">> /\ to = <<"/">>
      THEN [ups |-> 0, rest |-> <<"/">>]
      ELSE [ups |-> IF Last(from) # "/" /\ left > 0 THEN left - 1 ELSE left,
            rest |-> SkipSlash(SubSeq(to, prefix + 1, Len(to)))]

-----------------------------------------------------------------------------
(***************************************************************************)
(* catcierge_make_path, one system call at a time.                         *)
(***************************************************************************)
Levels(c) == Len(path[c].names) + (IF path[c].slash THEN 1 ELSE 0)

\* The path cut at the level; behind a slash at the end there is no name more.
AtSlash(c) == level[c] > Len(path[c].names)

Cut(c) == IF AtSlash(c) THEN path[c].names ELSE SubSeq(path[c].names, 1, level[c])

\* catcierge_file_mode finds something, of whatever kind.
Found(c) == Cut(c) \in dirs \/ (Cut(c) \in files /\ ~AtSlash(c))

Return(c, r) ==
  /\ pc' = [pc EXCEPT ![c] = "done"]
  /\ ret' = [ret EXCEPT ![c] = r]
  /\ UNCHANGED level

NextLevel(c) ==
  IF level[c] < Levels(c)
  THEN /\ level' = [level EXCEPT ![c] = @ + 1]
       /\ pc' = [pc EXCEPT ![c] = "stat"]
       /\ UNCHANGED ret
  ELSE Return(c, 0)

Stat(c) ==
  /\ pc[c] = "stat"
  /\ IF Found(c) THEN NextLevel(c)
                 ELSE pc' = [pc EXCEPT ![c] = "mkdir"] /\ UNCHANGED <<level, ret>>
  /\ UNCHANGED <<path, files, dirs, denied>>

MayMake(c) ==
  /\ ~AtSlash(c)
  /\ Front(Cut(c)) \in dirs
  /\ Cut(c) \notin dirs \cup files \cup denied

Mkdir(c) ==
  /\ pc[c] = "mkdir"
  /\ MayMake(c)
  /\ dirs' = dirs \cup {Cut(c)}
  /\ NextLevel(c)
  /\ UNCHANGED <<path, files, denied>>

MkdirFails_Mutant(c) ==
  /\ pc[c] = "mkdir"
  /\ ~MayMake(c)
  /\ NextLevel(c)
  /\ UNCHANGED <<path, files, dirs, denied>>

\* Also when somebody else has made the directory since the stat.
MkdirFails(c) ==
  /\ pc[c] = "mkdir"
  /\ ~MayMake(c)
  /\ Return(c, -1)
  /\ UNCHANGED <<path, files, dirs, denied>>

FirstLevel_Mutant == 2

FirstLevel == 1

PathInit ==
  /\ path \in [Caller -> Path]
  /\ dirs \in {{<<>>}} \cup {{<<>>, <<name>>} : name \in Names}
  /\ \E obstacle \in {{}} \cup {{p} : p \in {q \in NamesUpTo(2) : /\ q \notin dirs
                                                             /\ Front(q) \in dirs}} :
       \/ files = obstacle /\ denied = {}
       \/ files = {} /\ denied = obstacle
  /\ pc = [c \in Caller |-> "stat"]
  /\ level = [c \in Caller |-> FirstLevel]
  /\ ret = [c \in Caller |-> 0]

PathNext == \E c \in Caller : Stat(c) \/ Mkdir(c) \/ MkdirFails(c)

PathSpec == PathInit /\ [][PathNext]_pathVars

-----------------------------------------------------------------------------
(***************************************************************************)
(* Properties.                                                             *)
(***************************************************************************)

\* The relative path leads from the directory of the first path to the second
\* path (catcierge_util.c:607).  From a path without a slash at the end it does
\* not when the text of that path also begins the second one: then the last
\* name of the first path is taken for a part of the second.  The root is left out.
RelativePathReaches ==
  \A c, d \in Caller :
    LET from == path[c]
        to == path[d]
        relative == RelativePath(Text(from), Text(to))
        base == IF from.slash THEN from.names ELSE Front(from.names)
    IN  \/ from.names = <<>> \/ to.names = <<>>
        \/ ~from.slash /\ IsPrefix(Text(from), Text(to))
        \/ /\ relative.ups <= Len(base)
           /\ DirText(SubSeq(base, 1, Len(base) - relative.ups)) \o relative.rest = Text(to)

AllDone == \A c \in Caller : pc[c] = "done"

\* A regular file is in the way.
Blocked(c) ==
  \/ \E n \in 1..(Len(path[c].names) - 1) : SubSeq(path[c].names, 1, n) \in files
  \/ path[c].slash /\ path[c].names \in files

\* A directory on the way cannot be made.
Denied(c) == \E n \in 1..Len(path[c].names) : SubSeq(path[c].names, 1, n) \in denied

\* catcierge_make_path fails for a caller who is overtaken between its stat and
\* its mkdir; but never for all of them, whatever the paths have in common, as long
\* as no directory is denied to the one who overtakes.
SomeoneMakesIt ==
  AllDone /\ (\E c \in Caller : ~Blocked(c)) /\ (\A c \in Caller : ~Denied(c))
    => \E c \in Caller : ~Blocked(c) /\ ret[c] = 0

\* Success means that the path is there, for this caller and for those that were
\* overtaken: every name before the last is a directory, and the last is one too
\* or, when no slash follows it, the regular file that had the name before.
MadeIsThere ==
  \A c \in Caller :
    pc[c] = "done" /\ ret[c] = 0 =>
      /\ \A n \in 0..(Len(path[c].names) - 1) : SubSeq(path[c].names, 1, n) \in dirs
      /\ path[c].names \in dirs \/ (~path[c].slash /\ path[c].names \in files)

PathIsMade == SomeoneMakesIt /\ MadeIsThere

\* "Not a directory, abort" (catcierge_util.c:180): a path is made only when it is a
\* directory in the end.
MadeIsADirectory ==
  \A c \in Caller : pc[c] = "done" /\ ret[c] = 0 => path[c].names \in dirs
=============================================================================
