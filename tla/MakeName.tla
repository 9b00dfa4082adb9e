------------------------------ MODULE MakeName ------------------------------
(***************************************************************************)
(* tf_makename() of tf_util.c: a directory and a file name make an         *)
(* absolute path.                                                          *)
(*                                                                         *)
(* A path is the sequence of its slashes and of what is between them: "/", *)
(* ".." or a name, so that ".." is there exactly where the code finds two  *)
(* dots after a slash and before a slash or the end.                       *)
(***************************************************************************)
EXTENDS Integers, Sequences, SequencesExt

NULL == <<"NULL">>

Slash(path) == path # <<>> /\ Head(path) = "/"
Root == <<"/">>

\* Mutant of BackUp: the slash before the directory goes with it.
BackUpTooFar(buf) ==
    LET slashes == {i \in 1..(Len(buf) - 1) : buf[i] = "/"}
    IN  IF slashes = {} THEN Root
        ELSE SubSeq(buf, 1, Max(slashes) - 1)

\* The trailing slash is dropped, and all that follows the slash before it.
BackUp(buf) ==
    LET slashes == {i \in 1..(Len(buf) - 1) : buf[i] = "/"}
    IN  IF slashes = {} THEN Root
        ELSE SubSeq(buf, 1, Max(slashes))

\* One round of either loop.  The slash after ".." is skipped.
Step(s, token) ==
    IF s.skip THEN [s EXCEPT !.skip = FALSE]
    ELSE IF token = ".." /\ Last(s.buf) = "/" THEN [buf |-> BackUp(s.buf), skip |-> TRUE]
    ELSE [s EXCEPT !.buf = Append(@, token)]

Copy(buf, path) == FoldLeft(Step, [buf |-> buf, skip |-> FALSE], path).buf

tf_makename(dir, filename) ==
    LET absolute == filename # NULL /\ Slash(filename)
        first == IF absolute THEN filename ELSE dir
        buf == Copy(Root, IF Slash(first) THEN Tail(first) ELSE first)
        slashed == IF Last(buf) = "/" THEN buf ELSE Append(buf, "/")
        named == IF absolute \/ filename = NULL THEN buf ELSE Copy(slashed, filename)
    IN  IF Len(named) > 1 /\ Last(named) = "/" THEN Front(named) ELSE named

-----------------------------------------------------------------------------
\* Where a path leads: ".." goes up, and stays at the root.
Enter(dirs, token) ==
    IF token = "/" THEN dirs
    ELSE IF token # ".." THEN Append(dirs, token)
    ELSE IF dirs = <<>> THEN dirs ELSE Front(dirs)

Resolve(path) == FoldLeft(Enter, <<>>, path)

Canonical(dirs) ==
    IF dirs = <<>> THEN Root
    ELSE [i \in 1..(2 * Len(dirs)) |-> IF i % 2 = 1 THEN "/" ELSE dirs[i \div 2]]

\* The result is the canonical path of where the directory and then the file
\* name lead, or the file name alone if it is absolute (tf_util.h:38-48), for
\* arguments without empty components, trailing slashes and all.
ChdirIsResolved(dir, filename) ==
    tf_makename(dir, filename) =
        Canonical(Resolve(IF filename = NULL THEN dir
                          ELSE IF Slash(filename) THEN filename ELSE dir \o <<"/">> \o filename))
=============================================================================
