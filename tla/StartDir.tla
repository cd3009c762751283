------------------------------ MODULE StartDir ------------------------------
(***************************************************************************)
(* Where a shell or a command may start (internal/config/paths.go).  A     *)
(* path is what kind of path was written, "empty", "abs", "rel" or "home"  *)
(* (~), and its elements.  The file system is a function from the real     *)
(* absolute paths that exist, sequences of elements, to what is there:     *)
(* "dir", "file" or the path a symbolic link holds.                        *)
(***************************************************************************)
EXTENDS Integers, Sequences, SequencesExt

CONSTANTS
    Tree,       \* the file system
    Home,       \* the user's home directory, a real path
    Cwd,        \* where the agent was started: the real path of that directory
    RawRoots,   \* TERMINAL_ALLOWED_ROOTS, a sequence of paths
    MaxLinks    \* bound: links followed before EvalSymlinks gives up

Path(kind, elems) == [kind |-> kind, elems |-> elems]
Names == STRING
Paths == [kind : {"empty", "abs", "rel", "home"}, elems : Seq(Names)]

NoPath == <<"/">>      \* no element contains a slash

\* A directory that is where it says: none of its elements is a link.
IsRealDir(dir) ==
    \A n \in 1 .. Len(dir) : /\ SubSeq(dir, 1, n) \in DOMAIN Tree
                             /\ Tree[SubSeq(dir, 1, n)].is = "dir"

ASSUME TreeAssumption ==
    /\ NoPath \notin DOMAIN Tree
    /\ \A at \in DOMAIN Tree : /\ \A i \in DOMAIN at : at[i] # ".."
                               /\ Tree[at].is \in {"dir", "file", "link"}
                               /\ Tree[at].is = "link" => Tree[at].to \in Paths
ASSUME HomeAssumption == Home \in Seq(Names)
ASSUME CwdAssumption == Cwd \in Seq(Names) /\ IsRealDir(Cwd)
ASSUME RawRootsAssumption == RawRoots \in Seq(Paths)
ASSUME MaxLinksAssumption == MaxLinks \in Nat

\* The directory above; the root is above itself.
Above(at) == IF at = <<>> THEN at ELSE Front(at)

\* filepath.Clean, from left to right, what is done and what is left: an
\* element and the .. after it cancel out, links or not.
Cleaning == [at : Seq(Names), rest : Seq(Names)]

clean[c \in Cleaning] ==
    IF c.rest = <<>> THEN c.at
    ELSE clean[[at |-> IF Head(c.rest) = ".." THEN Above(c.at)
                       ELSE Append(c.at, Head(c.rest)),
                rest |-> Tail(c.rest)]]

expandHome(p) ==
    IF p.kind = "home"
    THEN Path("abs", clean[[at |-> <<>>, rest |-> Home \o p.elems]])
    ELSE p

\* By their places in the list; an empty one is left out.
roots(raw) ==
    [i \in {j \in DOMAIN raw : raw[j].kind # "empty"} |-> expandHome(raw[i])]

\* The n-th directory above.
Up(at, n) == SubSeq(at, 1, Len(at) - n)

\* A walk of EvalSymlinks: what it has resolved, down from the root or from the
\* n-th directory above the current one; what is left; links allowed.
Walks == [abs : BOOLEAN, ups : Nat, down : Seq(Names), rest : Seq(Names), links : Nat]

\* filepath.Abs of what has been resolved, for a working directory of this name.
Abs(wd, w) == IF w.abs THEN w.down ELSE Up(wd, w.ups) \o w.down

\* Where the system finds what comes next.
Here(w) == Append(Abs(Cwd, w), Head(w.rest))

\* What comes next does not exist, is one link too many or is a file that
\* something is asked of.
Stuck(w) ==
    /\ w.rest # <<>> /\ Head(w.rest) # ".."
    /\ \/ Here(w) \notin DOMAIN Tree
       \/ Tree[Here(w)].is = "link" /\ w.links = 0
       \/ Tree[Here(w)].is = "file" /\ Tail(w.rest) # <<>>

Back(w) ==
    IF w.abs \/ w.down # <<>> THEN [w EXCEPT !.down = Above(w.down), !.rest = Tail(w.rest)]
    ELSE [w EXCEPT !.ups = w.ups + 1, !.rest = Tail(w.rest)]

Follow(w, to) ==
    IF to.kind = "abs"
    THEN [abs |-> TRUE, ups |-> 0, down |-> <<>>,
          rest |-> to.elems \o Tail(w.rest), links |-> w.links - 1]
    ELSE [w EXCEPT !.rest = to.elems \o Tail(w.rest), !.links = w.links - 1]

Onward(w) ==
    IF Head(w.rest) = ".." THEN Back(w)
    ELSE IF Tree[Here(w)].is = "link" THEN Follow(w, Tree[Here(w)].to)
    ELSE [w EXCEPT !.down = Append(w.down, Head(w.rest)), !.rest = Tail(w.rest)]

\* The walk where it ends.
walk[w \in Walks] == IF Stuck(w) \/ w.rest = <<>> THEN w ELSE walk[Onward(w)]

EvalSymlinks(p) ==
    walk[[abs |-> p.kind # "rel", ups |-> 0, down |-> <<>>,
          rest |-> p.elems, links |-> MaxLinks]]

\* EvalSymlinks and Abs.  A relative path is resolved as it is written and put
\* behind the name of the working directory afterwards.
Real(wd, p) == IF Stuck(EvalSymlinks(p)) THEN NoPath ELSE Abs(wd, EvalSymlinks(p))

\* Where an absolute path leads, for os.Stat and for a command that starts there.
Reached(at) == Real(Cwd, Path("abs", at))

\* What os.Getwd may return: $PWD, as a shell keeps it, when that leads to the
\* working directory, by way of links or not.
Pwds == {pwd \in Seq(Names) : (\A i \in DOMAIN pwd : pwd[i] # "..") /\ Reached(pwd) = Cwd}

AllowedRoots == roots(RawRoots)

\* filepath.Rel of two real paths.
Rel(root, target) ==
    LET n == Max({m \in 0 .. Len(root) : IsPrefix(SubSeq(root, 1, m), target)})
    IN  [i \in 1 .. Len(root) - n |-> ".."] \o SubSeq(target, n + 1, Len(target))

\* Variant: only the parent itself is outside.
isNotParent(root, target) == Rel(root, target) # <<"..">>

isInside(root, target) ==
    LET rel == Rel(root, target) IN rel = <<>> \/ rel[1] # ".."

\* The directory to start in, or NoPath for an error.
ResolveDir(pwd, dir) ==
    LET asked == IF dir.kind = "empty" /\ DOMAIN AllowedRoots # {}
                 THEN AllowedRoots[Min(DOMAIN AllowedRoots)] ELSE dir
        real == Real(pwd, expandHome(asked))
        found == real # NoPath /\ Reached(real) \in DOMAIN Tree /\ Tree[Reached(real)].is = "dir"
        allowed == \/ DOMAIN AllowedRoots = {}
                   \/ \E i \in DOMAIN AllowedRoots :
                         /\ Real(pwd, AllowedRoots[i]) # NoPath
                         /\ isInside(Real(pwd, AllowedRoots[i]), real)
    IN  IF asked.kind = "empty" THEN pwd
        ELSE IF found /\ allowed THEN real ELSE NoPath
=============================================================================
