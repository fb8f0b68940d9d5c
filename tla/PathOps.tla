------------------------------- MODULE PathOps -------------------------------
(***************************************************************************)
(* The pure path algorithms of lucida (src/main/cpp/lucida/utils/          *)
(* path_ops.cpp, POSIX build): Basename, Dirname, the `relative` fallback  *)
(* compiled for Boost < 1.60, and the local-path branch of                 *)
(* MakeRelativePathOrUrl.  A string is a sequence of one-character         *)
(* strings; a boost path is the sequence of its elements, the root "/"     *)
(* first.  Each operator is checked against a reference definition over    *)
(* every input up to a bound: the state is the input under test.           *)
(***************************************************************************)
EXTENDS Naturals, Sequences, SequencesExt

CONSTANTS
    Chars,     \* characters of pathnames, "/" among them
    MaxLen,    \* longest pathname given to Basename and Dirname
    Levels,    \* level arguments given to Dirname
    Names,     \* file names (character sequences without "/") in absolute paths
    MaxDepth,  \* most names in a path or working directory
    MaxRel,    \* most elements in a relpath given to MakeAbsolutePathOrUrl
    Schemes,   \* URL schemes, "" for a plain path
    Cwd        \* the names of the current directory, for boost's absolute()

Slash == "/"
DotDot == <<".", ".">>
Pathnames == BoundedSeq(Chars, MaxLen)
AbsPaths == BoundedSeq(Names, MaxDepth)    \* the names after the root
RelPaths == BoundedSeq(Names \cup {DotDot}, MaxRel)

-----------------------------------------------------------------------------
(* Basename and Dirname                                                    *)

\* while (--p >= pbase && *p != '/'): p starts one past the end; the result
\* is p's 1-based index, 0 once p has moved before pbase (a pointer the
\* build computes and compares like any other).
RECURSIVE ScanBack(_, _)
ScanBack(s, i) == IF i = 0 \/ s[i] = Slash THEN i ELSE ScanBack(s, i - 1)

LastSlash(pathname) == ScanBack(pathname, Len(pathname))

\* Mutant: return p instead of p + 1.
BasenameAtSlash(pathname) ==
    SubSeq(pathname, Max({LastSlash(pathname), 1}), Len(pathname))

\* return p + 1: the characters after the last '/'.
Basename(pathname) == SubSeq(pathname, LastSlash(pathname) + 1, Len(pathname))

\* Mutant: substr(0, p - pbase + 1) keeps the '/'.
DirnameWithSlash(pathname, level) ==
    LET k == LastSlash(pathname)
    IN IF k = 0 THEN pathname ELSE SubSeq(pathname, 1, k)

\* pathname.substr(0, p - pbase); with no '/', p - pbase is -1, which as a
\* size_t is npos, and the whole pathname is returned.  level is not used.
Dirname(pathname, level) ==
    LET k == LastSlash(pathname)
    IN IF k = 0 THEN pathname ELSE SubSeq(pathname, 1, k - 1)

-----------------------------------------------------------------------------
(* relative() and MakeRelativePathOrUrl                                    *)

\* The string of an absolute path: "/" then the names joined by "/".
PathString(names) ==
    IF names = <<>> THEN <<Slash>>
    ELSE FlattenSeq([i \in 1..Len(names) |-> <<Slash>> \o names[i]])

\* The elements boost::filesystem::path iterates over.
Elements(names) == <<<<Slash>>>> \o names

\* *itr for an iterator at end() is the empty path.
At(p, i) == IF i <= Len(p) THEN p[i] ELSE <<>>

\* while (*itr_path == *itr_relative_to && itr_path != p.end() &&
\* itr_relative_to != r.end()): both iterators advance together.
RECURSIVE Diverge(_, _, _)
Diverge(p, r, i) ==
    IF At(p, i) = At(r, i) /\ i <= Len(p) /\ i <= Len(r)
    THEN Diverge(p, r, i + 1) ELSE i

\* relative(abspath, relative_to): the roots agree ("/"); then one ".." for
\* each element of relative_to after the first one that differs (the loop
\* increments itr_relative_to once before counting), then the rest of p.
relative(p, r) ==
    LET k == Diverge(p, r, 1)
        ups == IF k <= Len(r) THEN Len(r) - k ELSE 0
    IN [i \in 1..ups |-> DotDot] \o SubSeq(p, k, Len(p))

\* The local-path branch of MakeRelativePathOrUrl (no "://" in workdir):
\* both paths have a root directory; abspath must contain workdir as a
\* substring; the result is relative(pabs, pdir).  normalize() leaves these
\* paths alone: they have no "." or ".." elements and no trailing '/'.
Occurs(s, t) == \E i \in 1..(Len(t) - Len(s) + 1) : SubSeq(t, i, i + Len(s) - 1) = s

\* path::normalize() of Boost < 1.60: ".." removes the element before it
\* unless that is ".." or the root, so "/.." stays as it is.
Normalize(elems) ==
    FoldLeft(LAMBDA acc, e : IF e = DotDot /\ acc # <<>> /\ Last(acc) # DotDot
                             THEN Front(acc) ELSE Append(acc, e),
             <<>>, elems)

\* A pathname or working directory as the code receives it: an optional
\* scheme ("" for none; otherwise the string is scheme "://" path), and a
\* path of names, rooted at "/" or not.
Loc(scheme, rooted, names) == [scheme |-> scheme, rooted |-> rooted, names |-> names]

Fail == [ok |-> FALSE, prefix |-> "", elems |-> <<>>]

\* abspath.find("://") rejects a URL abspath, so the protocol prefix of a
\* URL workdir (line 175) is never found in it: a URL workdir always fails.
MakeRelativePathOrUrl(abspath, workdir) ==
    CASE abspath.scheme # "" \/ workdir.scheme # "" -> Fail
      [] ~abspath.rooted \/ ~workdir.rooted -> Fail
      [] ~Occurs(PathString(workdir.names), PathString(abspath.names)) -> Fail
      [] OTHER -> [ok |-> TRUE, prefix |-> "",
                   elems |-> Normalize(relative(Elements(abspath.names),
                                                Elements(workdir.names)))]

-----------------------------------------------------------------------------
(* MakeAbsolutePathOrUrl                                                   *)

\* Mutant: the file URL is cut after 8 characters (the _MSC_VER offset),
\* which takes the root '/' with it.
AfterSchemeWinOffset(workdir) ==
    IF workdir.scheme = "file" /\ workdir.rooted
    THEN [rooted |-> FALSE, elems |-> workdir.names]
    ELSE [rooted |-> FALSE, elems |-> <<<<":">>>> \o workdir.names]

\* path(workdir.substr(n)): "file:///p" is cut after "file://"
\* (URLFILE_OFFS 7) and keeps its root; any other URL is cut at "://", whose
\* ':' becomes the first element of a relative path ("//" collapses).
AfterScheme(workdir) ==
    IF workdir.scheme = "file" /\ workdir.rooted
    THEN [rooted |-> TRUE, elems |-> workdir.names]
    ELSE [rooted |-> FALSE, elems |-> <<<<":">>>> \o workdir.names]

\* boost::filesystem::absolute(prel, pabs) for a relative prel: pabs / prel,
\* with a relative pabs first made absolute against the current directory.
Absolute(rel, base) ==
    IF base.rooted THEN base.elems \o rel ELSE Cwd \o base.elems \o rel

\* A relpath with "://" or a root fails; a "file:///" workdir keeps
\* "file://" as protocol, another URL its scheme.  absolute() always gives
\* a rooted path on POSIX, so the is_relative() branch is never taken.
MakeAbsolutePathOrUrl(relpath, workdir) ==
    LET protocol == CASE workdir.scheme = "" -> ""
                      [] workdir.scheme = "file" /\ workdir.rooted -> "file://"
                      [] OTHER -> workdir.scheme
        base == IF workdir.scheme = ""
                THEN [rooted |-> workdir.rooted, elems |-> workdir.names]
                ELSE AfterScheme(workdir)
    IN IF relpath.scheme # "" \/ relpath.rooted THEN Fail
       ELSE [ok |-> TRUE, prefix |-> protocol,
             elems |-> Normalize(Absolute(relpath.names, base))]

-----------------------------------------------------------------------------
(* The call under test                                                     *)

Locs(names) == {Loc(sc, rt, n) : sc \in Schemes, rt \in BOOLEAN, n \in names}

Calls ==
    [fn : {"Basename"}, pathname : Pathnames, level : Levels]
    \cup [fn : {"MakeRelative"}, abspath : Locs(AbsPaths), workdir : Locs(AbsPaths)]
    \cup [fn : {"MakeAbsolute"}, relpath : Locs(RelPaths), workdir : Locs(AbsPaths)]

VARIABLES
    call,    \* the call made
    result   \* what it returned, NoResult until it returns

vars == <<call, result>>

NoResult == [ok |-> FALSE, prefix |-> "none", elems |-> <<>>]

Init == call \in Calls /\ result = NoResult

\* The function runs and returns; one call per behaviour, and each call
\* returns, so a behaviour ends there.
Return ==
    /\ result = NoResult
    /\ result' = CASE call.fn = "Basename" ->
                        [base |-> Basename(call.pathname),
                         dir |-> Dirname(call.pathname, call.level)]
                   [] call.fn = "MakeRelative" ->
                        MakeRelativePathOrUrl(call.abspath, call.workdir)
                   [] call.fn = "MakeAbsolute" ->
                        MakeAbsolutePathOrUrl(call.relpath, call.workdir)
    /\ UNCHANGED call

Next == Return

Spec == Init /\ [][Next]_vars

-----
(* Reference definitions and properties                                    *)

IsBasename == call.fn = "Basename" /\ result # NoResult

\* Basename returns the last component: a suffix of the pathname with no
\* '/' in it that is the whole pathname or follows a '/'.
BasenameCorrect ==
    IsBasename =>
        LET p == call.pathname
            b == result.base
        IN /\ IsSuffix(b, p)
           /\ Slash \notin ToSet(b)
           /\ Len(b) = Len(p) \/ p[Len(p) - Len(b)] = Slash

\* For a pathname with a '/', Dirname and Basename split it at its last
\* '/': Dirname(p) + "/" + Basename(p) = p.
DirnameSplit ==
    IsBasename /\ Slash \in ToSet(call.pathname) =>
        result.dir \o <<Slash>> \o result.base = call.pathname

\* Walking relpath from a directory: ".." drops the last name, and ".." at
\* the root stays at the root.
Resolve(base, rel) ==
    FoldLeft(LAMBDA acc, e : IF e = DotDot THEN SubSeq(acc, 1, Len(acc) - 1)
                             ELSE Append(acc, e),
             base, rel)

\* A relative path MakeRelativePathOrUrl reports success for leads from
\* workdir back to abspath.
RelativeResolves ==
    call.fn = "MakeRelative" /\ result.ok =>
        Resolve(call.workdir.names, result.elems) = call.abspath.names

\* For an absolute working directory, a plain one or a file:/// URL, and a
\* plain relative path, MakeAbsolutePathOrUrl succeeds, keeps the
\* workdir's "file://" prefix, and names the directory that walking relpath
\* from workdir reaches.  It rests on the URL offset, boost's absolute()
\* and normalize() together.
AbsoluteResolves ==
    LET rel == call.relpath
        wd == call.workdir
    IN call.fn = "MakeAbsolute" /\ result # NoResult
       /\ rel.scheme = "" /\ ~rel.rooted /\ wd.rooted /\ wd.scheme \in {"", "file"} =>
          /\ result.ok
          /\ result.prefix = IF wd.scheme = "file" THEN "file://" ELSE ""
          /\ Resolve(<<>>, result.elems) = Resolve(wd.names, rel.names)

=============================================================================
