----------------------------- MODULE FixtureStore -----------------------------
(***************************************************************************)
(* The store that stands in for a phone in tests (stores/fixturedb): the    *)
(* listing of a local directory, by other calls and in another order, and   *)
(* compared with the listing AdbWalk gives of the same tree.                *)
(*                                                                         *)
(* The local tree keeps still, so that its walk is a function of it.  A set *)
(* of paths stands for what is counted, for each is counted once.           *)
(***************************************************************************)
EXTENDS AdbWalk

-----------------------------------------------------------------------------
\* codeForRootStatErr and walkRoot.
FixtureRootFailure ==
    IF status[Root] = "EACCES" THEN "permission_denied"
    ELSE IF status[Root] \in Errnos THEN "root_not_found"
    ELSE IF status[Root] # "dir" THEN "not_a_directory"
    ELSE IF ~OnPin(Root) THEN "path_denied"
    ELSE "none"

Listing(files, refused, errors) == [files |-> files, refused |-> refused, errors |-> errors]

\* Mutant: one level too many.
DescendsOneMore(dir) == maxDepth = 0 \/ Len(dir) <= maxDepth

\* walkDir is called with the depth of the entries it will see.
Descends(dir) == maxDepth = 0 \/ Len(dir) < maxDepth

Whole(parts) ==
    Listing(UNION {p.files : p \in parts}, UNION {p.refused : p \in parts}, UNION {p.errors : p \in parts})

\* childOf and visit: the name first, then Lstat, the device of what the entry leads
\* to, and its kind.  What walkDir lists below it is for a directory alone.
Visit(dir, e, below) ==
    LET n == LastOf(e)
    IN  IF n \in Unnameable THEN Listing({}, {}, {Problem(dir, "path_denied")})
        ELSE IF ~Readable(n) THEN Listing({}, {}, {Problem(e, "path_not_found")})
        ELSE IF ~OnPin(n) THEN Listing({}, {e}, {})
        ELSE CASE status[n] = "file" -> Listing({e}, {}, {})
               [] status[n] = "dir"  -> IF Descends(dir) THEN below ELSE Listing({}, {}, {})
               [] OTHER              -> Listing({}, {e}, {})

FixturePaths == UNION {Paths[k] : k \in DOMAIN Paths}

\* walkDir.  There is no bound but the depth asked for.
FixtureDir[dir \in FixturePaths] ==
    Whole({Visit(dir, Append(dir, c), FixtureDir[Append(dir, c)]) : c \in Contents[LastOf(dir)]})

\* A name the walk of a phone does not need, and the fixture asks for all the same.
NamedForNothing == {e \in Entries : LastOf(e) \in Unnameable /\ ~NeedsName(e)}

\* Where the phone's walk was the walk of a tree that kept still, under a bound.
Comparable ==
    /\ touched = {}
    /\ maxDepth \in 1..MaxWalkDepth
    /\ \A n \in Node : status[n] # "ENOENT"

\* What a test shows of a listing with the fixture holds of a phone with the same
\* tree: the same records, refused entries counted alike, problems under the same
\* paths, and a root refused for the same reason (fixturedb.go:69).  All but
\* these: a root off the volume is path_denied here and volume_unresolved there;
\* and a name that cannot be joined is a problem of its directory here even where
\* the phone's walk has no use for it, and passes over or counts what it names.
FixtureListsTheSame ==
    /\ Comparable /\ result = "ok" =>
          LET there == FixtureDir[<<Root>>]
          IN  /\ FixtureRootFailure = "none"
              /\ there.files = emitted
              /\ summary.refused = Cardinality(there.refused \cup OmittedIn(NamedForNothing))
              /\ {p.path : p \in there.errors} =
                   {p.path : p \in summary.errors} \cup {DirOf(e) : e \in NamedForNothing}
    /\ result \in {"permission_denied", "root_not_found", "not_a_directory"} => FixtureRootFailure = result
    /\ result = "volume_unresolved" /\ frames = <<>> => FixtureRootFailure = "path_denied"
=============================================================================
