---------------------------- MODULE FileBrowser ----------------------------
(***************************************************************************)
(* The admin panel's file browser (src/admin.rs): the page that lists and  *)
(* searches a directory of the sharing root, and the three requests that   *)
(* make a link to something in it, while its owner works in the same tree. *)
(*                                                                         *)
(* Requests share nothing, so one browser is enough: it has a page, and    *)
(* asks for another or for a link.  Names, sizes, their order on the page  *)
(* and what a pattern matches are left out: a search is the set of places  *)
(* it matches.  A path that goes through a link is taken as the one it     *)
(* leads to.                                                               *)
(***************************************************************************)
EXTENDS Naturals, FiniteSetsExt

CONSTANTS
    Places,      \* paths where something can be
    Parent,      \* place -> the directory it lies in; the topmost: itself
    Root,        \* admin.sharing_root
    Targets,     \* places that links may lead to
    Searches,    \* sets of places a search can match; {}: no search
    ShareDirs,   \* admin.share_dirs
    MaxDepth,    \* how deep a search goes: ten
    Limit,       \* how many matches it looks at: fifty
    MaxChanges   \* bound: what the owner does

\* What lies on the way from a place up to the topmost one, itself included:
\* the least set with the place and with the parents of its members.
Upward == [p \in Places |-> {q \in Places : \A S \in SUBSET Places :
    p \in S /\ (\A r \in S : Parent[r] \in S) => q \in S}]

ASSUME PlacesAssumption == /\ IsFiniteSet(Places)
                           /\ Places \cap {"gone", "file", "dir"} = {}
ASSUME TreeAssumption   == /\ Parent \in [Places -> Places] /\ Root \in Places
                           /\ \A p \in Places : Parent[p] # p => p \notin Upward[Parent[p]]
                           /\ Targets \subseteq Places
ASSUME SearchAssumption == /\ Searches \subseteq SUBSET Places
                           /\ MaxDepth \in Nat /\ Limit \in Nat \ {0}
ASSUME OtherAssumption  == ShareDirs \in BOOLEAN /\ MaxChanges \in Nat

VARIABLES
    disk,       \* place -> what is there; a place: a symbolic link to it
    pc,         \* progress of the request
    path,       \* its canonical path
    matching,   \* what its search matches
    todo,       \* directories the search has yet to read, with their depth
    found,      \* matches not looked at yet
    full,       \* the search stopped at Limit matches
    results,    \* the search results of the page
    entries,    \* the entries of the page
    steady,     \* places untouched since the page was asked for (history)
    changes     \* what the owner has done so far

pageVars   == <<results, entries>>
searchVars == <<matching, todo, found, full>>
vars == <<disk, pc, path, searchVars, pageVars, steady, changes>>

-----------------------------------------------------------------------------
(* Paths.                                                                  *)

\* Path::starts_with.
Within(p, d) == d \in Upward[p]

Exists(p) == disk[p] # "gone"

\* canonicalize; the owner makes no links to links.
Canonical(p) == IF disk[p] \in Places THEN disk[p] ELSE p

\* exists, metadata and is_dir follow links.
Reaches(p) == Exists(Canonical(p))
IsDir(p) == disk[Canonical(p)] = "dir"

Children(d) == {c \in Places \ {d} : Parent[c] = d /\ Exists(c)}

\* A directory is where its children say, and links lead past one step.
Consistent(t) ==
    /\ \A p \in Places : t[p] # "gone" => p = Parent[p] \/ t[Parent[p]] = "dir"
    /\ \A p \in Places : t[p] \in Places => t[p] # p /\ t[t[p]] \notin Places
    /\ t[Root] = "dir"

Contents == {"gone", "file", "dir"} \cup Targets

-----------------------------------------------------------------------------
Init ==
    /\ disk \in {t \in [Places -> Contents] : Consistent(t)}
    /\ pc = "idle" /\ path = Root
    /\ matching = {} /\ todo = {} /\ found = {} /\ full = FALSE
    /\ results = {} /\ entries = {}
    /\ steady = {}
    /\ changes = 0

\* The requests begin alike: both paths are canonicalized, 404 and 403.
Answers == {"idle", "page", "link", "404", "403", "500"}

ResolvePath(p) ==
    /\ pc \in Answers
    /\ Reaches(p) /\ Within(Canonical(p), Root)
    /\ path' = Canonical(p)

Refuse(p) ==
    /\ pc \in Answers
    /\ \/ ~Reaches(p) /\ pc' = "404"
       \/ Reaches(p) /\ ~Within(Canonical(p), Root) /\ pc' = "403"
    /\ path' = p
    /\ UNCHANGED <<disk, searchVars, pageVars, steady, changes>>

\* admin_files_handler.  The walk of a search begins with the directory.
Browse(p, q) ==
    /\ ResolvePath(p)
    /\ pc' = IF q = {} THEN "list" ELSE "walk"
    /\ matching' = q
    /\ todo' = IF q = {} THEN {} ELSE {<<path', 0>>}
    /\ found' = {path'} \cap q
    /\ full' = FALSE
    /\ results' = {} /\ entries' = {}
    /\ steady' = Places
    /\ UNCHANGED <<disk, changes>>

\* At most as many members of S as there is room for below Limit.
Fitting(S) == LET room == Limit - Cardinality(found)
              IN  kSubset(IF Cardinality(S) <= room THEN Cardinality(S) ELSE room, S)

\* Mutant: the limit comes before the pattern.
TakenUnmatched(d) == {some \cap matching : some \in Fitting(Children(d))}

\* Mutant: there is no limit.
TakenAll(d) == {Children(d) \cap matching}

\* Which of a directory's entries a search takes: the pattern, then the limit.
Taken(d) == Fitting((Children(d) \cap matching) \ found)

\* perform_search, WalkDir: the entries of one directory; links among them
\* are not followed, and what lies at MaxDepth is not descended into.
\* A directory that has become a link meanwhile is opened all the same.
ReadDir(d, depth) ==
    /\ pc = "walk" /\ <<d, depth>> \in todo
    /\ depth < MaxDepth /\ Cardinality(found) < Limit
    /\ IsDir(d)
    /\ \E some \in Taken(Canonical(d)) : found' = found \cup some
    /\ todo' = (todo \ {<<d, depth>>}) \cup
               {<<c, depth + 1>> : c \in {b \in Children(Canonical(d)) : disk[b] = "dir"}}
    /\ UNCHANGED <<disk, pc, path, matching, full, pageVars, steady, changes>>

\* A file, a directory that is gone or too deep: nothing to read.
SkipDir(d, depth) ==
    /\ pc = "walk" /\ <<d, depth>> \in todo
    /\ depth = MaxDepth \/ ~IsDir(d)
    /\ todo' = todo \ {<<d, depth>>}
    /\ UNCHANGED <<disk, pc, path, matching, found, full, pageVars, steady, changes>>

EndWalk ==
    /\ pc = "walk"
    /\ todo = {} \/ Cardinality(found) = Limit
    /\ full' = (Cardinality(found) = Limit)
    /\ todo' = {}
    /\ pc' = "examine"
    /\ UNCHANGED <<disk, path, matching, found, pageVars, steady, changes>>

\* Mutant: results outside the sharing root are kept.
ExamineAnywhere(p) ==
    /\ pc = "examine" /\ p \in found
    /\ found' = found \ {p}
    /\ results' = results \cup (IF Reaches(p) THEN {Canonical(p)} ELSE {})
    /\ UNCHANGED <<disk, pc, path, matching, todo, full, entries, steady, changes>>

\* perform_search, for path_str in search_results.
Examine(p) ==
    /\ pc = "examine" /\ p \in found
    /\ found' = found \ {p}
    /\ results' = results \cup
         (IF Reaches(p) /\ Within(Canonical(p), Root) THEN {Canonical(p)} ELSE {})
    /\ UNCHANGED <<disk, pc, path, matching, todo, full, entries, steady, changes>>

EndSearch ==
    /\ pc = "examine" /\ found = {}
    /\ pc' = "list"
    /\ UNCHANGED <<disk, path, searchVars, pageVars, steady, changes>>

\* The entries of the directory, unless it is a file or gone.
ListDirectory ==
    /\ pc = "list"
    /\ entries' = IF IsDir(path) THEN Children(Canonical(path)) ELSE {}
    /\ pc' = "page"
    /\ UNCHANGED <<disk, path, searchVars, results, steady, changes>>

\* read_dir fails: the directory has vanished since, or is not readable.
ListFails ==
    /\ pc = "list"
    /\ results' = {}
    /\ pc' = "500"
    /\ UNCHANGED <<disk, path, searchVars, entries, steady, changes>>

-----------------------------------------------------------------------------
(* admin_download_handler, admin_share_handler and                         *)
(* admin_single_use_download_handler: a link to one path.                  *)

Share(p) ==
    /\ ResolvePath(p)
    /\ pc' = "share"
    /\ UNCHANGED <<disk, searchVars, pageVars, steady, changes>>

Shareable(p) == Reaches(p) /\ (IsDir(p) => ShareDirs)

CheckShareable ==
    /\ pc = "share"
    /\ pc' = IF Shareable(path) THEN "token" ELSE "404"
    /\ UNCHANGED <<disk, path, searchVars, pageVars, steady, changes>>

\* generate_token_with_options looks once more whether it exists.
GenerateToken ==
    /\ pc = "token"
    /\ pc' = IF Reaches(path) THEN "link" ELSE "500"
    /\ UNCHANGED <<disk, path, searchVars, pageVars, steady, changes>>

-----------------------------------------------------------------------------
\* The owner puts something else at a place: everything below goes with what
\* was there.
Change(p, what) ==
    /\ changes < MaxChanges
    /\ ~Within(Root, p) /\ what # disk[p]
    /\ disk' = [q \in Places |-> IF q = p THEN what
                                 ELSE IF Within(q, p) THEN "gone" ELSE disk[q]]
    /\ Consistent(disk')
    /\ steady' = {q \in steady : ~Within(q, p) /\ ~Within(Canonical(q), p)}
    /\ changes' = changes + 1
    /\ UNCHANGED <<pc, path, searchVars, pageVars>>

PageNext ==
    \/ \E d \in Places, n \in 0..MaxDepth : ReadDir(d, n) \/ SkipDir(d, n)
    \/ EndWalk
    \/ \E p \in Places : Examine(p)
    \/ EndSearch \/ ListDirectory \/ ListFails

LinkNext == CheckShareable \/ GenerateToken

Next ==
    \/ \E p \in Places : Share(p) \/ Refuse(p) \/ \E q \in Searches : Browse(p, q)
    \/ PageNext \/ LinkNext
    \/ \E p \in Places, what \in Contents : Change(p, what)

Spec == Init /\ [][Next]_vars

-----------------------------------------------------------------------------
TypeOK ==
    /\ disk \in [Places -> Contents] /\ Consistent(disk)
    /\ pc \in Answers \cup {"walk", "examine", "list", "share", "token"}
    /\ path \in Places
    /\ matching \subseteq Places
    /\ todo \subseteq Places \X (0..MaxDepth)
    /\ found \subseteq Places /\ Cardinality(found) <= Limit
    /\ full \in BOOLEAN
    /\ results \subseteq Places /\ Cardinality(results) <= Limit
    /\ entries \subseteq Places
    /\ steady \subseteq Places
    /\ changes \in 0..MaxChanges

Depth(p) == Cardinality(Upward[p] \ Upward[path])

Searched(p) == Within(p, path) /\ Depth(p) <= MaxDepth

\* A search that stayed below its limit has found everything it matches and
\* that was there all the time, whatever else came, went or was replaced
\* while it walked the tree; a link is found as what it leads to.
FindsWhatStays ==
    pc = "page" /\ ~full =>
        \A p \in matching \cap steady :
            Searched(p) /\ Reaches(p) /\ Within(Canonical(p), Root)
                => Canonical(p) \in results

\* A result that nobody has touched since its page was asked for can be
\* shared, unless it is a directory and directories are not shared: the
\* request is not refused.
OfferedCanBeShared ==
    pc \in {"404", "403"} /\ path \in results \cap steady => IsDir(path) /\ ~ShareDirs
=============================================================================
