---------------------------- MODULE RepoScopes ----------------------------
(***************************************************************************)
(* The folders of a repository that become modules: repo_scanner.py, with  *)
(* the requests of knowledge_repo_service.py and the first lines of a scan *)
(* that use it.  A scope is the path of a folder, written by the page that *)
(* lists the folders, by the discovery of features, or with the name of    *)
(* the clone in front; it is repaired when it is checked, stored, scanned  *)
(* and matched, each time anew, and a file belongs to it from the folder   *)
(* force-app on.                                                           *)
(*                                                                         *)
(* A path is a sequence of names, relative to the project's root.  A file  *)
(* stands for those of its kind in its folder.                             *)
(***************************************************************************)
EXTENDS Naturals, FiniteSets, SequencesExt

CONSTANTS
  Folders,  \* the folders that can have files
  Root,     \* the name of the project's folder, the clone's own or that of one in it
  Nested,   \* it is one in the clone
  ForceApp, \* "force-app"
  Generic,  \* names of folders of no feature: GENERIC_FOLDER_NAMES
  Modules,  \* rows of modules
  Syncs     \* bound: changes of the working tree

ScopesAssumption ==
  /\ ForceApp \in Generic
  /\ \A f \in Folders : f \in Seq(ToSet(f)) /\ f # <<>>
  /\ Nested \in BOOLEAN
  /\ Syncs \in Nat

VARIABLES
  tree,    \* the folders that have files
  scope,   \* scope_path of a module; <<>> for no module
  asked,   \* the folder its request meant, <<>> for all of the project (history)
  fresh,   \* the tree is still the one it was created from (history)
  status,  \* scan_status
  syncs

vars == <<tree, scope, asked, fresh, status, syncs>>

-----------------------------------------------------------------------------
(* repo_scanner.py *)

Within(f, d) == IsPrefix(d, f)
Under(d) == {f \in tree : Within(f, d)}
PathsOf(S) == UNION {{SubSeq(f, 1, n) : n \in 1..Len(f)} : f \in S}
Directories == PathsOf(tree)
\* A directory may be there without such files, or be listed and then go.
Places == PathsOf(Folders)

\* _force_app_tail: from the first force-app that something follows
FirstForceApp(p, last) == {i \in 1..last : p[i] = ForceApp /\ \A j \in 1..i - 1 : p[j] # ForceApp}
TailFrom(p, starts) == IF starts = {} THEN p ELSE SubSeq(p, CHOOSE i \in starts : TRUE, Len(p))
ForceAppTail(p) == TailFrom(p, FirstForceApp(p, Len(p) - 1))
\* of the files in a folder: the name of the file follows
FileTail(f) == TailFrom(f, FirstForceApp(f, Len(f)))

\* The name of the project's folder in front is dropped, as rel_root and then as root_name.
StripName(p) == IF Len(p) > 1 /\ p[1] = Root THEN Tail(p) ELSE p
StripRoot(p) == IF Nested THEN StripName(StripName(p)) ELSE StripName(p)

\* repair_scope_path, normalize_scope_path
Repair(p) == ForceAppTail(StripRoot(p))

\* MUTANT: only the files in the folder itself
MatchesFolder(f, p) == FileTail(f) = ForceAppTail(p) \/ f = p

\* _scope_path_matches
Matches(f, p) == Within(FileTail(f), ForceAppTail(p)) \/ Within(f, p)

\* filter_module_files, preflight_scope_files: repaired once more on the way
Preflight(p) == {f \in tree : Matches(f, Repair(Repair(p)))}

\* list_repo_children, of a folder
Children(p) == {d \in Places : Len(d) = Len(p) + 1 /\ Within(d, p)}

LastName(p) == p[Len(p)]
\* validate_scope_path: what is suggested for a scope without files
ChildSuggestions(p) ==
  {Repair(d) : d \in {e \in Children(p) : LastName(e) \notin Generic /\ Preflight(e) # {}}}
\* MUTANT: the parent is suggested unseen
ParentUnchecked(p) == IF Len(p) > 1 THEN {Repair(Front(p))} ELSE {}

ParentSuggestions(p) ==
  IF Len(p) > 1 /\ Preflight(Front(p)) # {} THEN {Repair(Front(p))} ELSE {}
Suggestions(p) ==
  IF LastName(p) \in Generic /\ ChildSuggestions(p) # {}
  THEN ChildSuggestions(p) ELSE ParentSuggestions(Repair(p))

Valid(p) == Preflight(p) # {}

\* discover_feature_scopes: the folders of features, without those whose files are all in one below
Features == {d \in Directories : LastName(d) \notin Generic /\ Preflight(d) # {}}
Discovered ==
  {d \in Features :
     \A e \in Features : e # d /\ Within(e, d) => Cardinality(Preflight(d)) > Cardinality(Preflight(e))}

\* The paths by which a request can mean a folder that is listed or discovered, or all of the project:
\* from the project on, or from its own folder on.  <<Root>> may mean the one or the other.
PathsFor(d) == {<<Root>> \o d} \union ({d} \ {<<>>})
Requestable == UNION {PathsFor(d) : d \in Places \union {<<>>}}

-----------------------------------------------------------------------------
Init ==
  /\ tree \in SUBSET Folders
  /\ scope = [m \in Modules |-> <<>>] /\ asked = [m \in Modules |-> <<>>]
  /\ fresh = [m \in Modules |-> FALSE]
  /\ status = [m \in Modules |-> "none"]
  /\ syncs = 0

\* Another upload, or another commit of the branch
Sync ==
  /\ syncs < Syncs
  /\ tree' \in SUBSET Folders
  /\ fresh' = [m \in Modules |-> FALSE]
  /\ syncs' = syncs + 1
  /\ UNCHANGED <<scope, asked, status>>

\* create_module: the scope is repaired, checked, and stored as the check returns it.
Create(m, d, p) ==
  /\ status[m] = "none" /\ Valid(Repair(p))
  /\ scope' = [scope EXCEPT ![m] = Repair(Repair(p))]
  /\ asked' = [asked EXCEPT ![m] = d]
  /\ fresh' = [fresh EXCEPT ![m] = TRUE]
  /\ status' = [status EXCEPT ![m] = "pending"]
  /\ UNCHANGED <<tree, syncs>>

\* scan_module: the scope is repaired and stored; without files the scan fails.
Scan(m) ==
  /\ status[m] \in {"pending", "indexed", "failed"}
  /\ scope' = [scope EXCEPT ![m] = Repair(@)]
  /\ status' = [status EXCEPT ![m] = IF Preflight(scope[m]) = {} THEN "failed" ELSE "indexed"]
  /\ UNCHANGED <<tree, asked, fresh, syncs>>

Next ==
  \/ Sync
  \/ \E m \in Modules : Scan(m) \/ \E d \in Places \union {<<>>} : \E p \in PathsFor(d) : Create(m, d, p)
Spec == Init /\ [][Next]_vars

-----------------------------------------------------------------------------
(* Properties *)

ScopesTypeOK ==
  /\ tree \subseteq Folders
  /\ \A m \in Modules : (scope[m] = <<>>) = (status[m] = "none")
  /\ status \in [Modules -> {"none", "pending", "indexed", "failed"}]
  /\ fresh \in [Modules -> BOOLEAN] /\ syncs \in 0..Syncs

\* What a repair keeps of a path begins with the name of the project's folder, and the next repair
\* takes it for that folder: repair_scope_path cannot tell a folder of that name.
CutAgain(p) == Len(ForceAppTail(p)) > 1 /\ ForceAppTail(p)[1] = Root

\* However often its scope was repaired, a module scans the files of the folder that was chosen for it,
\* and those of a folder with the same path from force-app on, and no others; a scan of the tree it was
\* created from does not fail.  A folder that is CutAgain may end up with another one's files.
ModuleHasItsFolder ==
  \A m \in Modules : fresh[m] /\ asked[m] # <<>> /\ ~CutAgain(asked[m]) =>
    /\ Preflight(scope[m]) =
         {f \in tree : Within(f, asked[m]) \/ Within(FileTail(f), ForceAppTail(asked[m]))}
    /\ status[m] # "failed"

\* What is discovered, or suggested instead of a folder without files, can be made a module, unless it
\* is CutAgain.
OffersAreValid ==
  /\ \A d \in Discovered : ~CutAgain(d) => Valid(Repair(d))
  /\ \A p \in Requestable : ~Valid(Repair(p)) =>
       \A q \in Suggestions(Repair(p)) : ~CutAgain(q) => Valid(Repair(q))
=============================================================================
