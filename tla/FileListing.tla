------------------------------ MODULE FileListing ------------------------------
(***************************************************************************)
(* list_documents and list_directory: a call scans the files of the        *)
(* configured roots and answers one page of what it found; its cursor      *)
(* names the whole of it, and the next call scans again.                   *)
(*                                                                         *)
(* The disk changes while a scan runs: the names of a directory are read   *)
(* at once, each of them is resolved later, and what it resolved to is     *)
(* measured later still. A path is a sequence of names; names are numbers, *)
(* in the order of the paths' strings. A link may take the path of a       *)
(* directory.                                                              *)
(***************************************************************************)
EXTENDS Integers, FiniteSets, SequencesExt

CONSTANTS
  Disks,         \* disks to begin with: functions from paths to nodes
  RootSets,      \* what may be configured as roots
  Asks,          \* [tool, path, recursive, max]
  FilePaths,     \* bound: files that come and go,
  DirPaths,      \* and directories
  Outside,       \* bound: where a link leads that takes the path of a directory
  Unsupported,   \* names of files that are no documents
  MaxResults,    \* MAX_DISCOVERY_RESULTS and MAX_DIRECTORY_RESULTS
  MaxEntries,    \* MAX_DIRECTORY_ENTRIES
  MaxChanges,    \* bound: changes of the disk
  MaxCalls       \* bound: calls of the client

Gone == <<>>
Paths == Seq(Int)
Named == Paths \ {Gone}
Parent(path) == Front(path)

\* A path is that of an entry of its directory: it goes through no link.
IsDisk(nodes) ==
  /\ IsFiniteSet(DOMAIN nodes) /\ DOMAIN nodes \subseteq Named
  /\ \A path \in DOMAIN nodes :
       /\ nodes[path].kind \in {"file", "dir", "link"}
       /\ Len(path) = 1 \/ (Parent(path) \in DOMAIN nodes /\ nodes[Parent(path)].kind = "dir")

\* What a link leads to is no link.
LeadsOn(nodes, target) ==
  /\ target \in Named \ DirPaths
  /\ target \in DOMAIN nodes => nodes[target].kind # "link"

\* A file takes the path of no directory, and no directory that of a file.
ASSUME DiskAssumption ==
  /\ FilePaths \cup DirPaths \subseteq Named /\ FilePaths \cap DirPaths = {}
  /\ \A start \in Disks :
       /\ IsDisk(start) /\ LeadsOn(start, Outside)
       /\ \A path \in DOMAIN start :
            /\ path \in FilePaths => start[path].kind = "file"
            /\ path \in DirPaths => start[path].kind # "file"
            /\ start[path].kind = "link" => LeadsOn(start, start[path].target)

ASSUME CallAssumption ==
  /\ \A roots \in RootSets : IsFiniteSet(roots) /\ roots \subseteq Named
  /\ \A ask \in Asks :
       /\ ask.tool \in {"documents", "directory"} /\ ask.path \in Paths /\ ask.max \in Nat
       /\ ask.recursive \in BOOLEAN
       /\ ask.tool = "directory" => ~ask.recursive
  /\ MaxResults \in Nat /\ MaxEntries \in Nat

VARIABLES
  disk,          \* path -> [kind, size, target]
  configured,    \* the configured roots
  command,       \* the call in hand, or the last one, with its cursor and the changes before it
  listing,       \* [stage, roots, path, dirs, batch, found]: what the call has read
  outcome,       \* the answer of the last call
  heldCursor,    \* the cursor the client holds, or NoListCursor
  pagesRead,     \* the entries of the pages the client followed cursors through
  calls,         \* history: calls so far, changes so far,
  changed,
  runStart,      \* changes before the first call of the run of pages,
  alive,         \* what the disk held at some moment of the scan,
  steady         \* and all along

listVars == <<disk, configured, command, listing, outcome, heldCursor, pagesRead, calls,
              changed, runStart, alive, steady>>

NoPath == <<>>
NoListCursor == [tool |-> "none"]
NoListing == [stage |-> "idle", roots |-> {}, path |-> NoPath, dirs |-> <<>>, batch |-> {}, found |-> {}]
NoOutcome == [answer |-> "none"]
Error(why, scanned) == [answer |-> "error", why |-> why, scanned |-> scanned]

-----------------------------------------------------------------------------
(* Paths                                                                   *)

\* canonicalize.
Canonical(path) ==
  LET to[n \in 0..Len(path)] ==
        IF n = 0 THEN <<>>
        ELSE LET next == Append(to[n - 1], path[n])
                 node == disk[next]
             IN  IF (n > 1 /\ to[n - 1] = Gone) \/ next \notin DOMAIN disk THEN Gone
                 ELSE IF node.kind # "link" THEN next
                 ELSE IF node.target \in DOMAIN disk THEN node.target ELSE Gone
  IN  to[Len(path)]

\* canonical_roots: a root that does not resolve is dropped.
CanonicalRoots == {Canonical(root) : root \in configured} \ {Gone}

\* is_within_any_root.
InRoots(roots, path) == \E root \in roots : IsPrefix(root, path)

PathBefore(path, other) ==
  IF IsPrefix(path, other) THEN path # other
  ELSE \E n \in 1..Len(path) :
         n <= Len(other) /\ path[n] < other[n] /\ SubSeq(path, 1, n - 1) = SubSeq(other, 1, n - 1)

\* The i-th has i - 1 before it.
Ascending(items, Before(_, _)) ==
  [i \in 1..Cardinality(items) |->
     CHOOSE item \in items : Cardinality({other \in items : Before(other, item)}) = i - 1]

InPathOrder(entries) == Ascending(entries, LAMBDA one, other : PathBefore(one.path, other.path))

IsSupported(path) == Last(path) \notin Unsupported

FileEntry(path, node) ==
  [path |-> path, kind |-> IF node.kind = "dir" THEN "directory" ELSE "document", size |-> node.size]

\* An entry replaces one of the same path.
Put(found, entry) == {old \in found : old.path # entry.path} \cup {entry}

-----------------------------------------------------------------------------
(* A call                                                                  *)

\* canonicalize_authorized_directory: why a path is refused.
PathRefusal(path, roots) ==
  CASE path = Gone -> "retrieval"
    [] path # Gone /\ ~InRoots(roots, path) -> "blocked"
    [] path # Gone /\ InRoots(roots, path) -> IF disk[path].kind # "dir" THEN "invalid request" ELSE "none"

\* decode_discovery_cursor and decode_directory_cursor: each takes cursors of its own prefix.
IsForeign(ask, cursor) == cursor # NoListCursor /\ cursor.tool # ask.tool

\* A cursor goes on with the listing it was given for.
CursorRefusal(ask, cursor, roots, path) ==
  CASE cursor = NoListCursor -> "none"
    [] cursor # NoListCursor /\ (cursor.recursive # ask.recursive \/ cursor.path # path) -> "mismatch"
    [] cursor # NoListCursor /\ cursor.recursive = ask.recursive /\ cursor.path = path ->
         IF cursor.roots # roots THEN "stale" ELSE "none"

\* resolve_scope, and what is refused before it.
Refusal(ask, cursor) ==
  LET roots  == CanonicalRoots
      named  == ask.path # NoPath
      path   == IF named THEN Canonical(ask.path) ELSE NoPath
      ofPath == IF named THEN PathRefusal(path, roots) ELSE "none"
  IN  IF ask.max = 0 THEN "invalid request"
      ELSE IF IsForeign(ask, cursor) THEN "invalid cursor"
      ELSE IF named /\ roots = {} THEN "blocked"
      ELSE IF ofPath # "none" THEN ofPath
      ELSE CursorRefusal(ask, cursor, roots, path)

\* The first root is read first, and what is found in it before the second.
RootsToRead(roots) == Reverse(Ascending(roots, PathBefore))

\* The roots and the path are resolved at once.
BeginListing(ask, cursor) ==
  LET why   == Refusal(ask, cursor)
      roots == CanonicalRoots
      path  == IF ask.path = NoPath THEN NoPath ELSE Canonical(ask.path)
      empty == [answer |-> "page", complete |-> TRUE]
  IN  /\ listing.stage = "idle" /\ calls < MaxCalls
      /\ calls' = calls + 1
      /\ command' = [ask |-> ask, cursor |-> cursor, began |-> changed]
      /\ alive' = {<<p, disk[p]>> : p \in DOMAIN disk} /\ steady' = alive'
      /\ IF why # "none" THEN outcome' = Error(why, FALSE) /\ UNCHANGED <<listing, heldCursor, pagesRead>>
         ELSE IF roots = {}
         THEN outcome' = empty /\ listing' = NoListing /\ heldCursor' = NoListCursor /\ pagesRead' = <<>>
         ELSE /\ outcome' = NoOutcome
              /\ listing' = [stage |-> "scanning", roots |-> roots, path |-> path, batch |-> {}, found |-> {},
                          dirs |-> IF path = NoPath THEN RootsToRead(roots) ELSE <<path>>]
              /\ UNCHANGED <<heldCursor, pagesRead>>
      /\ UNCHANGED <<disk, configured, changed, runStart>>

NothingElse == UNCHANGED <<disk, configured, command, heldCursor, pagesRead, calls, changed, runStart, alive, steady>>

FailListing(why) ==
  /\ outcome' = Error(why, TRUE)
  /\ listing' = [listing EXCEPT !.stage = "idle", !.dirs = <<>>, !.batch = {}]

\* An entry found, after which `next` is the scan; no tool lists more than so many of a directory.
Found(entry, next) ==
  LET found == Put(listing.found, entry)
  IN  IF command.ask.tool = "directory" /\ Cardinality(found) > MaxEntries THEN FailListing("limit")
      ELSE listing' = [next EXCEPT !.found = found] /\ UNCHANGED outcome

ListsRoots == command.ask.tool = "directory" /\ listing.path = NoPath

\* scan_scope of list_directory: the roots themselves.
ListRoot ==
  /\ listing.stage = "scanning" /\ ListsRoots /\ listing.dirs # <<>>
  /\ LET root == Canonical(Last(listing.dirs))
         next == [listing EXCEPT !.dirs = Front(@)]
     IN  IF root = Gone THEN FailListing("retrieval")
         ELSE IF disk[root].kind = "dir" /\ InRoots(listing.roots, root)
         THEN Found(FileEntry(root, disk[root]), next)
         ELSE listing' = next /\ UNCHANGED outcome
  /\ NothingElse

\* A name as its directory has it, and as what it resolved to.
NameOf(path, node) == [path |-> path, isDir |-> node.kind = "dir", resolved |-> FALSE]
Resolved(name, real) == [path |-> real, isDir |-> name.isDir, resolved |-> TRUE]

\* The next directory, and the names in it.
ReadDirectory ==
  /\ listing.stage = "scanning" /\ ~ListsRoots /\ listing.batch = {} /\ listing.dirs # <<>>
  /\ LET directory == Canonical(Last(listing.dirs))
         rest  == Front(listing.dirs)
         names == {path \in DOMAIN disk : Parent(path) = directory /\ disk[path].kind # "link"}
     IN  IF directory = Gone \/ (InRoots(listing.roots, directory) /\ disk[directory].kind # "dir")
         THEN FailListing("retrieval")
         ELSE IF ~InRoots(listing.roots, directory)
         THEN IF command.ask.tool = "directory" THEN FailListing("blocked")
              ELSE listing' = [listing EXCEPT !.dirs = rest] /\ UNCHANGED outcome
         ELSE /\ listing' = [listing EXCEPT !.dirs = rest,
                            !.batch = {NameOf(path, disk[path]) : path \in names}]
              /\ UNCHANGED outcome
  /\ NothingElse

\* A name is taken when the one before it is done.
IsNextName(name, tool) ==
  /\ listing.stage = "scanning" /\ command.ask.tool = tool /\ name \in listing.batch
  /\ \A other \in listing.batch : ~other.resolved

\* collect_documents: one of the names. Its kind is what the directory said it was.
TakeDocument(name) ==
  LET real    == Canonical(name.path)
      wanted  == IF name.isDir THEN command.ask.recursive ELSE IsSupported(name.path)
      next    == [listing EXCEPT !.batch = @ \ {name}]
  IN  /\ IsNextName(name, "documents")
      /\ IF wanted /\ real = Gone THEN FailListing("retrieval")
         ELSE /\ listing' = IF ~wanted \/ ~InRoots(listing.roots, real) THEN next
                            ELSE IF name.isDir THEN [next EXCEPT !.dirs = Append(@, real)]
                            ELSE [next EXCEPT !.batch = @ \cup {Resolved(name, real)}]
              /\ UNCHANGED outcome
      /\ NothingElse

\* collect_direct_children: one of the names, whatever it is.
TakeChild(name) ==
  LET real == Canonical(name.path)
      next == [listing EXCEPT !.batch = @ \ {name}]
  IN  /\ IsNextName(name, "directory")
      /\ IF real = Gone THEN FailListing("retrieval")
         ELSE /\ listing' = IF InRoots(listing.roots, real)
                            THEN [next EXCEPT !.batch = @ \cup {Resolved(name, real)}] ELSE next
              /\ UNCHANGED outcome
      /\ NothingElse

\* list_documents lists as a document whatever is there now.
EntryOf(tool, path, node) ==
  IF tool = "documents" THEN [path |-> path, kind |-> "document", size |-> node.size] ELSE FileEntry(path, node)

\* metadata of what a name resolved to, which follows the links there are now.
Measure(name) ==
  LET there == Canonical(name.path)
      next  == [listing EXCEPT !.batch = @ \ {name}]
  IN  /\ listing.stage = "scanning" /\ name \in listing.batch /\ name.resolved
      /\ IF there = Gone THEN FailListing("retrieval")
         ELSE IF command.ask.tool = "documents" \/ disk[there].kind = "dir" \/ IsSupported(name.path)
         THEN Found(EntryOf(command.ask.tool, name.path, disk[there]), next)
         ELSE listing' = next /\ UNCHANGED outcome
      /\ NothingElse

\* Mutant: only the number of entries is compared.
CountIsStale(cursor, entries) == cursor # NoListCursor /\ cursor.total # Len(entries)

\* The scan found something else than the one the cursor is of.
IsStale(cursor, entries) == cursor # NoListCursor /\ (cursor.manifest # entries \/ cursor.total # Len(entries))

\* A cursor after so many of the entries.
CursorAfter(end, entries) ==
  [tool |-> command.ask.tool, roots |-> listing.roots, path |-> listing.path,
   recursive |-> command.ask.recursive, manifest |-> entries, total |-> Len(entries), next |-> end]

\* The page from the cursor on, when the scan found what the cursor names.
AnswerListing ==
  LET entries == InPathOrder(listing.found)
      cursor  == command.cursor
      start   == IF cursor = NoListCursor THEN 0 ELSE cursor.next
      wanted  == IF command.ask.max < MaxResults THEN command.ask.max ELSE MaxResults
      end     == IF start + wanted < Len(entries) THEN start + wanted ELSE Len(entries)
      page    == SubSeq(entries, start + 1, end)
      complete == end = Len(entries)
  IN  /\ listing.stage = "scanning" /\ listing.batch = {} /\ listing.dirs = <<>>
      /\ listing' = [listing EXCEPT !.stage = "idle"]
      /\ IF IsStale(cursor, entries) THEN outcome' = Error("stale", TRUE) /\ UNCHANGED <<heldCursor, pagesRead>>
         ELSE /\ outcome' = [answer |-> "page", complete |-> complete]
              /\ heldCursor' = IF complete THEN NoListCursor
                         ELSE CursorAfter(end, entries)
              /\ pagesRead' = IF cursor = NoListCursor THEN page ELSE pagesRead \o page
      /\ runStart' = IF cursor = NoListCursor THEN command.began ELSE runStart
      /\ UNCHANGED <<disk, configured, command, calls, changed, alive, steady>>

ListCall ==
  \/ \E ask \in Asks : \E cursor \in {NoListCursor, heldCursor} : BeginListing(ask, cursor)
  \/ ListRoot \/ ReadDirectory \/ AnswerListing
  \/ \E name \in listing.batch : TakeDocument(name) \/ TakeChild(name) \/ Measure(name)

-----------------------------------------------------------------------------
(* The disk                                                                *)

File(size) == [kind |-> "file", size |-> size, target |-> Gone]
Dir == [kind |-> "dir", size |-> 0, target |-> Gone]
Link(target) == [kind |-> "link", size |-> 0, target |-> target]

HasParent(path) == Parent(path) \in DOMAIN disk /\ disk[Parent(path)].kind = "dir"
IsEmptyDir(path) == disk[path].kind = "dir" /\ \A other \in DOMAIN disk : Parent(other) # path

\* Bound: nothing changes after the last call.
Become(new) ==
  /\ listing.stage = "scanning" \/ calls < MaxCalls
  /\ changed < MaxChanges /\ changed' = changed + 1
  /\ disk' = new
  /\ LET nodes == {<<path, new[path]>> : path \in DOMAIN new}
     IN  IF listing.stage = "scanning" THEN alive' = alive \cup nodes /\ steady' = steady \cap nodes
         ELSE UNCHANGED <<alive, steady>>
  /\ UNCHANGED <<configured, command, listing, outcome, heldCursor, pagesRead, calls, runStart>>

With(path, node) ==
  [other \in DOMAIN disk \cup {path} |-> IF other = path THEN node ELSE disk[other]]
Without(path) == [other \in DOMAIN disk \ {path} |-> disk[other]]

WriteFile == \E path \in FilePaths : \E size \in 1..2 : HasParent(path) /\ Become(With(path, File(size)))
MakeDir == \E path \in DirPaths \ DOMAIN disk : HasParent(path) /\ Become(With(path, Dir))
RemoveFile == \E path \in FilePaths \cap DOMAIN disk : Become(Without(path))
RemoveDir == \E path \in DirPaths \cap DOMAIN disk : IsEmptyDir(path) /\ Become(Without(path))
MakeLink == \E path \in DirPaths \ DOMAIN disk : HasParent(path) /\ Become(With(path, Link(Outside)))

ListInit ==
  /\ disk \in Disks /\ configured \in RootSets
  /\ command = [ask |-> NoOutcome, cursor |-> NoListCursor, began |-> 0]
  /\ listing = NoListing /\ outcome = NoOutcome
  /\ heldCursor = NoListCursor /\ pagesRead = <<>>
  /\ calls = 0 /\ changed = 0 /\ runStart = 0 /\ alive = {} /\ steady = {}

ListNext == ListCall \/ WriteFile \/ MakeDir \/ RemoveFile \/ RemoveDir \/ MakeLink

-----------------------------------------------------------------------------
(* Properties *)

\* What a call lists: its tool, whether it goes down, its roots and its path.
Scope == [tool |-> command.ask.tool, recursive |-> command.ask.recursive,
          roots |-> listing.roots, path |-> listing.path]

\* A scope that is the roots themselves.
OfRoots(scope) == scope.tool = "directory" /\ scope.path = NoPath

\* The paths of a scope.
StartsOf(scope) == IF scope.path = NoPath THEN scope.roots ELSE {scope.path}
LeadsTo(scope, directory, path) ==
  IF scope.recursive THEN IsStrictPrefix(directory, path) ELSE Parent(path) = directory
IsUnder(scope, path) ==
  IF OfRoots(scope) THEN path \in scope.roots ELSE \E start \in StartsOf(scope) : LeadsTo(scope, start, path)

\* What its tool lists.
IsListed(scope, path, node) ==
  \/ node.kind = "dir" /\ scope.tool = "directory"
  \/ node.kind = "file" /\ IsSupported(path) /\ ~OfRoots(scope)

\* The entries among some nodes of a disk that are in a scope.
ListedIn(scope, nodes) ==
  {FileEntry(node[1], node[2]) :
     node \in {node \in nodes : IsUnder(scope, node[1]) /\ IsListed(scope, node[1], node[2])}}

\* What a link leads to, under its own path or under that of a name resolved before the link was there.
LinkedIn(scope, nodes) ==
  LET linked ==
        {node \in nodes : \E link \in nodes : link[2].kind = "link" /\ IsPrefix(link[2].target, node[1])}
      names  == {name \in nodes : IsUnder(scope, name[1])} \cup linked
  IN  {EntryOf(scope.tool, name[1], node[2]) : name \in names, node \in linked}

\* What a scan may have met: while the disk changes, a link may take the path of a directory it is to read,
\* or of the directory of a name it resolved.
Met == ListedIn(Scope, alive) \cup IF alive = steady THEN {} ELSE LinkedIn(Scope, alive)

\* However the disk changes between and under the scans of a run of pages, the pages the client followed
\* the cursor through are one listing: what the last scan found, in the order of the paths, no entry
\* twice, and none left out before the last one read. The run is over when every entry was read, and
\* until then the client has a cursor to go on with.
PagesAreOneListing ==
  outcome.answer = "page" /\ listing.roots # {} =>
    LET places == 1..Len(pagesRead)
        read   == {pagesRead[i] : i \in places}
    IN  /\ \A i, j \in places : i < j => PathBefore(pagesRead[i].path, pagesRead[j].path)
        /\ read \subseteq listing.found
        /\ \A entry \in listing.found \ read : \A i \in places : PathBefore(pagesRead[i].path, entry.path)
        /\ outcome.complete <=> read = listing.found
        /\ outcome.complete <=> heldCursor = NoListCursor

\* However the disk changes under a scan, the listing has every entry in its scope that was there all
\* along and none that never was, but what a link led to while the disk changed. A call fails only
\* because of the disk: its scan when something went away, when a root is no directory or when there
\* is too much, its cursor when something changed since the first page.
ListingsMatchDisk ==
  /\ outcome.answer = "page" /\ listing.roots # {} =>
       ListedIn(Scope, steady) \subseteq listing.found /\ listing.found \subseteq Met
  /\ outcome.answer = "error" =>
       /\ outcome.scanned /\ outcome.why \in {"retrieval", "blocked"} =>
            alive # steady \/ \E node \in alive : node[1] \in listing.roots /\ node[2].kind # "dir"
       /\ outcome.why = "stale" => changed > runStart
       /\ outcome.why = "limit" => Cardinality(Met) > MaxEntries

\* The listings of a disk that changes: the pages are one listing, and it is of what the disk had.
ListingsExact == PagesAreOneListing /\ ListingsMatchDisk
================================================================================
