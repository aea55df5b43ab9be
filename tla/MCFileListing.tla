----------------------------- MODULE MCFileListing -----------------------------
(* A root with a directory, three documents, a file that is none and a link; a directory outside. *)
EXTENDS FileListing

Root == <<1>>
Sub == <<1, 2>>

Outer ==
  (Root :> Dir) @@ (Sub :> Dir) @@ (<<1, 2, 5>> :> File(1)) @@ (<<1, 4>> :> File(1)) @@ (<<1, 7>> :> File(1))
    @@ (<<1, 3>> :> Link(<<9>>)) @@ (<<6>> :> Link(<<9>>)) @@ (<<9>> :> Dir) @@ (<<9, 5>> :> File(3))

MCDisks == {Outer}

MCRootSets == {{}, {Root, Sub}, {Root, <<6>>}, {<<1, 4>>}}

MCOutside == <<9>>

AskOf(tool, path, recursive, max) == [tool |-> tool, path |-> path, recursive |-> recursive, max |-> max]

MCAsks ==
  {AskOf("documents", NoPath, TRUE, 1), AskOf("documents", Root, TRUE, 9), AskOf("documents", Root, FALSE, 0),
   AskOf("documents", Root, FALSE, 1)}
  \cup {AskOf("directory", path, FALSE, 1) : path \in {NoPath, Root, <<1, 3>>, <<1, 4>>}}

MCFilePaths == {<<1, 2, 5>>, <<1, 5>>}
MCDirPaths == {Sub}
================================================================================
