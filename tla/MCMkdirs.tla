------------------------------ MODULE MCMkdirs ------------------------------
(* Small values for the constants of Mkdirs. *)
EXTENDS Mkdirs

\* Paths with a common prefix, two separators in a row, one at the end, and
\* the empty path.
MCPaths == { <<"a", "b">>, <<"a", "b", "c">>, <<"a", "", "b">>, <<"a", "">>,
             <<"">> }

\* Nothing, a directory that may be written to or not, a file, a file in a
\* directory; and a start that may not be written to.
Start(type) == [e \in {<<>>} |-> type]
With(tree_, entry, type) ==
  [e \in DOMAIN tree_ \cup {entry} |-> IF e = entry THEN type ELSE tree_[e]]
MCTrees ==
  { Start("dir"), Start("locked") }
  \cup { With(Start("dir"), <<"a">>, type) : type \in {"dir", "locked", "file"} }
  \cup { With(With(Start("dir"), <<"a">>, "dir"), <<"a", "b">>, type) :
           type \in {"locked", "file"} }

MCPlatforms == {"posix", "windows"}
=============================================================================
