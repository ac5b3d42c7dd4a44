---------------------------- MODULE MCFileBrowser ----------------------------
\* An instance of FileBrowser for TLC: a directory in the sharing root with room
\* for two things in it, and a place outside.
EXTENDS FileBrowser

CONSTANTS top, root, dir, inner, other, outside

MCPlaces == {top, root, dir, inner, other, outside}

MCParent == [p \in MCPlaces |->
    CASE p \in {root, outside} -> top
      [] p = dir -> root
      [] p \in {inner, other} -> dir
      [] OTHER -> top]

MCTargets == {dir, inner, outside}

MCSearches == {{}, {dir, inner}, {dir, inner, other}}
=============================================================================
