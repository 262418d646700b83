----------------------------- MODULE MCPackages -----------------------------
(* An installed package with a new version of it, which its author breaks,  *)
(* and a second package that is not installed yet.                          *)
EXTENDS Packages, TLC

CONSTANTS cat, dog, i1, i2

MCInstallers == {i1, i2}
MCSymmetry == Permutations(MCInstallers)  \* nothing tells the two installs apart

Content(n, b) == [manifest |-> {[name |-> n, build |-> b, ok |-> TRUE]}, art |-> {b}]
MCSources == [s \in {"cats", "dogs", "archive"} |-> IF s = "cats" THEN Content(cat, 1) ELSE Content(dog, 2)]
MCBuilds == [s \in {"dogs"} |-> "archive"]
MCEdits == [s \in {"cats"} |->
              [manifest |-> {[name |-> cat, build |-> 3, ok |-> FALSE]}, art |-> {3}]]

=============================================================================
