------------------------------ MODULE MCLeanBuild ------------------------------
(* An instance of LeanBuild for TLC: 1, 2 and 3 are in the manifest.         *)
EXTENDS LeanBuild

MCModules == 1..3
MCOthers == 4..5

Tree(f, exist, root) == [imports |-> f, present |-> exist, sourceRoot |-> root]

\* Every graph over three modules, the cyclic ones too; 1 may import itself.
Plain == {Tree(<<a, b, c, {}, {}>>, 1..3, FALSE) :
            a \in SUBSET {1, 2, 3}, b \in SUBSET {1, 3}, c \in SUBSET {1, 2}}

\* Imports through other files, which may import each other, the manifest and
\* themselves, and may be missing.
Through ==
  {<<a, b, {1}, x, y>> : a \in {{4}, {1, 4}, {4, 5}}, b \in {{}, {1}, {4}},
                         x \in {{2}, {1, 5}}, y \in {{2}, {4}}}
MCTrees ==
  Plain \cup {Tree(f, exist, TRUE) : f \in Through, exist \in {1..5, 1..4, {2, 4, 5}}}
        \cup {Tree(f, 1..5, FALSE) : f \in Through}

\* `dependencies' has no value before the walk; the pool is not open then.
NoDependencies == {[m \in MCModules |-> {}]}
===============================================================================
