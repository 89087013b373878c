---------------------------- MODULE MCNamespace -----------------------------
(* Instance of Namespace for TLC.                                           *)
EXTENDS Namespace, TLC

CONSTANTS c1, c2, f1, f2, d0, d1, a, b

\* One client whose requests may be repeated late; two clients and one file, or two
\* files that get no second name.
FilePlans ==
    {[clients |-> 1, files |-> 2, dirs |-> 1, stray |-> 1, link |-> 2,
      calls |-> {"create", "unlink", "link", "rename"}],
     [clients |-> 2, files |-> 1, dirs |-> 1, stray |-> 0, link |-> 2,
      calls |-> {"create", "unlink", "link", "rename"}],
     [clients |-> 2, files |-> 2, dirs |-> 1, stray |-> 0, link |-> 2,
      calls |-> {"create", "unlink"}]}

\* A directory below the root: all calls of one client, three of them with a late
\* repetition, and two clients that do not rename.
DirPlans ==
    {[clients |-> 1, files |-> 1, dirs |-> 2, stray |-> 0, link |-> 1,
      calls |-> {"create", "mkdir", "rmdir", "rename"}],
     [clients |-> 1, files |-> 1, dirs |-> 2, stray |-> 1, link |-> 1,
      calls |-> {"create", "mkdir", "rename"}],
     [clients |-> 1, files |-> 1, dirs |-> 2, stray |-> 1, link |-> 1,
      calls |-> {"create", "mkdir", "rmdir"}],
     [clients |-> 1, files |-> 1, dirs |-> 2, stray |-> 1, link |-> 1,
      calls |-> {"mkdir", "rmdir", "rename"}],
     [clients |-> 2, files |-> 1, dirs |-> 2, stray |-> 0, link |-> 1,
      calls |-> {"create", "mkdir", "rmdir"}]}

TreePlans == FilePlans \cup DirPlans

Symmetry == Permutations(Client) \cup Permutations(File)
            \cup Permutations({a, b})
=============================================================================
