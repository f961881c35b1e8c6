------------------------------ MODULE MCFiles -------------------------------
(***************************************************************************)
(* A small volume and the paths asked for, for Files.cfg.                  *)
(***************************************************************************)
EXTENDS Files

File(name, cluster) == [name |-> name, isDir |-> FALSE, cluster |-> cluster, entries |-> <<>>]
Directory(name, cluster, entries) ==
  [name |-> name, isDir |-> TRUE, cluster |-> cluster, entries |-> entries]

Path(drive, parts) == [drive |-> drive, parts |-> parts]

\* In the root, f lies beside two directories; d holds another f; in gap an entry
\* was deleted in front of the last, which the search then overlooks.
TestRoot ==
  <<Directory("d", 2, <<File("e", 3), File("f", 4)>>),
    Directory("gap", 5, <<File(Deleted, 6), File("e", 7), File("f", 8)>>),
    File("f", 9)>>

TestPaths ==
  {Path(-1, <<>>), Path(0, <<>>), Path(1, <<"f">>),
   Path(0, <<"f">>), Path(0, <<"d">>), Path(0, <<"d", "e">>), Path(0, <<"d", "f">>),
   Path(0, <<"d", Empty, "f">>), Path(0, <<"gap", "e">>), Path(0, <<"gap", "f">>),
   Path(0, <<"f", "e">>), Path(0, <<"x", "f">>), Path(0, <<"d", "x", "f">>)}

=============================================================================
