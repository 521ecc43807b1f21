---------------------------- MODULE MCFileEngine ----------------------------
(* Small folders for TLC.                                                  *)
EXTENDS FileEngine, TLC
CONSTANTS a, b, c, d, dx, rd, root, t1, t2, t3, t4

Prop(action, from, to) == [action |-> action, from |-> from, to |-> to]

\* A flat folder: two files, one free name, README.md.
FlatPath == {a, b, c, rd}
FlatParent == [p \in FlatPath |-> root]
FlatDisk == a :> t1 @@ b :> t2 @@ c :> "absent" @@ rd :> t3
FlatProposals ==
    {Prop("move", a, c), Prop("move", c, b), Prop("move", b, a),
     Prop("trash", b, TrashDir), Prop("create_file", c, c), Prop("readme_write", rd, rd)}
FlatRenames == {<<c, b>>}

\* A folder with a subdirectory that does not exist yet.
TreePath == {a, d, dx, rd}
TreeParent == a :> root @@ d :> root @@ dx :> d @@ rd :> root
TreeDisk == a :> t1 @@ d :> "absent" @@ dx :> "absent" @@ rd :> "absent"
TreeProposals ==
    {Prop("move", a, dx), Prop("create_dir", d, d), Prop("readme_write", rd, rd)}

\* A file in a subdirectory.
NestDisk == a :> "absent" @@ d :> "dir" @@ dx :> t1 @@ rd :> "absent"
NestProposals == {Prop("move", dx, a)}
====
