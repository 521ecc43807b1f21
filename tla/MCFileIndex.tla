----------------------------- MODULE MCFileIndex -----------------------------
(* A folder with one directory for TLC.                                    *)
EXTENDS FileIndex, TLC

MCPaths == {"d", "d/a", "b"}
MCParent == "d" :> "/" @@ "d/a" :> "d" @@ "b" :> "/"
MCRank == "d/a" :> 1 @@ "b" :> 2 @@ "d" :> 3
MCKinds == "d" :> {"none"} @@ "d/a" :> {"link"} @@ "b" :> {"file"}
MCQueries ==
    {[scope |-> "ManagedRoot", directory |-> "/", names |-> MCPaths, extensions |-> {}],
     [scope |-> "CurrentDirectory", directory |-> "d", names |-> MCPaths, extensions |-> {"d/a"}]}
====
