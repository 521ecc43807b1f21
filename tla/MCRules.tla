------------------------------- MODULE MCRules -------------------------------
(* Small folders, rule sets and drafts for TLC.                            *)
EXTENDS Rules, TLC

Tok(rank, chars, ext, lower) == [rank |-> rank, chars |-> chars, ext |-> ext, lower |-> lower]

MCInfo ==
    "Ab" :> Tok(1, <<"A", "b">>, None, "ab") @@ "a" :> Tok(2, <<"a">>, "pdf", "a")
    @@ "aab" :> Tok(3, <<"a", "a", "b">>, "pdf", "aab") @@ "bab" :> Tok(4, <<"b", "a", "b">>, "txt", "bab")
    @@ "documents" :> Tok(5, <<"b", "b">>, None, "documents") @@ "images" :> Tok(6, <<"b">>, None, "images")
    @@ ".mousekeeper" :> Tok(0, <<"b", "a">>, None, ".mousekeeper")
    @@ ".mousekeeper_trash" :> Tok(0, <<"b", "a">>, None, ".mousekeeper_trash")
    @@ "..":> Tok(0, <<"b", "a">>, None, "..")

File(path, size, modified, created) ==
    [path |-> path, kind |-> "file", size |-> size, modified |-> modified, created |-> created]
Other(path, kind) == [path |-> path, kind |-> kind, size |-> 0, modified |-> NoStamp, created |-> NoStamp]

\* The clock is four ticks, a day is two: files of two days, of one and of none,
\* from the future and without a date.
MCDisks ==
    {{File(<<"a">>, 1, 0, 2), File(<<"documents", "a">>, 2, 2, 0), Other(<<"documents">>, "dir"),
      File(<<"Ab">>, 2, NoStamp, 1)},
     {File(<<"images", "aab">>, 1, 1, 0), Other(<<"images">>, "dir"), File(<<"documents", "bab">>, 2, 5, 2),
      Other(<<"documents">>, "dir"), File(<<".mousekeeper", "a">>, 1, 0, 0)},
     {File(<<"aab">>, 1, 2, 2), File(<<"images", "aab">>, 2, 0, NoStamp), Other(<<"images">>, "link"),
      File(<<"bab">>, 0, 2, 3)},
     {File(<<"documents", "a">>, 1, 0, 0), Other(<<"documents">>, "dir"), File(<<"images", "a">>, 2, 0, 0),
      Other(<<"images">>, "dir")}}

Rule(id, priority, when, then) == [id |-> id, priority |-> priority, when |-> when, then |-> then]
Set(rs) == [state |-> "rules", set |-> [version |-> 1, rules |-> rs]]

Signs == {"a", "b", "*", "?"}
Patterns == UNION {[1..n -> Signs] : n \in 0..4}
MCStored ==
    {[state |-> "absent", set |-> NoRules], [state |-> "garbled", set |-> NoRules],
     [state |-> "rules", set |-> [version |-> 2, rules |-> <<>>]],
     Set(<<Rule(<<1>>, 0, [name_matches |-> <<"*">>], [move_to |-> <<"..">>])>>),
     Set(<<Rule(<<1>>, 0, <<>>, [trash |-> TRUE])>>),
     Set(<<Rule(<<1>>, 0, [size_bytes_gte |-> 1], [trash |-> TRUE, move_to |-> <<"images">>])>>),
     Set(<<Rule(<<1>>, 1, [extension_in |-> {"pdf"}], [move_to |-> <<"documents">>]),
           Rule(<<1>>, 0, [size_bytes_gte |-> 2], [trash |-> TRUE])>>)}
    \cup {Set(<<Rule(<<1>>, 0, [name_matches |-> p], [move_to |-> <<"documents">>])>>) : p \in Patterns}

CC(field, operator, value) == [field |-> field, operator |-> operator, value |-> value]
Conds == {CC("extension", "IN", {"pdf"}), CC("extension", "IN", {}), CC("ageDays", "GTE", 1),
          CC("modifiedAgeDays", "GTE", 2), CC("modifiedAgeDays", "GT", 1),
          CC("createdAgeDays", "GTE", 1), CC("createdAgeDays", "GT", 1),
          CC("sizeBytes", "GTE", 2), CC("sizeBytes", "LTE", 1), CC("relativePath", "STARTS_WITH", <<"documents">>),
          CC("fileKind", "EQ", "DIRECTORY"), CC("name", "CONTAINS", <<"A", "b">>),
          CC("name", "STARTS_WITH", <<"a">>), CC("name", "ENDS_WITH", <<"a">>), CC("name", "ENDS_WITH", <<>>)}
MCDrafts == [match : {"ALL", "ANY"},
             conditions : {<<c>> : c \in Conds} \cup (Conds \X Conds) \cup {<<>>},
             action : {[type |-> "MOVE", target |-> <<"images">>], [type |-> "TRASH", target |-> <<>>],
                       [type |-> "CREATE_DIR", target |-> <<"documents">>],
                       [type |-> "MOVE", target |-> <<"..">>]}]
MCPolicies == [enabled : {TRUE}, allowed : {{"move"}, {"trash", "create_dir"}}, max : {1, 3}]
    \cup {[enabled |-> FALSE, allowed |-> {"move"}, max |-> 1], [enabled |-> TRUE, allowed |-> {}, max |-> 1]}
MCDecisions == {<<>>, << <<1, "approved">> >>, << <<1, "approved">>, <<2, "approved">> >>,
    << <<1, "approved">>, <<1, "rejected">> >>, << <<0, "approved">> >>,
    << <<1, "rejected">>, <<2, "approved">> >>, << <<1, "rejected_without_reason">> >>}
====
