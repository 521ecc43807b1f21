-------------------------------- MODULE Rules --------------------------------
(***************************************************************************)
(* From rules to approved proposals (tools/file-engine-cli: rules/,        *)
(* analyzer.rs, proposal.rs, decision.rs, auto_approval.rs).               *)
(*                                                                         *)
(* A rule set comes from rules.json, from the built-in preset or from a    *)
(* draft in the contract's form.  It is validated, applied to a scan of    *)
(* the folder, and the proposals it gives are approved by a policy or by   *)
(* decisions of the user and then executed.                                *)
(*                                                                         *)
(* A path is the sequence of its components; a component is a token, and   *)
(* Info tells what the engine reads off its spelling: its place in the     *)
(* order of names, its characters, its extension and its lower-case form.  *)
(***************************************************************************)
EXTENDS Integers, Sequences, FiniteSets, SequencesExt

CONSTANTS
    Info,          \* token -> [rank, chars, ext, lower]
    Disks,         \* scans to start from: sets of file entries
    Stored,        \* contents of rules.json: [state, set], state absent, garbled or rules
    Drafts,        \* drafts in the contract's form
    Policies,      \* automatic approval policies
    Decisions,     \* kinds of decisions the user gives: sets of <<index, kind>>
    Now,           \* the clock, in ticks
    Day            \* ticks of a day

ASSUME ClockAssumption == Now \in Nat /\ Day \in Nat \ {0}

None == "none"
NoStamp == -1
NoFile == [path |-> <<>>, kind |-> None, size |-> 0, modified |-> NoStamp, created |-> NoStamp]
NoRules == [version |-> 0, rules |-> <<>>]
NoDraft == [match |-> None, conditions |-> <<>>, action |-> [type |-> None, target |-> <<>>]]
CurrentVersion == 1
InternalDirs == {".mousekeeper", ".mousekeeper_trash"}

VARIABLES
    disk,          \* the entries of the folder
    phase,         \* idle, proposed, decided, executed or failed
    draft,         \* the draft the proposal was made from, if any
    rules,         \* the rule set of the proposal
    report,        \* its proposals, in order
    decisions,     \* the decision entries given for them
    approved       \* the proposals that may be executed

vars == <<disk, phase, draft, rules, report, decisions, approved>>

-----------------------------------------------------------------------------
(* Names and paths.                                                        *)

FileName(path) == Last(path)
ExtensionOf(path) == Info[FileName(path)].ext
\* normalize_relative_path: separators and case do not count.
Normalize(path) == [i \in DOMAIN path |-> Info[path[i]].lower]
Chars(path) == Info[FileName(path)].chars
LowerChar(ch) == IF ch = "A" THEN "a" ELSE ch
LowerChars(cs) == [i \in DOMAIN cs |-> LowerChar(cs[i])]

\* Relative paths in order, component by component.
PathLess(p, q) ==
    \E i \in 1..Len(q) :
        /\ Len(p) >= i - 1 /\ \A j \in 1..i-1 : p[j] = q[j]
        /\ Len(p) >= i => Info[p[i]].rank < Info[q[i]].rank

\* Mutant: the fall-back goes on from the mismatch instead of the star's place.
GlobMatchNoReturn(pattern, text) ==
    LET pat == LowerChars(pattern)
        txt == LowerChars(text)
        At(p, ch) == p <= Len(pat) /\ pat[p] = ch
        loop[s \in Nat \X Nat \X Nat \X Nat] ==
            LET p == s[1]  t == s[2]  star == s[3]  starText == s[4] IN
            CASE t > Len(txt) -> \A i \in p..Len(pat) : pat[i] = "*"
              [] t <= Len(txt) /\ (At(p, "?") \/ At(p, txt[t])) ->
                    loop[<<p + 1, t + 1, star, starText>>]
              [] t <= Len(txt) /\ ~At(p, "?") /\ ~At(p, txt[t]) /\ At(p, "*") ->
                    loop[<<p + 1, t, p, t>>]
              [] OTHER -> star # 0 /\ loop[<<star + 1, t + 1, star, t + 1>>]
    IN  loop[<<1, 1, 0, 0>>]

\* glob_match: one pass with a fall-back to the latest star (0: none yet).
GlobMatch(pattern, text) ==
    LET pat == LowerChars(pattern)
        txt == LowerChars(text)
        At(p, ch) == p <= Len(pat) /\ pat[p] = ch
        loop[s \in Nat \X Nat \X Nat \X Nat] ==
            LET p == s[1]  t == s[2]  star == s[3]  starText == s[4] IN
            CASE t > Len(txt) -> \A i \in p..Len(pat) : pat[i] = "*"
              [] t <= Len(txt) /\ (At(p, "?") \/ At(p, txt[t])) ->
                    loop[<<p + 1, t + 1, star, starText>>]
              [] t <= Len(txt) /\ ~At(p, "?") /\ ~At(p, txt[t]) /\ At(p, "*") ->
                    loop[<<p + 1, t, p, t>>]
              [] OTHER -> star # 0 /\ loop[<<star + 1, starText + 1, star, starText + 1>>]
    IN  loop[<<1, 1, 0, 0>>]

NameContains(value, needle) == \E i \in 1..Len(value)+1 :
    IsPrefix(LowerChars(needle), SubSeq(LowerChars(value), i, Len(value)))
NameStartsWith(value, prefix) == IsPrefix(LowerChars(prefix), LowerChars(value))
NameEndsWith(value, suffix) == IsSuffix(LowerChars(suffix), LowerChars(value))

\* age_days_matches: saturating subtraction, no timestamp never matches.
AgeGte(stamp, days) == stamp # NoStamp /\ (IF Now > stamp THEN Now - stamp ELSE 0) >= days * Day
AgeGt(stamp, days) == stamp # NoStamp /\ (IF Now > stamp THEN Now - stamp ELSE 0) > days * Day

-----------------------------------------------------------------------------
(* Rules.  A Condition maps the fields that are present to their values,   *)
(* and so does an Action (move_to, trash, create_dir).                     *)

\* rule_matches, one arm per field.
Holds(field, v, file) ==
    CASE field = "extension_in" -> ExtensionOf(file.path) # None /\ ExtensionOf(file.path) \in v
      [] field \in {"older_than_days", "modified_age_days_gte"} -> AgeGte(file.modified, v)
      [] field = "modified_age_days_gt" -> AgeGt(file.modified, v)
      [] field = "created_age_days_gte" -> AgeGte(file.created, v)
      [] field = "created_age_days_gt" -> AgeGt(file.created, v)
      [] field = "size_bytes_gte" -> file.size >= v
      [] field = "size_bytes_lte" -> file.size <= v
      [] field = "relative_path_starts_with" -> IsPrefix(Normalize(v), Normalize(file.path))
      [] field = "file_kind" -> v = "FILE"
      [] field = "name_matches" -> GlobMatch(v, Chars(file.path))
      [] field = "name_contains" -> NameContains(Chars(file.path), v)
      [] field = "name_starts_with" -> NameStartsWith(Chars(file.path), v)
      [] field = "name_ends_with" -> NameEndsWith(Chars(file.path), v)

RuleMatches(rule, file) == \A f \in DOMAIN rule.when : Holds(f, rule.when[f], file)

\* validate_relative_dir, on the components of the target.
ValidRelativeDir(target) == target # <<>> /\ Range(target) \cap {"/", "..", "."} = {}

\* Condition::is_empty and Rule::validate.
RuleValid(rule) ==
    /\ rule.id # <<>>
    /\ DOMAIN rule.when # {}
    /\ "extension_in" \in DOMAIN rule.when => rule.when["extension_in"] # {}
    /\ \A f \in {"name_matches", "name_contains", "name_starts_with", "name_ends_with"}
                 \cap DOMAIN rule.when : rule.when[f] # <<>>
    /\ "relative_path_starts_with" \in DOMAIN rule.when =>
          ValidRelativeDir(rule.when["relative_path_starts_with"])
    /\ Cardinality(DOMAIN rule.then) = 1
    /\ \A a \in DOMAIN rule.then \ {"trash"} : ValidRelativeDir(rule.then[a])

\* RuleSet::validate.
RuleSetValid(set) ==
    /\ set.version = CurrentVersion
    /\ \A i \in DOMAIN set.rules : RuleValid(set.rules[i])
    /\ \A i, j \in DOMAIN set.rules : set.rules[i].id = set.rules[j].id => i = j

-----------------------------------------------------------------------------
(* Drafts in the contract's form: a match mode, a sequence of conditions   *)
(* and an action.                                                          *)

\* apply_contract_condition: the field a condition is stored in.
FieldOf(cc) ==
    CASE cc.field = "extension" -> "extension_in"
      [] cc.field = "ageDays" -> "older_than_days"
      [] cc.field = "modifiedAgeDays" ->
            IF cc.operator = "GTE" THEN "modified_age_days_gte" ELSE "modified_age_days_gt"
      [] cc.field = "createdAgeDays" ->
            IF cc.operator = "GTE" THEN "created_age_days_gte" ELSE "created_age_days_gt"
      [] cc.field = "sizeBytes" ->
            IF cc.operator = "GTE" THEN "size_bytes_gte" ELSE "size_bytes_lte"
      [] cc.field = "relativePath" -> "relative_path_starts_with"
      [] cc.field = "fileKind" -> "file_kind"
      [] cc.field = "name" ->
            CASE cc.operator = "CONTAINS" -> "name_contains"
              [] cc.operator = "STARTS_WITH" -> "name_starts_with"
              [] cc.operator = "ENDS_WITH" -> "name_ends_with"

\* Mutant: the later condition replaces the earlier one.
SetAlways(conditions) == TRUE

\* set_once: two conditions on one field are ambiguous.
SetOnce(conditions) ==
    \A i, j \in DOMAIN conditions : FieldOf(conditions[i]) = FieldOf(conditions[j]) => i = j

\* The Condition that a sequence of contract conditions fills in.
ConditionOf(conditions) ==
    [f \in {FieldOf(conditions[i]) : i \in DOMAIN conditions} |->
        conditions[CHOOSE i \in DOMAIN conditions :
            /\ FieldOf(conditions[i]) = f
            /\ \A j \in i+1..Len(conditions) : FieldOf(conditions[j]) # f].value]

\* ContractAction::into_action.
IntoAction(a) ==
    CASE a.type = "MOVE" -> [move_to |-> a.target]
      [] a.type \in {"QUARANTINE", "TRASH"} -> [trash |-> TRUE]
      [] a.type = "CREATE_DIR" -> [create_dir |-> a.target]

\* ContractRuleDefinition::into_rule_set: ALL is one rule, ANY one rule per
\* condition.
IntoRuleSet(d) ==
    [version |-> CurrentVersion,
     rules |-> IF d.match = "ALL"
               THEN << [id |-> <<0>>, priority |-> 0, when |-> ConditionOf(d.conditions),
                        then |-> IntoAction(d.action)] >>
               ELSE [i \in DOMAIN d.conditions |->
                        [id |-> <<0, i>>, priority |-> 0,
                         when |-> ConditionOf(<<d.conditions[i]>>),
                         then |-> IntoAction(d.action)]]]

\* from_contract_definition and rule_set_from_draft_value.
DraftAccepted(d) ==
    /\ d.match = "ALL" => SetOnce(d.conditions)
    /\ RuleSetValid(IntoRuleSet(d))

\* default_rule_set.
DefaultRuleSet ==
    [version |-> CurrentVersion,
     rules |-> << [id |-> <<1>>, priority |-> 10, when |-> [extension_in |-> {"pdf", "txt"}],
                   then |-> [move_to |-> <<"documents">>]],
                  [id |-> <<2>>, priority |-> 10, when |-> [extension_in |-> {"png"}],
                   then |-> [move_to |-> <<"images">>]] >>]

-----------------------------------------------------------------------------
(* Proposals.                                                              *)

\* analyze_root and collect_files: links are skipped and not followed, the
\* engine's own directories are left out, the files come in order.
Scanned(entry) ==
    /\ Range(entry.path) \cap InternalDirs = {}
    /\ \A e \in disk : e.kind \in {"link", "unreadable"} => ~IsPrefix(e.path, entry.path)
ScannedFiles ==
    SetToSortSeq({e \in disk : e.kind = "file" /\ Scanned(e)}, LAMBDA a, b : PathLess(a.path, b.path))
ScannedDirs == {e.path : e \in {x \in disk : x.kind = "dir" /\ Scanned(x)}}
ExistingPaths == {Normalize(f.path) : f \in Range(ScannedFiles)} \cup {Normalize(d) : d \in ScannedDirs}

Proposal(action, from, to, file, status) ==
    [id |-> <<action, Normalize(from), Normalize(to)>>, action |-> action, from |-> from,
     to |-> to, source |-> file, status |-> status]
\* Mutant: no look at what exists.
StatusAlwaysReady(target) == "ready"
StatusFor(target) == IF Normalize(target) \in ExistingPaths THEN "destination_exists" ELSE "ready"

\* move_, trash_ and create_dir_proposal_from_rule; a sequence of no or one
\* proposal.
MoveProposal(rule, file) ==
    LET target == Append(rule.then["move_to"], FileName(file.path)) IN
    IF Normalize(file.path) = Normalize(target) THEN <<>>
    ELSE <<Proposal("move", file.path, target, file, StatusFor(target))>>
TrashProposal(file) == <<Proposal("trash", file.path, <<".mousekeeper_trash">>, file, "ready")>>
CreateDirProposal(rule) ==
    LET target == rule.then["create_dir"] IN
    <<Proposal("create_dir", <<>>, target, NoFile, StatusFor(target))>>

ProposalFromRule(rule, file) ==
    IF ~RuleMatches(rule, file) THEN <<>>
    ELSE CASE DOMAIN rule.then = {"move_to"} -> MoveProposal(rule, file)
           [] DOMAIN rule.then = {"trash"} -> TrashProposal(file)
           [] DOMAIN rule.then = {"create_dir"} -> CreateDirProposal(rule)
           [] OTHER -> <<>>

IdLess(a, b) == \E i \in DOMAIN b : /\ Len(a) >= i - 1 /\ \A j \in 1..i-1 : a[j] = b[j]
                                    /\ Len(a) >= i => a[i] < b[i]
InOrder(a, b) == a.priority < b.priority \/ (a.priority = b.priority /\ IdLess(a.id, b.id))

\* RuleSet::propose: the rules in order, the first that yields a proposal.
ProposeFor(set, file) ==
    LET ordered == SetToSortSeq(Range(set.rules), InOrder)
        hits == {i \in DOMAIN ordered : ProposalFromRule(ordered[i], file) # <<>>}
    IN  IF hits = {} THEN <<>>
        ELSE ProposalFromRule(ordered[CHOOSE i \in hits : \A j \in hits : i <= j], file)

\* Mutant: the ids already seen are not remembered.
ProposalsRepeated(set) ==
    FoldLeft(LAMBDA acc, f : acc \o ProposeFor(set, f), <<>>, ScannedFiles)

\* propose_for_analysis_with_rule_set: a proposal id is reported once.
Proposals(set) ==
    LET all == FoldLeft(LAMBDA acc, f : acc \o ProposeFor(set, f), <<>>, ScannedFiles)
    IN  FoldLeft(LAMBDA acc, p : IF \E i \in DOMAIN acc : acc[i].id = p.id THEN acc
                                 ELSE Append(acc, p), <<>>, all)

-----------------------------------------------------------------------------
(* Approval.                                                               *)

\* AutoApprovalPolicy::validate.
PolicyValid(policy) == policy.enabled /\ policy.allowed # {} /\ policy.max > 0

\* auto_approve_decisions.
ReadyAllowed(policy) ==
    SelectSeq(report, LAMBDA p : p.status = "ready" /\ p.action \in policy.allowed)
AutoDecisions(policy) ==
    [i \in DOMAIN ReadyAllowed(policy) |-> [id |-> ReadyAllowed(policy)[i].id, kind |-> "approved"]]

\* apply_decisions: known, given once, a rejection with a reason.
DecisionsAccepted(ds) ==
    /\ \A i \in DOMAIN ds : \E j \in DOMAIN report : report[j].id = ds[i].id
    /\ \A i, j \in DOMAIN ds : ds[i].id = ds[j].id => i = j
    /\ \A i \in DOMAIN ds : ds[i].kind # "rejected_without_reason"
Approved(ds) ==
    SelectSeq(report, LAMBDA p : \E i \in DOMAIN ds : ds[i].id = p.id /\ ds[i].kind = "approved")

-----------------------------------------------------------------------------

Init ==
    /\ disk \in Disks
    /\ phase = "idle" /\ draft = NoDraft /\ rules = NoRules /\ report = <<>> /\ decisions = <<>> /\ approved = <<>>

Proposed(set, from) ==
    /\ draft' = from /\ rules' = set /\ report' = Proposals(set)
    /\ phase' = "proposed" /\ decisions' = <<>> /\ approved' = <<>>
    /\ UNCHANGED disk
Fails == phase' = "failed" /\ UNCHANGED <<disk, draft, rules, report, decisions, approved>>

\* propose_for_root with load_rule_set_for_root: no rules.json means the
\* preset, one that cannot be read or is not valid is an error.
ProposeForRoot(content) ==
    /\ phase = "idle"
    /\ CASE content.state = "absent" -> Proposed(DefaultRuleSet, NoDraft)
         [] content.state = "garbled" -> Fails
         [] content.state = "rules" ->
               IF RuleSetValid(content.set) THEN Proposed(content.set, NoDraft) ELSE Fails

\* A draft of the user or of the model behind the chat.
ProposeDraft(d) ==
    /\ phase = "idle"
    /\ IF DraftAccepted(d) THEN Proposed(IntoRuleSet(d), d) ELSE Fails

AutoApprove(policy) ==
    /\ phase = "proposed" /\ decisions = <<>>
    /\ IF PolicyValid(policy) /\ Len(ReadyAllowed(policy)) <= policy.max
       THEN decisions' = AutoDecisions(policy) /\ phase' = "auto"
       ELSE decisions' = <<>> /\ phase' = "failed"
    /\ UNCHANGED <<disk, draft, rules, report, approved>>

\* The user's decision file: an entry per chosen proposal (index 0 is an id of
\* another report).
UserDecides(choice) ==
    /\ phase = "proposed"
    /\ decisions' = [i \in DOMAIN choice |->
          [id |-> IF choice[i][1] \in DOMAIN report THEN report[choice[i][1]].id ELSE <<>>,
           kind |-> choice[i][2]]]
    /\ phase' = "user"
    /\ UNCHANGED <<disk, draft, rules, report, approved>>

\* approve_auto_cleanup_proposal_from_chat: one click approves every item, the
\* blocked ones too.
ApproveFromChat ==
    /\ phase = "proposed" /\ report # <<>>
    /\ decisions' = [i \in DOMAIN report |-> [id |-> report[i].id, kind |-> "approved"]]
    /\ phase' = "chat"
    /\ UNCHANGED <<disk, draft, rules, report, approved>>

ApplyDecisions ==
    /\ phase \in {"auto", "chat", "user"}
    /\ IF DecisionsAccepted(decisions)
       THEN approved' = Approved(decisions) /\ phase' = "decided"
       ELSE approved' = <<>> /\ phase' = "failed"
    /\ UNCHANGED <<disk, draft, rules, report, decisions>>

\* What execute_decision_application does to the folder, item by item (the
\* detail is module FileEngine's).  A link leads out of the folder, where
\* PathGuard lets nothing through.
ThroughLink(d, path) == \E e \in d : e.kind = "link" /\ IsPrefix(e.path, path)
Executed(d, p) ==
    CASE p.status # "ready" \/ ThroughLink(d, p.to) -> d
      [] p.action = "create_dir" ->
            IF \E e \in d : e.path = p.to THEN d
            ELSE d \cup {[path |-> p.to, kind |-> "dir", size |-> 0,
                         modified |-> NoStamp, created |-> NoStamp]}
      [] p.action = "trash" -> d \ {p.source}
      [] p.action = "move" ->
            IF \E e \in d : Normalize(e.path) = Normalize(p.to) THEN d
            ELSE (d \ {p.source}) \cup {[p.source EXCEPT !.path = p.to]}
ExecuteApproved ==
    /\ phase = "decided"
    /\ disk' = FoldLeft(Executed, disk, approved)
    /\ phase' = "executed"
    /\ UNCHANGED <<draft, rules, report, decisions, approved>>

Next ==
    \/ \E content \in Stored : ProposeForRoot(content)
    \/ \E d \in Drafts : ProposeDraft(d)
    \/ \E policy \in Policies : AutoApprove(policy)
    \/ \E choice \in Decisions : UserDecides(choice)
    \/ ApproveFromChat
    \/ ApplyDecisions
    \/ ExecuteApproved

Spec == Init /\ [][Next]_vars

-----------------------------------------------------------------------------
(* Properties.                                                             *)

\* Types of the variables.
TypeOK ==
    /\ phase \in {"idle", "proposed", "auto", "chat", "user", "decided", "executed", "failed"}
    /\ \A i \in DOMAIN report : report[i].status \in {"ready", "destination_exists"}
    /\ \A i \in DOMAIN approved : approved[i] \in Range(report)

\* What a glob means: the pattern is laid over the text, cut[i] being the place
\* in the text where the i-th sign of the pattern begins.
GlobMeans(pattern, text) ==
    LET pat == LowerChars(pattern)  txt == LowerChars(text) IN
    \E cut \in [1..Len(pat)+1 -> 1..Len(txt)+1] :
        /\ cut[1] = 1 /\ cut[Len(pat)+1] = Len(txt) + 1
        /\ \A i \in 1..Len(pat) :
              IF pat[i] = "*" THEN cut[i+1] >= cut[i]
              ELSE cut[i+1] = cut[i] + 1 /\ pat[i] \in {"?", txt[cut[i]]}

\* glob_match's single pass with one fall-back finds a match whenever there is
\* one: for every pattern of a rule and every name in the folder it agrees with
\* the meaning of the wildcards.
GlobIsComplete ==
    phase = "proposed" => \A r \in Range(rules.rules), e \in disk :
        "name_matches" \in DOMAIN r.when =>
            (GlobMatch(r.when["name_matches"], Chars(e.path))
                <=> GlobMeans(r.when["name_matches"], Chars(e.path)))

\* A contract condition, in the contract's own terms.
ContractHolds(cc, f) ==
    LET Cmp(x) == CASE cc.operator = "GTE" -> x >= cc.value [] cc.operator = "GT" -> x > cc.value
                    [] cc.operator = "LTE" -> x <= cc.value
        OlderThan(stamp) == stamp # NoStamp /\ LET age == IF stamp > Now THEN 0 ELSE Now - stamp IN
                                IF cc.operator = "GT" THEN age > cc.value * Day
                                ELSE age >= cc.value * Day
    IN  CASE cc.field = "extension" -> ExtensionOf(f.path) \in cc.value
          [] cc.field \in {"ageDays", "modifiedAgeDays"} -> OlderThan(f.modified)
          [] cc.field = "createdAgeDays" -> OlderThan(f.created)
          [] cc.field = "sizeBytes" -> Cmp(f.size)
          [] cc.field = "relativePath" -> IsPrefix(Normalize(cc.value), Normalize(f.path))
          [] cc.field = "fileKind" -> cc.value = "FILE"
          [] cc.field = "name" ->
                LET n == LowerChars(Chars(f.path))
                    v == LowerChars(cc.value)
                    At(i) == i >= 1 /\ i + Len(v) - 1 <= Len(n) /\ SubSeq(n, i, i + Len(v) - 1) = v
                IN  CASE cc.operator = "CONTAINS" -> \E i \in 1..Len(n) : At(i)
                      [] cc.operator = "STARTS_WITH" -> At(1)
                      [] cc.operator = "ENDS_WITH" -> At(Len(n) - Len(v) + 1)

\* A draft that is accepted means what it says: exactly the files that satisfy
\* all of its conditions (any of them, in mode ANY) get a proposal, apart from
\* the ones a move would leave where they are.  into_rule_set turns ANY into
\* several rules and ALL into one whose fields may be set only once.
DraftMeansItsConditions ==
    phase = "proposed" /\ draft # NoDraft =>
        \A f \in Range(ScannedFiles) :
            LET holds == {i \in DOMAIN draft.conditions : ContractHolds(draft.conditions[i], f)}
                chosen == IF draft.match = "ALL" THEN holds = DOMAIN draft.conditions ELSE holds # {}
                inPlace == draft.action.type = "MOVE"
                           /\ Normalize(f.path) = Normalize(Append(draft.action.target, FileName(f.path)))
            IN  ProposeFor(rules, f) # <<>> <=> chosen /\ ~inPlace

\* The decisions that are made without a decision file, by a policy or by one
\* click in the chat, are always accepted by apply_decisions, which refuses a
\* whole file with a repeated id, and each of them approves one proposal.
AutoDecisionsAreAccepted ==
    phase \in {"auto", "chat"} =>
        DecisionsAccepted(decisions) /\ Len(Approved(decisions)) = Len(decisions)

\* A draft comes to rest: once all of its ready proposals have been executed, a
\* new scan with the same rules has none left that is ready (two files with
\* the same name leave one that is blocked), except into a linked folder, which
\* the scan does not see and the executor refuses.
DraftComesToRest ==
    phase = "executed" /\ draft # NoDraft
        /\ (\A i \in DOMAIN report : report[i].status = "ready" => report[i] \in Range(approved)) =>
        \A p \in Range(Proposals(rules)) : p.status = "ready" => ThroughLink(disk, p.to)
====
