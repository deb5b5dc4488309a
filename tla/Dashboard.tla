------------------------------ MODULE Dashboard ------------------------------
(***************************************************************************)
(* internal/dashboard: the rows of the frame from the accounts of a         *)
(* snapshot, one for each configured provider (layout.go, viewmodel.go and  *)
(* providers.go).  Drawing, wording and the usage chart are left out.       *)
(***************************************************************************)
EXTENDS Readings

\* A provider shown: the account providers it takes in and its group.
DefaultDisplayProviders ==
    <<[ids |-> <<"codex">>, group |-> "codex"], [ids |-> <<"xai">>, group |-> "xai"],
      [ids |-> <<"kimi">>, group |-> "kimi"]>>

StatusRank(status) ==
    CASE status = "error" -> 5 [] status = "exhausted" -> 4 [] status = "low" -> 3
      [] status = "disabled" -> 2 [] status = "unknown" -> 1 [] OTHER -> 0

\* The accounts that count: the enabled ones, or all if there is none.
Effective(matching) ==
    LET enabled == {i \in DOMAIN matching : matching[i].status # "disabled"}
    IN  IF enabled # {} THEN enabled ELSE DOMAIN matching

\* The worst status.
RowStatus(accounts) ==
    LET statuses == {"ok"} \cup {x.status : x \in accounts}
    IN  CHOOSE s \in statuses : \A t \in statuses : StatusRank(s) >= StatusRank(t)

\* Mutant: a row is stale when all of it is.
BugRowStale(accounts) == \A x \in accounts : x.stale

\* Whether any account is stale or has a warning.
RowStale(accounts) == \E x \in accounts : x.stale \/ x.warning # "none"

RowStatusClass(status, stale) ==
    IF status \in {"low", "exhausted", "error"} THEN "urgent"
    ELSE IF status \in {"disabled", "missing", "unknown"} \/ stale THEN "warn"
    ELSE "ok"

\* aggregateWindows over the windows of all accounts, one after the other.
Preferred(group) ==
    CASE group \in {"codex", "kimi", "claude", "antigravity"} -> <<FiveHours, SevenDays>>
      [] group = "opencode" -> <<FiveHours, SevenDays, OneMonth>>
      [] OTHER -> <<>>

AggregateWindows(group, windows) ==
    LET limit == IF group = "opencode" THEN 3 ELSE 2
        ids == Arranged(Preferred(group), windows)
        count == IF Len(ids) > limit THEN limit ELSE Len(ids)
    IN  [i \in 1 .. count |-> Least(windows, ids[i])]

\* buildResetCards over aggregateResetCards: the three soonest and the rest.
ShownCards(cards) ==
    LET count == IF Len(cards) > 3 THEN 3 ELSE Len(cards)
    IN  <<SubSeq(Sorted(cards), 1, count), Len(cards) - count>>

\* aggregateRows with rowStatusClass, for one provider and the accounts that
\* match it, whatever they are numbered by.
Row(group, matching) ==
    LET accounts == {matching[i] : i \in Effective(matching)}
        missing == DOMAIN matching = {}
        status == IF missing THEN "missing" ELSE RowStatus(accounts)
        stale == ~missing /\ RowStale(accounts)
    IN  [group |-> group, status |-> status, stale |-> stale,
         class |-> RowStatusClass(status, stale), count |-> Cardinality(Effective(matching))]

\* displayedErrors: those of account providers without a row are not shown.
DisplayedErrors(errors, accountProviders, providers) ==
    LET shown == UNION {Range(providers[i].ids) : i \in DOMAIN providers}
    IN  Only(errors, {i \in DOMAIN errors : errors[i].provider \notin accountProviders \ shown})

\* buildWindowData and buildBarSegments: ten segments of ten percent each.
PercentClass(left) ==
    IF left = Missing THEN "muted"
    ELSE IF Percent(left) < 10 THEN "urgent" ELSE IF Percent(left) < 40 THEN "warn" ELSE "ok"

BarSegments(left) ==
    LET value == IF left = Missing THEN 0 ELSE Percent(left)
    IN  [i \in 1 .. 10 |-> Percent((value - 10 * (i - 1)) * 10)]

\* buildUsageData: the last seven days, the first of the greatest ones as peak.
UsageBarHeight(tokens, most) ==
    IF tokens <= 0 \/ most <= 0 THEN 0
    ELSE LET height == (100 * tokens) \div most
         IN  IF height < 4 THEN 4 ELSE IF height > 100 THEN 100 ELSE height

LastDays(days) == SubSeq(days, IF Len(days) > 7 THEN Len(days) - 6 ELSE 1, Len(days))

UsageData(days) ==
    LET last == LastDays(days)
        tokens == {0} \cup Range(last)
        most == CHOOSE m \in tokens : \A t \in tokens : t <= m
    IN  [heights |-> [i \in DOMAIN last |-> UsageBarHeight(last[i], most)],
         peak |-> most, total |-> FoldLeft(+, 0, last)]

\* ParseDisplayProviders: at most five slots, each group once; <<>> is an error.
ParseDisplayProviders(slots) ==
    LET Canonical(id) == CASE id \in {"anthropic"} -> "claude"
                           [] id = "anti-gravity" -> "antigravity"
                           [] id = "grok" -> "xai"
                           [] id \in {"opencode-go", "opencode-go-oauth"} -> "opencode"
                           [] OTHER -> id
        named == Only(slots, {i \in DOMAIN slots : slots[i] # <<>>})
        Ids(slot) == Arranged(<<>>, [i \in DOMAIN slot |-> [id |-> Canonical(slot[i])]])
        parsed == [i \in DOMAIN named |-> [ids |-> Ids(named[i]), group |-> Ids(named[i])[1]]]
        removed == {"gemini", "gemini-cli", "gemini-cli-oauth", "google"}
        refused == \/ \E i \in DOMAIN named : Range(named[i]) \cap (removed \cup {""}) # {}
                   \/ \E i, j \in DOMAIN parsed : i # j /\ parsed[i].group = parsed[j].group
    IN  IF slots = <<>> THEN DefaultDisplayProviders
        ELSE IF parsed = <<>> \/ Len(parsed) > 5 \/ refused THEN <<>> ELSE parsed
=============================================================================
