-------------------------------- MODULE Frame --------------------------------
(***************************************************************************)
(* What the frame shows: the rows of Dashboard over the accounts of the     *)
(* snapshot of Refresh, and over the windows that the adapters of Readings  *)
(* make of the answers of Inputs.                                           *)
(***************************************************************************)
EXTENDS Refresh, Inputs

\* The one row of all accounts.
SnapshotRow == Row("codex", snapshot.accounts)

(* A row drawn as "ok" on a frame that is not marked stale is true of every
   enabled account behind it: more than the low threshold was left of it, read
   in the latest refresh (layout.go:67, viewmodel.go:228, service.go:253). *)
OkRowIsCurrent ==
    SnapshotRow.class = "ok" /\ ~snapshot.stale =>
        \A a \in DOMAIN snapshot.accounts :
            LET x == snapshot.accounts[a]
            IN  x.status # "disabled" => x.windows = "ok" /\ x.at = snapshot.n

-----------------------------------------------------------------------------
\* The row over the windows of some accounts shows, for each of some ids, the
\* least of what was reported for one of them.
ShowsLeastOf(ids, group, windows, reported) ==
    LET shown == AggregateWindows(group, FlattenSeq(windows))
        LeftShown(id) == {shown[i].left : i \in {j \in DOMAIN shown : shown[j].id = id}}
    IN  \A id \in ids :
            LET all == {r[2] : r \in {q \in UNION Range(reported) : q[1] = id}}
            IN  LeftShown(id) \ {Missing} = {n \in all : \A k \in all : n <= k}

\* A row has a place for each id that its group prefers.
ShowsLeast(group, windows, reported) ==
    ShowsLeastOf(Range(Preferred(group)), group, windows, reported)

\* A Grok row prefers none: those it shows, and all that were reported if its two
\* places are enough for them.
GrokIds(windows, reported) ==
    LET shown == AggregateWindows("xai", FlattenSeq(windows))
        ids == {r[1] : r \in UNION Range(reported)}
    IN  {shown[i].id : i \in DOMAIN shown} \cup (IF Cardinality(ids) <= 2 THEN ids ELSE {})

GrokShowsLeast(row) ==
    LET windows == [i \in DOMAIN row |-> FetchXAI(row[i])]
        reported == [i \in DOMAIN row |-> XAIReported(row[i])]
    IN  ShowsLeastOf(GrokIds(windows, reported), "xai", windows, reported)

\* Every additional limit of the account has no name, or one that shows in the id
\* of its windows.
Distinguished(call) ==
    LET answer == Answered(call)
    IN  answer # <<>> => \A i \in DOMAIN answer[1].additional :
                            answer[1].additional[i].name # <<"">>

\* The percentage of a Grok account is absent or one, or there are the amounts.
Undrifted(answers) ==
    answers # <<>> => LET answer == answers[1]
                      IN  answer.used = Missing \/ Percentage(answer.used) \/ Amounted(answer)

PercentagesShown ==
    /\ \A row \in CodexRows :
          (\A i \in DOMAIN row : Distinguished(row[i])) =>
          ShowsLeast("codex",
                     [i \in DOMAIN row |-> FetchCodex(row[i].answers, row[i].live, row[i].now)],
                     [i \in DOMAIN row |-> CodexReported(row[i])])
    /\ \A row \in ClaudeRows :
          ShowsLeast("claude", [i \in DOMAIN row |-> FetchClaude(row[i])],
                               [i \in DOMAIN row |-> ClaudeReported(row[i])])
    /\ \A row \in KimiRows :
          ShowsLeast("kimi", [i \in DOMAIN row |-> FetchKimi(row[i])],
                             [i \in DOMAIN row |-> KimiReported(row[i])])
    /\ \A row \in AntigravityRows :
          ShowsLeast("antigravity",
                     [i \in DOMAIN row |->
                         FetchAntigravity(row[i].project, row[i].loaded, row[i].answers)],
                     [i \in DOMAIN row |-> AntigravityReported(row[i])])
    /\ \A row \in OpenCodeRows :
          ShowsLeast("opencode", [i \in DOMAIN row |-> FetchOpenCode(row[i])],
                                 [i \in DOMAIN row |-> OpenCodeReported(row[i])])
    /\ \A row \in XAIRows : (\A i \in DOMAIN row : Undrifted(row[i])) => GrokShowsLeast(row)
    /\ \A row \in PassiveRows, group \in {"codex", "claude"} :
          ShowsLeast(group, [i \in DOMAIN row |-> PassiveWindows(row[i])],
                            [i \in DOMAIN row |-> PassiveReported(row[i])])

\* The cards shown are cards to be had, the soonest first; the others are counted
\* and none of them expires before one that is shown.
RowCards(row) ==
    LET Cards(call) == ResetCards(call.answers, call.live, call.now)
        lists == [i \in DOMAIN row |-> IF Cards(row[i]) = <<>> THEN <<>> ELSE Cards(row[i])[1]]
    IN  ShownCards(FlattenSeq(lists))

CardsShown ==
    \A row \in CardRows :
        LET all == CardsOf(row)
            shown == RowCards(row)[1]
        IN  /\ Len(shown) + RowCards(row)[2] = Cardinality(all)
            /\ \A i, j \in DOMAIN shown : i < j => ~Sooner(shown[j], shown[i])
            /\ \E card \in Injection(DOMAIN shown, all) :
                  \A i \in DOMAIN shown :
                     /\ Expiry(row, card[i]) = shown[i]
                     /\ \A c \in all \ Range(card) : ~Sooner(Expiry(row, c), shown[i])

\* A day has a bar exactly when it has tokens, the peak the highest of all.
UsageShown ==
    \A answers \in UsageDays :
        LET usage == FetchUsage(answers)
            days == LastDays(usage[1])
            data == UsageData(usage[1])
        IN  usage # <<>> => \A i, j \in DOMAIN days :
                /\ days[i] <= data.peak /\ data.heights[i] \in 0 .. 100
                /\ days[i] = 0 <=> data.heights[i] = 0
                /\ days[i] = data.peak /\ days[i] # 0 => data.heights[i] = 100
                /\ days[i] <= days[j] => data.heights[i] <= data.heights[j]

\* The rows that are configured are at most five, of a group each.
RowsConfigured ==
    \A slots \in Slots :
        LET rows == ParseDisplayProviders(slots)
        IN  /\ Len(rows) <= 5
            /\ \A i, j \in DOMAIN rows : rows[i].group = rows[j].group => i = j

\* A state of the start: what does not depend on the state is evaluated there.
AtStart == clock = 0 /\ pc = [c \in Callers |-> "idle"] /\ live = Callers

(* A percentage on a row, of the adapter of any provider or of response headers,
   is the least reported for that window and any of its accounts, neither made
   up from a field that is absent or out of range, nor taken from a model outside
   the pool the row stands for; cards, usage bars and rows are those reported too
   (providers.go:183, 294 and 560, passive.go:55, layout.go:134,
   viewmodel.go:316).  Two kinds of rows are left out: those of a Codex account
   with an additional limit whose name slug empties, which the code takes for
   the account's own (providers.go:366 and 802), and those that DriftRejected is
   about. *)
ShownAsReported ==
    AtStart => PercentagesShown /\ CardsShown /\ UsageShown /\ RowsConfigured

(* A percentage beyond its range, or that is no number, is rejected: a Grok row
   does not show what no account of it reported, as
   TestProviderUnitValidatorsRejectSchemaDrift has it of the validator
   (providers_test.go:214). *)
DriftRejected == AtStart => \A row \in XAIRows : GrokShowsLeast(row)
=============================================================================
