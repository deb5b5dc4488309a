------------------------------ MODULE MCRefresh ------------------------------
(* Model values for Frame: account p tells its quota in response headers,    *)
(* account q only when asked.                                               *)
EXTENDS Frame, TLC

CONSTANTS p, q, loop, other

NoSignals == [windows |-> "none", at |-> 0]

Entry(kind, base, model) == [kind |-> kind, base |-> base, model |-> model]

MCEntries ==
    (p :> {Entry("live", NoSignals, NoSignals),
           Entry("live", [windows |-> "low", at |-> 1], NoSignals),
           Entry("live", [windows |-> "low", at |-> 1],
                         [windows |-> "ok", at |-> 3]),
           Entry("disabled", NoSignals, NoSignals),
           Entry("noindex", NoSignals, NoSignals)})
    @@ (q :> {Entry("live", NoSignals, NoSignals)})

MCReplies ==
    (p :> {[windows |-> "none", cards |-> "unread"],
           [windows |-> "ok", cards |-> "unread"],
           [windows |-> "blank", cards |-> "cards"]})
    @@ (q :> {[windows |-> "none", cards |-> "unread"],
              [windows |-> "ok", cards |-> "empty"]})
-----------------------------------------------------------------------------
(* The answers of a row of one or two accounts.                              *)

Rows(S) == {<<>>} \cup {<<x>> : x \in S}
Pairs(S, T) == {<<x, y>> : x \in S, y \in T}

\* A percentage that is absent, no number, within or beyond its range.
Fields == {Missing, Bad, 30, 95, 130}

Span(used, seconds) ==
    [used |-> used, resetAt |-> 0, resetAfter |-> 60, seconds |-> seconds]

Spans == {Span(u, s) : u \in Fields, s \in {Missing, 18000}} \cup {Span(95, 604800)}

Codex(primary, secondary, additional) ==
    <<[limit |-> [primary |-> primary, secondary |-> secondary],
       additional |-> additional]>>

Extra(name, span) == [name |-> name, primary |-> span, secondary |-> Span(Missing, Missing)]

Asked(first, second, alive) == [answers |-> <<first, second>>, live |-> alive, now |-> 2]

CodexCalls ==
    {Asked(Codex(x, y, <<>>), <<>>, TRUE) : x \in Spans, y \in Spans}
    \cup {Asked(Codex(Span(30, Missing), Span(30, Missing), <<Extra(name, x)>>), <<>>, TRUE) :
             name \in {<<>>, <<"">>, <<"spark">>}, x \in Spans}
    \cup {Asked(<<>>, Codex(x, Span(Bad, Missing), <<>>), alive) : x \in Spans, alive \in BOOLEAN}
    \cup {Asked(<<>>, <<>>, TRUE)}

OneCodexCall == Asked(Codex(Span(30, Missing), Span(95, Missing), <<>>), <<>>, TRUE)

MCCodexRows == Rows(CodexCalls) \cup Pairs(CodexCalls, {OneCodexCall})

Claude(usage, percents, active) ==
    <<[usage |-> usage @@ [key \in Range(ClaudeKeys) |-> Missing],
       extra |-> [enabled |-> active, used |-> 30], reset |-> 1,
       limits |-> [i \in DOMAIN percents |->
                      [kind |-> "weekly_scoped", model |-> "fable",
                       percent |-> percents[i], active |-> i = 2 /\ active]]]>>

ClaudeAnswers ==
    {<<>>} \cup {Claude(usage, percents, active) :
        usage \in [{"five_hour", "seven_day"} -> Fields] \cup [{"iguana_necktie"} -> {30}],
        percents \in {<<>>, <<Bad, 30>>, <<30, 95>>}, active \in BOOLEAN}

MCClaudeRows == Rows(ClaudeAnswers) \cup Pairs(ClaudeAnswers, {Claude([five_hour |-> 60], <<>>, FALSE)})

Amounts == [limit : {Missing, 0, 50}, remaining : {Missing, 15, 60}, used : {Missing, 35}, reset : {0}]

Kimi(usage, limits) ==
    <<[usage |-> usage, limits |-> [i \in DOMAIN limits |-> limits[i] @@
          [duration |-> 300, unit |-> IF i = 2 THEN "day" ELSE "minute"]]]>>

KimiAnswers ==
    {<<>>} \cup {Kimi(usage, <<>>) : usage \in Amounts}
    \cup {Kimi(usage, <<x>>) : usage \in Amounts, x \in Amounts}
    \cup {Kimi(x, <<x, y, y>>) : x \in Amounts, y \in Amounts}

MCKimiRows == Rows(KimiAnswers) \cup Pairs(KimiAnswers, {Kimi([limit |-> 50, remaining |-> 20,
                                                        used |-> Missing, reset |-> 0], <<>>)})

Bucket(id, left) == [id |-> id, left |-> left, reset |-> 0]

Buckets == {Bucket(id, left) : id \in {FiveHours, OneMonth}, left \in {Bad, 30, 95}}
           \cup {Bucket(Named(""), 30), Bucket(SevenDays, 30)}

SomeGroups == {[family |-> family, buckets |-> buckets] :
               family \in {"flash", "gemini", "other"},
               buckets \in Rows(Buckets) \cup {<<Bucket(FiveHours, 95), Bucket(FiveHours, 30)>>}}

GroupAnswers == {<<>>} \cup {<<groups>> : groups \in Rows(SomeGroups) \cup Pairs(SomeGroups, SomeGroups)}

Account(answers) == [project |-> "", loaded |-> "x", answers |-> answers]

OneGroup == <<<<[family |-> "flash", buckets |-> <<Bucket(FiveHours, 60)>>]>>>>

MCAntigravityRows ==
    {<<Account(<<x>>)>> : x \in GroupAnswers}
    \cup {<<Account(<<<<>>, x, OneGroup>>), Account(<<OneGroup>>)>> : x \in GroupAnswers}
    \cup {<<[project |-> "", loaded |-> "", answers |-> <<OneGroup>>]>>}

MCOpenCodeRows == Rows(GroupAnswers) \cup Pairs(GroupAnswers, {OneGroup})

Grok(used, limit, spent, period, start, end) ==
    <<[used |-> used, limit |-> limit, spent |-> spent, period |-> period,
       periodStart |-> start, periodEnd |-> end, billingEnd |-> 0]>>

GrokAnswers ==
    {<<>>} \cup {Grok(used, limit, spent, period, 0, end) :
        used \in Fields, limit \in {Missing, 0, 50}, spent \in {Bad, -5, 15, 60},
        period \in {"weekly", "monthly", ""}, end \in {0, 4}}
    \cup {Grok(used, Missing, Missing, "weekly", 1, 0) : used \in Fields}

OneGrok(period) == Grok(60, Missing, Missing, period, 0, 4)

\* The other accounts of a row have the same period, another, or both others.
MCXAIRows ==
    Rows(GrokAnswers) \cup Pairs(GrokAnswers, {OneGrok("weekly"), OneGrok("monthly")})
    \cup {<<OneGrok("monthly"), x, OneGrok("")>> : x \in GrokAnswers}

HeaderPairs == [primary : [used : Fields, reset : {0}], secondary : [used : Fields, reset : {0}]]

MCPassiveRows == Rows(HeaderPairs) \cup Pairs(HeaderPairs, HeaderPairs)

Cards == [status : {"", "available"}, expires : {0, 1, 3, 7}]
         \cup [status : {"redeemed"}, expires : {3}]

CardCall(cards) == Asked(<<[credits |-> cards]>>, <<>>, TRUE)

MCCardRows ==
    {<<CardCall(cards)>> : cards \in UNION {[1 .. n -> Cards] : n \in 0 .. 3}}
    \cup {<<CardCall(cards), Asked(<<>>, <<[credits |-> cards]>>, alive), CardCall(<<>>)>> :
             cards \in [1 .. 2 -> Cards], alive \in BOOLEAN}

MCUsageDays == [1 .. 4 -> {<<>>, <<0>>, <<5>>, <<700>>}]
               \cup {[i \in 1 .. 8 |-> <<9 - i>>]}

\* Some short configurations, and those of all rows but some, which go beyond the
\* limit of five by one.
MCSlots ==
    LET all == <<<<"codex">>, <<"xai", "grok">>, <<"kimi">>, <<>>, <<"anthropic">>,
                 <<"opencode-go">>, <<"antigravity">>>>
    IN  UNION {[1 .. n -> {<<"codex">>, <<"xai", "grok">>, <<"grok">>, <<"google">>, <<>>, <<"kimi">>}] :
                  n \in 0 .. 3}
        \cup {Only(all, I) : I \in SUBSET DOMAIN all}
=============================================================================
