------------------------------- MODULE Readings -------------------------------
(***************************************************************************)
(* The quota adapters of internal/cliproxy (providers.go, opencode.go, the  *)
(* passive windows of passive.go): what each makes of the answers of its    *)
(* provider.  Requests and JSON are left out: an answer is <<r>>, r holding  *)
(* the fields that are read, or <<>> where the request failed; an adapter   *)
(* that returns no windows returns an error.                                *)
(*                                                                         *)
(* Percentages are whole numbers, fractions stand as hundredths; an id is a  *)
(* tuple instead of the text slug makes of a label.                         *)
(***************************************************************************)
EXTENDS Integers, SequencesExt, FiniteSets

\* The members of s at the positions I, in their order.
Only(s, I) == FlattenSeq([i \in DOMAIN s |-> IF i \in I THEN <<s[i]>> ELSE <<>>])

\* The members of the finite set S in the order of a relation.
InOrder(S, before) ==
    [k \in 1 .. Cardinality(S) |->
        CHOOSE x \in S : Cardinality({y \in S : y = x \/ <<y, x>> \in before}) = k]

\* Two numbers no provider reports: a field that is absent or null, and one
\* that is there but no number.
Missing == 900
Bad == 901

IsNumber(v) == v \notin {Missing, Bad}

Percentage(v) == IsNumber(v) /\ v >= 0 /\ v <= 100

Percent(v) == IF v < 0 THEN 0 ELSE IF v > 100 THEN 100 ELSE v

\* The id of a window: the limit it is of, <<>> for the account itself, and its
\* duration, if it has one.
FiveHours == <<<<>>, 5, "h">>
SevenDays == <<<<>>, 7, "d">>
OneMonth == <<<<>>, 1, "m">>
ThirtyDays == <<<<>>, 30, "d">>
Named(name) == <<<<name>>, 0, "">>

\* A window; a percentage that is not known is Missing, a reset time 0.
Window(id, left, used, reset) ==
    [id |-> id, left |-> left, used |-> used, reset |-> reset]

Used(id, used, reset) == Window(id, Percent(100 - used), Percent(used), reset)

\* A retried request: the first answer, or the second if it failed.
Retried(answers, live) ==
    IF answers[1] = <<>> /\ live THEN answers[2] ELSE answers[1]

-----------------------------------------------------------------------------
(* Codex. *)

CompactDuration(seconds) ==
    IF seconds <= 0 THEN <<0, "window">>
    ELSE CASE seconds % 86400 = 0 -> <<seconds \div 86400, "d">>
           [] seconds % 86400 # 0 /\ seconds % 3600 = 0 -> <<seconds \div 3600, "h">>
           [] seconds % 3600 # 0 /\ seconds % 60 = 0 -> <<seconds \div 60, "m">>
           [] OTHER -> <<seconds, "s">>

\* resetTime: the absolute time, else the delay.
ResetTime(payload, now) ==
    IF payload.resetAt # 0 THEN payload.resetAt
    ELSE IF IsNumber(payload.resetAfter) /\ payload.resetAfter >= 0
         THEN now + payload.resetAfter ELSE 0

CodexWindow(payload, label, fallback, now) ==
    LET reset == ResetTime(payload, now)
        unusable == payload.used # Missing /\ ~Percentage(payload.used)
        span == IF IsNumber(payload.seconds) THEN CompactDuration(payload.seconds)
                                             ELSE fallback
        id == <<label, span[1], span[2]>>
    IN  IF unusable \/ (payload.used = Missing /\ reset = 0) THEN <<>>
        ELSE IF payload.used = Missing
             THEN <<Window(id, Missing, Missing, reset)>>
             ELSE <<Used(id, payload.used, reset)>>

RateLimitWindows(limit, label, now) ==
    CodexWindow(limit.primary, label, <<5, "h">>, now)
        \o CodexWindow(limit.secondary, label, <<7, "d">>, now)

\* An additional limit without a name is numbered; a name without a letter or a
\* digit, of which slug leaves "", does not show in the id.
Label(limit, i) ==
    CASE limit.name = <<>> -> <<"Extra", i>> [] limit.name = <<"">> -> <<>>
      [] OTHER -> limit.name

FetchCodex(answers, live, now) ==
    LET answer == Retried(answers, live)
        extra == answer[1].additional
        additional == [i \in DOMAIN extra |->
                          RateLimitWindows(extra[i], Label(extra[i], i), now)]
    IN  IF answer = <<>> THEN <<>>
        ELSE RateLimitWindows(answer[1].limit, <<>>, now) \o FlattenSeq(additional)

\* Sorted by expiry, those without one (0) last; the sort is stable.
Sooner(x, y) == x # 0 /\ (y = 0 \/ x < y)

Sorted(expiries) ==
    LET all == DOMAIN expiries
        Before(i, j) == Sooner(expiries[i], expiries[j]) \/ (expiries[i] = expiries[j] /\ i < j)
        before == {p \in all \X all : Before(p[1], p[2])}
        order == InOrder(all, before)
    IN  [k \in DOMAIN order |-> expiries[order[k]]]

\* fetchCodexResetCards: the cards to be had, or <<>> where they could not be read.
Available(card, now) ==
    card.status \in {"", "available"} /\ (card.expires = 0 \/ card.expires > now)

ResetCards(answers, live, now) ==
    LET answer == Retried(answers, live)
        credits == answer[1].credits
        open == Only(credits, {i \in DOMAIN credits : Available(credits[i], now)})
    IN  IF answer = <<>> THEN <<>>
        ELSE <<Sorted([i \in DOMAIN open |-> open[i].expires])>>

-----------------------------------------------------------------------------
(* Claude, Grok and Kimi. *)

ClaudeKeys == <<"five_hour", "seven_day", "seven_day_oauth_apps",
                "seven_day_sonnet", "seven_day_opus", "seven_day_cowork",
                "iguana_necktie">>

ClaudeId(key) ==
    CASE key = "five_hour" -> FiveHours [] key = "seven_day" -> SevenDays [] OTHER -> Named(key)

\* selectedClaudeFableLimit: the active one, else the first.
FableLimits(answer) ==
    LET limits == answer.limits
        fable == Only(limits, {i \in DOMAIN limits :
                     /\ limits[i].kind = "weekly_scoped" /\ limits[i].model \in {"fable", "fable 5"}
                     /\ Percentage(limits[i].percent)})
        active == Only(fable, {i \in DOMAIN fable : fable[i].active})
    IN  IF active # <<>> THEN <<active[1]>>
        ELSE IF fable # <<>> THEN <<fable[1]>> ELSE <<>>

FetchClaude(answers) ==
    LET answer == answers[1]
        fable == FableLimits(answer)
        Told(key) == /\ Percentage(answer.usage[key])
                     /\ key = "iguana_necktie" => fable = <<>>
        keys == Only(ClaudeKeys, {i \in DOMAIN ClaudeKeys : Told(ClaudeKeys[i])})
        extra == answer.extra
    IN  IF answers = <<>> THEN <<>>
        ELSE [i \in DOMAIN keys |-> Used(ClaudeId(keys[i]), answer.usage[keys[i]], answer.reset)]
             \o [i \in DOMAIN fable |-> Used(Named("fable"), fable[i].percent, answer.reset)]
             \o (IF extra.enabled /\ Percentage(extra.used)
                 THEN <<Used(Named("extra"), extra.used, 0)>> ELSE <<>>)

XAIId(period) ==
    CASE period = "weekly" -> SevenDays [] period = "monthly" -> ThirtyDays
      [] OTHER -> Named("period")

\* The share used, from the percentage, or the legacy monthly limit; a dated
\* period without either is one of which nothing was used.
FetchXAI(answers) ==
    LET answer == answers[1]
        legacy == /\ IsNumber(answer.limit) /\ answer.limit > 0
                  /\ IsNumber(answer.spent) /\ answer.spent >= 0
        used == IF Percentage(answer.used) THEN answer.used
                ELSE IF legacy THEN Percent((100 * answer.spent) \div answer.limit)
                ELSE 0
        dated == answer.periodEnd # 0 \/ answer.periodStart # 0 \/ answer.billingEnd # 0
        reset == IF answer.periodEnd # 0 THEN answer.periodEnd ELSE answer.billingEnd
    IN  IF answers = <<>> \/ ~(Percentage(answer.used) \/ legacy \/ dated)
        THEN <<>> ELSE <<Used(XAIId(answer.period), used, reset)>>

KimiWindow(id, fields) ==
    LET Share(v) == IF IsNumber(v) THEN Percent((100 * v) \div fields.limit) ELSE Missing
    IN  IF ~IsNumber(fields.limit) \/ fields.limit <= 0
           \/ ~(IsNumber(fields.remaining) \/ IsNumber(fields.used))
        THEN <<>>
        ELSE <<Window(id, Share(fields.remaining), Share(fields.used), fields.reset)>>

FetchKimi(answers) ==
    LET limits == answers[1].limits
        minutes300 == Only(limits, {i \in DOMAIN limits :
                          limits[i].duration = 300 /\ limits[i].unit = "minute"})
        FiveHour(i) == KimiWindow(FiveHours, minutes300[i])
    IN  IF answers = <<>> THEN <<>>
        ELSE KimiWindow(SevenDays, answers[1].usage)
             \o FlattenSeq([i \in DOMAIN minutes300 |-> FiveHour(i)])

-----------------------------------------------------------------------------
(* Quota groups: Antigravity and OpenCode. *)

\* The ids of items in the order they first come, the preferred ones first.
Arranged(preferred, items) ==
    LET ids == {items[i].id : i \in DOMAIN items}
        others == {i \in DOMAIN items : items[i].id \notin Range(preferred)}
        firsts == Only(items, {i \in others : \A j \in others : items[j].id = items[i].id => i <= j})
    IN  Only(preferred, {i \in DOMAIN preferred : preferred[i] \in ids})
        \o [i \in DOMAIN firsts |-> firsts[i].id]

\* The item of that id with the least left, the first of several.
Least(items, id) ==
    LET told == {i \in DOMAIN items : items[i].id = id /\ items[i].left # Missing}
        Before(i, j) == \/ items[i].left < items[j].left
                        \/ (items[i].left = items[j].left /\ i <= j)
    IN  IF told = {} THEN Window(id, Missing, Missing, 0)
        ELSE items[CHOOSE i \in told : \A j \in told : Before(i, j)]

GeminiFlashRank(group) ==
    CASE group.family = "flash" -> 2 [] group.family = "gemini" -> 1 [] OTHER -> 0

Gemini(groups) == {i \in DOMAIN groups : GeminiFlashRank(groups[i]) > 0}

\* Mutant: every group of a Gemini model is in the pool.
BugFlashGroups(groups) == Only(groups, Gemini(groups))

\* filterGeminiFlashGroups: the groups of the best rank that is not 0.
FlashGroups(groups) ==
    Only(groups, {i \in Gemini(groups) : \A j \in Gemini(groups) :
                     GeminiFlashRank(groups[j]) <= GeminiFlashRank(groups[i])})

UsableBuckets(group) ==
    Only(group.buckets, {i \in DOMAIN group.buckets :
                            Percentage(group.buckets[i].left) /\ group.buckets[i].id # Named("")})

QuotaGroups(groups) ==
    LET buckets == FlattenSeq([i \in DOMAIN groups |-> UsableBuckets(groups[i])])
        ids == Arranged(<<FiveHours, SevenDays>>, buckets)
        Pooled(id) == LET least == Least(buckets, id)
                       IN  Used(id, 100 - least.left, least.reset)
    IN  [i \in DOMAIN ids |-> Pooled(ids[i])]

\* Three endpoints are tried in turn until one has buckets of the pool, once a
\* project is known.
FetchAntigravity(project, loaded, answers) ==
    LET windows == [i \in DOMAIN answers |->
                       IF answers[i] = <<>> THEN <<>> ELSE QuotaGroups(FlashGroups(answers[i][1]))]
        useful == {i \in DOMAIN answers : windows[i] # <<>>}
    IN  IF (project = "" /\ loaded = "") \/ useful = {} THEN <<>>
        ELSE windows[CHOOSE i \in useful : \A j \in useful : i <= j]

FetchOpenCode(answers) ==
    IF answers = <<>> THEN <<>> ELSE QuotaGroups(answers[1])

-----------------------------------------------------------------------------
(* The windows told by response headers, and their class. *)

\* A pair of headers; Claude's fraction of 1 is read in hundredths.
PassiveWindow(id, signal) ==
    IF Percentage(signal.used) THEN <<Used(id, signal.used, signal.reset)>> ELSE <<>>

PassiveWindows(signals) ==
    PassiveWindow(FiveHours, signals.primary) \o PassiveWindow(SevenDays, signals.secondary)

\* StatusForWindows over the windows, with the cases it does not tell apart.
Level(windows) ==
    LET left == {windows[i].left : i \in DOMAIN windows} \ {Missing}
    IN  CASE windows = <<>> -> "none"
          [] windows # <<>> /\ left = {} ->
                IF \E i \in DOMAIN windows : windows[i].used # Missing
                THEN "used" ELSE "blank"
          [] left # {} /\ \E n \in left : n <= 0 -> "exhausted"
          [] left # {} /\ (\A n \in left : n > 0) /\ (\E n \in left : n <= 20) -> "low"
          [] OTHER -> "ok"

-----------------------------------------------------------------------------
\* FetchUsage of internal/usage, over the answers for the last days: without
\* today's there is none, and a day that could not be read counts as 0.
FetchUsage(days) ==
    IF days[Len(days)] = <<>> THEN <<>>
    ELSE <<[i \in DOMAIN days |-> IF days[i] = <<>> THEN 0 ELSE days[i][1]]>>
=============================================================================
