-------------------------------- MODULE Inputs --------------------------------
(***************************************************************************)
(* The answers that the accounts of a row may have got, any set of them for *)
(* each kind of provider, and what each answer says is left of a window: a   *)
(* definition of its own, from the answer alone, that the adapters of        *)
(* Readings are compared with.                                              *)
(***************************************************************************)
EXTENDS Dashboard

CONSTANTS
    CodexRows, ClaudeRows, KimiRows,  \* rows: for each account the answers
    AntigravityRows, OpenCodeRows, XAIRows,
    PassiveRows,                      \* the same for the response headers
    CardRows,                         \* the same for the reset cards
    UsageDays,                        \* answers for the last days
    Slots                             \* DISPLAY_PROVIDERS

AtMostOne(S) == {s \in Seq(S) : Len(s) <= 1}

Ids == Seq(STRING) \X Int \X STRING

\* A request that is made once more if it fails while its context lives.
Calls(Answer) ==
    [answers : {s \in Seq(AtMostOne(Answer)) : Len(s) = 2}, live : BOOLEAN, now : Nat]

CodexSpan == [used : Int, resetAt : Nat, resetAfter : Int, seconds : Int]

CodexAnswer ==
    [limit : [primary : CodexSpan, secondary : CodexSpan],
     additional : Seq([name : AtMostOne(STRING), primary : CodexSpan, secondary : CodexSpan])]

ClaudeAnswer ==
    [usage : [Range(ClaudeKeys) -> Int],
     limits : Seq([kind : STRING, model : STRING, percent : Int, active : BOOLEAN]),
     extra : [enabled : BOOLEAN, used : Int], reset : Nat]

KimiUsage == [limit : Int, remaining : Int, used : Int, reset : Nat]

KimiLimit == [limit : Int, remaining : Int, used : Int, reset : Nat,
              duration : Int, unit : STRING]

KimiAnswer == [usage : KimiUsage, limits : Seq(KimiLimit)]

Group == [family : STRING, buckets : Seq([id : Ids, left : Int, reset : Nat])]

Antigravity ==
    [project : STRING, loaded : STRING, answers : Seq(AtMostOne(Seq(Group)))]

XAIAnswer ==
    [used : Int, limit : Int, spent : Int, period : STRING,
     periodStart : Nat, periodEnd : Nat, billingEnd : Nat]

Signal == [used : Int, reset : Nat]

Headers == [primary : Signal, secondary : Signal]

CardAnswer == [credits : Seq([status : STRING, expires : Nat])]

ASSUME InputsAssumption ==
    /\ CodexRows \subseteq Seq(Calls(CodexAnswer))
    /\ ClaudeRows \subseteq Seq(AtMostOne(ClaudeAnswer))
    /\ KimiRows \subseteq Seq(AtMostOne(KimiAnswer))
    /\ AntigravityRows \subseteq Seq(Antigravity)
    /\ OpenCodeRows \subseteq Seq(AtMostOne(Seq(Group)))
    /\ XAIRows \subseteq Seq(AtMostOne(XAIAnswer))
    /\ PassiveRows \subseteq Seq(Headers)
    /\ CardRows \subseteq Seq(Calls(CardAnswer))
    /\ UsageDays \subseteq Seq(AtMostOne(Nat)) \ {<<>>}
    /\ Slots \subseteq Seq(Seq(STRING))

-----------------------------------------------------------------------------
(* What an answer reports: pairs of an id and a percentage that is left.     *)

Answered(call) ==
    IF call.answers[1] # <<>> THEN call.answers[1]
    ELSE IF call.live THEN call.answers[2] ELSE <<>>

\* Only the account's own limit: an additional one is of a pool of its own.
CodexReported(call) ==
    LET answer == Answered(call)
        limit == answer[1].limit
        spans == {<<limit.primary, "primary">>, <<limit.secondary, "secondary">>}
        Is(x, seconds, place) ==
            Percentage(x[1].used) /\ IF IsNumber(x[1].seconds) THEN x[1].seconds = seconds
                                                              ELSE x[2] = place
        Told(seconds, place) == {100 - x[1].used : x \in {y \in spans : Is(y, seconds, place)}}
    IN  IF answer = <<>> THEN {}
        ELSE ({FiveHours} \X Told(5 * 3600, "primary")) \cup ({SevenDays} \X Told(7 * 24 * 3600, "secondary"))

ClaudeReported(answers) ==
    LET usage == answers[1].usage
        Told(key) == {100 - v : v \in {usage[key]} \cap 0 .. 100}
    IN  IF answers = <<>> THEN {}
        ELSE ({FiveHours} \X Told("five_hour")) \cup ({SevenDays} \X Told("seven_day"))

KimiReported(answers) ==
    LET limits == answers[1].limits
        hours == {limits[i] : i \in {j \in DOMAIN limits :
                                        limits[j].duration = 300 /\ limits[j].unit = "minute"}}
        Told(fields) == {Percent((100 * f.remaining) \div f.limit) :
                            f \in {g \in fields : /\ IsNumber(g.limit) /\ g.limit > 0
                                                  /\ IsNumber(g.remaining)}}
    IN  IF answers = <<>> THEN {}
        ELSE ({FiveHours} \X Told(hours)) \cup ({SevenDays} \X Told({answers[1].usage}))

\* The legacy amounts of a Grok account, if they make a share.
Amounted(answer) == /\ IsNumber(answer.limit) /\ answer.limit > 0
                    /\ IsNumber(answer.spent) /\ answer.spent >= 0

\* The percentage, else the amounts; all of a pool that is dated and says
\* nothing of its use.  A percentage that is none reports nothing.
XAIReported(answers) ==
    LET answer == answers[1]
        fresh == /\ answer.used = Missing
                 /\ {answer.periodStart, answer.periodEnd, answer.billingEnd} # {0}
        left == IF Percentage(answer.used) THEN {100 - answer.used}
                ELSE IF Amounted(answer)
                     THEN {100 - Percent((100 * answer.spent) \div answer.limit)}
                     ELSE IF fresh THEN {100} ELSE {}
    IN  IF answers = <<>> THEN {} ELSE {XAIId(answer.period)} \X left

\* The shares that response headers tell.
PassiveReported(signals) ==
    LET Told(signal) == {100 - v : v \in {signal.used} \cap 0 .. 100}
    IN  ({FiveHours} \X Told(signals.primary)) \cup ({SevenDays} \X Told(signals.secondary))

\* The groups of the best family of Gemini's, and the buckets of some groups.
FlashPool(groups) ==
    LET Outranked(g) == g.family = "gemini" /\ \E h \in Range(groups) : h.family = "flash"
    IN  {g \in Range(groups) : g.family \in {"flash", "gemini"} /\ ~Outranked(g)}

GroupsReported(pool) ==
    {<<b.id, b.left>> : b \in {c \in UNION {Range(g.buckets) : g \in pool} :
                                  Percentage(c.left) /\ c.id # Named("")}}

OpenCodeReported(answers) ==
    IF answers = <<>> THEN {} ELSE GroupsReported(Range(answers[1]))

\* The first endpoint that tells of the pool.
AntigravityReported(account) ==
    LET Told(i) == IF account.answers[i] = <<>> THEN {}
                   ELSE GroupsReported(FlashPool(account.answers[i][1]))
        useful == {i \in DOMAIN account.answers : Told(i) # {}}
    IN  IF account.project = "" /\ account.loaded = "" THEN {}
        ELSE UNION {Told(i) : i \in {j \in useful : \A k \in useful : j <= k}}

\* The cards of a row, each by its account and its place in the answer.
CardsOf(row) ==
    UNION {LET answer == Answered(row[i])
           IN  IF answer = <<>> THEN {}
               ELSE {i} \X {k \in DOMAIN answer[1].credits : Available(answer[1].credits[k], row[i].now)} :
              i \in DOMAIN row}

Expiry(row, card) == Answered(row[card[1]])[1].credits[card[2]].expires
=============================================================================
