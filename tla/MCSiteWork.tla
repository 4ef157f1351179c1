---------------------------- MODULE MCSiteWork ----------------------------
(***************************************************************************)
(* Small values for SiteWork.                                              *)
(***************************************************************************)
EXTENDS SiteWork, TLC

CONSTANTS m1, m2

\* Two of what is alike: texts, words, servers, posts.
Pair == {m1, m2}
MCSymmetry == Permutations(Pair)

MCPages == {"home", "page", "page?"}
MCPlain == [p \in MCPages |-> IF p = "page?" THEN "page" ELSE p]
MCRuns == {"analysis", "target", "description"}
MCTenant == [c \in {"c1", "c2"} |-> IF c = "c1" THEN "t1" ELSE "t2"]
MCTraffic ==
    [p \in {"old", "new"} |->
        IF p = "old" THEN <<"seen", "hidden", "seen">> ELSE <<"none", "seen", "none">>]
MCSlug == [a \in {"/", "/a/x", "/b/x"} |-> IF a = "/" THEN "" ELSE "x"]
------------------------------------------------------------------------
\* Windows of five days as Search Console may hold them: a good position and a bad
\* one, a good CTR and bad ones, few impressions, days without the query, a day whose
\* page has far more than the query, positions that move, days that are not final.
Figures(impressions, clicks, place, pageImpressions, pageClicks) ==
    [impressions |-> impressions, clicks |-> clicks, position |-> place,
     pageImpressions |-> pageImpressions, pageClicks |-> pageClicks]
Steady(impressions, clicks, place) ==
    [open |-> FALSE,
     days |-> [d \in 1..5 |->
                 Figures(impressions, clicks, place, impressions + 10, clicks + 1)]]
WithoutFirst(window, n) ==
    [window EXCEPT !.days =
        [d \in 1..5 |-> IF d <= n THEN Figures(0, 0, 0, 5, 0) ELSE window.days[d]]]
AtPositions(window, places) ==
    [window EXCEPT !.days =
        [d \in 1..5 |-> [window.days[d] EXCEPT !.position = places[d]]]]

MCWindows ==
    LET good == Steady(40, 4, 50) few == Steady(40, 2, 50) IN
    {good, few, Steady(40, 4, 90), Steady(40, 2, 90), Steady(40, 0, 50), Steady(10, 1, 20),
     WithoutFirst(good, 1), WithoutFirst(few, 1), WithoutFirst(good, 2),
     [good EXCEPT !.open = TRUE], [few EXCEPT !.days[3].pageImpressions = 30],
     AtPositions(few, <<20, 60, 90, 130, 50>>), AtPositions(few, <<90, 120, 60, 190, 100>>),
     AtPositions(good, <<90, 120, 60, 190, 100>>),
     [good EXCEPT !.days = [d \in 1..5 |-> Figures(40, 4, 50, 40, 4)]]}

\* The days around a change: CTR up, CTR down, down by just a tenth, days missing, no
\* clicks before, a change of a whole page, no impressions after, and a CTR so small
\* that its rounding shows as a success.
Days5(impressions, clicks) ==
    [d \in 1..5 |-> [status |-> "observed", impressions |-> impressions, clicks |-> clicks]]
Missing(days, n) ==
    [d \in 1..5 |-> IF d <= n THEN [status |-> "unknown", impressions |-> 0, clicks |-> 0]
                    ELSE days[d]]
Around(level, baseline, current) ==
    [level |-> level, baseline |-> baseline, current |-> current]

MCChanges ==
    LET before == Days5(20, 4) IN
    {Around("query", before, Days5(20, 6)), Around("query", before, Days5(20, 2)),
     Around("query", before, [before EXCEPT ![1].clicks = 2]),
     Around("query", Missing(before, 2), Days5(20, 6)),
     Around("query", Days5(20, 0), Days5(20, 6)), Around("page", before, Days5(20, 6)),
     Around("query", before, Days5(0, 0)),
     Around("query", [Days5(1000, 1) EXCEPT ![1].clicks = 3], [Days5(1000, 1) EXCEPT ![1].clicks = 4])}
MCOwner == [a \in {"a1", "a2", "a3", "a4"} |-> IF a = "a4" THEN "t2" ELSE "t1"]

MCKind == [r \in MCRuns |-> r]
MCAttempts == [r \in MCRuns |-> 2]
MCLimit == [s \in {"serp", "volume", "t1", "t2"} |-> 1]
MCProviders == <<"a", "b", "c">>
MCUsualSitemaps == <<"map">>
MCActions == DOMAIN MCOwner
MCAddresses == DOMAIN MCSlug
MCLessons == {-1000, 0, 1000}
===========================================================================
