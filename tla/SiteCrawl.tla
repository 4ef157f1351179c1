---------------------------- MODULE SiteCrawl ----------------------------
(***************************************************************************)
(* One reading of a site (app/scan/crawler): robots.txt, the tree of       *)
(* sitemaps, then its pages by their links, within limits; and the sitemap *)
(* proposed from what was read (app/scan/files). The site answers, refuses *)
(* or stays silent as it likes.                                            *)
(***************************************************************************)
EXTENDS Naturals, Sequences, FiniteSets, Functions

CONSTANTS
    Pages, Home,     \* addresses of the site; those alike for _identity are one
    Plain,           \* Plain[p]: p without its query
    Sitemaps,        \* addresses where a sitemap may be
    COMMON_SITEMAPS, \* the usual ones, in the order they are tried
    MAX_PAGES, MAX_QUEUE, MAX_CHILD_SITEMAPS,
    MAX_LINKS,       \* bound: links on a page
    MaxClosed        \* bound: pages that may not be read, or may but do not answer

VARIABLES
    site,            \* the site: what each sitemap address has, which pages are closed
    phase,
    robots,          \* the answer: what it was, and the sitemaps it names
    starts, guessing, pending, seen, opened, tree, silent,   \* the sitemaps being read
    sitemapUrls, sitemapPages, uncertain, rich,
    queue, position, pages, capped,
    late,            \* the time budget is used up
    turnedAway       \* a sitemap's address has answered 401 or 429

maps == <<starts, guessing, pending, seen, opened, tree, silent>>
found == <<sitemapUrls, sitemapPages, uncertain, rich>>
reading == <<queue, position, pages, capped>>
vars == <<site, phase, robots, maps, found, reading, late, turnedAway>>
------------------------------------------------------------------------
\* What a scan learns about a page (ScannedPage): it belongs in a sitemap, it is
\* plainly not for one (gone, moved, noindex), it did not answer, it has another
\* error, or Google is kept from it.
Verdict == {"listable", "out", "noAnswer", "broken", "blocked"}
RobotsAnswer == {"text", "none", "unreadable", "error"}
Elsewhere == "on another host"

\* A sitemap's address: nothing, a list with a page besides the home page (which is
\* read first, listed or not), or an index with a sitemap.
Nothing == [kind |-> "nothing", of |-> Home]
Content ==
    {Nothing} \cup [kind : {"list"}, of : Pages \ {Home}] \cup [kind : {"index"}, of : Sitemaps]
Lists(url, p) == site.holds[url] = [kind |-> "list", of |-> p]

Init ==
    /\ site \in [holds : [Sitemaps -> Content], closed : SUBSET (Pages \ {Home}),
                 shut : SUBSET (Pages \ {Home})]
    /\ Cardinality(site.closed) + Cardinality(site.shut) <= MaxClosed
    /\ phase = "robots" /\ robots = [answer |-> "none", names |-> <<>>]
    /\ starts = <<>> /\ guessing = FALSE
    /\ pending = <<>> /\ seen = {} /\ opened = 0
    /\ tree = [found |-> FALSE, silent |-> FALSE] /\ silent = FALSE
    /\ sitemapUrls = <<>> /\ sitemapPages = <<>> /\ uncertain = FALSE /\ rich = FALSE
    /\ queue = <<>> /\ position = 0 /\ pages = [p \in {} |-> "out"] /\ capped = FALSE
    /\ late = FALSE /\ turnedAway = FALSE

\* Faulty variant: a sitemap on another host is read too.
OfAnySite(names) == names

\* The named sitemaps of this site.
OfThisSite(names) == IF names = <<Elsewhere>> THEN <<>> ELSE names

\* _read_robots. A page, an error or nothing at its address is no text.
ReadRobots ==
    /\ phase = "robots"
    /\ \E answer \in RobotsAnswer, names \in {<<>>} \cup {<<s>> : s \in Sitemaps \cup {Elsewhere}} :
          /\ answer # "text" => names = <<>>
          /\ robots' = [answer |-> answer, names |-> names]
    /\ phase' = "start"
    /\ starts' = OfThisSite(robots'.names)
    /\ silent' = (Len(starts') < Len(robots'.names))
    /\ UNCHANGED <<site, guessing, pending, seen, opened, tree, found, reading, late, turnedAway>>
------------------------------------------------------------------------
\* _read_sitemaps: the named ones, all of them; then, if none of them is one, the
\* usual addresses up to the first that is.
StartTree ==
    /\ phase = "start"
    /\ IF starts # <<>>
       THEN /\ pending' = <<Head(starts)>>
            /\ phase' = "tree"
            /\ UNCHANGED <<starts, guessing, silent, uncertain>>
       ELSE IF guessing \/ sitemapUrls # <<>>
       THEN /\ uncertain' = silent
            /\ phase' = "queue"
            /\ guessing' = FALSE /\ silent' = FALSE
            /\ UNCHANGED <<starts, pending>>
       ELSE /\ starts' = COMMON_SITEMAPS /\ guessing' = TRUE
            /\ UNCHANGED <<phase, pending, silent, uncertain>>
    /\ UNCHANGED <<site, robots, seen, opened, tree, sitemapUrls, sitemapPages, rich, reading, late, turnedAway>>

TreeGoesOn == pending # <<>> /\ ~late

\* Silence, a server error, a firewall or a cut answer leaves the list uncertain.
NoUsableAnswer ==
    /\ tree' = [tree EXCEPT !.silent = TRUE]
    /\ UNCHANGED <<sitemapPages, rich, turnedAway>>
    /\ pending' = Tail(pending)

\* 404 is an answer; so are, for this code, 401 and 429.
NotThere(url) ==
    /\ \/ site.holds[url] = Nothing /\ UNCHANGED turnedAway
       \/ turnedAway' = TRUE
    /\ pending' = Tail(pending)
    /\ UNCHANGED <<tree, sitemapPages, rich>>

\* A sitemap: its pages are added once each, its children are to be read.
Answered(url) ==
    LET content == site.holds[url] IN
    /\ content # Nothing
    /\ tree' = [tree EXCEPT !.found = TRUE]
    /\ sitemapPages' = IF content.kind = "list" /\ content.of \notin Range(sitemapPages)
                       THEN Append(sitemapPages, content.of) ELSE sitemapPages
    /\ pending' = IF content.kind = "index" THEN Append(Tail(pending), content.of) ELSE Tail(pending)
    /\ \E other \in BOOLEAN : rich' = (rich \/ content.kind = "index" \/ other)   \* images, languages
    /\ UNCHANGED turnedAway

ReadSitemap ==
    LET url == Head(pending) IN
    /\ phase = "tree" /\ TreeGoesOn /\ opened < MAX_CHILD_SITEMAPS
    /\ IF url \in seen
       THEN /\ pending' = Tail(pending)
            /\ UNCHANGED <<seen, opened, tree, sitemapPages, rich, turnedAway>>
       ELSE /\ seen' = seen \cup {url}
            /\ opened' = opened + 1
            /\ NoUsableAnswer \/ NotThere(url) \/ Answered(url)
    /\ UNCHANGED <<site, phase, robots, starts, guessing, silent, sitemapUrls, uncertain, reading, late>>

\* Read to its end, or given up: more children than a scan opens, no time.
EndTree ==
    LET quiet == tree.silent \/ pending # <<>> IN
    /\ phase = "tree" /\ (~TreeGoesOn \/ opened >= MAX_CHILD_SITEMAPS)
    /\ sitemapUrls' = IF tree.found THEN Append(sitemapUrls, Head(starts)) ELSE sitemapUrls
    /\ silent' = (silent \/ quiet)
    /\ starts' = IF guessing /\ tree.found THEN <<>> ELSE Tail(starts)
    /\ uncertain' = IF guessing /\ tree.found THEN quiet \/ silent ELSE uncertain
    /\ phase' = "start"
    /\ pending' = <<>> /\ seen' = {} /\ opened' = 0 /\ tree' = [found |-> FALSE, silent |-> FALSE]
    /\ UNCHANGED <<site, robots, guessing, sitemapPages, rich, reading, late, turnedAway>>
------------------------------------------------------------------------
\* crawl: the home page first, then what the sitemaps list.
StartPages ==
    /\ phase = "queue"
    /\ queue' = <<Home>> \o sitemapPages
    /\ phase' = "pages"
    /\ UNCHANGED <<site, robots, maps, found, position, pages, capped, late, turnedAway>>

\* A link that is not queued again: it is, or it has a query and its page is.
Known(link, waiting) ==
    \/ link \in Range(waiting)
    \/ link # Plain[link] /\ Plain[link] \in {Plain[p] : p \in Range(waiting)}

\* What a page adds to the queue: its links one by one, in whatever order they stand
\* on it, until all are known or the queue is full.
Follows(waiting, links, added) ==
    LET all == waiting \o added IN
    /\ \A i \in 1..Len(added) :
          LET before == waiting \o SubSeq(added, 1, i - 1) IN
          Len(before) < MAX_QUEUE /\ ~Known(added[i], before)
    /\ Len(all) >= MAX_QUEUE \/ \A link \in links : Known(link, all)

\* May it be read? The home page always; else as Google and this scanner are told.
Closed(p) == robots.answer = "text" /\ p \in site.closed
Shut(p) == robots.answer = "text" /\ p \in site.shut
PagesGoOn == position < Len(queue) /\ Cardinality(DOMAIN pages) < MAX_PAGES /\ ~late

ReadPage ==
    LET p == queue[position + 1]
        Judged(verdict) == pages' = [q \in DOMAIN pages \cup {p} |-> IF q = p THEN verdict ELSE pages[q]]
    IN
    /\ phase = "pages" /\ PagesGoOn
    /\ position' = position + 1
    /\ \/ Closed(p) /\ Judged("blocked") /\ UNCHANGED <<queue, capped>>
       \/ /\ Shut(p) /\ ~Closed(p)
          /\ UNCHANGED <<queue, pages, capped>>
       \/ /\ ~Closed(p) /\ ~Shut(p)
          /\ \/ \E verdict \in {"noAnswer", "broken"} :
                   Judged(verdict) /\ UNCHANGED <<queue, capped>>
             \/ UNCHANGED <<queue, pages, capped>>        \* a file, not a page
             \/ \E verdict \in {"listable", "out"}, links \in SUBSET Pages :
                   /\ Cardinality(links) <= MAX_LINKS
                   /\ Judged(verdict)
                   /\ \E added \in UNION {[1..n -> links] : n \in 0..MAX_LINKS} :
                         Follows(queue, links, added) /\ queue' = queue \o added
                   /\ capped' = (capped \/ \E link \in links : ~Known(link, queue'))
    /\ UNCHANGED <<site, phase, robots, maps, found, late, turnedAway>>

EndPages ==
    /\ phase = "pages" /\ ~PagesGoOn
    /\ capped' = (capped \/ position < Len(queue))
    /\ phase' = "done"
    /\ UNCHANGED <<site, robots, maps, found, queue, position, pages, late, turnedAway>>

TimeIsUp ==
    /\ ~late /\ phase \notin {"robots", "done"}
    /\ late' = TRUE
    /\ UNCHANGED <<site, phase, robots, maps, found, reading, turnedAway>>

Next ==
    \/ ReadRobots \/ StartTree \/ ReadSitemap \/ EndTree
    \/ StartPages \/ ReadPage \/ EndPages \/ TimeIsUp

Spec == Init /\ [][Next]_vars
------------------------------------------------------------------------
\* robots_can_be_judged
RobotsJudged == robots.answer \in {"text", "none"}

Read(verdicts) == {p \in DOMAIN pages : pages[p] \in verdicts}

\* plan_site_files: nothing when the scan could not see the site or met silence.
Silent == uncertain \/ ~RobotsJudged \/ Read({"noAnswer"}) # {}
SawSite == Home \in Read({"listable", "out"})

\* _plan_sitemap: a first one, or a better one over a plain list.
PlansFirst == SawSite /\ ~Silent /\ sitemapUrls = <<>> /\ Read({"listable"}) # {}

Dropped == Range(sitemapPages) \cap Read({"blocked", "out"})
Added == Read({"listable"}) \ Range(sitemapPages)
ImprovedList == (Range(sitemapPages) \ Dropped) \cup Added

PlansBetter ==
    /\ SawSite /\ ~Silent /\ sitemapUrls # <<>> /\ ~capped /\ ~rich
    /\ Dropped \cup Added # {} /\ ImprovedList # {}

ProposedList == IF PlansFirst THEN Read({"listable"}) ELSE ImprovedList
------------------------------------------------------------------------
(* Every variable keeps its type. *)
TypeOK ==
    /\ phase \in {"robots", "start", "tree", "queue", "pages", "done"}
    /\ robots.answer \in RobotsAnswer
    /\ starts \in Seq(Sitemaps) /\ pending \in Seq(Sitemaps) /\ seen \subseteq Sitemaps
    /\ opened \in 0..MAX_CHILD_SITEMAPS
    /\ tree \in [found : BOOLEAN, silent : BOOLEAN]
    /\ {guessing, silent, uncertain, rich, capped, late, turnedAway} \subseteq BOOLEAN
    /\ sitemapUrls \in Seq(Sitemaps) /\ sitemapPages \in Seq(Pages)
    /\ queue \in Seq(Pages) /\ position \in 0..Len(queue)
    /\ DOMAIN pages \subseteq Pages /\ \A p \in DOMAIN pages : pages[p] \in Verdict

(* A sitemap is proposed only on good evidence: a first one never over one   *)
(* the site has where the scan looked, however the tree's answers fell; a    *)
(* better one loses no address of the one it replaces but those the scan saw *)
(* a reason against; and neither names a page Google is kept from            *)
(* (app/scan/files.py _plan_sitemap, improved_list). An address that turned  *)
(* the scan away with 401 or 429 is taken for empty by the code.             *)
ProposalIsSound ==
    phase = "done" /\ (PlansFirst \/ PlansBetter) =>
        /\ PlansFirst /\ ~turnedAway =>
              \A s \in Range(robots.names \o COMMON_SITEMAPS) \ {Elsewhere} : site.holds[s] = Nothing
        /\ PlansBetter =>
              \A p \in Pages : Lists(sitemapUrls[1], p) =>
                 p \in ImprovedList \cup Read({"blocked", "out"})
        /\ robots.answer = "text" => ProposedList \cap site.closed = {}

(* A page is visited once, the home page whatever robots.txt says, and no    *)
(* more than MAX_PAGES are kept (SiteCrawler.crawl).                         *)
VisitedOnce ==
    /\ \A i, j \in 1..Len(queue) : queue[i] = queue[j] => i = j
    /\ Cardinality(DOMAIN pages) <= MAX_PAGES /\ Len(queue) <= MAX_QUEUE + Len(sitemapPages)
=========================================================================
