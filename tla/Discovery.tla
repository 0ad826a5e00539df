------------------------------ MODULE Discovery ------------------------------
(***************************************************************************)
(* How an audit finds the pages of a site (site-discovery.ts): the root,   *)
(* then what the sitemaps list, then, if that gave nothing else, what the  *)
(* pages link to.  The site is not fixed in advance: every read may fail   *)
(* or answer anything, and what it answered is kept.                       *)
(*                                                                         *)
(* One read at a time; the URLs are those that parse and are http(s).      *)
(***************************************************************************)
EXTENDS Integers, Sequences, FiniteSets

CONSTANTS
    Pages,          \* URLs of the origin, Root among them
    Foreign,        \* a URL of another origin
    Sitemaps,       \* URLs of sitemaps, /sitemap.xml among them
    MaxSitemaps,    \* 50 in the code
    Limits          \* values of maxPages, 0 for no limit

Root == "root"
SitemapXml == "sitemap.xml"
ASSUME DiscoveryAssumption ==
    /\ Root \in Pages /\ Foreign \notin Pages /\ SitemapXml \in Sitemaps
    /\ MaxSitemaps \in Nat /\ Limits \subseteq Nat

VARIABLES
    sources,    \* DiscoverySources
    maxPages,
    phase,      \* what is read next: "robots", "sitemaps", "crawl"; or "done"
    todo,       \* sitemapQueue or crawlQueue from its head on
    seen,       \* seenSitemaps
    crawled,
    discovered, \* the Map: the pages found, and what each was found by
    heard,      \* history: what each document answered
    reads       \* history: how often each document was read

discoveryVars == <<sources, maxPages, phase, todo, seen, crawled, discovered, heard, reads>>

\* A read that throws, is not answered 200, or lists no URL.
Failed == [kind |-> "failed", urls |-> <<>>]
FoundUrls == DOMAIN discovered
SeqSet(s) == {s[i] : i \in DOMAIN s}
Lists(S) == {<<x>> : x \in S} \cup {s \in (S \ {Foreign}) \X (S \ {Foreign}) : s[1] # s[2]}
Answers(kind, S) == {Failed} \cup {[kind |-> kind, urls |-> s] : s \in Lists(S)}

\* What is read: a URL as a sitemap or as a page.
Robots == <<"robots", "robots.txt">>
Documents == {Robots} \cup {"sitemap"} \X Sitemaps \cup {"page"} \X Pages

Hear(document, answer) ==
    /\ heard' = [heard EXCEPT ![document] = answer]
    /\ reads' = [reads EXCEPT ![document] = @ + 1]

DiscoveryInit ==
    /\ sources \in [{"root", "sitemap", "crawl"} -> BOOLEAN]
    /\ maxPages \in Limits
    /\ phase = IF sources["sitemap"] THEN "robots" ELSE "sitemaps"
    /\ todo = IF sources["sitemap"] THEN <<SitemapXml>> ELSE <<>>
    /\ seen = {} /\ crawled = {}
    /\ discovered = [u \in IF sources["root"] THEN {Root} ELSE {} |-> "root"]
    /\ heard = [d \in Documents |-> Failed]
    /\ reads = [d \in Documents |-> 0]

ReadRobots ==
    \E answer \in Answers("robots", Sitemaps) :
        /\ phase = "robots"
        /\ Hear(Robots, answer)
        /\ todo' = todo \o answer.urls
        /\ phase' = "sitemaps"
        /\ UNCHANGED <<sources, maxPages, seen, crawled, discovered>>

Room == maxPages = 0 \/ Cardinality(FoundUrls) < maxPages

\* Where a document first lists an internal URL that is new.
NewAt(urls) == {i \in DOMAIN urls : urls[i] \in Pages \ FoundUrls /\ \A j \in 1 .. i - 1 : urls[j] # urls[i]}

\* Faulty variant: the limit is looked at before a document, not before each page.
AdmittedUnlimited(urls) == NewAt(urls)

\* The places of a document whose URL is added: the new ones, while there is room.
Admitted(urls) ==
    {i \in NewAt(urls) :
        maxPages = 0 \/ Cardinality(FoundUrls) + Cardinality({j \in NewAt(urls) : j < i}) < maxPages}

Add(urls, via) ==
    discovered' = [u \in FoundUrls \cup {urls[i] : i \in Admitted(urls)} |->
                      IF u \in FoundUrls THEN discovered[u] ELSE via]

\* The places in their order: this set has one member.
InOrder(places) ==
    {f \in [1 .. Cardinality(places) -> places] :
        {f[k] : k \in DOMAIN f} = places /\ \A k, m \in DOMAIN f : k < m => f[k] < f[m]}

SitemapNext == phase = "sitemaps" /\ todo # <<>> /\ Room /\ Cardinality(seen) < MaxSitemaps

\* Faulty variant: a sitemap that lists itself is read again and again.
SeenNever(url) == FALSE
Seen(url) == url \in seen

SkipSitemap ==
    /\ SitemapNext /\ Seen(Head(todo))
    /\ todo' = Tail(todo)
    /\ UNCHANGED <<sources, maxPages, phase, seen, crawled, discovered, heard, reads>>

ReadSitemap ==
    \E answer \in Answers("index", Sitemaps) \cup Answers("urlset", Pages \cup {Foreign}) :
        /\ SitemapNext /\ ~Seen(Head(todo))
        /\ reads[<<"sitemap", Head(todo)>>] < 2   \* bound
        /\ Hear(<<"sitemap", Head(todo)>>, answer)
        /\ seen' = seen \cup {Head(todo)}
        /\ IF answer.kind = "urlset"
           THEN todo' = Tail(todo) /\ Add(answer.urls, "sitemap")
           ELSE todo' = Tail(todo) \o answer.urls /\ UNCHANGED discovered
        /\ UNCHANGED <<sources, maxPages, phase, crawled>>

\* Faulty variant: the crawl is taken for needed when the root is not wanted.
CrawlNeededWithoutRoot == sources["crawl"] /\ Cardinality(FoundUrls) <= 1
CrawlNeeded == sources["crawl"] /\ Cardinality(FoundUrls) = IF sources["root"] THEN 1 ELSE 0

SitemapsDone ==
    /\ phase = "sitemaps" /\ ~SitemapNext
    /\ phase' = IF CrawlNeeded THEN "crawl" ELSE "done"
    /\ todo' = IF CrawlNeeded THEN <<Root>> ELSE <<>>
    /\ UNCHANGED <<sources, maxPages, seen, crawled, discovered, heard, reads>>

CrawlNext == phase = "crawl" /\ todo # <<>> /\ Room

\* Faulty variant: a page that cannot be read ends the crawl.
AfterFailureNothing == <<>>

\* One broken page does not stop the crawl.
AfterFailure == Tail(todo)

CrawlPage ==
    \E answer \in Answers("page", Pages \cup {Foreign}) :
        /\ CrawlNext /\ Head(todo) \notin crawled
        /\ Hear(<<"page", Head(todo)>>, answer)
        /\ crawled' = crawled \cup {Head(todo)}
        /\ Add(answer.urls, "crawl")
        /\ \E at \in InOrder(Admitted(answer.urls)) :
              todo' = (IF answer = Failed THEN AfterFailure ELSE Tail(todo))
                          \o [k \in DOMAIN at |-> answer.urls[at[k]]]
        /\ UNCHANGED <<sources, maxPages, phase, seen>>

SkipPage ==
    /\ CrawlNext /\ Head(todo) \in crawled
    /\ todo' = Tail(todo)
    /\ UNCHANGED <<sources, maxPages, phase, seen, crawled, discovered, heard, reads>>

CrawlDone ==
    /\ phase = "crawl" /\ ~CrawlNext
    /\ phase' = "done"
    /\ UNCHANGED <<sources, maxPages, todo, seen, crawled, discovered, heard, reads>>

DiscoveryNext == ReadRobots \/ SkipSitemap \/ ReadSitemap \/ SitemapsDone \/ CrawlPage \/ SkipPage \/ CrawlDone
DiscoverySpec == DiscoveryInit /\ [][DiscoveryNext]_discoveryVars

-----------------------------------------------------------------------------
DiscoveryTypeOK ==
    /\ phase \in {"robots", "sitemaps", "crawl", "done"}
    /\ FoundUrls \subseteq Pages /\ seen \subseteq Sitemaps /\ crawled \subseteq Pages
    /\ \A u \in FoundUrls : discovered[u] \in {"root", "sitemap", "crawl"}

\* What a document names, as the code reads it: pages, or further sitemaps.
PagesOf(d) == IF heard[d].kind \in {"urlset", "page"} THEN SeqSet(heard[d].urls) \cap Pages ELSE {}
SitemapsOf(d) == IF heard[d].kind \in {"index", "robots"} THEN SeqSet(heard[d].urls) \cap Sitemaps ELSE {}
NamedSitemaps == SitemapsOf(Robots) \cup UNION {SitemapsOf(<<"sitemap", s>>) : s \in seen}

\* Never more pages than asked for, and no document is read twice, however
\* sitemaps and pages refer to each other.
FoundOnceWithinLimit ==
    /\ maxPages > 0 => Cardinality(FoundUrls) <= maxPages
    /\ \A d \in Documents : reads[d] <= 1

\* Without a limit every page a sitemap lists is found, and every sitemap that
\* robots.txt or another sitemap names is read, up to the limit on those; a crawl
\* finds what the root leads to: each page it found was read, and each page of
\* the site linked from one was found, whatever failed on the way.
NothingMissed ==
    phase = "done" /\ maxPages = 0 =>
        /\ \A s \in seen : PagesOf(<<"sitemap", s>>) \subseteq FoundUrls
        /\ sources["sitemap"] /\ Cardinality(seen) < MaxSitemaps => NamedSitemaps \cup {SitemapXml} \subseteq seen
        /\ crawled # {} =>
              /\ FoundUrls \subseteq crawled
              /\ \A p \in crawled : PagesOf(<<"page", p>>) \subseteq FoundUrls

\* A site with a sitemap that lists more than the root is not crawled, and one
\* without is: an audit of sitemap pages never follows links.
CrawlOnlyAlone ==
    /\ (\E u \in FoundUrls : discovered[u] = "sitemap") => crawled = {}
    /\ phase = "done" /\ sources["crawl"] /\ FoundUrls \subseteq {Root} /\ Room
       /\ (FoundUrls = {} \/ sources["root"]) => Root \in crawled
=============================================================================
