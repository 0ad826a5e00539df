----------------------------- MODULE AuditRules ------------------------------
(***************************************************************************)
(* The rules a page is audited by (packages/core/src/audit: one plugin per *)
(* operator) and the score made of what they find (score.ts).  A page is   *)
(* what the plugins' patterns can tell apart of it; robots.txt is kept line *)
(* by line, because two plugins read it, each in its own way.              *)
(*                                                                         *)
(* Authors change one thing at a time between two audits.  Cached views of *)
(* the page (derived.ts) do not change what a plugin sees.  The keys a     *)
(* worker may put on the context (Lighthouse, axe, Search Console...) are  *)
(* features of a page too; page-audit-job.ts sets none of them, the tests  *)
(* of the package do.                                                      *)
(***************************************************************************)
EXTENDS Integers, SequencesExt

CONSTANTS
    Bots,           \* AI_CRAWLERS
    MaxPageEdits,   \* bound: edits of the pages and of the site's files
    MaxLines        \* bound: lines of robots.txt

VARIABLES
    base,       \* what both pages looked like at first
    edits,      \* what their authors changed since, in order
    site,       \* what the site answers for its three files
    lines,      \* robots.txt, when it answers
    siteEdits

ruleVars == <<base, edits, site, lines, siteEdits>>

PageIds == {1, 2}
OgProps == {"og:title", "og:description", "og:image", "og:url", "og:type"}
ContextKeys == {"lighthouse", "requests", "cache", "compression", "axe", "contrast", "gsc"}

Features == [
    title |-> {"none", "short", "good"}, description |-> {"none", "short", "good"},
    canonical |-> BOOLEAN, viewport |-> BOOLEAN, h1 |-> 0 .. 2, skipsLevel |-> BOOLEAN,
    altless |-> 0 .. 2, sizeless |-> 0 .. 2,        \* images without alt, without dimensions
    og |-> {{}, OgProps \ {"og:image"}, OgProps}, twitter |-> BOOLEAN,
    anchors |-> {"none", "some", "many external"},
    jsonLd |-> {<<>>, <<"invalid">>, <<"invalid", "invalid">>, <<"short">>, <<"long">>, <<"faq">>},
    words |-> {"none", "few", "many"},              \* many: 300 and more
    prose |-> {"en", "pt"}, hard |-> BOOLEAN,       \* hard: Flesch below 30
    lang |-> {"no html", "unset", "unquoted", "en", "pt"},
    signals |-> 0 .. 2, dated |-> {"none", "iso", "long"}, faq |-> BOOLEAN,
    skipLink |-> BOOLEAN, hints |-> BOOLEAN,
    markdown |-> {"down", "404", "html", "markdown"},
    lighthouse |-> {"absent", "good", "fair", "slow"},
    requests |-> {"absent", "good", "bad"}, cache |-> {"absent", "good", "bad"},
    compression |-> {"absent", "good", "bad"}, axe |-> {"absent", "good", "minor", "serious"},
    contrast |-> {"absent", "good", "bad"}, gsc |-> {"absent", "good", "bad"}]

SiteFiles == [
    robots |-> {"down", "404", "ok"},
    sitemap |-> {"down", "404", "index", "foreign", "listing"},  \* foreign: no URL of this origin
    llms |-> {"down", "404", "empty", "title", "good"}]

Good == [
    title |-> "good", description |-> "good", canonical |-> TRUE, viewport |-> TRUE, h1 |-> 1,
    skipsLevel |-> FALSE, altless |-> 0, sizeless |-> 0, og |-> OgProps, twitter |-> TRUE,
    anchors |-> "some", jsonLd |-> <<"faq">>, words |-> "many", prose |-> "en", hard |-> FALSE,
    lang |-> "en", signals |-> 2, dated |-> "iso", faq |-> TRUE, skipLink |-> TRUE, hints |-> TRUE,
    markdown |-> "markdown", lighthouse |-> "absent", requests |-> "absent", cache |-> "absent",
    compression |-> "absent", axe |-> "absent", contrast |-> "absent", gsc |-> "absent"]
Bare == [Good EXCEPT
    !.title = "none", !.description = "none", !.canonical = FALSE, !.viewport = FALSE, !.h1 = 0,
    !.og = {}, !.twitter = FALSE, !.anchors = "none", !.jsonLd = <<>>, !.words = "few",
    !.lang = "unset", !.signals = 0, !.dated = "none", !.skipLink = FALSE, !.hints = FALSE, !.markdown = "html"]
Measured == [f \in DOMAIN Good |-> IF f \in ContextKeys THEN "good" ELSE Good[f]]

Bases == [good |-> Good, bare |-> Bare, measured |-> Measured]

\* The page as it is now
PageNow(p) ==
    FoldSeq(LAMBDA e, page : [page EXCEPT ![e.feature] = e.value], Bases[base],
            SelectSeq(edits, LAMBDA e : e.page = p))

OpenSite == <<<<"agent", "*">>, <<"disallow", "/admin">>, <<"sitemap", "">>>>
ClosedSite == <<<<"agent", "*">>, <<"disallow", "/">>>>

Finding(cat, sev, rule) == [cat |-> cat, sev |-> sev, rule |-> rule, of |-> ""]
Each(cat, sev, rule, S) == {[Finding(cat, sev, rule) EXCEPT !.of = x] : x \in S}
When(c, fs) == IF c THEN fs ELSE {}
Seo(sev, rule) == {Finding("seo", sev, rule)}
Geo(sev, rule) == {Finding("geo", sev, rule)}
Content(sev, rule) == {Finding("content", sev, rule)}
A11y(sev, rule) == {Finding("a11y", sev, rule)}
Cwv(sev, rule) == {Finding("cwv", sev, rule)}

-----------------------------------------------------------------------------
\* seo/
CheckMeta(p) ==
    When(p.title = "none", Seo("error", "missing-title")) \cup When(p.title = "short", Seo("warning", "title-length"))
    \cup When(p.description = "none", Seo("warning", "missing-description"))
    \cup When(p.description = "short", Seo("warning", "description-length"))
    \cup When(~p.canonical, Seo("info", "missing-canonical")) \cup When(~p.viewport, Seo("warning", "missing-viewport"))

CheckHeadings(p) ==
    When(p.h1 = 0, Seo("error", "missing-h1")) \cup When(p.h1 > 1, Seo("warning", "multiple-h1"))
    \cup When(p.skipsLevel, Seo("warning", "skipped-level"))

Nth(n) == {<<"first", "second">>[i] : i \in 1 .. n}
CheckImages(p) ==
    Each("seo", "warning", "missing-alt", Nth(p.altless)) \cup Each("seo", "info", "missing-dimensions", Nth(p.sizeless))

CheckOpenGraph(p) ==
    Each("seo", "warning", "open-graph", OgProps \ p.og) \cup When(~p.twitter, Seo("info", "twitter-card"))

CheckLinks(p) ==
    When(p.anchors = "none", Seo("info", "links.none")) \cup When(p.anchors = "many external", Seo("info", "too-many-external"))

CheckJsonLd(p) ==
    When(p.jsonLd = <<>>, Seo("info", "json-ld.none"))
    \cup Each("seo", "error", "json-ld.invalid", Nth(Len(SelectSeq(p.jsonLd, LAMBDA b : b = "invalid"))))

CheckGscLowCtr(p) == When(p.gsc = "bad", Seo("warning", "gsc.low-ctr"))

\* A "foreign" sitemap names no URL of the origin; one that names any page of it
\* also holds the text of the root URL.
CheckSitemap ==
    CASE site.sitemap = "down" -> Seo("warning", "sitemap.unreachable")
      [] site.sitemap = "404" -> Seo("warning", "sitemap.missing")
      [] site.sitemap = "index" -> Seo("error", "sitemap.invalid")
      [] site.sitemap = "foreign" -> Seo("info", "sitemap.no-root")
      [] site.sitemap = "listing" -> {}

\* The patterns know "Disallow" only with a capital, in any group.
Disallows(kind, value) == <<kind, value>> \in {lines[i] : i \in DOMAIN lines}
DisallowAll == Disallows("disallow", "/")
CheckRobotsTxt ==
    CASE site.robots = "down" -> Seo("warning", "robots.unreachable")
      [] site.robots = "404" -> Seo("warning", "robots.missing")
      [] site.robots = "ok" -> When(DisallowAll, Seo("error", "robots.disallow-all"))
                               \cup When(~Disallows("sitemap", ""), Seo("info", "robots.no-sitemap-directive"))

-----------------------------------------------------------------------------
\* geo/ai-crawler-access.ts.  Blank lines separate groups; a group belongs to the
\* first agent it names, its rules add to what that agent already has.
Before(i) == Cardinality({j \in 1 .. i : lines[j][1] = "blank"})
AgentLines(i) == {j \in DOMAIN lines : lines[j][1] = "agent" /\ Before(j) = Before(i)}
AgentOf(i) == IF AgentLines(i) = {} THEN "nobody" ELSE lines[Min(AgentLines(i))][2]
Named(ua) == \E i \in DOMAIN lines : lines[i][1] = "agent" /\ AgentOf(i) = ua

\* Faulty variant: a second group of an agent replaces its first one.
RulesOfLast(ua) ==
    LET own == {i \in DOMAIN lines : AgentOf(i) = ua} IN
    {lines[i][2] : i \in {j \in own : lines[j][1] \in {"disallow", "lower-case disallow"} /\ Before(j) = Before(Max(own))}}
RulesOf(ua) == {lines[i][2] : i \in {j \in DOMAIN lines : lines[j][1] \in {"disallow", "lower-case disallow"} /\ AgentOf(j) = ua}}

\* Faulty variant: a rule for a part of the site counts as one for all of it.
BlocksRootByPrefix(rules) == rules \cap {"/", "", "/admin"} # {}
BlocksRoot(rules) == rules \cap {"/", ""} # {}

EffectiveFor(bot) ==
    CASE Named(bot) -> IF BlocksRoot(RulesOf(bot)) THEN "blocked" ELSE "allowed"
      [] ~Named(bot) /\ RulesOf("*") # {} -> IF BlocksRoot(RulesOf("*")) THEN "blocked" ELSE "allowed"
      [] OTHER -> "not-mentioned"

CheckAiCrawlerAccess ==
    When(site.robots = "ok",
         Each("geo", "warning", "crawler-blocked", {b \in Bots : EffectiveFor(b) = "blocked"})
         \cup Each("geo", "info", "crawler-not-mentioned", {b \in Bots : EffectiveFor(b) = "not-mentioned"}))

\* geo/
CheckLlmsTxt ==
    When(site.llms = "404", Geo("info", "llms-txt.missing")) \cup When(site.llms = "empty", Geo("warning", "llms-txt.no-h1"))
    \cup When(site.llms \in {"empty", "title"}, Geo("info", "llms-txt.no-links"))

\* An ISO date is one of the five signals.
CheckCitability(p) == When(p.signals + (IF p.dated = "iso" THEN 1 ELSE 0) < 2, Geo("info", "citability.low"))
CheckMarkdownParallel(p) == When(p.words = "many" /\ p.markdown \in {"404", "html"}, Geo("info", "markdown-parallel.absent"))
CheckFaqStructure(p) == When(p.faq /\ p.jsonLd # <<"faq">>, Geo("info", "faq.no-schema"))
CheckSchemaCoverage(p) == When(p.jsonLd \in {<<"invalid">>, <<"short">>}, Geo("info", "schema.coverage.low"))

\* content/
CheckThinContent(p) == When(p.words # "many", Content("warning", "content.thin"))
CheckReadability(p) == When(p.words # "none" /\ p.hard, Content("info", "readability.low"))
CheckDates(p) == When(p.dated = "none", Content("info", "dates.absent"))
CheckLangConsistency(p) ==
    When(p.lang \in {"en", "pt"} /\ p.words # "none" /\ p.prose # p.lang, Content("warning", "lang.mismatch"))

\* a11y/
CheckLangAttr(p) == When(p.lang = "no html", A11y("error", "html.missing")) \cup When(p.lang = "unset", A11y("error", "lang-attr.missing"))
CheckSkipLinks(p) == When(~p.skipLink, A11y("info", "skip-links.missing"))
CheckAxe(p) == When(p.axe = "minor", A11y("info", "axe")) \cup When(p.axe = "serious", A11y("error", "axe"))
CheckContrast(p) == When(p.contrast = "bad", A11y("warning", "contrast.low"))

\* cwv/
CheckHints(p) == When(~p.hints, Cwv("info", "hints.none"))
CheckLighthouse(p) ==
    CASE p.lighthouse = "absent" -> Cwv("info", "lighthouse.missing")
      [] p.lighthouse = "good" -> {}
      [] p.lighthouse = "fair" -> Cwv("warning", "lcp-warn")
      [] p.lighthouse = "slow" -> Each("cwv", "error", "slow", {"lcp", "cls", "performance"}) \cup Cwv("warning", "tbt-high")
CheckRequests(p) ==
    When(p.requests = "bad", Each("cwv", "warning", "requests", {"render-blocking", "non-2xx"}) \cup Cwv("info", "duplicates"))
CheckCache(p) == When(p.cache = "bad", Cwv("warning", "cache.many-missing"))
CheckCompression(p) == When(p.compression = "bad", Cwv("warning", "compression.missing"))

\* ALL_PLUGINS, when none of them fails
Findings(p) ==
    UNION {CheckMeta(p), CheckHeadings(p), CheckSitemap, CheckRobotsTxt, CheckLinks(p), CheckImages(p),
           CheckOpenGraph(p), CheckJsonLd(p), CheckGscLowCtr(p), CheckLlmsTxt, CheckAiCrawlerAccess,
           CheckCitability(p), CheckMarkdownParallel(p), CheckFaqStructure(p), CheckSchemaCoverage(p),
           CheckLighthouse(p), CheckRequests(p), CheckHints(p), CheckCache(p), CheckCompression(p),
           CheckLangAttr(p), CheckSkipLinks(p), CheckAxe(p), CheckContrast(p), CheckLangConsistency(p),
           CheckReadability(p), CheckThinContent(p), CheckDates(p)}

-----------------------------------------------------------------------------
\* score.ts, in ten-thousandths of a point.  The penalty of n errors, 7 * k ^ 1.2
\* for the k-th; eight of them take more than two pages have.
Point == 10000
ErrorPenalty == [n \in 0 .. 8 |-> <<0, 70000, 230818, 492421, 861883, 1344788, 1945795, 2668924, 3517725>>[n + 1]]
Weight == [seo |-> 25, cwv |-> 20, geo |-> 25, a11y |-> 15, content |-> 15]
Categories == DOMAIN Weight
Null == -1

\* What runAudit finds on a page: pairs of the page and the finding.
Audited(p) == {<<p, f>> : f \in Findings(PageNow(p))}
Count(fs, c, sev) == Cardinality({x \in fs : x[2].cat = c /\ x[2].sev = sev})
Present(fs) == {x[2].cat : x \in fs}
Rounded(a, b) == (2 * a + b) \div (2 * b)
Errors(fs, c) == ErrorPenalty[Min({8, Count(fs, c, "error")})]

\* Faulty variant: warnings count only where there is no error.
PenaltyOfWorst(fs, c) == IF Errors(fs, c) = 0 THEN 3 * Point * Count(fs, c, "warning") ELSE Errors(fs, c)
Penalty(fs, c) == Errors(fs, c) + 3 * Point * Count(fs, c, "warning")

\* Faulty variant: the findings of the whole site weigh on it as on one page.
CategoryScoreOfOne(fs, c, pageCount) == Max({0, Rounded(100 * Point - Penalty(fs, c), Point)})
CategoryScore(fs, c, pageCount) == Max({0, Rounded(100 * Point * pageCount - Penalty(fs, c), Point * pageCount)})

Overall(fs, pageCount) ==
    IF fs = {} THEN Null
    ELSE Rounded(MapThenSumSet(LAMBDA c : Weight[c] * CategoryScore(fs, c, pageCount), Present(fs)),
                 MapThenSumSet(LAMBDA c : Weight[c], Present(fs)))
PageScore(fs) == Overall(fs, 1)
SiteScore(fs1, fs2) == Overall(fs1 \cup fs2, 2)

-----------------------------------------------------------------------------
RulesInit ==
    /\ base \in DOMAIN Bases
    /\ lines \in (IF base = "bare" THEN {ClosedSite} ELSE {OpenSite, <<>>})
    /\ site = [robots |-> "ok", sitemap |-> "listing", llms |-> "good"]
    /\ edits = <<>> /\ siteEdits = 0
MayEdit == Len(edits) + siteEdits < MaxPageEdits /\ lines \in {OpenSite, ClosedSite}   \* bounds

\* An author changes one thing on one page; what a worker measures stays measured.
EditPage ==
    \E p \in PageIds, f \in DOMAIN Features : \E v \in Features[f] \ {PageNow(p)[f]} :
        /\ MayEdit
        /\ edits = <<>> => p = 1  \* the pages start alike: the first one edited is called 1
        /\ f \in ContextKeys => "absent" \notin {v, PageNow(p)[f]}
        /\ edits' = Append(edits, [page |-> p, feature |-> f, value |-> v])
        /\ UNCHANGED <<base, site, lines, siteEdits>>

\* A file of the site changes or cannot be fetched.
EditSite ==
    \E f \in DOMAIN SiteFiles : \E v \in SiteFiles[f] \ {site[f]} :
        /\ MayEdit
        /\ site' = [site EXCEPT ![f] = v]
        /\ siteEdits' = siteEdits + 1
        /\ UNCHANGED <<base, edits, lines>>

LineKinds ==
    ({"agent"} \X (Bots \cup {"*", "another"})) \cup ({"disallow"} \X {"/", "", "/admin"})
    \cup {<<"lower-case disallow", "/">>, <<"blank", "">>, <<"sitemap", "">>}

\* robots.txt grows, one line at a time.
AddLine ==
    \E l \in LineKinds :
        /\ Len(lines) < MaxLines /\ site.robots = "ok" /\ edits = <<>> /\ siteEdits = 0
        /\ lines' = Append(lines, l)
        /\ UNCHANGED <<base, edits, site, siteEdits>>

RulesNext == EditPage \/ EditSite \/ AddLine
RulesSpec == RulesInit /\ [][RulesNext]_ruleVars

-----------------------------------------------------------------------------
RulesTypeOK ==
    /\ base \in DOMAIN Bases /\ Len(edits) + siteEdits <= MaxPageEdits
    /\ \A i \in DOMAIN edits : edits[i].page \in PageIds /\ edits[i].value \in Features[edits[i].feature]
    /\ \A f \in DOMAIN SiteFiles : site[f] \in SiteFiles[f]

\* The two plugins that read robots.txt agree: a bot is reported blocked without
\* robots.disallow-all only for an empty or a lower-case rule, which only one of
\* the two patterns knows.
BlockedBotsExplained ==
    (\E b \in Bots : EffectiveFor(b) = "blocked") /\ ~DisallowAll
        => Disallows("disallow", "") \/ Disallows("lower-case disallow", "/")

\* A line added to robots.txt lets a blocked bot in only when it begins a group
\* of that bot.
OnlyOwnGroupUnblocks ==
    [][\A b \in Bots : EffectiveFor(b) = "blocked" /\ EffectiveFor(b)' # "blocked"
           => lines'[Len(lines')] = <<"agent", b>>]_lines

\* Between two audits of a page that score the same categories, losing findings
\* never lowers the score and gaining some never raises it.  (A category whose
\* last finding goes is no longer scored at all, and the rest may weigh less.)
ScoreMonotone ==
    [][edits' # edits => \A p \in PageIds : \A old \in {Audited(p)}, new \in {Audited(p)'} :
        Present(old) = Present(new) =>
            /\ new \subseteq old => PageScore(new) >= PageScore(old)
            /\ old \subseteq new => PageScore(new) <= PageScore(old)]_edits

\* Whatever an audit finds, the site scores at least its worse page, up to rounding, as long as no page
\* reaches zero and no category has errors on both: the penalty of errors grows
\* with their number over the whole site, so a site may score below all its pages.
RollupWithin ==
    [][edits' # edits => \A fs1 \in {Audited(1)'}, fs2 \in {Audited(2)'} :
        (\A c \in Categories :
            /\ Errors(fs1, c) = 0 \/ Errors(fs2, c) = 0
            /\ CategoryScore(fs1, c, 1) > 0 /\ CategoryScore(fs2, c, 1) > 0)
        => \E fs \in {fs1, fs2} : PageScore(fs) = Null \/ SiteScore(fs1, fs2) + 1 >= PageScore(fs)]_edits

\* Edits of a site move its findings and its scores the way they should
\* (ai-crawler-access.ts, score.ts).
ScoresFollowEdits ==
    /\ [](RulesTypeOK /\ BlockedBotsExplained)
    /\ OnlyOwnGroupUnblocks /\ ScoreMonotone /\ RollupWithin
=============================================================================
