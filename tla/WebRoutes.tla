------------------------------ MODULE WebRoutes ------------------------------
(***************************************************************************)
(* Where the web client's links lead (i18n/localePath.ts, routes.tsx,      *)
(* LanguageToggle, Layout's crumb, ProjectScopedGate, RouteListener): each *)
(* page has an English and a Portuguese URL, the language may be toggled   *)
(* on any of them, and three pages of the navigation stand for a project   *)
(* to be found first.  A URL is the sequence of its segments; a ":param"   *)
(* of a template is Param.                                                 *)
(***************************************************************************)
EXTENDS Integers, Sequences

CONSTANTS Ids    \* the ids a URL may carry

Locales == {"en", "pt"}
Param == ":param"

FirstSegment ==
    LET pages(en, pt) == [en |-> en, pt |-> pt] IN
    [projects |-> pages("projects", "projetos"), projectDashboard |-> pages("projects", "projetos"),
     auditRunner |-> pages("projects", "projetos"), materialsProject |-> pages("projects", "projetos"),
     compose |-> pages("projects", "projetos"), channelsProject |-> pages("projects", "projetos"),
     audits |-> pages("audits", "auditorias"), auditResults |-> pages("audits", "auditorias"),
     materialsGate |-> pages("materials", "materiais"), fixes |-> pages("fixes", "correcoes"),
     generationsGate |-> pages("generations", "geracoes"), reports |-> pages("reports", "relatorios"),
     generationReview |-> pages("generations", "geracoes"), settings |-> pages("settings", "configuracoes"),
     templates |-> pages("templates", "modelos"), templateEditor |-> pages("templates", "modelos"),
     channelsGate |-> pages("channels", "canais"), channelEditor |-> pages("channels", "canais")]

TailOf ==
    [id \in DOMAIN FirstSegment |->
        CASE id \in {"projectDashboard", "auditResults", "templateEditor",
                     "generationReview", "channelEditor"} -> <<Param>>
          [] id = "auditRunner" -> <<Param, "audit">>
          [] id = "materialsProject" -> <<Param, "materials">>
          [] id = "compose" -> <<Param, "compose">>
          [] id = "channelsProject" -> <<Param, "channels">>
          [] OTHER -> <<>>]

Publishes == [publishDetail |-> <<"publishes", Param>>, agentBundle |-> <<"publishes", Param, "bundle">>]

RouteId == DOMAIN FirstSegment \cup DOMAIN Publishes

\* pathTemplateForLocale: the publishes have one URL for both languages
Template(l, id) ==
    IF id \in DOMAIN Publishes THEN Publishes[id] ELSE <<FirstSegment[id][l]>> \o TailOf[id]

Fill(template, p) == [i \in DOMAIN template |-> IF template[i] = Param THEN p ELSE template[i]]

\* pathForLocale
PathFor(l, id, p) == Fill(Template(l, id), p)

Begins(template, path) ==
    /\ Len(template) <= Len(path)
    /\ \A i \in DOMAIN template : template[i] \in {Param, path[i]}

NoRoute == "none"

\* Faulty variant: ties are broken by the shorter template.
ShortestRoute(path) ==
    LET fits == {id \in DOMAIN FirstSegment : \E l \in Locales : Begins(Template(l, id), path)} IN
    IF fits = {} THEN NoRoute
    ELSE CHOOSE id \in fits : \A o \in fits : Len(Template("en", id)) <= Len(Template("en", o))

\* The most specific route of either language; none for publishes
routeIdFromPath(path) ==
    LET fits == {id \in DOMAIN FirstSegment : \E l \in Locales : Begins(Template(l, id), path)} IN
    IF fits = {} THEN NoRoute
    ELSE CHOOSE id \in fits : \A o \in fits : Len(Template("en", id)) >= Len(Template("en", o))

\* RouteListener: the page_view of a URL
PageView(url) == routeIdFromPath(url)

\* Ids whose URL begins with this segment, under one language
FirstBy(l, segment) == {id \in DOMAIN FirstSegment : FirstSegment[id][l] = segment}

\* Faulty variant: only the section is carried over.
SiblingSection(from, to, path) ==
    LET ids == IF path = <<>> THEN {}
               ELSE IF FirstBy(from, path[1]) # {} THEN FirstBy(from, path[1]) ELSE FirstBy(to, path[1])
    IN IF ids = {} THEN path ELSE <<FirstSegment[CHOOSE id \in ids : TRUE][to]>>

\* The ids of one segment have the same segment in the other language as well, so
\* which of them is taken makes no difference.
siblingPath(from, to, path) ==
    LET ids == IF path = <<>> THEN {}
               ELSE IF FirstBy(from, path[1]) # {} THEN FirstBy(from, path[1]) ELSE FirstBy(to, path[1])
    IN IF ids = {} THEN path
       ELSE <<FirstSegment[CHOOSE id \in ids : TRUE][to]>> \o Tail(path)

\* rootRouteIdFromPath: the section a URL lies in, none for publishes
rootRouteIdFromPath(path) ==
    LET roots == {id \in DOMAIN FirstSegment :
                     TailOf[id] = <<>> /\ \E l \in Locales : path # <<>> /\ FirstSegment[id][l] = path[1]}
    IN IF roots = {} THEN NoRoute ELSE CHOOSE id \in roots : TRUE

\* AppRoutes: both trees are routed; the pages whose template matches the whole URL
Rendered(path) ==
    {id \in RouteId : \E l \in Locales : Begins(Template(l, id), path) /\ Len(Template(l, id)) = Len(path)}

Behind == [materialsGate |-> "materialsProject", generationsGate |-> "compose",
           channelsGate |-> "channelsProject"]

\* GATE_REDIRECTS: each tree's gate leads into the same tree
Tree(path) == IF \E id \in DOMAIN Behind : FirstSegment[id]["pt"] = path[1] THEN "pt" ELSE "en"

-----------------------------------------------------------------------------
VARIABLES
    path,          \* location.pathname
    locale,        \* i18n.language
    lastProject,   \* localStorage's last opened project
    aim            \* the page and id the user asked for

routeVars == <<path, locale, lastProject, aim>>

NoId == "none"
Carries(id) == \E i \in DOMAIN Template("en", id) : Template("en", id)[i] = Param
Aims(id, p) == [id |-> id, p |-> IF Carries(id) THEN p ELSE NoId]

\* resolveInitialLocale: the stored language or the browser's, else English
RoutesInit ==
    /\ path = <<>> /\ locale \in Locales /\ lastProject = NoId
    /\ aim = Aims("projects", NoId)

\* The dashboard remembers its project once it is mounted.
Land(to) ==
    /\ path' = to
    /\ lastProject' = IF Rendered(to) = {"projectDashboard"} THEN to[2] ELSE lastProject

\* HomeRedirect
Home ==
    /\ path = <<>>
    /\ Land(PathFor(locale, "projects", NoId))
    /\ aim' = Aims("projects", NoId) /\ UNCHANGED locale

\* A bookmark or a typed URL, in either language
OpensUrl ==
    \E l \in Locales, id \in RouteId, p \in Ids :
        Land(PathFor(l, id, p)) /\ aim' = Aims(id, p) /\ UNCHANGED locale

\* localePath: every link of the client
Follows ==
    /\ path # <<>>
    /\ \E id \in RouteId, p \in Ids :
          Land(PathFor(locale, id, p)) /\ aim' = Aims(id, p) /\ UNCHANGED locale

\* The breadcrumb's first link.  On a publish it is /publishes, which no route
\* renders: that link leads to an empty page.
FollowsCrumb ==
    /\ path # <<>> /\ rootRouteIdFromPath(path) # NoRoute
    /\ LET root == rootRouteIdFromPath(path) IN
       Land(PathFor(locale, root, NoId)) /\ aim' = Aims(root, NoId) /\ UNCHANGED locale

\* Faulty variant: the URL stays.
pickLocaleOnly ==
    /\ locale' \in Locales \ {locale}
    /\ UNCHANGED <<path, lastProject, aim>>

pickLocale ==
    /\ locale' \in Locales \ {locale}
    /\ Land(siblingPath(locale, locale', path))
    /\ UNCHANGED aim

\* ProjectScopedGate goes on to the project of ?projectId= or the last one, or
\* to the one the user picks.
GateOpens ==
    \E gate \in DOMAIN Behind, p \in Ids :
        /\ Rendered(path) = {gate}
        /\ path' = PathFor(Tree(path), Behind[gate], p)
        /\ lastProject' = p
        /\ aim' = Aims(Behind[gate], p) /\ UNCHANGED locale

RoutesNext == Home \/ OpensUrl \/ Follows \/ FollowsCrumb \/ pickLocale \/ GateOpens

RoutesSpec == RoutesInit /\ [][RoutesNext]_routeVars

-----------------------------------------------------------------------------
RoutesTypeOK ==
    /\ path \in Seq(STRING) /\ locale \in Locales
    /\ lastProject \in Ids \cup {NoId}
    /\ aim \in [id : RouteId, p : Ids \cup {NoId}]

\* Whatever the way there (a link, a bookmark in the other language, the crumb,
\* a gate, toggles in between), the page rendered is the one asked for, with its
\* id, and no other template matches the URL.
LandsOnAim ==
    path # <<>> =>
        /\ Rendered(path) = {aim.id}
        /\ \A i \in DOMAIN path : Template("en", aim.id)[i] = Param => path[i] = aim.p

\* The telemetry's page_view, found by another matcher than the router's, names
\* the page rendered.
ViewsNamePages ==
    path # <<>> =>
        PageView(path) = IF aim.id \in DOMAIN Publishes THEN NoRoute ELSE aim.id

\* After a toggle the URL is the page's URL in the language chosen, also when
\* the page had been opened by a URL of the other language.
ToggleSpeaks ==
    [][locale' # locale /\ path # <<>> => path' = PathFor(locale', aim.id, aim.p)]_routeVars

\* Links, bookmarks, gates and toggles lead to the page they name, in the
\* language chosen, and telemetry calls it by its name (localePath.ts).
LinksLand == [](RoutesTypeOK /\ LandsOnAim /\ ViewsNamePages) /\ ToggleSpeaks
=============================================================================
