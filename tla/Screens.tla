------------------------------- MODULE Screens -------------------------------
(***************************************************************************)
(* The web client's screens (apps/web/src/pages, components/PublishActions)*)
(* over api.ts and react-query: a screen reads one row of the server,      *)
(* polls it while it lives, and sends the clicks its buttons offer.  One   *)
(* behaviour is one screen.  Between the screen and the row lie the        *)
(* browser's HTTP cache (the routes answer with max-age) and api.ts, which *)
(* checks the status of some answers and takes the error body of the       *)
(* others for data.  react-query's one retry makes a failure rarer and is  *)
(* left out; the window's focus refetches nothing (queryClient.ts).        *)
(***************************************************************************)
EXTENDS Integers

CONSTANTS
    MaxFetchFaults,  \* bound: requests that fail
    MaxClicks,       \* bound: clicks on this screen
    MaxOthers        \* bound: changes of the row by other clients

VARIABLES
    screen,   \* which screen is open
    row,      \* the server's row; v counts its changes
    data,     \* what the screen shows: a row, NoData or Envelope
    copy,     \* the browser's copy of the GET, while fresh
    get,      \* the GET under way
    via,      \* where the last answer came from
    click,    \* the mutation under way, with the row its button was shown for
    outcome,  \* what the server made of it
    own,      \* version of the row after the last click it accepted
    budget    \* what remains of the bounds

screenVars == <<screen, row, data, copy, get, via, click, outcome, own, budget>>

Live == {"queued", "running"}
Ended == {"completed", "failed", "cancelled"}
Review == {"draft", "in_review", "approved"}
Shape(status) == [status |-> status, review |-> "draft", v |-> 0]
NoData == Shape("none")
Envelope == Shape("envelope")   \* {error: ...} taken for data

AuditScreens == {"audit", "dashboard"}
PublishScreens == {"publish", "publishes"}
ListScreens == {"materials", "templates", "channels", "projects", "settings"}
ScreenNames == AuditScreens \cup {"modal", "composer", "review"} \cup PublishScreens \cup ListScreens

(* api.ts *)

\* These functions throw unless the status is 2xx (readJsonOrThrow or r.ok).
Checked == AuditScreens \cup {"modal", "projects"}

\* These take whatever JSON comes for their data.
Unchecked == ScreenNames \ Checked

\* The routes' cache-control: what the browser may answer itself for a while.
Kept(r) ==
    CASE screen \in {"audit", "review"} -> r.status \notin Live
      [] screen \in PublishScreens \cup {"settings"} -> FALSE
      [] OTHER -> TRUE

(* the refetchInterval of each screen's query *)

\* Faulty variant: a queued row is not live yet.
PollsRunning ==
    \/ data.status = "running"
    \/ screen = "publishes"
    \/ data = NoData /\ screen \in {"audit", "review", "publish"}

Polls ==
    /\ screen \notin ListScreens \cup {"dashboard"}
    /\ \/ data.status \in Live
       \/ screen = "publishes"
       \/ data = NoData /\ screen \in {"audit", "review", "publish"}

\* The composer's next poll (rows.some), a review's and a publish's title and the
\* publishes' map throw on an envelope, and the ErrorBoundary replaces the whole
\* client; a list tests its length first and shows nothing.
Crashed == data = Envelope /\ screen \notin ListScreens

(* the buttons *)

DashboardOffers(d) == IF d.status \in Live THEN {"cancel"} ELSE {}

ReviewOffers(d) ==
    (IF d.review = "draft" THEN {"send_to_review"} ELSE {})
    \cup (IF d.review = "in_review" THEN {"approve"} ELSE {})
    \cup (IF d.review # "approved" THEN {"reject"} ELSE {})

\* Faulty variant: a publish is offered a retry as soon as it runs.
PublishOffersEarly(d) == IF d.status = "queued" THEN {"cancel"} ELSE {"retry"}

PublishOffers(d) ==
    (IF d.status \in {"failed", "cancelled"} THEN {"retry"} ELSE {})
    \cup (IF d.status \in Live THEN {"cancel"} ELSE {})

ListOffers(d) ==
    (IF screen \in {"projects", "materials", "settings"} THEN {"create"} ELSE {})
    \cup (IF screen = "projects" \/ d = Envelope THEN {} ELSE {"change"})

Offers(d) ==
    CASE screen = "dashboard" -> DashboardOffers(d)
      [] screen = "modal" -> {"re_audit"}     \* beside each page
      [] screen = "review" -> ReviewOffers(d)
      [] screen \in PublishScreens -> PublishOffers(d)
      [] screen \in ListScreens -> ListOffers(d)
      [] OTHER -> {}

(* the routes behind them *)

Target == [send_to_review |-> "in_review", approve |-> "approved", reject |-> "draft"]
validTransitions == [draft |-> {"in_review"}, in_review |-> {"draft", "approved"}, approved |-> {}]

AcceptsReview(act, r) == Target[act] \in validTransitions[r.review]
AcceptsPublish(act, r) ==
    IF act = "retry" THEN r.status \in {"failed", "cancelled"}
    ELSE r.status \notin {"completed", "failed"}
AcceptsAudit(act, r) == IF act = "cancel" THEN r.status \in Live ELSE r.status \notin Live

Accepts(act, r) ==
    CASE screen \in {"dashboard", "modal"} -> AcceptsAudit(act, r)
      [] screen = "review" -> AcceptsReview(act, r)
      [] screen \in PublishScreens -> AcceptsPublish(act, r)
      [] OTHER -> TRUE

\* Cancelling what is cancelled changes nothing.
Effect(act, r) ==
    LET next == [r EXCEPT !.v = @ + 1] IN
    CASE act = "cancel" -> IF r.status \in Live THEN [next EXCEPT !.status = "cancelled"] ELSE r
      [] act \in {"retry", "re_audit"} -> [next EXCEPT !.status = "queued"]
      [] act \in DOMAIN Target -> [next EXCEPT !.review = Target[act]]
      [] OTHER -> next

\* A browser drops its copy of a URL when an unsafe method on that very URL
\* succeeds: only creating posts to the URL of the list.
SameUrl(act) == act = "create"

Others ==
    CASE screen \in PublishScreens -> {"cancel", "retry"}
      [] screen \in AuditScreens -> {"cancel"}
      [] screen = "modal" -> {"re_audit"}
      [] screen = "review" -> DOMAIN Target
      [] screen \in ListScreens -> {"change"}
      [] OTHER -> {}

-----------------------------------------------------------------------------
NoClick == [act |-> "none", seen |-> NoData]
Idle == [pc |-> "idle", answer |-> NoData]
AskAgain == get' = [Idle EXCEPT !.pc = "asked"]

ScreensInit ==
    /\ screen \in ScreenNames
    /\ row = [Shape(IF screen \in ListScreens THEN "completed" ELSE "queued") EXCEPT !.v = 1]
    /\ data = NoData /\ copy = NoData
    /\ get = [Idle EXCEPT !.pc = "closed"]
    /\ via = "none"
    /\ click = NoClick /\ outcome = "none" /\ own = 0
    /\ budget = [faults |-> MaxFetchFaults, clicks |-> MaxClicks, others |-> MaxOthers]

Spend(what) == budget[what] > 0 /\ budget' = [budget EXCEPT ![what] = @ - 1]

\* The worker takes the row and ends it.
RowMoves ==
    /\ \E s \in {"running", "completed", "failed"} :
          /\ \/ row.status = "queued" /\ s = "running"
             \/ row.status = "running" /\ s \in Ended
          /\ row' = [row EXCEPT !.status = s, !.v = @ + 1]
    /\ UNCHANGED <<screen, data, copy, get, via, click, outcome, own, budget>>

\* Another client of the same routes
OtherActs ==
    /\ Spend("others")
    /\ \E act \in Others : Accepts(act, row) /\ row' = Effect(act, row)
    /\ UNCHANGED <<screen, data, copy, get, via, click, outcome, own>>

Mounts ==
    /\ get.pc = "closed"
    /\ AskAgain
    /\ UNCHANGED <<screen, row, data, copy, via, click, outcome, own, budget>>

Poll ==
    /\ get = Idle /\ Polls /\ ~Crashed
    /\ AskAgain
    /\ UNCHANGED <<screen, row, data, copy, via, click, outcome, own, budget>>

\* The browser answers from its copy, or the server reads the row.
Read ==
    /\ get.pc = "asked"
    /\ get' = [pc |-> "sent", answer |-> IF copy # NoData THEN copy ELSE row]
    /\ copy' = IF copy # NoData THEN copy ELSE IF Kept(row) THEN row ELSE NoData
    /\ via' = IF copy # NoData THEN "copy" ELSE "server"
    /\ UNCHANGED <<screen, row, data, click, outcome, own, budget>>

\* A request that fails without an answer (network, 30 s) throws in every
\* function.  One that answers an error throws in the checked ones only.
Fails ==
    /\ get.pc = "asked" /\ Spend("faults")
    /\ get' = Idle /\ via' = "failed"
    /\ \/ UNCHANGED data
       \/ screen \in Unchecked /\ data' = Envelope
    /\ UNCHANGED <<screen, row, copy, click, outcome, own>>

Arrives ==
    /\ get.pc = "sent"
    /\ data' = get.answer /\ get' = Idle
    /\ UNCHANGED <<screen, row, copy, via, click, outcome, own, budget>>

\* The copy's max-age is over.
CopyExpires ==
    /\ copy # NoData /\ copy' = NoData
    /\ UNCHANGED <<screen, row, data, get, via, click, outcome, own, budget>>

\* A button is disabled while its own mutation runs.
Click ==
    /\ click = NoClick /\ data # NoData /\ ~Crashed /\ Spend("clicks")
    /\ \E act \in Offers(data) : click' = [act |-> act, seen |-> data]
    /\ UNCHANGED <<screen, row, data, copy, get, via, outcome, own>>

ServerActs ==
    /\ click # NoClick /\ outcome = "none"
    /\ IF Accepts(click.act, row)
       THEN /\ row' = Effect(click.act, row)
            /\ outcome' = "accepted" /\ own' = row'.v
       ELSE outcome' = "refused" /\ UNCHANGED <<row, own>>
    /\ UNCHANGED <<screen, data, copy, get, via, click, budget>>

\* Faulty variant: the refetch is left to the poll.
AnsweredLeavesIt ==
    /\ outcome # "none"
    /\ outcome' = "none" /\ click' = NoClick
    /\ IF outcome = "accepted" /\ SameUrl(click.act) THEN copy' = NoData ELSE UNCHANGED copy
    /\ UNCHANGED <<screen, row, data, get, via, own, budget>>

\* onSuccess refetches and drops a GET under way (cancelRefetch); a refusal is
\* a success to an unchecked function.  A re-audit opens the new row's modal:
\* another query and another URL.
Answered ==
    /\ outcome # "none"
    /\ outcome' = "none" /\ click' = NoClick
    /\ IF outcome = "accepted" \/ screen \in Unchecked THEN AskAgain ELSE UNCHANGED get
    /\ IF outcome = "accepted" /\ (SameUrl(click.act) \/ click.act = "re_audit")
       THEN copy' = NoData ELSE UNCHANGED copy
    /\ IF outcome = "accepted" /\ click.act = "re_audit" THEN data' = NoData ELSE UNCHANGED data
    /\ UNCHANGED <<screen, row, via, own, budget>>

ScreensNext ==
    \/ RowMoves \/ OtherActs
    \/ Mounts \/ Poll \/ Read \/ Fails \/ Arrives \/ CopyExpires
    \/ Click \/ ServerActs \/ Answered

\* Workers work, timers fire, requests are answered and copies age.
ScreensFairness ==
    /\ WF_screenVars(RowMoves)
    /\ WF_screenVars(Poll \/ Read \/ Arrives)
    /\ WF_screenVars(CopyExpires)
    /\ WF_screenVars(ServerActs \/ Answered)

ScreensSpec == ScreensInit /\ [][ScreensNext]_screenVars /\ ScreensFairness

-----------------------------------------------------------------------------
Rows == [status : Live \cup Ended \cup {"none", "envelope"}, review : Review, v : Nat]

ScreensTypeOK ==
    /\ screen \in ScreenNames
    /\ row \in Rows /\ data \in Rows /\ copy \in Rows
    /\ get \in [pc : {"closed", "idle", "asked", "sent"}, answer : Rows]
    /\ via \in {"none", "server", "copy", "failed"}
    /\ click \in [act : {"none", "cancel", "retry", "re_audit", "create", "change"} \cup DOMAIN Target,
                  seen : Rows]
    /\ outcome \in {"none", "accepted", "refused"}
    /\ own \in Nat
    /\ budget \in [faults : 0 .. MaxFetchFaults, clicks : 0 .. MaxClicks, others : 0 .. MaxOthers]

\* A screen that shows a live row comes to show how it ended, whatever failed
\* on the way, unless an error body took the row's place; react-query keeps the
\* old data on an error and goes on polling.  The dashboard's project query
\* never polls: its "running" stays until it is mounted again.
FollowsToTheEnd ==
    (screen # "dashboard" /\ data.status \in Live) ~>
        \/ data.status \in Ended
        \/ screen \in Unchecked /\ Crashed
        \/ screen = "modal" /\ data = NoData    \* a new re-audit whose first GET failed

\* The buttons follow from one table of states, the routes' refusals from
\* another: a click is refused only when the row changed after the screen read
\* it.  "Reject" is offered in draft too, and "re-audit" beside a live row.
RefusedOnlyWhenStale ==
    [][outcome # "refused" /\ outcome' = "refused" =>
          click.seen # row \/ click.act \in {"reject", "re_audit"}]_screenVars

\* Once a click is answered and the refetch is in, the screen shows a row at
\* least as new as the click made it, unless the browser answered from its
\* copy: then "cancelled", "approved" or "deleted" shows only after the copy
\* and a later visit.
SeesItsClick ==
    (click = NoClick /\ get = Idle /\ via = "server" /\ data # Envelope) => data.v >= own

\* A screen shows what its clicks did, offers what the routes accept and follows
\* its row to the end (apps/web/src/pages against the routes).
ScreenTruth ==
    /\ [](ScreensTypeOK /\ SeesItsClick)
    /\ RefusedOnlyWhenStale /\ FollowsToTheEnd
=============================================================================
