------------------------------ MODULE Delivery -------------------------------
(***************************************************************************)
(* What one publish does outside: the three publishers and the way the     *)
(* publish handler answers their errors (packages/core/src/distribution/,  *)
(* jobs/publish-job.ts).  PublishPipeline has the rows and the jobs; here  *)
(* is the remote side.  An attempt ends completed, queued again or failed; *)
(* what it left at the site stays.                                         *)
(***************************************************************************)
EXTENDS Naturals, Sequences

CONSTANTS
    Tags,             \* the tags of the post, in order
    MaxStoreFailures, \* bounds the failing writes of the row
    MaxDeaths         \* bounds the ends of the process; BullMQ forgives one stall

ASSUME DeliveryAssumption ==
    Tags \in Seq(STRING) /\ MaxStoreFailures \in Nat /\ MaxDeaths \in Nat

VARIABLES
    kind,      \* the channel's type
    publish,   \* the row: status, attempts and what it names at the site
    call,      \* where the call of the publisher is
    tagAt,     \* the tag being resolved
    result,       \* what the publisher will return
    posts,     \* how many posts the site created for this publish
    terms,     \* the tags the site knows
    bundles,   \* how many files each attempt's directory holds
    unknown,   \* attempts that posted and whose answer was no use
    unstored,  \* attempts that were accepted and could not be recorded
    redirected, \* the last answer was neither 2xx, 4xx nor 5xx
    deaths,    \* ends of the process
    again,     \* the job of an execution that died waits to be delivered again
    repeated   \* deaths after the site had accepted the post

deliveryVars ==
    <<kind, publish, call, tagAt, result, posts, terms, bundles, unknown, unstored, redirected,
      deaths, again, repeated>>
deathVars == <<deaths, again, repeated>>

MaxAttempts == 3
BundleFiles == 5  \* index, article, llms.txt, robots.txt, sitemap
None == 0         \* no id, no directory

DeliveryInit ==
    /\ kind \in {"wordpress", "http", "agent"}
    /\ publish = [status |-> "queued", attempts |-> 0, names |-> None]
    /\ call = "none" /\ tagAt = 1 /\ result = None
    /\ posts = 0 /\ terms = {} /\ bundles = <<>>
    /\ unknown = 0 /\ unstored = 0 /\ redirected = FALSE
    /\ deaths = 0 /\ again = FALSE /\ repeated = 0

(* The handler refuses cancelled rows only: the job of an execution that died
   finds its row running, or completed, and publishes it. *)
PickUp ==
    /\ call = "none" /\ (publish.status = "queued" \/ again)
    /\ again' = FALSE
    /\ publish' = [publish EXCEPT !.status = "running", !.attempts = @ + 1]
    /\ call' = "posting" /\ tagAt' = 1 /\ result' = None /\ redirected' = FALSE
    /\ UNCHANGED <<kind, posts, terms, bundles, unknown, unstored, deaths, repeated>>

(* A publisher's error has a status only if it is WordPress's own class; any
   other error counts as retryable. *)
NoStatus == 0
Retryable(status) == status = NoStatus \/ status >= 500 \/ status \in {408, 429}

Caught(status) ==
    /\ publish' = [publish EXCEPT
           !.status = IF Retryable(status) /\ publish.attempts < MaxAttempts
                      THEN "queued" ELSE "failed"]
    /\ call' = "none"

(* The site made the post and the answer says which; an endpoint without a
   response path, or whose answer is not JSON, is believed without an id. *)
Accepted ==
    /\ call = "posting" /\ kind # "agent"
    /\ posts' = posts + 1
    /\ result' \in IF kind = "http" THEN {posts + 1, None} ELSE {posts + 1}
    /\ call' = IF kind = "wordpress" THEN "tagging" ELSE "storing"
    /\ UNCHANGED <<kind, publish, tagAt, terms, bundles, unknown, unstored, redirected, deathVars>>

(* The site made the post and the answer is lost, late, an error page or, for
   WordPress, not JSON. *)
AcceptedUnread ==
    /\ call = "posting" /\ kind # "agent"
    /\ posts' = posts + 1 /\ unknown' = unknown + 1
    /\ Caught(NoStatus)
    /\ UNCHANGED <<kind, tagAt, result, terms, bundles, unstored, redirected, deathVars>>

(* WordPress: 5xx and the like carry their status, 4xx do not; an HTTP
   endpoint's never do. *)
Faulty4xxStatus(answer) == answer  \* faulty variant: refusals carry theirs too
StatusOf(answer) == IF kind = "wordpress" /\ answer # 403 THEN answer ELSE NoStatus

Refused ==
    /\ call = "posting" /\ kind # "agent"
    /\ \E answer \in {304, 403, 503} :
           /\ Caught(StatusOf(answer))
           /\ redirected' = (answer = 304)
    /\ UNCHANGED <<kind, tagAt, result, posts, terms, bundles, unknown, unstored, deathVars>>

(* Tags are looked up, and created if absent, one by one after the post;
   whatever fails there is logged and the next one is tried. *)
FaultyTagFailed == Caught(NoStatus) /\ tagAt' = tagAt  \* faulty variant: the error is not caught
TagFailed == tagAt' = tagAt + 1 /\ UNCHANGED <<publish, call>>

ResolveTag ==
    /\ call = "tagging" /\ tagAt <= Len(Tags)
    /\ \/ terms' = terms \union {Tags[tagAt]} /\ tagAt' = tagAt + 1 /\ UNCHANGED <<publish, call>>
       \/ TagFailed /\ UNCHANGED terms
    /\ UNCHANGED <<kind, result, posts, bundles, unknown, unstored, redirected, deathVars>>

TagsDone ==
    /\ call = "tagging" /\ tagAt > Len(Tags)
    /\ call' = "storing"
    /\ UNCHANGED <<kind, publish, tagAt, result, posts, terms, bundles, unknown, unstored, redirected, deathVars>>

(* The agent writes its files into a directory of this attempt, without an
   await; a write that throws leaves the ones before it. *)
FaultyWritten(files) == files > 0  \* faulty variant: a failing write is swallowed
Written(files) == files = BundleFiles

WriteBundle ==
    /\ call = "posting" /\ kind = "agent"
    /\ \E files \in 0..BundleFiles :
           /\ bundles' = Append(bundles, files)
           /\ IF Written(files)
              THEN call' = "storing" /\ result' = Len(bundles) + 1 /\ UNCHANGED publish
              ELSE Caught(NoStatus) /\ UNCHANGED result
    /\ UNCHANGED <<kind, tagAt, posts, terms, unknown, unstored, redirected, deathVars>>

StoreResult ==
    /\ call = "storing"
    /\ publish' = [publish EXCEPT !.status = "completed", !.names = result]
    /\ call' = "none"
    /\ UNCHANGED <<kind, tagAt, result, posts, terms, bundles, unknown, unstored, redirected, deathVars>>

(* The write of the row is inside the same try: its failure is retried as if
   the publisher had failed. *)
StoreFails ==
    /\ call = "storing" /\ unstored < MaxStoreFailures
    /\ unstored' = unstored + 1
    /\ Caught(NoStatus)
    /\ UNCHANGED <<kind, tagAt, result, posts, terms, bundles, unknown, redirected, deathVars>>

(* The process ends while the publisher is called or before the job is
   acknowledged; what the site has by then stays. *)
Dies ==
    /\ deaths < MaxDeaths /\ ~again
    /\ call # "none" \/ publish.status = "completed"
    /\ deaths' = deaths + 1 /\ again' = TRUE /\ call' = "none"
    /\ repeated' = repeated + (IF call = "posting" THEN 0 ELSE 1)
    /\ \/ UNCHANGED <<posts, unknown, bundles>>
       \/ /\ call = "posting" /\ kind # "agent"
          /\ posts' = posts + 1 /\ unknown' = unknown + 1
          /\ UNCHANGED bundles
       \/ /\ call = "posting" /\ kind = "agent"
          /\ \E files \in 0..BundleFiles : bundles' = Append(bundles, files)
          /\ UNCHANGED <<posts, unknown>>
    /\ UNCHANGED <<kind, publish, tagAt, result, terms, unstored, redirected>>

DeliveryNext ==
    PickUp \/ Accepted \/ AcceptedUnread \/ Refused \/ ResolveTag \/ TagsDone
        \/ WriteBundle \/ StoreResult \/ StoreFails \/ Dies
DeliverySpec == DeliveryInit /\ [][DeliveryNext]_deliveryVars

DeliveryTypeOK ==
    /\ kind \in {"wordpress", "http", "agent"}
    /\ publish \in [status : {"queued", "running", "completed", "failed"},
                    attempts : 0..MaxAttempts + MaxDeaths, names : 0..MaxAttempts + MaxDeaths]
    /\ call \in {"none", "posting", "tagging", "storing"}
    /\ tagAt \in 1..Len(Tags) + 1 /\ result \in 0..MaxAttempts + MaxDeaths
    /\ posts \in 0..MaxAttempts + MaxDeaths
    /\ terms \subseteq {Tags[i] : i \in DOMAIN Tags}
    /\ bundles \in Seq(0..BundleFiles) /\ unknown \in Nat /\ unstored \in Nat
    /\ redirected \in BOOLEAN
    /\ deaths \in 0..MaxDeaths /\ again \in BOOLEAN /\ repeated \in 0..deaths

(* Invariant: the site holds at most one post more than the attempts whose
   outcome was lost on the way back, on the way into the row or with the
   process: a failing tag, a refusal or a server error never makes a second
   post (wordpress.ts, publish-job.ts). *)
DuplicatesExplained == posts <= 1 + unknown + unstored + repeated

(* Invariant: what a completed publish names is there, the last post made at
   the site or a directory with every file of the bundle; an HTTP endpoint may
   leave it unnamed (distribution/, publish-job.ts). *)
NamesWhatExists ==
    publish.status = "completed" =>
        CASE kind = "wordpress" -> publish.names = posts /\ posts > 0
          [] kind = "http" -> publish.names \in {None, posts} /\ posts > 0
          [] kind = "agent" -> publish.names \in DOMAIN bundles
                                  /\ bundles[publish.names] = BundleFiles

(* Invariant: a publish fails before its third attempt only on an answer that
   is neither success, refusal nor server error; a refusal (401, 404) is
   tried three times too, for its error has no status (publish-job.ts:186). *)
FailsEarlyOnlyOnRedirect ==
    publish.status = "failed" => publish.attempts >= MaxAttempts \/ redirected
=============================================================================
