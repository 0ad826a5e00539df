----------------------------- MODULE Suggestions -----------------------------
(***************************************************************************)
(* The fixes JHEO suggests for one finding: routes/suggestions.ts and the  *)
(* page of the web client that shows them (pages/FixesPage.tsx).           *)
(*                                                                         *)
(* The table has @@unique([findingId, status]), so a write that would give *)
(* the finding a second row of a status throws and the request answers     *)
(* 500.  An LLM call of up to 30 s lies between the read and the create.   *)
(* `accept` asks POST /api/pages/:id/audit for a re-audit; PageReaudit     *)
(* models that request, here it is one of its three answers.               *)
(***************************************************************************)
EXTENDS Naturals, FiniteSets, FiniteSetsExt

CONSTANTS
    Browsers,        \* pages showing the finding; each waits for its answer
    MaxSuggestions,  \* bound: Suggestion rows of the finding
    MaxAsks          \* bound: requests

ASSUME SuggestionsAssumption == MaxSuggestions \in Nat /\ MaxAsks \in Nat

Ids == 1 .. MaxSuggestions
Decided == {"accepted", "rejected"}
SuggestionStatus == {"pending", "superseded"} \cup Decided

VARIABLES
    sugg,    \* Suggestion.status of every row ("none" before it exists)
    fresh,   \* the row is younger than FRESHNESS_MS
    ask,     \* where each browser's request is, and the row it read
    view,    \* what the page shows for the finding
    asks

suggVars == <<sugg, fresh, ask, view, asks>>

IdleAsk == [pc |-> "idle", id |-> 0]
Nothing == [id |-> 0, status |-> "none"]
Shown(i, s) == [id |-> i, status |-> s]

\* api.ts hands the body of any answer to the page: an error is kept in place of
\* the suggestion and shows a card without buttons.
ErrorCard == [id |-> 0, status |-> "error"]

SuggInit ==
    /\ sugg = [i \in Ids |-> "none"]
    /\ fresh = [i \in Ids |-> FALSE]
    /\ ask = [k \in Browsers |-> IdleAsk]
    /\ view = [k \in Browsers |-> Nothing]
    /\ asks = 0

With(st) == {i \in Ids : sugg[i] = st}
Taken(i, st) == With(st) \ {i} # {}

Begin(k, pc, i) ==
    /\ ask[k].pc = "idle"
    /\ asks < MaxAsks
    /\ asks' = asks + 1
    /\ ask' = [ask EXCEPT ![k] = [pc |-> pc, id |-> i]]
Continue(k, pc) == ask' = [ask EXCEPT ![k].pc = pc] /\ UNCHANGED asks
Answer(k, v) ==
    /\ ask' = [ask EXCEPT ![k] = IdleAsk]
    /\ view' = [view EXCEPT ![k] = v]
    /\ UNCHANGED asks

-----------------------------------------------------------------------------
(* POST /api/suggestions *)

\* The pending row is read: a fresh one is the answer, a stale one will be
\* superseded, and with none the LLM is asked at once.
PostRead(k) ==
    \/ /\ \E i \in With("pending") : ~fresh[i] /\ Begin(k, "stale", i)
       /\ UNCHANGED <<sugg, fresh, view>>
    \/ /\ With("pending") = {}
       /\ Begin(k, "asking", 0)
       /\ UNCHANGED <<sugg, fresh, view>>
    \/ \E i \in With("pending") :
          /\ fresh[i]
          /\ ask[k].pc = "idle" /\ asks < MaxAsks
          /\ asks' = asks + 1
          /\ view' = [view EXCEPT ![k] = Shown(i, "pending")]
          /\ UNCHANGED <<sugg, fresh, ask>>

\* The update names the row by id only, whatever its status has become.
Supersede(k) ==
    /\ ask[k].pc = "stale"
    /\ ~Taken(ask[k].id, "superseded")
    /\ sugg' = [sugg EXCEPT ![ask[k].id] = "superseded"]
    /\ Continue(k, "asking")
    /\ UNCHANGED <<fresh, view>>

SupersedeConflicts(k) ==
    /\ ask[k].pc = "stale"
    /\ Taken(ask[k].id, "superseded")
    /\ Answer(k, ErrorCard)
    /\ UNCHANGED <<sugg, fresh>>

\* runSuggestion: the provider's text holds the JSON asked for, or
\* LlmOutputError answers 502 and CATEGORY_NOT_SUPPORTED 422.
LlmAnswers(k) ==
    /\ ask[k].pc = "asking"
    /\ Continue(k, "creating")
    /\ UNCHANGED <<sugg, fresh, view>>

LlmFails(k) ==
    /\ ask[k].pc = "asking"
    /\ Answer(k, ErrorCard)
    /\ UNCHANGED <<sugg, fresh>>

\* Faulty variant: nothing keeps the finding from having two pending rows.
PostCreateTwice(k) ==
    /\ ask[k].pc = "creating"
    /\ With("none") # {}
    /\ LET i == Min(With("none")) IN
       /\ sugg' = [sugg EXCEPT ![i] = "pending"]
       /\ fresh' = [fresh EXCEPT ![i] = TRUE]
       /\ Answer(k, Shown(i, "pending"))

PostCreate(k) ==
    /\ ask[k].pc = "creating"
    /\ With("none") # {}
    /\ With("pending") = {}
    /\ LET i == Min(With("none")) IN
       /\ sugg' = [sugg EXCEPT ![i] = "pending"]
       /\ fresh' = [fresh EXCEPT ![i] = TRUE]
       /\ Answer(k, Shown(i, "pending"))

PostConflicts(k) ==
    /\ ask[k].pc = "creating"
    /\ With("pending") # {}
    /\ Answer(k, ErrorCard)
    /\ UNCHANGED <<sugg, fresh>>

-----------------------------------------------------------------------------
(* POST /api/suggestions/:id/accept and /reject, for the row the page shows *)

\* Faulty variant: the 409 of a decided suggestion is missing.
DecideReadAny(k) ==
    /\ view[k].status = "pending"
    /\ \E pc \in {"accepting", "rejecting"} : Begin(k, pc, view[k].id)
    /\ UNCHANGED <<sugg, fresh, view>>

DecideRead(k) ==
    /\ view[k].status = "pending"
    /\ sugg[view[k].id] = "pending"
    /\ \E pc \in {"accepting", "rejecting"} : Begin(k, pc, view[k].id)
    /\ UNCHANGED <<sugg, fresh, view>>

\* 409 ALREADY_DECIDED leaves the page as it was.
DecideRefused(k) ==
    /\ view[k].status = "pending"
    /\ sugg[view[k].id] # "pending"
    /\ ask[k].pc = "idle" /\ asks < MaxAsks
    /\ asks' = asks + 1
    /\ UNCHANGED <<sugg, fresh, ask, view>>

\* Faulty variant: the decision is shown before it is stored.
AcceptWriteEarly(k) ==
    /\ ask[k].pc = "accepting"
    /\ view' = [view EXCEPT ![k].status = "accepted"]
    /\ Continue(k, "delegating")
    /\ UNCHANGED <<sugg, fresh>>

AcceptWrite(k) ==
    /\ ask[k].pc = "accepting"
    /\ ~Taken(ask[k].id, "accepted")
    /\ sugg' = [sugg EXCEPT ![ask[k].id] = "accepted"]
    /\ Continue(k, "delegating")
    /\ UNCHANGED <<fresh, view>>

RejectWrite(k) ==
    /\ ask[k].pc = "rejecting"
    /\ ~Taken(ask[k].id, "rejected")
    /\ sugg' = [sugg EXCEPT ![ask[k].id] = "rejected"]
    /\ Answer(k, Shown(ask[k].id, "rejected"))
    /\ UNCHANGED fresh

DecideConflicts(k) ==
    /\ \/ ask[k].pc = "accepting" /\ Taken(ask[k].id, "accepted")
       \/ ask[k].pc = "rejecting" /\ Taken(ask[k].id, "rejected")
    /\ Answer(k, view[k])
    /\ UNCHANGED <<sugg, fresh>>

\* The re-audit is created (200) or one is in progress (409): the acceptance is
\* the answer.  Anything else is a 502, though the row stays accepted.
Delegate(k) ==
    /\ ask[k].pc = "delegating"
    /\ \E answer \in {"ok", "busy", "failed"} :
          Answer(k, IF answer = "failed" THEN view[k] ELSE Shown(ask[k].id, "accepted"))
    /\ UNCHANGED <<sugg, fresh>>

-----------------------------------------------------------------------------
\* The page is opened or reloaded; it keeps the newest suggestion of the finding.
Load(k) ==
    /\ ask[k].pc = "idle"
    /\ LET all == {i \in Ids : sugg[i] # "none"} IN
       view' = [view EXCEPT ![k] = IF all = {} THEN Nothing ELSE Shown(Max(all), sugg[Max(all)])]
    /\ UNCHANGED <<sugg, fresh, ask, asks>>

AgeOut(i) ==
    /\ sugg[i] # "none" /\ fresh[i]
    /\ fresh' = [fresh EXCEPT ![i] = FALSE]
    /\ UNCHANGED <<sugg, ask, view, asks>>

\* The process dies under a request.
AskLost(k) ==
    /\ ask[k].pc # "idle"
    /\ ask' = [ask EXCEPT ![k] = IdleAsk]
    /\ UNCHANGED <<sugg, fresh, view, asks>>

SuggNext ==
    \/ \E k \in Browsers :
          \/ PostRead(k) \/ Supersede(k) \/ SupersedeConflicts(k)
          \/ LlmAnswers(k) \/ LlmFails(k) \/ PostCreate(k) \/ PostConflicts(k)
          \/ DecideRead(k) \/ DecideRefused(k) \/ AcceptWrite(k) \/ RejectWrite(k)
          \/ DecideConflicts(k) \/ Delegate(k) \/ Load(k) \/ AskLost(k)
    \/ \E i \in Ids : AgeOut(i)

SuggSpec == SuggInit /\ [][SuggNext]_suggVars

-----------------------------------------------------------------------------
SuggTypeOK ==
    /\ sugg \in [Ids -> {"none"} \cup SuggestionStatus]
    /\ fresh \in [Ids -> BOOLEAN]
    /\ ask \in [Browsers -> [pc : {"idle", "stale", "asking", "creating", "accepting",
                                   "rejecting", "delegating"}, id : Ids \cup {0}]]
    /\ view \in [Browsers -> [id : Ids \cup {0},
                              status : SuggestionStatus \cup {"none", "error"}]]
    /\ asks \in 0 .. MaxAsks

\* POST /api/suggestions reads for a pending row and creates one an LLM call
\* later: however many pages ask at once, the finding has one pending suggestion,
\* so that a decision is about the one suggestion every reload shows.
OnePending == Cardinality(With("pending")) <= 1

\* A decision changes only under a request that read the suggestion while it was
\* pending: the 409 of accept and reject, and the filter of POST, stop every
\* request that begins later.
OnlyEarlierReadersOverwrite ==
    [][/\ \A i \in Ids : (sugg[i] \in Decided /\ sugg'[i] # sugg[i]) =>
             \E k \in Browsers : ask[k].id = i /\ ask[k].pc \in {"stale", "accepting", "rejecting"}
       /\ \A k \in Browsers :
             (ask[k].pc = "idle" /\ ask'[k].id # 0) => sugg[ask'[k].id] = "pending"]_suggVars

\* A page shows a suggestion as accepted or rejected only once a decision on it
\* is stored, although answers of several requests arrive in any order.
ShownDecisionsAreStored ==
    \A k \in Browsers : view[k].status \in Decided => sugg[view[k].id] # "pending"

\* A finding has one suggestion to decide on, a decision stands against every
\* later request, and a page shows none that is not stored (suggestions.ts).
DecisionsKept ==
    /\ [](SuggTypeOK /\ OnePending /\ ShownDecisionsAreStored)
    /\ OnlyEarlierReadersOverwrite
=============================================================================
