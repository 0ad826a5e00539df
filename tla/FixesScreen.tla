---------------------------- MODULE FixesScreen -----------------------------
(***************************************************************************)
(* The screen of an audit's findings and their suggestions                 *)
(* (web/src/pages/FixesPage.tsx, components/fixes/) over the rows the API  *)
(* keeps.  The screen loads the findings and then the suggestions of the   *)
(* audit its address names, may be sent to another audit at any time, and  *)
(* applies the answer of every click whenever it comes.  The API's own     *)
(* races are in Suggestions: here a request is served in one step.         *)
(***************************************************************************)
EXTENDS Naturals, Sequences, FiniteSets

CONSTANTS
    FixAudits,    \* the audits one can open; each has one finding, of its name
    MaxFixRows,   \* bounds the suggestions
    MaxFixCalls,  \* bounds the clicks whose answer is awaited at once
    MaxFixErrors, \* bounds the requests that fail
    MaxGoes       \* bounds the changes of the address

Nowhere == "nowhere"

ASSUME FixesAssumption ==
    /\ {MaxFixRows, MaxFixCalls, MaxFixErrors, MaxGoes} \subseteq Nat
    /\ Nowhere \notin FixAudits

VARIABLES
    suggested, \* the table of suggestions, in order of creation
    httpCopy,  \* the browser's copy of the list of each audit
    address,   \* the audit in the address, or none
    load,      \* what the load in progress waits for
    served,    \* the list on its way
    spinner,   \* the loading flag
    cards,     \* the audits whose finding is on the screen
    shown,     \* the suggestion the screen keeps of each finding
    clicks,    \* the requests of clicks, answered or not
    behind,    \* findings of which the screen may show an old row, and may say why
    fixErrors, goes

fixesVars ==
    <<suggested, httpCopy, address, load, served, spinner, cards, shown, clicks, behind, fixErrors, goes>>

Nothing == [id |-> 0, status |-> "none"]
Envelope == [id |-> 0, status |-> "error"]  \* an error body, taken for a suggestion

RowsOf(a) == {i \in DOMAIN suggested : suggested[i].of = a}
AsShown(i) == [id |-> i, status |-> suggested[i].status]

(* The list comes oldest first and each row overwrites the one before it. *)
FaultyLatest(a) ==  \* faulty variant: the first row is kept
    IF RowsOf(a) = {} THEN Nothing ELSE AsShown(CHOOSE i \in RowsOf(a) : \A j \in RowsOf(a) : i <= j)
Latest(a) ==
    IF RowsOf(a) = {} THEN Nothing ELSE AsShown(CHOOSE i \in RowsOf(a) : \A j \in RowsOf(a) : j <= i)
Newest(a) ==
    LET rows == RowsOf(a)
    IN IF rows = {} THEN Nothing ELSE AsShown(CHOOSE i \in rows : rows \subseteq 1..i)

FixesInit ==
    /\ \E a \in FixAudits :
           suggested \in {<<>>, <<[of |-> a, status |-> "pending"]>>}
    /\ httpCopy = [a \in FixAudits |-> Nothing]
    /\ address = Nowhere /\ load = "idle" /\ served = Nothing /\ spinner = FALSE
    /\ cards = {} /\ shown = [a \in FixAudits |-> Nothing]
    /\ clicks = {} /\ behind = {} /\ fixErrors = 0 /\ goes = 0

(* The address changes: the load in progress is cancelled, so that its
   answers are dropped, and a new one starts. *)
Go(a) ==
    /\ a # address /\ address' = a /\ goes < MaxGoes /\ goes' = goes + 1
    /\ IF a = Nowhere
       THEN /\ load' = "idle" /\ spinner' = FALSE
            /\ cards' = {} /\ shown' = [b \in FixAudits |-> Nothing]
       ELSE load' = "findings" /\ spinner' = TRUE /\ UNCHANGED <<cards, shown>>
    /\ served' = Nothing
    /\ UNCHANGED <<suggested, httpCopy, clicks, behind, fixErrors>>

(* The answer to the findings' request is dropped if the load was cancelled. *)
FaultyWanted(a) == a \in FixAudits /\ load = "findings"  \* faulty variant: cancelled is not looked at
Wanted(a) == a = address /\ load = "findings"

FindingsArrive ==
    \E a \in FixAudits :
        /\ Wanted(a)
        /\ cards' = {a} /\ load' = "suggestions" /\ served' = Nothing
        /\ UNCHANGED <<suggested, httpCopy, address, spinner, shown, clicks, behind, fixErrors, goes>>

(* A refused request ends the load and leaves what was on the screen. *)
FaultyLoadOver == load' = "idle" /\ UNCHANGED spinner  \* faulty variant: no finally
LoadOver == load' = "idle" /\ spinner' = FALSE

FindingsRefused ==
    /\ load = "findings" /\ fixErrors < MaxFixErrors
    /\ fixErrors' = fixErrors + 1
    /\ LoadOver /\ behind' = behind \union {address}
    /\ UNCHANGED <<suggested, httpCopy, address, served, cards, shown, clicks, goes>>

Awaited(a) == \E c \in clicks : c.of = a

(* The list is read, or the browser answers with its copy. *)
ListServed ==
    /\ load = "suggestions" /\ served = Nothing
    /\ \/ load' = "arriving" /\ served' = Latest(address)
          /\ httpCopy' = [httpCopy EXCEPT ![address] = Latest(address)]
          /\ behind' = IF Awaited(address) THEN behind \union {address} ELSE behind \ {address}
       \/ /\ httpCopy[address] # Nothing
          /\ load' = "arriving" /\ served' = httpCopy[address]
          /\ behind' = behind \union {address} /\ UNCHANGED httpCopy
    /\ UNCHANGED <<suggested, address, spinner, cards, shown, clicks, fixErrors, goes>>

ListArrives ==
    /\ load = "arriving"
    /\ shown' = [a \in FixAudits |-> IF a = address THEN served ELSE Nothing]
    /\ served' = Nothing
    /\ LoadOver
    /\ UNCHANGED <<suggested, httpCopy, address, cards, clicks, behind, fixErrors, goes>>

(* An error body is no list: iterating it throws and the map stays. *)
ListFails ==
    /\ load = "suggestions" /\ fixErrors < MaxFixErrors
    /\ fixErrors' = fixErrors + 1
    /\ LoadOver /\ behind' = behind \union {address}
    /\ UNCHANGED <<suggested, httpCopy, address, served, cards, shown, clicks, goes>>

(* Generate is offered without a suggestion, the decisions under a pending
   one; no button is disabled while its request is out. *)
Offered(a) ==
    CASE shown[a] = Nothing -> {"generate"}
      [] shown[a].status = "pending" -> {"accept", "reject"}
      [] OTHER -> {}

(* Two clicks on one button are two requests. *)
FreshNth == CHOOSE n \in 0..MaxFixCalls : \A c \in clicks : c.nth # n

Click ==
    \E a \in cards : \E op \in Offered(a) :
        /\ ~spinner /\ Cardinality(clicks) < MaxFixCalls
        /\ clicks' = clicks \union
               {[op |-> op, of |-> a, id |-> shown[a].id, reply |-> Nothing, nth |-> FreshNth]}
        /\ behind' = IF Awaited(a) THEN behind \union {a} ELSE behind
        /\ UNCHANGED <<suggested, httpCopy, address, load, served, spinner, cards, shown, fixErrors, goes>>

(* The API: a pending suggestion is returned, or superseded by a new one once
   it is old; the model, or the re-audit after an accept, may fail with the
   row written. *)
AnswerWith(c, r) == clicks' = (clicks \ {c}) \union {[c EXCEPT !.reply = r]}
Fail(c) == /\ fixErrors < MaxFixErrors /\ fixErrors' = fixErrors + 1
           /\ AnswerWith(c, Envelope)

ServeGenerate(c) ==
    LET pending == {i \in RowsOf(c.of) : suggested[i].status = "pending"}
        retired == [i \in DOMAIN suggested |->
                       IF i \in pending THEN [suggested[i] EXCEPT !.status = "superseded"] ELSE suggested[i]]
    IN \/ /\ pending # {} /\ AnswerWith(c, AsShown(CHOOSE i \in pending : TRUE))
          /\ UNCHANGED <<suggested, fixErrors>>
       \/ /\ Len(suggested) < MaxFixRows
          /\ suggested' = Append(retired, [of |-> c.of, status |-> "pending"])
          /\ AnswerWith(c, [id |-> Len(suggested) + 1, status |-> "pending"]) /\ UNCHANGED fixErrors
       \/ suggested' \in {suggested, retired} /\ Fail(c)

ServeDecision(c) ==
    LET decided == IF c.op = "accept" THEN "accepted" ELSE "rejected"
    IN IF suggested[c.id].status # "pending"
       THEN AnswerWith(c, Envelope) /\ UNCHANGED <<suggested, fixErrors>>
       ELSE /\ suggested' = [suggested EXCEPT ![c.id].status = decided]
            /\ \/ AnswerWith(c, [id |-> c.id, status |-> decided]) /\ UNCHANGED fixErrors
               \/ c.op = "accept" /\ Fail(c)

Serve ==
    \E c \in clicks :
        /\ c.reply = Nothing
        /\ IF c.op = "generate" THEN ServeGenerate(c) ELSE ServeDecision(c)
        /\ UNCHANGED <<httpCopy, address, load, served, spinner, cards, shown, behind, goes>>

(* The answer is put under the finding; the error of a decision names none:
   an accept's throws, a reject's lands under no finding. *)
Kept(c) == IF c.op # "generate" /\ c.reply = Envelope THEN shown[c.of] ELSE c.reply

AnswerArrives ==
    \E c \in clicks :
        /\ c.reply # Nothing
        /\ clicks' = clicks \ {c}
        /\ shown' = [shown EXCEPT ![c.of] = Kept(c)]
        /\ behind' = IF c.reply = Envelope \/ (load = "arriving" /\ address = c.of)
                     THEN behind \union {c.of} ELSE behind
        /\ UNCHANGED <<suggested, httpCopy, address, load, served, spinner, cards, fixErrors, goes>>

FixesNext ==
    \/ \E a \in FixAudits \union {Nowhere} : Go(a)
    \/ FindingsArrive \/ FindingsRefused \/ ListServed \/ ListArrives \/ ListFails
    \/ Click \/ Serve \/ AnswerArrives
FixesSpec == FixesInit /\ [][FixesNext]_fixesVars

FixesTypeOK ==
    LET Suggestion == [id : 0..MaxFixRows + 2, status : {"none", "error", "pending", "accepted", "rejected", "superseded"}]
    IN /\ \A i \in DOMAIN suggested : suggested[i].of \in FixAudits
       /\ httpCopy \in [FixAudits -> Suggestion] /\ shown \in [FixAudits -> Suggestion] /\ served \in Suggestion
       /\ address \in FixAudits \union {Nowhere} /\ spinner \in BOOLEAN
       /\ load \in {"idle", "findings", "suggestions", "arriving"}
       /\ cards \subseteq FixAudits /\ behind \subseteq FixAudits /\ fixErrors \in 0..MaxFixErrors /\ goes \in 0..MaxGoes

(* Invariant: the findings on the screen are those of the audit in the
   address once its load is past the findings, unless their request was
   refused: a slow answer for an audit one has left never takes the place of
   the new one's (FixesPage.tsx:65-103). *)
OwnFindings ==
    load \in {"suggestions", "arriving"} \/ (load = "idle" /\ address \notin behind) =>
        cards = {address} \ {Nowhere}

(* Invariant: the screen shows dots only while a load is in progress: a
   refusal, an error body or a cancelled load never leaves them for ever
   (FixesPage.tsx:95-97). *)
SpinnerHasLoad == spinner => load # "idle"

(* Invariant: with no request out, every card of the audit shows the row the API would
   list, unless the browser's own copy, an error, or two requests for one
   finding at a time explain the difference (FixesPage.tsx:88-94,147-164). *)
ShownAsStored ==
    load = "idle" /\ clicks = {} =>
        \A a \in cards \intersect {address} : shown[a] = Newest(a) \/ a \in behind

(* Invariant: the cards are those of the audit in the address and show the rows
   the API has, whatever order answers come in (FixesPage.tsx). *)
CardsTrue == FixesTypeOK /\ OwnFindings /\ SpinnerHasLoad /\ ShownAsStored
=============================================================================
