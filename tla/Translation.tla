---------------------------- MODULE Translation -----------------------------
(***************************************************************************)
(* Translated texts: the hook of the web client that asks for them and     *)
(* keeps them (i18n/useDataTranslations.ts, translateTexts of api.ts), the *)
(* route that asks a language model for those the TranslationCache table   *)
(* lacks (routes/translate.ts, i18n/translate.ts) and the table.           *)
(*                                                                         *)
(* A translation is <<text, n>>: the model's n-th line for that text, or   *)
(* the text itself for n = 0.  Locale and context are fixed.               *)
(***************************************************************************)
EXTENDS Integers, Sequences, FiniteSets

CONSTANTS
    Hooks,          \* components that show texts
    Batches,        \* the sequences of texts they show
    Lines,          \* the lines of each text, 1 or more
    Calls,          \* POST /api/translate in progress
    MaxCalls        \* bound: calls

ASSUME TranslationAssumption ==
    \A b \in Batches : \A i \in DOMAIN b : b[i] \in DOMAIN Lines /\ Lines[b[i]] \in Nat \ {0}

Texts == DOMAIN Lines
None == <<>>
Foot == <<"note", 1>>    \* a line the model adds

VARIABLES
    table,      \* TranslationCache by text: cacheKey is unique
    memo,       \* the client's module-level cache
    hook,       \* what each component shows, and whether it waits for its call
    call,       \* the calls: misses are the slots of `batch` to be translated
    calls

transVars == <<table, memo, hook, call, calls>>

NoCall == [pc |-> "none", batch |-> <<>>, owner |-> None, hits |-> <<>>, misses |-> <<>>, blob |-> <<>>, todo |-> {}]
IdleHook == [texts |-> <<>>, loading |-> FALSE, error |-> FALSE]

TransInit ==
    /\ \E before \in SUBSET Texts : table = [t \in Texts |-> IF t \in before THEN <<t, 1>> ELSE None]
    /\ memo = [t \in Texts |-> None]
    /\ hook = [h \in Hooks |-> IdleHook]
    /\ call = [c \in Calls |-> NoCall]
    /\ calls = 0

-----------------------------------------------------------------------------
(* The client *)

Uncached(b) == SelectSeq(b, LAMBDA t : memo[t] = None)

\* A component shows other texts (or is mounted): the effect of its former call
\* is cancelled, the call goes on.  Texts the client has are shown at once; the
\* rest is asked for, duplicates and texts another component waits for included.
Show(h, b) ==
    /\ hook[h].texts # b
    /\ IF Uncached(b) = <<>>
       THEN /\ hook' = [hook EXCEPT ![h] = [IdleHook EXCEPT !.texts = b]]
            /\ call' = [c \in Calls |-> IF call[c].owner = h THEN [call[c] EXCEPT !.owner = None] ELSE call[c]]
            /\ UNCHANGED calls
       ELSE \E free \in {c \in Calls : call[c] = NoCall} :
            /\ calls < MaxCalls /\ calls' = calls + 1
            /\ hook' = [hook EXCEPT ![h] = [texts |-> b, loading |-> TRUE, error |-> FALSE]]
            /\ call' = [c \in Calls |->
                   IF c = free THEN [NoCall EXCEPT !.pc = "asked", !.batch = Uncached(b), !.owner = h]
                   ELSE IF call[c].owner = h THEN [call[c] EXCEPT !.owner = None] ELSE call[c]]
    /\ UNCHANGED <<table, memo>>

\* Faulty variant: the component goes on waiting after an error.
RefusedSilently(c) == UNCHANGED hook

\* An error is shown as "rate limited" whatever it was;
\* a cancelled effect ignores it.
Refused(c) ==
    hook' = [h \in Hooks |-> IF h = call[c].owner THEN [hook[h] EXCEPT !.loading = FALSE, !.error = TRUE] ELSE hook[h]]

-----------------------------------------------------------------------------
(* POST /api/translate *)

\* 429 after one retry, or the model's failure or timeout.
CallFails(c) ==
    /\ call[c].pc \in {"asked", "looked"}
    /\ Refused(c)
    /\ call' = [call EXCEPT ![c] = NoCall]
    /\ UNCHANGED <<table, memo, calls>>

\* the slots without a row, in order
Misses(b) ==
    LET n == Cardinality({i \in DOMAIN b : table[b[i]] = None}) IN
    [k \in 1 .. n |-> CHOOSE i \in DOMAIN b :
        table[b[i]] = None /\ Cardinality({j \in 1 .. i : table[b[j]] = None}) = k]

Lookup(c) ==
    LET b == call[c].batch IN
    /\ call[c].pc = "asked"
    /\ call' = [call EXCEPT ![c].pc = IF Misses(b) = <<>> THEN "answering" ELSE "looked",
                            ![c].hits = [i \in DOMAIN b |-> table[b[i]]],
                            ![c].misses = Misses(b)]
    /\ UNCHANGED <<table, memo, hook, calls>>

\* The texts are sent joined by newlines and come back line by line, perhaps cut
\* short or with a line of explanation.
LinesFor(b, misses) ==
    LET Join[k \in 0 .. Len(misses)] ==
            IF k = 0 THEN <<>>
            ELSE Join[k - 1] \o [n \in 1 .. Lines[b[misses[k]]] |-> <<b[misses[k]], n>>]
    IN Join[Len(misses)]

ModelAnswers(c) ==
    LET full == LinesFor(call[c].batch, call[c].misses) IN
    /\ call[c].pc = "looked"
    /\ \E blob \in {full, SubSeq(full, 1, Len(full) - 1), Append(full, Foot)} :
        call' = [call EXCEPT ![c].pc = "creating", ![c].blob = blob, ![c].todo = DOMAIN call[c].misses]
    /\ UNCHANGED <<table, memo, hook, calls>>

\* Faulty variant: the lines are counted by slot, hits included.
SlotOfBatch(c, i) ==
    LET blob == call[c].blob IN
    IF call[c].misses[i] \in DOMAIN blob THEN blob[call[c].misses[i]] ELSE <<call[c].batch[call[c].misses[i]], 0>>

\* splitTranslations: the i-th line for the i-th text, the text itself for a
\* missing line; a text of two lines thus gets its first line only, and the text
\* after it the second.
Slot(c, i) ==
    LET blob == call[c].blob IN
    IF i \in DOMAIN blob THEN blob[i] ELSE <<call[c].batch[call[c].misses[i]], 0>>

\* Faulty variant: a row that exists already is taken for this call's.
CreateIgnoresConflict(c, i) ==
    LET t == call[c].batch[call[c].misses[i]] IN
    /\ call[c].pc = "creating" /\ i \in call[c].todo
    /\ table' = [table EXCEPT ![t] = IF @ = None THEN Slot(c, i) ELSE @]
    /\ call' = [call EXCEPT ![c].hits[call[c].misses[i]] = Slot(c, i), ![c].todo = @ \ {i},
                            ![c].pc = IF call[c].todo = {i} THEN "answering" ELSE @]
    /\ UNCHANGED <<memo, hook, calls>>

\* Faulty variant: the answer does not wait for the rows.
CreateNotAwaited(c, i) ==
    LET t == call[c].batch[call[c].misses[i]] IN
    /\ call[c].pc = "creating" /\ i \in call[c].todo /\ table[t] = None
    /\ table' = [table EXCEPT ![t] = Slot(c, i)]
    /\ call' = [call EXCEPT ![c].hits[call[c].misses[i]] = Slot(c, i), ![c].todo = {}, ![c].pc = "answering"]
    /\ UNCHANGED <<memo, hook, calls>>

\* Promise.all of creates: one that finds the key taken, by another call or by a
\* duplicate of this batch, fails the call at once; the others still happen.
Create(c, i) ==
    LET t == call[c].batch[call[c].misses[i]] IN
    /\ call[c].pc \in {"creating", "failed"} /\ i \in call[c].todo
    /\ \/ /\ table[t] = None
          /\ table' = [table EXCEPT ![t] = Slot(c, i)]
          /\ call' = [call EXCEPT ![c] =
                 IF @.todo # {i} THEN [@ EXCEPT !.hits[@.misses[i]] = Slot(c, i), !.todo = @ \ {i}]
                 ELSE IF @.pc = "failed" THEN NoCall
                 ELSE [@ EXCEPT !.hits[@.misses[i]] = Slot(c, i), !.todo = {}, !.pc = "answering"]]
          /\ UNCHANGED hook
       \/ /\ table[t] # None
          /\ call' = [call EXCEPT ![c] = IF @.todo = {i} THEN NoCall
                                         ELSE [@ EXCEPT !.todo = @ \ {i}, !.pc = "failed", !.owner = None]]
          /\ Refused(c)
          /\ UNCHANGED table
    /\ UNCHANGED <<memo, calls>>

\* The client keeps what it gets, unless the effect was cancelled.
Deliver(c) ==
    LET b == call[c].batch IN
    /\ call[c].pc = "answering"
    /\ IF call[c].owner \in Hooks
       THEN /\ memo' = [t \in Texts |->
                   LET got == {call[c].hits[i] : i \in {j \in DOMAIN b : b[j] = t}} \ {None} IN
                   IF got = {} THEN memo[t] ELSE CHOOSE translation \in got : TRUE]
            /\ hook' = [hook EXCEPT ![call[c].owner].loading = FALSE]
       ELSE UNCHANGED <<memo, hook>>
    /\ call' = [call EXCEPT ![c] = NoCall]
    /\ UNCHANGED <<table, calls>>

Serve(c) ==
    \/ CallFails(c) \/ Lookup(c) \/ ModelAnswers(c) \/ Deliver(c)
    \/ \E i \in call[c].todo : Create(c, i)

TransNext ==
    \/ \E h \in Hooks, b \in Batches : Show(h, b)
    \/ \E c \in Calls : Serve(c)

\* A call is answered: the model is given 30 s.
TransFairness == \A c \in Calls : WF_transVars(Serve(c))
TransSpec == TransInit /\ [][TransNext]_transVars /\ TransFairness

-----------------------------------------------------------------------------
Translations(ts) == {None, Foot} \cup {<<t, n>> : t \in ts, n \in 0 .. 2}

TransTypeOK ==
    /\ table \in [Texts -> Translations(Texts)] /\ memo \in [Texts -> Translations(Texts)]
    /\ \A h \in Hooks : hook[h].texts \in Batches \cup {<<>>} /\ {hook[h].loading, hook[h].error} \subseteq BOOLEAN
    /\ \A c \in Calls : /\ call[c].pc \in {"none", "asked", "looked", "creating", "failed", "answering"}
                        /\ call[c].owner \in Hooks \cup {None}
                        /\ call[c].todo \subseteq DOMAIN call[c].misses

\* Whatever calls overlapped or failed, what a component shows is what the table
\* holds, which is what every other client will be shown.
ShownIsStored == \A t \in Texts : memo[t] # None => memo[t] = table[t]

\* Texts of one line get a translation of their own, never a neighbour's: each
\* goes to the slot it was asked in.
OwnTranslation == \A t \in Texts : table[t] # None => table[t][1] = t

\* A call that is answered is answered for every text, so a component that is no
\* longer waiting and got no error has nothing left untranslated.
AnsweredInFull ==
    \A h \in Hooks : (~hook[h].loading /\ ~hook[h].error) =>
        \A i \in DOMAIN hook[h].texts : memo[hook[h].texts[i]] # None

\* A component stops waiting, whatever became of its call.
HookSettles == \A h \in Hooks : hook[h].loading ~> ~hook[h].loading

\* What a component shows is the stored translation of that very text, it has one
\* for each once it is answered, and it is answered (translate.ts).
TranslationsTrue ==
    /\ [](TransTypeOK /\ ShownIsStored /\ OwnTranslation /\ AnsweredInFull)
    /\ HookSettles
=============================================================================
