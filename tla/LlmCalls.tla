------------------------------ MODULE LlmCalls -------------------------------
(***************************************************************************)
(* How the three writers of packages/core ask a language model and read    *)
(* its answer: runGeneration (generation/pipeline.ts), runExecutiveReport  *)
(* (reports/run-executive-report.ts) and runSuggestion (suggestions/       *)
(* run-suggestion.ts).  An answer is what the readers tell apart: a draft  *)
(* inside a think block, what wraps the payload, the payload.              *)
(***************************************************************************)
EXTENDS Naturals, Sequences

VARIABLES
    writer,   \* which of the three is asking
    asks,     \* the requests sent, in order
    answers,  \* the texts received, in order
    waiting,  \* a request is out
    outcome   \* what the caller got

llmVars == <<writer, asks, answers, waiting, outcome>>

(* Payloads: fit for the schema, readable but unfit, absent or unreadable. *)
Payload == {"valid", "invalid", "none"}
Text == [think : {"no", "valid", "invalid", "none"}, closed : BOOLEAN,
         wrap : {"bare", "fence", "prose"}, payload : Payload]
Texts ==
    {a \in Text : /\ a.think = "no" => a.closed
                  /\ ~a.closed => a.wrap = "bare" /\ a.payload = "none"}

(* A request of a writer: does it say the language to write in, and does it
   hold the task itself or only a correction of the last answer? *)
Ask == [locale : BOOLEAN, task : BOOLEAN, correction : BOOLEAN]
FirstAsk == [locale |-> TRUE, task |-> TRUE, correction |-> FALSE]
(* The second request of a generation is the first answer and a suffix,
   without the system prompt; the report's repeats the whole. *)
FaultySecondAsk == [locale |-> FALSE, task |-> FALSE, correction |-> TRUE]  \* faulty variant: every retry
SecondAsk ==
    LET full == writer = "report"
    IN [locale |-> full, task |-> full, correction |-> TRUE]

LlmInit ==
    /\ writer \in {"generation", "report", "suggestion"}
    /\ asks = <<FirstAsk>> /\ answers = <<>> /\ waiting = TRUE
    /\ outcome = "none"

(* stripLlmThinking: a think block goes, up to the end of the text if it is
   never closed, and so does the fence's opening line. *)
Stripped(a) == IF a.closed THEN a.payload ELSE "none"

(* Front matter must begin the stripped text. *)
ReadMarkdown(a) == IF a.wrap = "prose" THEN "none" ELSE Stripped(a)

(* First brace to last brace of the stripped text. *)
ReadSuggestion(a) == Stripped(a)

(* Every brace of the raw text, the think block's first. *)
Scanned(a) == IF a.think \in {"valid", "invalid"} THEN a.think ELSE a.payload

(* The text as it is or stripped, if that is JSON, else what a scan finds. *)
FaultyReadReport(a) == Scanned(a)  \* faulty variant: scan at once
ReadReport(a) ==
    IF a.wrap # "prose" /\ Stripped(a) # "none" THEN Stripped(a) ELSE Scanned(a)

Read(a) ==
    CASE writer = "generation" -> ReadMarkdown(a)
      [] writer = "report" -> ReadReport(a)
      [] writer = "suggestion" -> ReadSuggestion(a)

(* Who may ask again: a generation after any failure, a report after JSON
   that does not fit, a suggestion never. *)
FaultyAsksAgain(reading) == writer # "suggestion" /\ reading = "invalid"  \* faulty variant: schema errors only
AsksAgain(reading) ==
    /\ Len(asks) = 1
    /\ \/ writer = "generation"
       \/ writer = "report" /\ reading = "invalid"

Receive ==
    /\ waiting
    /\ \E a \in Texts :
           /\ answers' = Append(answers, a)
           /\ CASE Read(a) = "valid" -> outcome' = "written" /\ waiting' = FALSE /\ UNCHANGED asks
                [] Read(a) # "valid" /\ AsksAgain(Read(a)) ->
                       asks' = Append(asks, SecondAsk) /\ UNCHANGED <<outcome, waiting>>
                [] OTHER -> outcome' = "unreadable" /\ waiting' = FALSE /\ UNCHANGED asks
    /\ UNCHANGED writer

(* The provider answers with an error, or not before the request's signal:
   no writer asks again. *)
CallFails ==
    /\ waiting
    /\ outcome' = "failed" /\ waiting' = FALSE
    /\ UNCHANGED <<writer, asks, answers>>

LlmNext == Receive \/ CallFails
LlmSpec == LlmInit /\ [][LlmNext]_llmVars

LlmTypeOK ==
    /\ writer \in {"generation", "report", "suggestion"}
    /\ asks \in Seq(Ask) /\ answers \in Seq(Text) /\ waiting \in BOOLEAN
    /\ outcome \in {"none", "written", "unreadable", "failed"}

(* Invariant: no model is asked for text without being told the language and
   the task, but for the second request of a generation, whose result may
   come back in another language (pipeline.ts:133-140). *)
AskedInFull ==
    \A i \in DOMAIN asks :
        writer # "generation" \/ i = 1 => asks[i].locale /\ asks[i].task

(* Invariant: a report is written from the draft inside a think block only if
   nothing readable stands alone after it; prose around the answer makes the
   draft win (run-executive-report.ts:17-63). *)
DraftOnlyInNeed ==
    outcome = "written" /\ writer = "report" =>
        LET a == answers[Len(answers)]
        IN a.payload = "valid" \/ a.wrap = "prose" \/ a.payload = "none"

(* Invariant: a generation is given up for its text only after the model
   failed twice, a report only after unfit JSON twice or no JSON once, and
   nobody asks a third time (pipeline.ts:133-145,
   run-executive-report.ts:112-131). *)
GivesUpInTurn ==
    /\ Len(asks) <= 2
    /\ outcome = "unreadable" =>
           /\ writer = "generation" => Len(answers) = 2
           /\ writer = "report" /\ Len(answers) = 1 => ReadReport(answers[1]) = "none"
=============================================================================
