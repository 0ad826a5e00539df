----------------------------- MODULE Templates ------------------------------
(***************************************************************************)
(* The versions of one generation template (routes/templates.ts): created  *)
(* one after the other, one of them active.  The composer offers the       *)
(* active version (GenerationComposer.tsx).                                *)
(***************************************************************************)
EXTENDS Integers, Sequences, FiniteSets

CONSTANTS
    Editors,
    MaxTemplates,       \* bound: versions
    MaxEdits,           \* bound: requests
    MaxTemplateFaults   \* bound: restarts and failing statements

ASSUME TemplatesAssumption == MaxTemplates \in Nat

VARIABLES
    templates,   \* GenerationTemplate of one name: <<version, isActive>> by id
    edit,        \* the request of each editor; `todo` are the statements of PATCH
                 \* active still to be executed
    last,        \* history: the last activation was "whole", or "torn" by another
                 \* that overlapped or because it was cut short
    budget       \* what remains of the bounds

templateVars == <<templates, edit, last, budget>>

Ids == 1 .. MaxTemplates
NoEdit == [pc |-> "idle", id |-> 0, max |-> 0, todo |-> {}]
Rows == DOMAIN templates
Versions == {templates[i].version : i \in Rows}
Active == {i \in Rows : templates[i].isActive}
Highest(vs) == IF vs = {} THEN 0 ELSE CHOOSE v \in vs : \A w \in vs : w <= v

TemplatesInit ==
    /\ templates = <<>>
    /\ edit = [e \in Editors |-> NoEdit]
    /\ last = "none"
    /\ budget = [edits |-> MaxEdits, faults |-> MaxTemplateFaults]

Begin(e, request) ==
    /\ edit[e] = NoEdit /\ budget.edits > 0
    /\ budget' = [budget EXCEPT !.edits = @ - 1]
    /\ edit' = [edit EXCEPT ![e] = request]
End(e) == edit' = [edit EXCEPT ![e] = NoEdit]
Activating == {e \in Editors : edit[e].pc = "activating"}

\* POST: 409 when the name has a version.
PostTemplate(e) ==
    /\ templates = <<>>
    /\ Begin(e, [NoEdit EXCEPT !.pc = "creating"])
    /\ UNCHANGED <<templates, last>>

\* PUT reads the highest version of the name; without the row it is 404.
PutTemplate(e, i) ==
    /\ i \in Rows
    /\ Begin(e, [NoEdit EXCEPT !.pc = "creating", !.max = Highest(Versions)])
    /\ UNCHANGED <<templates, last>>

\* Faulty variant: the table has no @@unique([name, version]).
VersionAlwaysFree(version) == TRUE

VersionFree(version) == version \notin Versions

\* The next version is created inactive; another request's made the create fail.
CreateVersion(e) ==
    /\ edit[e].pc = "creating"
    /\ \/ /\ VersionFree(edit[e].max + 1) /\ Len(templates) < MaxTemplates
          /\ templates' = Append(templates, [version |-> edit[e].max + 1, isActive |-> FALSE])
       \/ /\ ~VersionFree(edit[e].max + 1) \/ Len(templates) = MaxTemplates
          /\ UNCHANGED templates
    /\ End(e)
    /\ UNCHANGED <<last, budget>>

\* PATCH active: both statements are issued at once and run in any order, each in
\* a transaction of its own.
Activate(e, i) ==
    /\ i \in Rows
    /\ Begin(e, [NoEdit EXCEPT !.pc = "activating", !.id = i, !.todo = {"siblings", "target"}])
    /\ last' = IF Activating = {} THEN "running" ELSE "torn"
    /\ UNCHANGED templates

\* Faulty variant: the update of the siblings does not leave the target out.
DeactivateAll(id) == [i \in Rows |-> [templates[i] EXCEPT !.isActive = FALSE]]

Deactivate(id) == [i \in Rows |-> IF i = id THEN templates[i] ELSE [templates[i] EXCEPT !.isActive = FALSE]]

ActivateWrites(e, statement) ==
    /\ statement \in edit[e].todo
    /\ templates' = IF statement = "siblings" THEN Deactivate(edit[e].id)
                    ELSE [templates EXCEPT ![edit[e].id].isActive = TRUE]
    /\ IF edit[e].todo = {statement}
       THEN End(e) /\ last' = IF last = "running" THEN "whole" ELSE last
       ELSE edit' = [edit EXCEPT ![e].todo = @ \ {statement}] /\ UNCHANGED last
    /\ UNCHANGED budget

\* A statement fails, or the process dies before it: the other may have run.
ActivateCut(e) ==
    /\ edit[e].pc = "activating" /\ budget.faults > 0
    /\ budget' = [budget EXCEPT !.faults = @ - 1]
    /\ End(e) /\ last' = "torn"
    /\ UNCHANGED templates

TemplatesNext ==
    \/ \E e \in Editors : PostTemplate(e) \/ CreateVersion(e) \/ ActivateCut(e)
    \/ \E e \in Editors, i \in Ids : PutTemplate(e, i) \/ Activate(e, i)
    \/ \E e \in Editors, s \in {"siblings", "target"} : ActivateWrites(e, s)

TemplatesSpec == TemplatesInit /\ [][TemplatesNext]_templateVars

-----------------------------------------------------------------------------
TemplatesTypeOK ==
    /\ Len(templates) <= MaxTemplates
    /\ \A i \in Rows : templates[i].version \in Ids /\ templates[i].isActive \in BOOLEAN
    /\ last \in {"none", "running", "whole", "torn"}
    /\ \A e \in Editors : edit[e].pc \in {"idle", "creating", "activating"} /\ edit[e].id \in Rows \cup {0}

\* Editors who save at the same time never share a version number, and the
\* numbers have no gap: the row created n-th has version n.
VersionsInOrder == \A i \in Rows : templates[i].version = i

\* An activation nothing overlapped and nothing cut short leaves its version and
\* no other active, whatever earlier ones left.
OneActiveUnlessTorn == last = "whole" => Cardinality(Active) = 1

\* Versions are numbered without gaps and one is active, unless activations
\* overlapped or were cut short (templates.ts).
VersionsKept == TemplatesTypeOK /\ VersionsInOrder /\ OneActiveUnlessTorn
=============================================================================
