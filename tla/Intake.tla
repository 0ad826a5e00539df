------------------------------- MODULE Intake --------------------------------
(***************************************************************************)
(* What users bring in: projects, each with a first audit (projects.ts),   *)
(* further audits (audits.ts) and materials (materials.ts).  A handler is  *)
(* cut at each await; the process may be restarted, and a call may fail,   *)
(* between two of them.                                                    *)
(***************************************************************************)
EXTENDS Integers, FiniteSets

CONSTANTS
    Posts,          \* requests
    Contents,       \* material texts, as normalised and hashed
    MaxIntakeFaults \* bound: restarts and failing calls

VARIABLES
    projects,   \* Project rows, by the request that created them
    audits,     \* Audit rows: the request that created them
    queued,     \* audits with a job
    materials,  \* Material rows: [of |-> the request, content |-> ...]
    post,       \* the request
    intakeFaults

intakeVars == <<projects, audits, queued, materials, post, intakeFaults>>

NoPost == [pc |-> "new", kind |-> "none", content |-> "none", answer |-> 0, project |-> "none", ahead |-> {}]
Kinds == {"project", "audit", "text", "url"}
Pending(p) == post[p].pc \in {"creating", "auditing", "queueing", "extracting", "looking", "storing"}

IntakeInit ==
    /\ projects = {} /\ audits = {} /\ queued = {} /\ materials = {}
    /\ post = [p \in Posts |-> NoPost]
    /\ intakeFaults = 0

FaultStrikes == intakeFaults < MaxIntakeFaults /\ intakeFaults' = intakeFaults + 1
Reply(p, code) == post' = [post EXCEPT ![p].pc = "answered", ![p].answer = code]
-----------------------------------------------------------------------------
(* Projects and audits *)

\* A domain with a scheme other than http(s) is refused and leaves nothing.
PostProject(p) ==
    /\ post[p] = NoPost
    /\ post' = [post EXCEPT ![p].pc = "creating", ![p].kind = "project"]
    /\ UNCHANGED <<projects, audits, queued, materials, intakeFaults>>

CreateProject(p) ==
    /\ post[p].pc = "creating"
    /\ projects' = projects \cup {p}
    /\ post' = [post EXCEPT ![p].pc = "auditing", ![p].project = p]
    /\ UNCHANGED <<audits, queued, materials, intakeFaults>>

\* An audit of an existing project: what POST /api/audits begins with.
PostAudit(p) ==
    /\ post[p] = NoPost
    /\ \E project \in projects :
          post' = [post EXCEPT ![p].pc = "auditing", ![p].kind = "audit", ![p].project = project]
    /\ UNCHANGED <<projects, audits, queued, materials, intakeFaults>>

CreateAudit(p) ==
    /\ post[p].pc = "auditing"
    /\ audits' = audits \cup {p}
    /\ post' = [post EXCEPT ![p].pc = "queueing"]
    /\ UNCHANGED <<projects, queued, materials, intakeFaults>>

\* Faulty variant: the answer does not wait for the job.
AddAuditUnawaited(p) ==
    /\ post[p].pc = "queueing"
    /\ queued' \in {queued, queued \cup {p}}
    /\ Reply(p, 200)
    /\ UNCHANGED <<projects, audits, materials, intakeFaults>>

AddAudit(p) ==
    /\ post[p].pc = "queueing"
    /\ queued' = queued \cup {p}
    /\ Reply(p, 200)
    /\ UNCHANGED <<projects, audits, materials, intakeFaults>>

-----------------------------------------------------------------------------
(* Materials *)

PostMaterial(p, kind, content) ==
    /\ post[p] = NoPost
    /\ post' = [post EXCEPT ![p].pc = IF kind = "url" THEN "extracting" ELSE "looking",
                            ![p].kind = kind, ![p].content = content,
                            ![p].ahead = {q \in Posts : post[q].pc = "answered"}]
    /\ UNCHANGED <<projects, audits, queued, materials, intakeFaults>>

\* The page is fetched and read: 400 or 502 if that fails.  Its text is
\* whatever the page says now.
Extract(p) ==
    /\ post[p].pc = "extracting"
    /\ \/ \E content \in Contents : post' = [post EXCEPT ![p].pc = "looking", ![p].content = content]
       \/ Reply(p, 502)
    /\ UNCHANGED <<projects, audits, queued, materials, intakeFaults>>

Stored(content) == {m \in materials : m.content = content}

\* Faulty variant: the text is compared before it is normalised.
LookRaw(p) ==
    /\ post[p].pc = "looking"
    /\ post' = [post EXCEPT ![p].pc = "storing"]
    /\ UNCHANGED <<projects, audits, queued, materials, intakeFaults>>

Look(p) ==
    /\ post[p].pc = "looking"
    /\ IF Stored(post[p].content) # {} THEN Reply(p, 200) ELSE post' = [post EXCEPT ![p].pc = "storing"]
    /\ UNCHANGED <<projects, audits, queued, materials, intakeFaults>>

\* Faulty variant: no unique key on (projectId, contentHash).
StoreTwice(p) ==
    /\ post[p].pc = "storing"
    /\ materials' = materials \cup {[of |-> p, content |-> post[p].content]} /\ Reply(p, 201)
    /\ UNCHANGED <<projects, audits, queued, intakeFaults>>

\* The unique key (projectId, contentHash) refuses the second row: 500.
Store(p) ==
    /\ post[p].pc = "storing"
    /\ IF Stored(post[p].content) # {}
       THEN Reply(p, 500) /\ UNCHANGED materials
       ELSE materials' = materials \cup {[of |-> p, content |-> post[p].content]} /\ Reply(p, 201)
    /\ UNCHANGED <<projects, audits, queued, intakeFaults>>

DeleteMaterial ==
    /\ \E m \in materials : materials' = materials \ {m}
    /\ UNCHANGED <<projects, audits, queued, post, intakeFaults>>

-----------------------------------------------------------------------------
(* Faults *)

\* The call a handler waits for fails: 500, what it wrote before stays.
CallBreaks(p) ==
    /\ Pending(p) /\ FaultStrikes
    /\ Reply(p, 500)
    /\ UNCHANGED <<projects, audits, queued, materials>>

IntakeRestart ==
    /\ FaultStrikes
    /\ post' = [p \in Posts |-> IF Pending(p) THEN [post[p] EXCEPT !.pc = "lost"] ELSE post[p]]
    /\ UNCHANGED <<projects, audits, queued, materials>>

IntakeNext ==
    \/ \E p \in Posts : PostProject(p) \/ CreateProject(p) \/ PostAudit(p) \/ CreateAudit(p) \/ AddAudit(p)
    \/ \E p \in Posts, k \in {"text", "url"}, c \in Contents : PostMaterial(p, k, c)
    \/ \E p \in Posts : Extract(p) \/ Look(p) \/ Store(p) \/ CallBreaks(p)
    \/ DeleteMaterial \/ IntakeRestart
IntakeSpec == IntakeInit /\ [][IntakeNext]_intakeVars

-----------------------------------------------------------------------------
IntakeTypeOK ==
    /\ projects \subseteq Posts /\ audits \subseteq Posts /\ queued \subseteq audits
    /\ \A m \in materials : m.of \in Posts /\ m.content \in Contents
    /\ \A c \in Contents : Cardinality(Stored(c)) <= 1

\* A project without an audit, and an audit without a job, which stays queued
\* for ever, belong to a request that was told of a failure or lost: an answer of
\* 200 is a project and an audit that runs.
OrphansAreFaults ==
    \A p \in (audits \ queued) \cup (projects \ audits) :
        Pending(p) \/ post[p].pc = "lost" \/ post[p].answer = 500

\* A material is refused with 500 only beside another request of its text, or by
\* a fault: a request sent after another's answer is told of the other's row.
RefusedOnlyInARace ==
    [][\A p \in Posts : post[p].pc = "storing" /\ post'[p].answer = 500 /\ intakeFaults' = intakeFaults
           => \A m \in Stored(post[p].content) : m.of \notin post[p].ahead]_intakeVars

\* An answer tells what was stored: 200 is a whole project, audit and job, and a
\* material is refused only beside its twin (projects.ts, materials.ts).
AnsweredIsKept == [](IntakeTypeOK /\ OrphansAreFaults) /\ RefusedOnlyInARace
=============================================================================
