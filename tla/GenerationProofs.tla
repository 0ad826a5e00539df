-------------------------- MODULE GenerationProofs --------------------------
(***************************************************************************)
(* Safety of GenerationPipeline for every number of clients, attempts,     *)
(* requests, crashes and errors.  The invariant ties the holder's program  *)
(* counter to the job and to the row: a live execution past the guard      *)
(* finds the generation unended until it has written the end itself, and   *)
(* only an execution that has written it returns.                          *)
(***************************************************************************)
EXTENDS GenerationPipeline, BullJobProofs, TLAPS

ExecType == [pc : ExecPcs, run : Nat]

\* Before its request has enqueued the row there is no job and no execution.
RequestOwnsJob ==
    /\ request = "idle" => status = "none"
    /\ request \in {"idle", "created"} =>
           job.state = "absent" /\ \A s \in Slots : exec[s].pc = "idle"

\* Without a lost lock there is one execution, and it is the job's.
HolderOwnsJob ==
    lockLosses = 0 =>
        /\ exec["zombie"].pc = "idle"
        /\ exec["holder"].pc # "idle" <=> job.state = "active"

\* Past the guard the row has not ended, unless this execution ended it.
EndIsLast ==
    lockLosses = 0 =>
        /\ status \in Terminal => exec["holder"].pc \in {"idle", "threw", "returned"}
        /\ exec["holder"].pc = "returned" => status \in Terminal
        /\ job.state = "completed" => status \in Terminal

\* A PATCH in flight was not refused.
EditsAllowed == \A k \in Clients : client[k].pc = "editing" => client[k].read # "approved"

GInv == TypeOK /\ RequestOwnsJob /\ HolderOwnsJob /\ EndIsLast

-----------------------------------------------------------------------------
(* Types. *)

\* Goes moves one execution and keeps its run.
LEMMA Going ==
    ASSUME TypeOK, NEW s \in Slots, NEW p \in ExecPcs, Goes(s, p)
    PROVE  /\ exec' \in [Slots -> ExecType]
           /\ exec'[s].pc = p
           /\ \A t \in Slots : t # s => exec'[t] = exec[t]
BY DEF TypeOK, Goes, ExecType

\* The initial state is well typed.
LEMMA InitType == Init => TypeOK
BY FreshJobs, GenerationAssumption DEF Slots, Init, TypeOK, ReviewStates, NoText, Text, Terminal,
     IdleExec, ExecPcs, IdleClient, Client

\* The requests of routes/generations.ts and the publish pipeline's writes.
LEMMA ApiType ==
    ASSUME TypeOK, Api \/ \E r \in ReviewStates : PublishWrites(r)
    PROVE  TypeOK'
<1> USE GenerationAssumption
<1>1. CASE CreateGeneration
  BY <1>1 DEF CreateGeneration, TypeOK, bounds
<1>2. CASE EnqueueGeneration
  BY <1>2, FreshJobs DEF EnqueueGeneration, TypeOK, bounds, rowVars
<1>3. CASE EnqueueRefused
  BY <1>3 DEF EnqueueRefused, Fault, otherBounds, TypeOK, rowVars
<1>4. ASSUME NEW k \in Clients, NEW to \in ReviewStates, ReviewRead(k, to)
      PROVE  TypeOK'
  <2>1. client' \in [Clients -> Client]
    BY <1>4 DEF ReviewRead, TypeOK, Client
  <2>2. QED
    BY <1>4, <2>1 DEF ReviewRead, TypeOK, rowVars
<1>5. ASSUME NEW k \in Clients, ReviewWrite(k)
      PROVE  TypeOK'
  <2>1. client' \in [Clients -> Client] /\ reviewState' \in ReviewStates
    BY <1>5 DEF ReviewWrite, TypeOK, Client, IdleClient, ReviewStates
  <2>2. QED
    BY <1>5, <2>1 DEF ReviewWrite, TypeOK, bounds
<1>6. ASSUME NEW k \in Clients, EditRead(k)
      PROVE  TypeOK'
  <2>1. client' \in [Clients -> Client]
    BY <1>6 DEF EditRead, TypeOK, Client, ReviewStates
  <2>2. QED
    BY <1>6, <2>1 DEF EditRead, TypeOK, rowVars
<1>7. ASSUME NEW k \in Clients, EditWrite(k)
      PROVE  TypeOK'
  <2>1. client' \in [Clients -> Client] /\ text' \in Text
    BY <1>7 DEF EditWrite, TypeOK, Client, IdleClient, ReviewStates, Text
  <2>2. QED
    BY <1>7, <2>1 DEF EditWrite, TypeOK, bounds
<1>8. ASSUME NEW r \in ReviewStates, PublishWrites(r)
      PROVE  TypeOK'
  BY <1>8 DEF PublishWrites, TypeOK
<1>9. QED
  BY <1>1, <1>2, <1>3, <1>4, <1>5, <1>6, <1>7, <1>8 DEF Api

\* The handler of generate-job.ts and the environment.
LEMMA HandlerType ==
    ASSUME TypeOK,
           Take \/ LoseLock \/ Crash \/ \E s \in Slots : ExecStep(s) \/ HandlerThrows(s)
    PROVE  TypeOK'
<1> USE GenerationAssumption
<1>1. CASE Take
  <2>1. job' \in Job /\ exec' \in [Slots -> ExecType]
    BY <1>1, TakeAndComplete DEF Take, TypeOK, ExecType, ExecPcs, Slots
  <2>2. QED
    BY <1>1, <2>1 DEF Take, TypeOK, ExecType, rowVars, bounds
<1>2. ASSUME NEW s \in Slots, ExecStep(s) \/ HandlerThrows(s)
      PROVE  TypeOK'
  <2>1. CASE Ack(s)
    <3>1. job' \in Job /\ exec' \in [Slots -> ExecType]
      BY <2>1, TakeAndComplete, Thrown DEF Ack, TypeOK, ExecType, ExecPcs, IdleExec
    <3>2. QED
      BY <2>1, <3>1 DEF Ack, TypeOK, ExecType, rowVars, bounds
  <2>2. CASE \E p \in ExecPcs : Goes(s, p) /\ UNCHANGED <<reviewState, request, job, run, client>>
    <3>1. exec' \in [Slots -> ExecType]
      BY <2>2, Going
    <3>2. \/ /\ text' \in Text /\ bare' \in BOOLEAN
             /\ status' \in {"none", "queued", "running"} \cup Terminal
             /\ UNCHANGED otherBounds /\ faults' \in 0 .. MaxFaults
          \/ Ack(s)
      BY <1>2 DEF ExecStep, Start, EmbedMaterials, EmbedMaterialsThrows, EmbedPrompt,
           EmbedPromptEmpty, Generate, ModelThrows, WriteFailed, Persist, HandlerThrows,
           Fault, TypeOK, Text, Terminal, rowVars, bounds, otherBounds
    <3>3. QED
      BY <2>1, <2>2, <3>1, <3>2 DEF TypeOK, ExecType, otherBounds
  <2>3. Ack(s) \/ \E p \in ExecPcs : Goes(s, p) /\ UNCHANGED <<reviewState, request, job, run, client>>
    BY <1>2 DEF ExecStep, Start, EmbedMaterials, EmbedMaterialsThrows, EmbedPrompt,
         EmbedPromptEmpty, Generate, ModelThrows, WriteFailed, Persist, HandlerThrows,
         ExecPcs, rowVars
  <2>4. QED
    BY <2>1, <2>2, <2>3
<1>3. CASE LoseLock
  <2>1. job' \in Job /\ exec' \in [Slots -> ExecType]
    BY <1>3, Stalled DEF LoseLock, TypeOK, ExecType, ExecPcs, IdleExec, Slots
  <2>2. QED
    BY <1>3, <2>1 DEF LoseLock, TypeOK, ExecType, rowVars
<1>4. CASE Crash
  <2>1. job' \in Job /\ exec' \in [Slots -> ExecType] /\ client' \in [Clients -> Client]
    BY <1>4, Stalled DEF Crash, TypeOK, ExecType, ExecPcs, IdleExec, IdleClient, Client,
         ReviewStates
  <2>2. QED
    BY <1>4, <2>1 DEF Crash, TypeOK, ExecType, rowVars
<1>5. QED
  BY <1>1, <1>2, <1>3, <1>4

\* Every step preserves the types.
LEMMA StepType == TypeOK /\ [Next]_vars => TypeOK'
<1> SUFFICES ASSUME TypeOK, [Next]_vars PROVE TypeOK'
  OBVIOUS
<1>1. CASE UNCHANGED vars
  BY <1>1 DEF vars, rowVars, bounds, TypeOK
<1>2. CASE Next
  BY <1>2, ApiType, HandlerType DEF Next
<1>3. QED
  BY <1>1, <1>2

\* The type invariant of a generation (generate-job.ts, routes/generations.ts).
THEOREM GenerationTypes == Spec => []TypeOK
<1>1. QED
  BY InitType, StepType, PTL DEF Spec

-----------------------------------------------------------------------------
(* Who owns the job, and who may still write. *)

\* The initial state has no job and no execution.
LEMMA InitOwners == Init => RequestOwnsJob /\ HolderOwnsJob /\ EndIsLast /\ EditsAllowed
BY FreshJobs DEF Init, RequestOwnsJob, HolderOwnsJob, EndIsLast, EditsAllowed, Slots,
   IdleExec, IdleClient, Terminal

\* The steps of one execution between its start and its report: the job and
\* the request stay as they are, and only its own counter moves.
LEMMA ExecFrame ==
    ASSUME TypeOK, NEW s \in Slots, ExecStep(s) \/ HandlerThrows(s), ~ Ack(s)
    PROVE  /\ UNCHANGED <<job, request, client, reviewState, lockLosses>>
           /\ exec[s].pc # "idle"
           /\ \A t \in Slots : t # s => exec'[t] = exec[t]
           /\ \/ /\ exec[s].pc = "checked" /\ exec'[s].pc = "started"
                 /\ status' = "running" /\ UNCHANGED text
              \/ /\ exec[s].pc = "failing" /\ exec'[s].pc = "threw"
                 /\ status' = "failed" /\ UNCHANGED text
              \/ /\ exec[s].pc = "generated" /\ exec'[s].pc = "returned"
                 /\ status' = "completed"
              \/ /\ exec[s].pc \notin {"idle", "threw", "returned"}
                 /\ exec'[s].pc \notin {"idle", "returned"}
                 /\ UNCHANGED <<status, text>>
<1>1. \E p \in ExecPcs : Goes(s, p)
  BY DEF ExecStep, Start, EmbedMaterials, EmbedMaterialsThrows, EmbedPrompt,
     EmbedPromptEmpty, Generate, ModelThrows, WriteFailed, Persist, HandlerThrows, ExecPcs
<1>2. \A t \in Slots : t # s => exec'[t] = exec[t]
  BY <1>1, Going
<1>3. \A p \in ExecPcs : Goes(s, p) => exec'[s].pc = p
  BY Going
<1>4. UNCHANGED <<job, request, client, reviewState, lockLosses>>
  BY DEF ExecStep, Start, EmbedMaterials, EmbedMaterialsThrows, EmbedPrompt,
     EmbedPromptEmpty, Generate, ModelThrows, WriteFailed, Persist, HandlerThrows,
     rowVars, bounds, otherBounds
<1>5. CASE Start(s)
  BY <1>2, <1>3, <1>4, <1>5 DEF Start, At, ExecPcs
<1>6. CASE WriteFailed(s)
  BY <1>2, <1>3, <1>4, <1>6 DEF WriteFailed, At, ExecPcs
<1>7. CASE Persist(s)
  BY <1>2, <1>3, <1>4, <1>7 DEF Persist, At, ExecPcs
<1>8. CASE HandlerThrows(s) \/ EmbedMaterialsThrows(s) \/ ModelThrows(s) \/ EmbedPromptEmpty(s)
  BY <1>2, <1>3, <1>4, <1>8 DEF HandlerThrows, EmbedMaterialsThrows, ModelThrows,
     EmbedPromptEmpty, At, ExecPcs, rowVars
<1>9. CASE EmbedPrompt(s) \/ Generate(s) \/ \E left \in BOOLEAN : EmbedMaterials(s, left)
  BY <1>2, <1>3, <1>4, <1>9 DEF EmbedPrompt, Generate, EmbedMaterials, At, ExecPcs, rowVars
<1>10. QED
  BY <1>5, <1>6, <1>7, <1>8, <1>9 DEF ExecStep

\* Every step keeps the ownership and the order of the ends.
LEMMA StepOwners ==
    GInv /\ [Next]_vars => (RequestOwnsJob /\ HolderOwnsJob /\ EndIsLast)'
<1> SUFFICES ASSUME GInv, [Next]_vars
             PROVE  (RequestOwnsJob /\ HolderOwnsJob /\ EndIsLast)'
  OBVIOUS
<1> USE DEF GInv
<1>0. TypeOK'
  BY StepType
<1>1. CASE CreateGeneration \/ EnqueueGeneration \/ EnqueueRefused
  BY <1>1, FreshJobs DEF CreateGeneration, EnqueueGeneration, EnqueueRefused, otherBounds,
     RequestOwnsJob, HolderOwnsJob, EndIsLast, Terminal, bounds, rowVars
<1>2. CASE \/ UNCHANGED vars
           \/ \E k \in Clients : \/ \E to \in ReviewStates : ReviewRead(k, to)
                                 \/ ReviewWrite(k) \/ EditRead(k) \/ EditWrite(k)
           \/ \E r \in ReviewStates : PublishWrites(r)
  <2>1. UNCHANGED <<status, request, job, exec, lockLosses>>
    BY <1>2 DEF ReviewRead, ReviewWrite, EditRead, EditWrite, PublishWrites, vars, rowVars,
       bounds
  <2>2. QED
    BY <2>1 DEF RequestOwnsJob, HolderOwnsJob, EndIsLast
<1>3. CASE Take
  <2>1. /\ exec' \in [Slots -> ExecType] /\ exec'["zombie"] = exec["zombie"]
        /\ exec["holder"].pc = "idle" /\ job.state = "wait"
        /\ UNCHANGED <<status, request, lockLosses>>
    BY <1>0, <1>3 DEF Take, At, TypeOK, ExecType, Slots, rowVars, bounds
  <2>2. CASE status \in Terminal
    BY <1>3, <2>1, <2>2, TakeAndComplete DEF Take, TypeOK, RequestOwnsJob, HolderOwnsJob, EndIsLast
  <2>3. CASE status \notin Terminal
    <3>1. job'.state = "active" /\ exec'["holder"].pc = "checked"
      BY <1>3, <2>1, <2>3, TakeAndComplete DEF Take, TypeOK, Slots
    <3>2. QED
      BY <2>1, <2>3, <3>1 DEF RequestOwnsJob, HolderOwnsJob, EndIsLast
  <2>4. QED
    BY <2>2, <2>3
<1>4. ASSUME NEW s \in Slots, ExecStep(s) \/ HandlerThrows(s), ~ Ack(s)
      PROVE  (RequestOwnsJob /\ HolderOwnsJob /\ EndIsLast)'
  <2>1. RequestOwnsJob'
    BY <1>4, ExecFrame DEF RequestOwnsJob
  <2>2. (HolderOwnsJob /\ EndIsLast)'
    BY <1>4, ExecFrame DEF HolderOwnsJob, EndIsLast, Slots, Terminal
  <2>3. QED
    BY <2>1, <2>2
<1>5. ASSUME NEW s \in Slots, Ack(s)
      PROVE  (RequestOwnsJob /\ HolderOwnsJob /\ EndIsLast)'
  <2>1. /\ exec' \in [Slots -> ExecType] /\ exec'[s].pc = "idle"
        /\ \A t \in Slots : t # s => exec'[t] = exec[t]
        /\ UNCHANGED <<status, request, lockLosses>>
    BY <1>0, <1>5 DEF Ack, TypeOK, ExecType, IdleExec, rowVars, bounds
  <2>2. CASE s = "zombie"
    BY <1>5, <2>1, <2>2 DEF Ack, RequestOwnsJob, HolderOwnsJob, EndIsLast
  <2>3. CASE s = "holder"
    <3>1. /\ request \notin {"idle", "created"}
          /\ job'.state \in {"completed", "wait", "failed"}
          /\ job'.state = "completed" => exec["holder"].pc = "returned"
      BY <1>5, <2>3, TakeAndComplete, Thrown, GenerationAssumption
      DEF Ack, At, TypeOK, RequestOwnsJob
    <3>2. exec'["holder"].pc = "idle" /\ exec'["zombie"] = exec["zombie"]
      BY <2>1, <2>3 DEF Slots
    <3>3. QED
      BY <2>1, <3>1, <3>2 DEF RequestOwnsJob, HolderOwnsJob, EndIsLast
  <2>4. QED
    BY <2>2, <2>3 DEF Slots
<1>6. CASE LoseLock
  <2>1. lockLosses' # 0
    BY <1>6 DEF LoseLock, TypeOK, GenerationAssumption
  <2>2. QED
    BY <1>6, <2>1 DEF LoseLock, At, Slots, RequestOwnsJob, HolderOwnsJob, EndIsLast, rowVars
<1>7. CASE Crash
  BY <1>7, Stalled DEF Crash, TypeOK, RequestOwnsJob, HolderOwnsJob, EndIsLast, Slots,
     IdleExec, rowVars
<1>8. QED
  BY <1>1, <1>2, <1>3, <1>4, <1>5, <1>6, <1>7 DEF Next, Api

\* Only EditRead starts a PATCH, and it passes the 409 first.
LEMMA StepEdits == TypeOK /\ EditsAllowed /\ [Next]_vars => EditsAllowed'
<1> SUFFICES ASSUME TypeOK, EditsAllowed, [Next]_vars PROVE EditsAllowed'
  OBVIOUS
<1>1. ASSUME NEW k \in Clients, EditRead(k)
      PROVE  EditsAllowed'
  BY <1>1 DEF EditRead, EditsAllowed, TypeOK, Client
<1>2. ASSUME NEW k \in Clients,
             EditWrite(k) \/ ReviewWrite(k) \/ \E to \in ReviewStates : ReviewRead(k, to)
      PROVE  EditsAllowed'
  BY <1>2 DEF EditWrite, ReviewWrite, ReviewRead, EditsAllowed, TypeOK, Client, IdleClient
<1>3. ASSUME NEW s \in Slots, ExecStep(s) \/ HandlerThrows(s)
      PROVE  EditsAllowed'
  BY <1>3, ExecFrame DEF Ack, EditsAllowed
<1>4. CASE Crash
  BY <1>4 DEF Crash, EditsAllowed, IdleClient
<1>5. CASE \/ CreateGeneration \/ EnqueueGeneration \/ EnqueueRefused \/ Take \/ LoseLock
           \/ UNCHANGED vars \/ \E r \in ReviewStates : PublishWrites(r)
  BY <1>5 DEF CreateGeneration, EnqueueGeneration, EnqueueRefused, Take, LoseLock, vars,
     PublishWrites, EditsAllowed
<1>6. QED
  BY <1>1, <1>2, <1>3, <1>4, <1>5 DEF Next, Api

-----------------------------------------------------------------------------
(* The theorems. *)

\* The invariant holds in every reachable state.
LEMMA GenerationInvariant == Spec => [](GInv /\ EditsAllowed)
<1>1. Init => GInv /\ EditsAllowed
  BY InitType, InitOwners DEF GInv
<1>2. GInv /\ EditsAllowed /\ [Next]_vars => (GInv /\ EditsAllowed)'
  BY StepType, StepOwners, StepEdits DEF GInv
<1>3. QED
  BY <1>1, <1>2, PTL DEF Spec

\* A completed job leaves an ended generation (generate-job.ts, the guard).
THEOREM CompletedJobsEnded == Spec => []CompletedJobEnded
<1>1. GInv => CompletedJobEnded
  BY DEF GInv, EndIsLast, CompletedJobEnded
<1>2. QED
  BY <1>1, GenerationInvariant, PTL

\* No redelivery, retry or crash changes an ended generation: only a PATCH
\* changes its text (generate-job.ts, the guard against at-least-once jobs).
THEOREM GenerationsEndOnce == Spec => EndedStaysEnded
<1> DEFINE Kept == (status \in Terminal /\ lockLosses = 0)
                     => /\ status' = status
                        /\ text' # text => text'.by = "user"
<1>1. GInv /\ [Next]_vars => Kept
  <2> SUFFICES ASSUME GInv, [Next]_vars, status \in Terminal, lockLosses = 0
               PROVE  status' = status /\ (text' # text => text'.by = "user")
    OBVIOUS
  <2> USE DEF GInv
  <2>1. exec["holder"].pc \in {"idle", "threw", "returned"} /\ exec["zombie"].pc = "idle"
    BY DEF EndIsLast, HolderOwnsJob
  <2>2. ASSUME NEW s \in Slots, ExecStep(s) \/ HandlerThrows(s)
        PROVE  UNCHANGED <<status, text>>
    <3>1. CASE Ack(s)
      BY <3>1 DEF Ack, rowVars
    <3>2. CASE ~ Ack(s)
      BY <2>1, <2>2, <3>2, ExecFrame DEF Slots
    <3>3. QED
      BY <3>1, <3>2
  <2>3. CASE CreateGeneration
    BY <2>3 DEF CreateGeneration, RequestOwnsJob, Terminal
  <2>4. ASSUME NEW k \in Clients, EditWrite(k)
        PROVE  status' = status /\ text'.by = "user"
    BY <2>4 DEF EditWrite
  <2>5. CASE \/ EnqueueGeneration \/ EnqueueRefused \/ Take \/ LoseLock \/ Crash \/ UNCHANGED vars
             \/ \E r \in ReviewStates : PublishWrites(r)
             \/ \E k \in Clients : \/ \E to \in ReviewStates : ReviewRead(k, to)
                                   \/ ReviewWrite(k) \/ EditRead(k)
    BY <2>5 DEF EnqueueGeneration, EnqueueRefused, Take, LoseLock, Crash, PublishWrites,
       ReviewRead, ReviewWrite, EditRead, vars, rowVars
  <2>6. QED
    BY <2>2, <2>3, <2>4, <2>5 DEF Next, Api
<1>2. QED
  BY <1>1, GenerationInvariant, PTL DEF Spec, EndedStaysEnded

\* An approved text changes only by a PATCH that was faster than the
\* approval, or by a worker the reviewer did not wait for.
THEOREM ApprovedTextsKept == Spec => ApprovedTextChanges
<1> DEFINE Accounted == (reviewState = "approved" /\ text' # text)
                          => \/ \E k \in Clients : client[k].pc = "editing"
                                                     /\ client[k].read # "approved"
                             \/ \E s \in Slots : At(s, "generated")
<1>1. TypeOK /\ EditsAllowed /\ [Next]_vars => Accounted
  <2> SUFFICES ASSUME TypeOK, EditsAllowed, [Next]_vars, text' # text
               PROVE  \/ \E k \in Clients : client[k].pc = "editing"
                                           /\ client[k].read # "approved"
                      \/ \E s \in Slots : At(s, "generated")
    OBVIOUS
  <2>1. ASSUME NEW s \in Slots, ExecStep(s) \/ HandlerThrows(s)
        PROVE  At(s, "generated")
    BY <2>1, ExecFrame DEF Ack, At, rowVars
  <2>2. ASSUME NEW k \in Clients, EditWrite(k)
        PROVE  client[k].pc = "editing" /\ client[k].read # "approved"
    BY <2>2 DEF EditWrite, EditsAllowed
  <2>3. \/ \E k \in Clients : EditWrite(k)
        \/ \E s \in Slots : ExecStep(s) \/ HandlerThrows(s)
    BY DEF Next, Api, CreateGeneration, EnqueueGeneration, EnqueueRefused, Take, LoseLock,
       Crash, PublishWrites, ReviewRead, ReviewWrite, EditRead, vars, rowVars
  <2>4. QED
    BY <2>1, <2>2, <2>3
<1>2. GInv => TypeOK
  BY DEF GInv
<1>3. QED
  BY <1>1, <1>2, GenerationInvariant, PTL DEF Spec, ApprovedTextChanges
=============================================================================
