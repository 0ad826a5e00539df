----------------------------- MODULE ConfigProofs ----------------------------
(***************************************************************************)
(* Theorems about the parts MCConfig composes.                             *)
(*                                                                         *)
(*   SealedStaysReadable   Boot: a process refuses the saved settings only *)
(*                         when the secret in its environment changed, and *)
(*                         otherwise serves with the key that was saved;   *)
(*   AnswersAreKept        Intake: an answer tells what was stored;        *)
(*   VersionsStayInOrder   Templates: versions are numbered without a gap  *)
(*                         and one is active but after a torn change;      *)
(*   CardsAreTrue          FixesScreen: what a card shows is a row of its  *)
(*                         finding, the newest if none is awaited;         *)
(*   CallsHaveReasons      Delivery, LlmCalls: a post or a question made   *)
(*                         again has a reason;                             *)
(*   NobodyExceedsTheRate  TokenBucket: nobody gets through faster than the*)
(*                         rate, and who waits as told is let through;     *)
(*   NothingIsMissed       Discovery, WorkPools: every page that can be    *)
(*                         found is found, once, and every result of a     *)
(*                         pool is stored under what it is about.          *)
(*                                                                         *)
(* Each follows from an inductive invariant of its part, stated before it. *)
(***************************************************************************)
EXTENDS MCConfig, FiniteSetTheorems, WellFoundedInduction, TLAPS
-----------------------------------------------------------------------------
(* A greatest number.  Two proofs below take the last of some rows.        *)

\* Some numbers up to n have a greatest one.
LEMMA GreatestOf ==
    ASSUME NEW n \in Nat, NEW S \in SUBSET (1 .. n), S # {}
    PROVE  \E m \in S : \A i \in S : i <= m
<1> DEFINE T == {n - i : i \in S}
           R == {p \in Nat \X Nat : p[1] < p[2]}
<1>0. \A i \in S : n - i \in Nat
  OBVIOUS
<1>1. T \subseteq Nat /\ T # {}
  BY <1>0
<1>2. IsWellFoundedOn(R, Nat)
  BY NatLessThanWellFounded DEF OpToRel
<1>3. \A x, y \in Nat : y < x => <<y, x>> \in R
  OBVIOUS
<1> HIDE DEF R, T
<1>4. PICK t \in T : \A u \in T : ~(<<u, t>> \in R)
  BY <1>1, <1>2, WFMin
<1>5. PICK m \in S : t = n - m
  BY DEF T
<1>6. ASSUME NEW i \in S PROVE i <= m
  <2>1. n - i \in T /\ n - i \in Nat /\ t \in Nat
    BY <1>1 DEF T
  <2>2. ~(n - i < t)
    BY <1>3, <1>4, <2>1
  <2>3. QED
    BY <1>5, <2>2
<1>7. QED
  BY <1>6

-----------------------------------------------------------------------------
(* Boot.  A process that works has read the secret its environment holds,  *)
(* whatever is sealed was sealed with the secret of the environment it was *)
(* saved in, and only a start that generated a key opens with another one. *)

BootInv ==
    /\ BootTypeOK
    /\ proc.pc \in {"resolving", "serving", "closing"} =>
          /\ proc.memo = dotenv
          /\ ~proc.fresh => proc.processEnv = dotenv
    /\ setting # NoSetting => setting.sealed = setting.in /\ setting.sealed # NoSecret
    /\ sealedChannel # NoChannel =>
          sealedChannel.sealed = sealedChannel.in /\ sealedChannel.sealed # NoSecret

\* Before the first start nothing is known and nothing is sealed.
LEMMA InitBootInv == ASSUME BootInit PROVE BootInv
BY DEF BootInit, BootInv, BootTypeOK, Down, NoSetting, NoChannel, Known

\* env.ts, server.ts, settings.ts, channels.ts: every step keeps it.
LEMMA NextBootInv == ASSUME BootInv, [BootNext]_bootVars PROVE BootInv'
<1>1. CASE Reconfigure
  BY <1>1 DEF Reconfigure, BootInv, BootTypeOK, Known
<1>p. proc \in [pc : {"down", "resolving", "serving", "closing", "refused"}, memo : Known,
                processEnv : Known, fresh : BOOLEAN, key : Keys \cup {"env", "none"}]
  BY DEF BootInv, BootTypeOK
<1>2. CASE Start
  <2>1. UNCHANGED <<dotenv, setting, sealedChannel>>
    BY <1>2 DEF Start
  <2>2. CASE envLocal # NoSecret
    <3>1. proc' = [pc |-> "resolving", memo |-> dotenv, processEnv |-> dotenv, fresh |-> FALSE,
                   key |-> "none"]
      BY <1>2, <2>2 DEF Start, EnsureSecretKey, Down
    <3>2. envLocal' = envLocal
      BY <1>2, <2>2 DEF Start, EnsureSecretKey
    <3>3. QED
      BY <2>1, <3>1, <3>2 DEF BootInv, BootTypeOK, Known
  <2>3. CASE envLocal = NoSecret
    <3>1. proc' = [pc |-> "resolving", memo |-> dotenv, processEnv |-> Generated, fresh |-> TRUE,
                   key |-> "none"]
      BY <1>2, <2>3 DEF Start, EnsureSecretKey, Down
    <3>2. envLocal' = Generated
      BY <1>2, <2>3 DEF Start, EnsureSecretKey
    <3>3. QED
      BY <2>1, <3>1, <3>2 DEF BootInv, BootTypeOK, Known
  <2>4. QED
    BY <2>2, <2>3
<1>3. CASE Resolve
  <2>1. PICK p \in {"serving", "refused", "down"}, k \in Keys \cup {"env", "none"} :
          \/ p = "serving" /\ proc' = [proc EXCEPT !.pc = p, !.key = k]
          \/ p = "serving" /\ proc' = [proc EXCEPT !.pc = p]
          \/ p = "refused" /\ proc' = [Down EXCEPT !.pc = p]
    <3>1. setting.key \in Keys \cup {"none"}
      BY DEF BootInv, BootTypeOK
    <3>2. CASE setting = NoSetting
      <4>1. proc' = [proc EXCEPT !.pc = "serving", !.key = "env"]
        BY <1>3, <3>2 DEF Resolve
      <4>2. QED
        BY <4>1
    <3>3. CASE setting # NoSetting /\ proc.memo = NoSecret
      <4>1. proc' = [proc EXCEPT !.pc = "serving"]
        BY <1>3, <3>3 DEF Resolve, BootInv
      <4>2. QED
        BY <4>1
    <3>4. CASE setting # NoSetting /\ proc.memo # NoSecret /\ proc.memo = setting.sealed
      <4>1. proc' = [proc EXCEPT !.pc = "serving", !.key = setting.key]
        BY <1>3, <3>4 DEF Resolve
      <4>2. QED
        BY <3>1, <4>1
    <3>5. CASE setting # NoSetting /\ proc.memo # NoSecret /\ proc.memo # setting.sealed
      <4>1. proc' = [Down EXCEPT !.pc = "refused"]
        BY <1>3, <3>5 DEF Resolve
      <4>2. QED
        BY <4>1
    <3>6. QED
      BY <3>2, <3>3, <3>4, <3>5
  <2>2. proc.pc = "resolving" /\ UNCHANGED <<dotenv, envLocal, setting, sealedChannel, bootUsed>>
    BY <1>3 DEF Resolve
  <2>3. /\ proc' \in [pc : {"down", "resolving", "serving", "closing", "refused"}, memo : Known,
                      processEnv : Known, fresh : BOOLEAN, key : Keys \cup {"env", "none"}]
        /\ proc'.pc \in {"serving", "refused"}
        /\ proc'.pc = "serving" => /\ proc'.memo = proc.memo /\ proc'.fresh = proc.fresh
                                   /\ proc'.processEnv = proc.processEnv
    <3>1. CASE p = "serving" /\ proc' = [proc EXCEPT !.pc = p, !.key = k]
      BY <1>p, <3>1
    <3>2. CASE p = "serving" /\ proc' = [proc EXCEPT !.pc = p]
      BY <1>p, <3>2
    <3>3. CASE p = "refused" /\ proc' = [Down EXCEPT !.pc = p]
      BY <3>3 DEF Down, Known
    <3>4. QED
      BY <2>1, <3>1, <3>2, <3>3
  <2>4. QED
    BY <2>2, <2>3 DEF BootInv, BootTypeOK
<1>4. CASE Signal \/ Exit
  <2>1. CASE Signal
    BY <1>p, <2>1 DEF Signal, BootInv, BootTypeOK
  <2>2. CASE Exit
    BY <2>2 DEF Exit, BootInv, BootTypeOK, Known, Down
  <2>3. QED
    BY <1>4, <2>1, <2>2
<1>5. ASSUME NEW k \in Keys, PutSetting(k) PROVE BootInv'
  BY <1>5 DEF PutSetting, Seal, BootInv, BootTypeOK, Known, NoSetting
<1>6. CASE DeleteSetting
  BY <1>6 DEF DeleteSetting, BootInv, BootTypeOK, Known, NoSetting
<1>7. CASE SaveChannel
  BY <1>7 DEF SaveChannel, Seal, BootInv, BootTypeOK, Known, NoChannel
<1>8. CASE UNCHANGED bootVars
  BY <1>8 DEF bootVars, BootInv, BootTypeOK
<1>9. QED
  BY <1>1, <1>2, <1>3, <1>4, <1>5, <1>6, <1>7, <1>8 DEF BootNext

\* server.ts: what the start of a process makes of a saved key.
LEMMA ResolveStep ==
    ASSUME BootInv, [BootNext]_bootVars, proc.pc = "resolving"
    PROVE  /\ proc'.pc = "refused" => setting # NoSetting /\ setting.in # dotenv
           /\ (proc'.pc = "serving" /\ setting # NoSetting /\ setting.in = dotenv)
                 => proc'.key = setting.key
<1>1. proc'.pc \in {"refused", "serving"} => Resolve
  BY DEF BootNext, bootVars, Reconfigure, Start, Signal, Exit, PutSetting, DeleteSetting,
         SaveChannel, Down
<1>2. CASE Resolve
  BY <1>2 DEF Resolve, BootInv, BootTypeOK, Down
<1>3. QED
  BY <1>1, <1>2

\* What users sealed is opened again by a process of the same environment:
\* channels by the publish worker, provider keys at the next start (env.ts,
\* server.ts, settings.ts, channels.ts, publish-job.ts).
THEOREM SealedStaysReadable == BootSpec => SealedIsOpened
<1>1. BootInit => BootInv
  BY InitBootInv
<1>2. BootInv /\ [BootNext]_bootVars => BootInv'
  BY NextBootInv
<1>3. BootInv => BootTypeOK /\ ChannelsOpenUnlessFresh
  BY DEF BootInv, ChannelsOpenUnlessFresh, Opens
<1>4. BootInv /\ [BootNext]_bootVars =>
        [proc.pc = "resolving" /\ proc'.pc = "serving" /\ setting # NoSetting /\ setting.in = dotenv
           => proc'.key = setting.key]_bootVars
  BY ResolveStep
<1>5. BootInv /\ [BootNext]_bootVars =>
        [proc.pc = "resolving" /\ proc'.pc = "refused" => setting # NoSetting /\ setting.in # dotenv]_bootVars
  BY ResolveStep
<1>6. QED
  BY <1>1, <1>2, <1>3, <1>4, <1>5, PTL
  DEF BootSpec, SealedIsOpened, SavedKeyServesAfterRestart, RefusedOnlyForAChangedSecret

-----------------------------------------------------------------------------
(* Intake.  What a request stores is there before its answer, and nothing  *)
(* of a request that was answered is missing but by a fault; the requests  *)
(* that were under way when one started are those it has ahead.            *)

-----------------------------------------------------------------------------
(* Intake.  A row belongs to a request that is still at work on it, was    *)
(* lost, was told of a failure, or finished it; what a request has ahead   *)
(* of it was answered and stays so.                                        *)

PostStates == {"new", "creating", "auditing", "queueing", "extracting", "looking", "storing",
               "answered", "lost"}
PostRecords == [pc : PostStates, kind : Kinds \cup {"none"}, content : Contents \cup {"none"},
                answer : Nat, project : Posts \cup {"none"}, ahead : SUBSET Posts]

IntakeTypes ==
    /\ projects \subseteq Posts /\ audits \subseteq Posts /\ queued \subseteq audits
    /\ materials \subseteq [of : Posts, content : Contents]
    /\ post \in [Posts -> PostRecords]
    /\ intakeFaults \in Nat

PostOk(p) ==
    /\ post[p].pc \in {"new", "creating", "extracting", "looking", "storing"} =>
          p \notin projects /\ p \notin audits
    /\ post[p].pc = "auditing" => p \notin audits
    /\ post[p].pc = "queueing" => p \in audits
    /\ post[p].pc \in {"extracting", "looking", "storing"} => post[p].content \in Contents
    /\ Pending(p) => post[p].answer = 0
    /\ p \in projects /\ p \notin audits => post[p].pc \in {"auditing", "lost"} \/ post[p].answer = 500
    /\ p \in audits /\ p \notin queued => post[p].pc \in {"queueing", "lost"} \/ post[p].answer = 500
    /\ \A q \in post[p].ahead : post[q].pc = "answered"
    /\ post[p].pc = "storing" =>
          \A m \in materials : m.content = post[p].content => m.of \notin post[p].ahead

IntakeInv ==
    /\ IntakeTypes
    /\ \A m, n \in materials : m.content = n.content => m = n
    /\ \A p \in Posts : PostOk(p)

\* Initially no request was sent and nothing is stored.
LEMMA InitIntakeInv == ASSUME IntakeInit PROVE IntakeInv
BY DEF IntakeInit, IntakeInv, IntakeTypes, PostOk, Pending, NoPost, PostRecords, PostStates, Kinds

\* A step of one request, which was not answered before, to r.
Moves(p, r) ==
    /\ post[p].pc # "answered"
    /\ r \in PostRecords
    /\ post' = [post EXCEPT ![p] = r]

\* It leaves the others as they were: none of them has p ahead.
LEMMA OthersOk ==
    ASSUME IntakeInv, NEW p \in Posts, NEW r, Moves(p, r),
           \A q \in Posts : q # p => /\ q \in projects' <=> q \in projects
                                     /\ q \in audits' <=> q \in audits
                                     /\ q \in queued' <=> q \in queued,
           \A m \in materials' : m \in materials \/ m.of = p
    PROVE  /\ post' \in [Posts -> PostRecords]
           /\ \A q \in Posts : q # p => PostOk(q)'
<1>1. post \in [Posts -> PostRecords] /\ post'[p] = r /\ r \in PostRecords
  BY DEF IntakeInv, IntakeTypes, Moves
<1>2. \A q \in Posts : q # p => post'[q] = post[q]
  BY <1>1 DEF Moves
<1>3. post' \in [Posts -> PostRecords]
  BY <1>1 DEF Moves
<1>4. ASSUME NEW q \in Posts, q # p PROVE PostOk(q)'
  <2>1. PostOk(q) /\ post'[q] = post[q]
    BY <1>2, <1>4 DEF IntakeInv
  <2>2. \A x \in post[q].ahead : post[x].pc = "answered" /\ x \in Posts
    BY <1>1, <2>1 DEF PostOk, PostRecords
  <2>3. p \notin post[q].ahead
    BY <2>2 DEF Moves
  <2>4. \A x \in post[q].ahead : post'[x] = post[x]
    BY <1>2, <2>2, <2>3
  <2>5. QED
    BY <1>4, <2>1, <2>2, <2>3, <2>4 DEF PostOk, Pending
<1>5. QED
  BY <1>3, <1>4

\* What the request itself has ahead was answered and stays so.
LEMMA AheadStays ==
    ASSUME IntakeInv, NEW p \in Posts, NEW r, Moves(p, r), r.ahead = post[p].ahead
    PROVE  \A q \in post'[p].ahead : post'[q].pc = "answered"
<1>1. post \in [Posts -> PostRecords] /\ post[p] \in PostRecords /\ PostOk(p)
  BY DEF IntakeInv, IntakeTypes
<1>2. \A q \in post[p].ahead : q \in Posts /\ post[q].pc = "answered" /\ q # p
  BY <1>1 DEF PostRecords, PostOk, Moves
<1>3. post'[p].ahead = post[p].ahead /\ \A q \in Posts : q # p => post'[q] = post[q]
  BY <1>1 DEF Moves
<1>4. QED
  BY <1>2, <1>3

\* A request moves to r and only the rows of p change, none of the materials.
LEMMA OneMoves ==
    ASSUME IntakeInv, NEW p \in Posts, NEW r, Moves(p, r),
           projects' \in {projects, projects \cup {p}},
           audits' \in {audits, audits \cup {p}},
           queued' \in {queued, queued \cup {p}}, queued' \subseteq audits',
           materials' = materials, intakeFaults' \in Nat,
           PostOk(p)'
    PROVE  IntakeInv'
<1>1. post' \in [Posts -> PostRecords] /\ \A q \in Posts : q # p => PostOk(q)'
  BY OthersOk
<1>2. QED
  BY <1>1 DEF IntakeInv, IntakeTypes

\* An answer.
LEMMA ReplyMoves ==
    ASSUME IntakeInv, NEW p \in Posts, NEW code \in Nat, Reply(p, code), Pending(p)
    PROVE  \E r : /\ Moves(p, r) /\ r.pc = "answered" /\ r.answer = code
                  /\ r.ahead = post[p].ahead
<1> DEFINE r == [post[p] EXCEPT !.pc = "answered", !.answer = code]
<1>1. post[p] \in PostRecords
  BY DEF IntakeInv, IntakeTypes
<1>2. r \in PostRecords /\ r.pc = "answered" /\ r.answer = code /\ r.ahead = post[p].ahead
  BY <1>1 DEF PostRecords, PostStates
<1>3. post' = [post EXCEPT ![p] = r]
  BY <1>1 DEF Reply, IntakeInv, IntakeTypes
<1>4. QED
  BY <1>2, <1>3 DEF Moves, Pending

\* projects.ts, audits.ts, materials.ts: every step keeps it.
LEMMA NextIntakeInv == ASSUME IntakeInv, [IntakeNext]_intakeVars PROVE IntakeInv'
<1>0. /\ IntakeTypes
      /\ post \in [Posts -> PostRecords]
      /\ \A p \in Posts : post[p] \in PostRecords /\ PostOk(p)
  BY DEF IntakeInv, IntakeTypes
<1>n. NoPost \in PostRecords /\ NoPost.pc = "new" /\ NoPost.ahead = {} /\ NoPost.answer = 0
  BY DEF NoPost, PostRecords, PostStates
<1>1. ASSUME NEW p \in Posts, PostProject(p) PROVE IntakeInv'
  <2> DEFINE r == [post[p] EXCEPT !.pc = "creating", !.kind = "project"]
  <2>1. r \in PostRecords /\ r.pc = "creating" /\ r.ahead = {} /\ r.answer = 0
    BY <1>1, <1>n DEF PostProject, PostRecords, PostStates, Kinds
  <2>2. post' = [post EXCEPT ![p] = r]
    BY <1>1 DEF PostProject
  <2> HIDE DEF r
  <2>3. Moves(p, r) /\ post'[p] = r
    BY <1>0, <1>1, <1>n, <2>1, <2>2 DEF PostProject, Moves
  <2>4. PostOk(p)'
    BY <1>0, <1>1, <1>n, <2>1, <2>3, AheadStays DEF PostProject, PostOk, Pending
  <2>5. QED
    BY <1>0, <1>1, <2>3, <2>4, OneMoves DEF PostProject, IntakeTypes
<1>2. ASSUME NEW p \in Posts, CreateProject(p) PROVE IntakeInv'
  <2> DEFINE r == [post[p] EXCEPT !.pc = "auditing", !.project = p]
  <2>1. r \in PostRecords /\ r.pc = "auditing" /\ r.ahead = post[p].ahead /\ r.answer = post[p].answer
    BY <1>0 DEF PostRecords, PostStates
  <2>2. post' = [post EXCEPT ![p] = r]
    BY <1>2 DEF CreateProject
  <2> HIDE DEF r
  <2>3. Moves(p, r) /\ post'[p] = r /\ \A q \in Posts : q # p => post'[q] = post[q]
    BY <1>0, <1>2, <2>1, <2>2 DEF CreateProject, Moves
  <2>4. PostOk(p)'
    BY <1>0, <1>2, <2>1, <2>3, AheadStays DEF CreateProject, PostOk, Pending
  <2>5. QED
    BY <1>0, <1>2, <2>3, <2>4, OneMoves DEF CreateProject, IntakeTypes
<1>3. ASSUME NEW p \in Posts, PostAudit(p) PROVE IntakeInv'
  <2>1. PICK project \in projects :
          post' = [post EXCEPT ![p].pc = "auditing", ![p].kind = "audit", ![p].project = project]
    BY <1>3 DEF PostAudit
  <2> DEFINE r == [post[p] EXCEPT !.pc = "auditing", !.kind = "audit", !.project = project]
  <2>2. r \in PostRecords /\ r.pc = "auditing" /\ r.ahead = {} /\ r.answer = 0
    <3>1. project \in Posts
      BY <1>0 DEF IntakeTypes
    <3>2. QED
      BY <1>3, <1>n, <3>1 DEF PostAudit, PostRecords, PostStates, Kinds
  <2>3. post' = [post EXCEPT ![p] = r]
    BY <2>1
  <2> HIDE DEF r
  <2>4. Moves(p, r) /\ post'[p] = r
    BY <1>0, <1>3, <1>n, <2>2, <2>3 DEF PostAudit, Moves
  <2>5. PostOk(p)'
    BY <1>0, <1>3, <1>n, <2>2, <2>4, AheadStays DEF PostAudit, PostOk, Pending
  <2>6. QED
    BY <1>0, <1>3, <2>4, <2>5, OneMoves DEF PostAudit, IntakeTypes
<1>4. ASSUME NEW p \in Posts, CreateAudit(p) PROVE IntakeInv'
  <2> DEFINE r == [post[p] EXCEPT !.pc = "queueing"]
  <2>1. r \in PostRecords /\ r.pc = "queueing" /\ r.ahead = post[p].ahead /\ r.answer = post[p].answer
    BY <1>0 DEF PostRecords, PostStates
  <2>2. post' = [post EXCEPT ![p] = r]
    BY <1>4 DEF CreateAudit
  <2> HIDE DEF r
  <2>3. Moves(p, r) /\ post'[p] = r /\ \A q \in Posts : q # p => post'[q] = post[q]
    BY <1>0, <1>4, <2>1, <2>2 DEF CreateAudit, Moves
  <2>4. PostOk(p)'
    BY <1>0, <1>4, <2>1, <2>3, AheadStays DEF CreateAudit, PostOk, Pending
  <2>5. QED
    BY <1>0, <1>4, <2>3, <2>4, OneMoves DEF CreateAudit, IntakeTypes
<1>5. ASSUME NEW p \in Posts, AddAudit(p) PROVE IntakeInv'
  <2>1. PICK r : Moves(p, r) /\ r.pc = "answered" /\ r.answer = 200 /\ r.ahead = post[p].ahead
    BY <1>5, ReplyMoves DEF AddAudit, Pending
  <2>2. post'[p] = r /\ \A q \in Posts : q # p => post'[q] = post[q]
    BY <1>0, <2>1 DEF Moves
  <2>3. PostOk(p)'
    BY <1>0, <1>5, <2>1, <2>2, AheadStays DEF AddAudit, PostOk, Pending
  <2>4. queued' \subseteq audits'
    BY <1>0, <1>5 DEF AddAudit, PostOk, IntakeTypes
  <2>5. QED
    BY <1>0, <1>5, <2>1, <2>3, <2>4, OneMoves DEF AddAudit, IntakeTypes
<1>6. ASSUME NEW p \in Posts, NEW k \in {"text", "url"}, NEW c \in Contents, PostMaterial(p, k, c)
      PROVE  IntakeInv'
  <2> DEFINE pc == IF k = "url" THEN "extracting" ELSE "looking"
             ahead == {q \in Posts : post[q].pc = "answered"}
             r == [post[p] EXCEPT !.pc = pc, !.kind = k, !.content = c, !.ahead = ahead]
  <2>1. r \in PostRecords /\ r.pc \in {"extracting", "looking"} /\ r.ahead = ahead /\ r.answer = 0
        /\ r.content = c
    BY <1>6, <1>n DEF PostMaterial, PostRecords, PostStates, Kinds
  <2>2. post' = [post EXCEPT ![p] = r]
    BY <1>6 DEF PostMaterial
  <2> HIDE DEF r
  <2>3. Moves(p, r) /\ post'[p] = r /\ \A q \in Posts : q # p => post'[q] = post[q]
    BY <1>0, <1>6, <1>n, <2>1, <2>2 DEF PostMaterial, Moves
  <2>4. PostOk(p)'
    <3>1. \A q \in ahead : q # p
      BY <1>6, <1>n DEF PostMaterial
    <3>2. \A q \in ahead : post'[q].pc = "answered"
      BY <2>3, <3>1
    <3>3. QED
      BY <1>0, <1>6, <1>n, <2>1, <2>3, <3>2 DEF PostMaterial, PostOk, Pending
  <2>5. QED
    BY <1>0, <1>6, <2>3, <2>4, OneMoves DEF PostMaterial, IntakeTypes
<1>7. ASSUME NEW p \in Posts, Extract(p) PROVE IntakeInv'
  <2>1. CASE Reply(p, 502)
    <3>1. PICK r : Moves(p, r) /\ r.pc = "answered" /\ r.answer = 502 /\ r.ahead = post[p].ahead
      BY <1>7, <2>1, ReplyMoves DEF Extract, Pending
    <3>2. post'[p] = r /\ \A q \in Posts : q # p => post'[q] = post[q]
      BY <1>0, <3>1 DEF Moves
    <3>3. PostOk(p)'
      BY <1>0, <1>7, <3>1, <3>2, AheadStays DEF Extract, PostOk, Pending
    <3>4. QED
      BY <1>0, <1>7, <3>1, <3>3, OneMoves DEF Extract, IntakeTypes
  <2>2. ASSUME NEW c \in Contents, post' = [post EXCEPT ![p].pc = "looking", ![p].content = c]
        PROVE  IntakeInv'
    <3> DEFINE r == [post[p] EXCEPT !.pc = "looking", !.content = c]
    <3>1. r \in PostRecords /\ r.pc = "looking" /\ r.ahead = post[p].ahead
          /\ r.answer = post[p].answer /\ r.content = c
      BY <1>0 DEF PostRecords, PostStates
    <3>2. post' = [post EXCEPT ![p] = r]
      BY <2>2
    <3> HIDE DEF r
    <3>3. Moves(p, r) /\ post'[p] = r /\ \A q \in Posts : q # p => post'[q] = post[q]
      BY <1>0, <1>7, <3>1, <3>2 DEF Extract, Moves
    <3>4. PostOk(p)'
      BY <1>0, <1>7, <3>1, <3>3, AheadStays DEF Extract, PostOk, Pending
    <3>5. QED
      BY <1>0, <1>7, <3>3, <3>4, OneMoves DEF Extract, IntakeTypes
  <2>3. QED
    BY <1>7, <2>1, <2>2 DEF Extract
<1>8. ASSUME NEW p \in Posts, Look(p) PROVE IntakeInv'
  <2>1. CASE Stored(post[p].content) # {}
    <3>1. PICK r : Moves(p, r) /\ r.pc = "answered" /\ r.answer = 200 /\ r.ahead = post[p].ahead
      BY <1>8, <2>1, ReplyMoves DEF Look, Pending
    <3>2. post'[p] = r /\ \A q \in Posts : q # p => post'[q] = post[q]
      BY <1>0, <3>1 DEF Moves
    <3>3. PostOk(p)'
      BY <1>0, <1>8, <3>1, <3>2, AheadStays DEF Look, PostOk, Pending
    <3>4. QED
      BY <1>0, <1>8, <3>1, <3>3, OneMoves DEF Look, IntakeTypes
  <2>2. CASE Stored(post[p].content) = {}
    <3> DEFINE r == [post[p] EXCEPT !.pc = "storing"]
    <3>1. r \in PostRecords /\ r.pc = "storing" /\ r.ahead = post[p].ahead
          /\ r.answer = post[p].answer /\ r.content = post[p].content
      BY <1>0 DEF PostRecords, PostStates
    <3>2. post' = [post EXCEPT ![p] = r]
      BY <1>8, <2>2 DEF Look
    <3> HIDE DEF r
    <3>3. Moves(p, r) /\ post'[p] = r /\ \A q \in Posts : q # p => post'[q] = post[q]
      BY <1>0, <1>8, <3>1, <3>2 DEF Look, Moves
    <3>4. \A m \in materials : m.content # r.content
      BY <2>2, <3>1 DEF Stored
    <3>5. PostOk(p)'
      BY <1>0, <1>8, <3>1, <3>3, <3>4, AheadStays DEF Look, PostOk, Pending
    <3>6. QED
      BY <1>0, <1>8, <3>3, <3>5, OneMoves DEF Look, IntakeTypes
  <2>3. QED
    BY <2>1, <2>2
<1>9. ASSUME NEW p \in Posts, Store(p) PROVE IntakeInv'
  <2>1. PICK code \in {500, 201} : Reply(p, code)
    BY <1>9 DEF Store
  <2>2. PICK r : Moves(p, r) /\ r.pc = "answered" /\ r.ahead = post[p].ahead
    BY <1>9, <2>1, ReplyMoves DEF Store, Pending
  <2>3. post'[p] = r /\ \A q \in Posts : q # p => post'[q] = post[q]
    BY <1>0, <2>2 DEF Moves
  <2>4. PostOk(p)'
    BY <1>0, <1>9, <2>2, <2>3, AheadStays DEF Store, PostOk, Pending
  <2>5. CASE Stored(post[p].content) # {}
    BY <1>0, <1>9, <2>2, <2>4, <2>5, OneMoves DEF Store, IntakeTypes
  <2>6. CASE Stored(post[p].content) = {}
    <3> DEFINE m == [of |-> p, content |-> post[p].content]
    <3>1. materials' = materials \cup {m} /\ m \in [of : Posts, content : Contents] /\ m.of = p
      BY <1>0, <1>9, <2>6 DEF Store, PostOk
    <3>2. \A n \in materials : n.content # m.content
      BY <2>6 DEF Stored
    <3> HIDE DEF m
    <3>3. post' \in [Posts -> PostRecords] /\ \A q \in Posts : q # p => PostOk(q)'
      BY <1>9, <2>2, <3>1, OthersOk DEF Store
    <3>4. \A x, y \in materials' : x.content = y.content => x = y
      BY <3>1, <3>2 DEF IntakeInv
    <3>5. QED
      BY <1>0, <1>9, <2>4, <3>1, <3>3, <3>4 DEF Store, IntakeInv, IntakeTypes
  <2>7. QED
    BY <2>5, <2>6
<1>10. ASSUME NEW p \in Posts, CallBreaks(p) PROVE IntakeInv'
  <2>1. PICK r : Moves(p, r) /\ r.pc = "answered" /\ r.answer = 500 /\ r.ahead = post[p].ahead
    BY <1>10, ReplyMoves DEF CallBreaks
  <2>2. post'[p] = r /\ \A q \in Posts : q # p => post'[q] = post[q]
    BY <1>0, <2>1 DEF Moves
  <2>3. PostOk(p)'
    BY <1>0, <1>10, <2>1, <2>2, AheadStays DEF CallBreaks, PostOk, Pending
  <2>4. QED
    BY <1>0, <1>10, <2>1, <2>3, OneMoves DEF CallBreaks, FaultStrikes, IntakeTypes
<1>11. CASE DeleteMaterial
  <2>1. materials' \subseteq materials
        /\ UNCHANGED <<projects, audits, queued, post, intakeFaults>>
    BY <1>11 DEF DeleteMaterial
  <2>2. \A p \in Posts : PostOk(p)'
    BY <1>0, <2>1 DEF PostOk, Pending
  <2>3. QED
    BY <2>1, <2>2 DEF IntakeInv, IntakeTypes
<1>12. CASE IntakeRestart
  <2>1. /\ UNCHANGED <<projects, audits, queued, materials>> /\ intakeFaults' = intakeFaults + 1
        /\ post' = [p \in Posts |-> IF Pending(p) THEN [post[p] EXCEPT !.pc = "lost"] ELSE post[p]]
    BY <1>12 DEF IntakeRestart, FaultStrikes
  <2>2. ASSUME NEW p \in Posts
        PROVE  /\ post'[p] \in PostRecords
               /\ post'[p].ahead = post[p].ahead /\ post'[p].answer = post[p].answer
               /\ post'[p].content = post[p].content
               /\ Pending(p) => post'[p].pc = "lost"
               /\ ~Pending(p) => post'[p] = post[p]
    <3>1. post'[p] = IF Pending(p) THEN [post[p] EXCEPT !.pc = "lost"] ELSE post[p]
      BY <2>1
    <3>2. QED
      BY <1>0, <3>1 DEF PostRecords, PostStates
  <2>3. ASSUME NEW p \in Posts PROVE PostOk(p)'
    <3>1. post[p].ahead \subseteq Posts
      BY <1>0 DEF PostRecords
    <3>2. \A q \in post[p].ahead : post'[q].pc = "answered"
      BY <1>0, <2>2, <3>1 DEF PostOk, Pending
    <3>3. QED
      BY <1>0, <2>1, <2>2, <3>2 DEF PostOk, Pending
  <2>4. post' \in [Posts -> PostRecords]
    BY <2>1, <2>2
  <2>5. QED
    BY <1>0, <2>1, <2>3, <2>4 DEF IntakeInv, IntakeTypes
<1>13. CASE UNCHANGED intakeVars
  BY <1>13 DEF intakeVars, IntakeInv, IntakeTypes, PostOk, Pending
<1>14. QED
  BY <1>1, <1>2, <1>3, <1>4, <1>5, <1>6, <1>7, <1>8, <1>9, <1>10, <1>11, <1>12, <1>13 DEF IntakeNext

\* materials.ts: who is refused for a row of the same text did not come after
\* the answer to whoever stored it.
LEMMA RefusalStep ==
    ASSUME IntakeInv, [IntakeNext]_intakeVars, NEW p \in Posts,
           post[p].pc = "storing", post'[p].answer = 500, intakeFaults' = intakeFaults
    PROVE  \A m \in Stored(post[p].content) : m.of \notin post[p].ahead
BY DEF IntakeInv, PostOk, Stored

\* An answer tells what was stored (projects.ts, audits.ts, materials.ts).
THEOREM AnswersAreKept == IntakeSpec => AnsweredIsKept
<1>1. IntakeInit => IntakeInv
  BY InitIntakeInv
<1>2. IntakeInv /\ [IntakeNext]_intakeVars => IntakeInv'
  BY NextIntakeInv
<1>3. IntakeInv => IntakeTypeOK /\ OrphansAreFaults
  <2> SUFFICES ASSUME IntakeInv PROVE IntakeTypeOK /\ OrphansAreFaults
    OBVIOUS
  <2>1. ASSUME NEW c \in Contents PROVE Cardinality(Stored(c)) <= 1
    <3>1. \A m, n \in Stored(c) : m = n
      BY DEF IntakeInv, Stored
    <3>2. CASE Stored(c) = {}
      BY <3>2, FS_EmptySet
    <3>3. ASSUME NEW m \in Stored(c) PROVE Cardinality(Stored(c)) <= 1
      <4>1. Stored(c) = {m}
        BY <3>1
      <4>2. Cardinality(Stored(c)) = 1
        BY <4>1, FS_Singleton
      <4>3. QED
        BY <4>2
    <3>4. QED
      BY <3>2, <3>3
  <2>2. QED
    BY <2>1 DEF IntakeInv, IntakeTypes, IntakeTypeOK, OrphansAreFaults, PostOk, Pending
<1>4. IntakeInv /\ [IntakeNext]_intakeVars =>
        [\A p \in Posts : post[p].pc = "storing" /\ post'[p].answer = 500 /\ intakeFaults' = intakeFaults
           => \A m \in Stored(post[p].content) : m.of \notin post[p].ahead]_intakeVars
  BY RefusalStep
<1>5. QED
  BY <1>1, <1>2, <1>3, <1>4, PTL DEF IntakeSpec, AnsweredIsKept, RefusedOnlyInARace

-----------------------------------------------------------------------------
(* Templates.  The versions are 1 .. Len, and of the two statements that   *)
(* make a version active the first leaves none or only its own: one is     *)
(* active when both have run alone.                                        *)

-----------------------------------------------------------------------------
(* Templates.  A request to create a version read a highest version there  *)
(* is; and while one activation runs alone, what its statements have done  *)
(* so far stands.                                                          *)

TemplateRows == [version : Nat, isActive : BOOLEAN]
Statements == {"siblings", "target"}
Edits == [pc : {"idle", "creating", "activating"}, id : Nat, max : Nat, todo : SUBSET Statements]

EditOk(e) ==
    /\ edit[e].id \in Rows \cup {0}
    /\ edit[e].pc = "creating" => edit[e].max <= Len(templates)
    /\ edit[e].pc = "activating" => edit[e].id \in Rows /\ edit[e].todo # {}
    /\ edit[e].pc # "activating" => edit[e].todo = {}

\* The only activation is e's, and its statements that ran have had their effect.
Alone(e) ==
    /\ Activating = {e}
    /\ "siblings" \notin edit[e].todo => Active \subseteq {edit[e].id}
    /\ "target" \notin edit[e].todo => edit[e].id \in Active

VersionsInv ==
    /\ templates \in Seq(TemplateRows) /\ Len(templates) <= MaxTemplates
    /\ edit \in [Editors -> Edits]
    /\ last \in {"none", "running", "whole", "torn"}
    /\ VersionsInOrder
    /\ \A e \in Editors : EditOk(e)
    /\ last = "running" => \E e \in Editors : Alone(e)
    /\ last = "whole" => Activating = {} /\ \E i \in Rows : Active = {i}

\* templates.ts, PATCH active: what each of the two statements does to the rows.
LEMMA StatementRuns ==
    ASSUME templates \in Seq(TemplateRows), NEW id \in Rows,
           NEW s \in Statements,
           templates' = IF s = "siblings" THEN Deactivate(id)
                        ELSE [templates EXCEPT ![id].isActive = TRUE]
    PROVE  /\ templates' \in Seq(TemplateRows) /\ Len(templates') = Len(templates)
           /\ Rows' = Rows
           /\ \A i \in Rows : templates'[i].version = templates[i].version
           /\ s = "siblings" => Active' = Active \cap {id}
           /\ s = "target" => Active' = Active \cup {id}
<1>1. Rows = 1 .. Len(templates) /\ Len(templates) \in Nat
      /\ \A i \in Rows : templates[i] \in TemplateRows
  BY DEF Rows
<1>2. CASE s = "siblings"
  <2>1. templates' = [i \in Rows |-> IF i = id THEN templates[i]
                                      ELSE [templates[i] EXCEPT !.isActive = FALSE]]
    BY <1>2 DEF Deactivate
  <2>2. \A i \in Rows : /\ templates'[i] \in TemplateRows
                        /\ templates'[i].version = templates[i].version
                        /\ i = id => templates'[i] = templates[i]
                        /\ i # id => ~templates'[i].isActive
    <3>1. ASSUME NEW i \in Rows, i # id
          PROVE  LET r == [templates[i] EXCEPT !.isActive = FALSE] IN
                 r \in TemplateRows /\ r.version = templates[i].version /\ ~r.isActive
      BY <1>1 DEF TemplateRows
    <3>2. QED
      BY <1>1, <2>1, <3>1
  <2>3. templates' \in [1 .. Len(templates) -> TemplateRows]
    BY <1>1, <2>1, <2>2
  <2>4. templates' \in Seq(TemplateRows) /\ Len(templates') = Len(templates)
        /\ DOMAIN templates' = Rows
    BY <1>1, <2>3
  <2>5. QED
    BY <1>2, <2>2, <2>4 DEF Rows, Active
<1>3. CASE s = "target"
  <2>1. templates' = [templates EXCEPT ![id] = [templates[id] EXCEPT !.isActive = TRUE]]
    BY <1>3, Zenon
  <2>t. templates[id] \in TemplateRows
    BY <1>1
  <2> DEFINE r == [templates[id] EXCEPT !.isActive = TRUE]
  <2>2. r \in TemplateRows /\ r.version = templates[id].version /\ r.isActive
    BY <2>t DEF TemplateRows
  <2>3. templates' = [templates EXCEPT ![id] = r]
    BY <2>1
  <2> HIDE DEF r
  <2>f. /\ templates'[id] = r
        /\ \A i \in Rows : i # id => templates'[i] = templates[i]
        /\ DOMAIN templates' = Rows
    BY <1>1, <2>3 DEF Rows
  <2>4. \A i \in Rows : /\ templates'[i] \in TemplateRows
                        /\ templates'[i].version = templates[i].version
                        /\ i = id => templates'[i].isActive
                        /\ i # id => templates'[i] = templates[i]
    BY <1>1, <2>2, <2>f
  <2>5. templates' \in [1 .. Len(templates) -> TemplateRows]
    BY <1>1, <2>3, <2>4, <2>f
  <2>6. templates' \in Seq(TemplateRows) /\ Len(templates') = Len(templates)
        /\ DOMAIN templates' = Rows
    BY <1>1, <2>5
  <2>7. QED
    BY <1>3, <2>4, <2>6 DEF Rows, Active
<1>4. QED
  BY <1>2, <1>3 DEF Statements

\* The versions are numbered without a gap, so that the next one is free.
LEMMA HighestVersion ==
    ASSUME VersionsInv
    PROVE  Versions = 1 .. Len(templates) /\ Highest(Versions) = Len(templates)
<1>1. Rows = 1 .. Len(templates) /\ Len(templates) \in Nat
      /\ \A i \in Rows : templates[i].version = i
  BY DEF VersionsInv, VersionsInOrder, Rows
<1>2. Versions = 1 .. Len(templates)
  BY <1>1 DEF Versions
<1>3. CASE Len(templates) = 0
  BY <1>2, <1>3 DEF Highest
<1>4. CASE Len(templates) # 0
  <2> DEFINE n == Len(templates)
             P(v) == \A w \in 1 .. n : w <= v
  <2>1. n \in 1 .. n /\ P(n) /\ \A v \in 1 .. n : P(v) => v = n
    BY <1>1, <1>4
  <2>2. (CHOOSE v \in 1 .. n : P(v)) = n
    <3>1. (CHOOSE v \in 1 .. n : P(v)) \in 1 .. n /\ P(CHOOSE v \in 1 .. n : P(v))
      BY <2>1
    <3>2. QED
      BY <2>1, <3>1
  <2>3. QED
    BY <1>2, <2>1, <2>2 DEF Highest
<1>5. QED
  BY <1>2, <1>3, <1>4

\* The templates an installation starts with are in order.
LEMMA InitVersionsInv == ASSUME TemplatesInit PROVE VersionsInv
<1>1. templates = <<>> /\ <<>> \in Seq(TemplateRows) /\ Len(<<>>) = 0 /\ DOMAIN <<>> = {}
  BY DEF TemplatesInit
<1>2. NoEdit \in Edits
  BY DEF NoEdit, Edits
<1>3. QED
  BY <1>1, <1>2, TemplatesAssumption
  DEF TemplatesInit, VersionsInv, VersionsInOrder, EditOk, NoEdit, Rows


\* templates.ts: every step keeps it.
LEMMA NextVersionsInv == ASSUME VersionsInv, [TemplatesNext]_templateVars PROVE VersionsInv'
<1>0. /\ templates \in Seq(TemplateRows) /\ Len(templates) <= MaxTemplates /\ MaxTemplates \in Nat
      /\ edit \in [Editors -> Edits] /\ \A e \in Editors : edit[e] \in Edits /\ EditOk(e)
      /\ Rows = 1 .. Len(templates) /\ Len(templates) \in Nat
      /\ last \in {"none", "running", "whole", "torn"}
      /\ \A i \in Rows : templates[i].version = i /\ templates[i] \in TemplateRows
      /\ last = "running" => \E e \in Editors : Alone(e)
      /\ last = "whole" => Activating = {} /\ \E i \in Rows : Active = {i}
  BY TemplatesAssumption DEF VersionsInv, VersionsInOrder, Rows
<1>n. NoEdit \in Edits /\ NoEdit.pc = "idle" /\ NoEdit.id = 0 /\ NoEdit.todo = {}
  BY DEF NoEdit, Edits
<1>h. Highest(Versions) = Len(templates) /\ Versions = 1 .. Len(templates)
  BY HighestVersion
<1>1. ASSUME NEW e \in Editors, NEW r \in Edits, Begin(e, r), UNCHANGED <<templates, last>>,
             r.id = 0, r.pc = "creating", r.max <= Len(templates), r.todo = {}
      PROVE  VersionsInv'
  <2>1. /\ edit' = [edit EXCEPT ![e] = r] /\ edit[e] = NoEdit
        /\ edit' \in [Editors -> Edits] /\ edit'[e] = r
        /\ \A d \in Editors : d # e => edit'[d] = edit[d]
    BY <1>0, <1>1 DEF Begin
  <2>2. \A d \in Editors : EditOk(d)'
    BY <1>0, <1>1, <2>1 DEF EditOk, Rows
  <2>3. Activating' = Activating /\ e \notin Activating
    BY <1>1, <1>n, <2>1 DEF Activating
  <2>4. Active' = Active /\ Rows' = Rows
    BY <1>1 DEF Active, Rows
  <2>5. \A d \in Editors : Alone(d) => Alone(d)'
    BY <2>1, <2>3, <2>4 DEF Alone
  <2>6. QED
    BY <1>0, <1>1, <2>1, <2>2, <2>3, <2>4, <2>5 DEF VersionsInv, VersionsInOrder
<1>2. ASSUME NEW e \in Editors, PostTemplate(e) PROVE VersionsInv'
  <2> DEFINE r == [NoEdit EXCEPT !.pc = "creating"]
  <2>1. r \in Edits /\ r.id = 0 /\ r.pc = "creating" /\ r.max = 0 /\ r.todo = {}
    BY DEF NoEdit, Edits
  <2>2. Begin(e, r) /\ UNCHANGED <<templates, last>>
    BY <1>2 DEF PostTemplate
  <2> HIDE DEF r
  <2>3. r.max <= Len(templates)
    BY <1>0, <2>1
  <2>4. QED
    BY <1>1, <2>1, <2>2, <2>3
<1>3. ASSUME NEW e \in Editors, NEW i \in Ids, PutTemplate(e, i) PROVE VersionsInv'
  <2> DEFINE r == [NoEdit EXCEPT !.pc = "creating", !.max = Highest(Versions)]
  <2>1. r \in Edits /\ r.id = 0 /\ r.pc = "creating" /\ r.max = Len(templates) /\ r.todo = {}
    BY <1>0, <1>h DEF NoEdit, Edits
  <2>2. Begin(e, r) /\ UNCHANGED <<templates, last>>
    BY <1>3 DEF PutTemplate
  <2> HIDE DEF r
  <2>3. r.max <= Len(templates)
    BY <1>0, <2>1
  <2>4. QED
    BY <1>1, <2>1, <2>2, <2>3
<1>4. ASSUME NEW e \in Editors, CreateVersion(e) PROVE VersionsInv'
  <2>1. /\ edit[e].pc = "creating" /\ edit' = [edit EXCEPT ![e] = NoEdit] /\ last' = last
        /\ edit' \in [Editors -> Edits] /\ edit'[e] = NoEdit
        /\ \A d \in Editors : d # e => edit'[d] = edit[d]
    BY <1>0, <1>4, <1>n DEF CreateVersion, End
  <2>2. Activating' = Activating /\ e \notin Activating
    BY <1>n, <2>1 DEF Activating
  <2>3. CASE templates' = templates
    <3>1. \A d \in Editors : EditOk(d)'
      BY <1>0, <1>n, <2>1, <2>3 DEF EditOk, Rows
    <3>2. Active' = Active /\ Rows' = Rows
      BY <2>3 DEF Active, Rows
    <3>3. \A d \in Editors : Alone(d) => Alone(d)'
      BY <2>1, <2>2, <3>2 DEF Alone
    <3>4. QED
      BY <1>0, <2>1, <2>2, <2>3, <3>1, <3>2, <3>3 DEF VersionsInv, VersionsInOrder
  <2>4. ASSUME VersionFree(edit[e].max + 1), Len(templates) < MaxTemplates,
               templates' = Append(templates, [version |-> edit[e].max + 1, isActive |-> FALSE])
        PROVE  VersionsInv'
    <3>1. edit[e].max + 1 = Len(templates) + 1
      <4>1. edit[e].max \in Nat /\ edit[e].max <= Len(templates)
        BY <1>0, <2>1 DEF EditOk, Edits
      <4>2. edit[e].max + 1 \notin 1 .. Len(templates)
        BY <1>h, <2>4 DEF VersionFree
      <4>3. QED
        BY <1>0, <4>1, <4>2
    <3> DEFINE t == [version |-> Len(templates) + 1, isActive |-> FALSE]
    <3>a. t \in TemplateRows
      BY <1>0 DEF TemplateRows
    <3>2. t \in TemplateRows /\ templates' = Append(templates, t)
      BY <2>4, <3>1, <3>a
    <3>3. /\ templates' \in Seq(TemplateRows) /\ Len(templates') = Len(templates) + 1
          /\ \A i \in Rows : templates'[i] = templates[i]
          /\ templates'[Len(templates) + 1] = t
      BY <1>0, <3>2
    <3>4. Rows' = Rows \cup {Len(templates) + 1}
      BY <1>0, <3>3 DEF Rows
    <3>5. Active' = Active
      BY <3>3, <3>4 DEF Active
    <3> HIDE DEF t
    <3>6. \A d \in Editors : EditOk(d)'
      <4>1. \A d \in Editors : edit[d].max \in Nat
        BY <1>0 DEF Edits
      <4>2. QED
        BY <1>0, <1>n, <2>1, <3>3, <3>4, <4>1 DEF EditOk
    <3>7. \A d \in Editors : Alone(d) => Alone(d)'
      BY <2>1, <2>2, <3>5 DEF Alone
    <3>8. VersionsInOrder'
      BY <1>0, <3>3, <3>4 DEF VersionsInOrder, t
    <3>9. QED
      BY <1>0, <2>1, <2>2, <2>4, <3>3, <3>4, <3>5, <3>6, <3>7, <3>8 DEF VersionsInv
  <2>5. QED
    BY <1>4, <2>3, <2>4 DEF CreateVersion
<1>5. ASSUME NEW e \in Editors, NEW i \in Ids, Activate(e, i) PROVE VersionsInv'
  <2> DEFINE r == [NoEdit EXCEPT !.pc = "activating", !.id = i, !.todo = {"siblings", "target"}]
  <2>i. i \in Nat
    BY <1>0 DEF Ids
  <2>1. r \in Edits /\ r.id = i /\ r.pc = "activating" /\ r.todo = {"siblings", "target"}
    BY <2>i, <1>n DEF Edits, Statements
  <2>2. /\ edit' = [edit EXCEPT ![e] = r] /\ edit[e] = NoEdit /\ i \in Rows /\ templates' = templates
        /\ last' = IF Activating = {} THEN "running" ELSE "torn"
    BY <1>5 DEF Activate, Begin
  <2> HIDE DEF r
  <2>3. /\ edit' \in [Editors -> Edits] /\ edit'[e] = r
        /\ \A d \in Editors : d # e => edit'[d] = edit[d]
    BY <1>0, <2>1, <2>2
  <2>4. \A d \in Editors : EditOk(d)'
    BY <1>0, <2>1, <2>2, <2>3 DEF EditOk, Rows
  <2>5. Activating = {} => Alone(e)'
    BY <2>1, <2>3 DEF Activating, Alone
  <2>6. QED
    BY <1>0, <2>2, <2>3, <2>4, <2>5 DEF VersionsInv, VersionsInOrder, Rows
<1>6. ASSUME NEW e \in Editors, NEW s \in Statements, ActivateWrites(e, s) PROVE VersionsInv'
  <2>1. /\ s \in edit[e].todo /\ edit[e].pc = "activating" /\ edit[e].id \in Rows
        /\ edit[e].todo \subseteq Statements
    BY <1>0, <1>6 DEF ActivateWrites, EditOk, Edits
  <2>2. PICK id \in Rows : id = edit[e].id
    BY <2>1
  <2>3. templates' = IF s = "siblings" THEN Deactivate(id) ELSE [templates EXCEPT ![id].isActive = TRUE]
    BY <1>6, <2>2 DEF ActivateWrites
  <2>4. /\ templates' \in Seq(TemplateRows) /\ Len(templates') = Len(templates) /\ Rows' = Rows
        /\ \A i \in Rows : templates'[i].version = templates[i].version
        /\ s = "siblings" => Active' = Active \cap {id}
        /\ s = "target" => Active' = Active \cup {id}
    BY <1>0, <2>3, StatementRuns
  <2>5. VersionsInOrder'
    BY <1>0, <2>4 DEF VersionsInOrder
  <2>6. CASE edit[e].todo = {s}
    <3>1. /\ edit' = [edit EXCEPT ![e] = NoEdit] /\ last' = IF last = "running" THEN "whole" ELSE last
      BY <1>6, <2>6 DEF ActivateWrites, End
    <3>2. /\ edit' \in [Editors -> Edits] /\ edit'[e] = NoEdit
          /\ \A d \in Editors : d # e => edit'[d] = edit[d]
      BY <1>0, <1>n, <3>1
    <3>3. \A d \in Editors : EditOk(d)'
      BY <1>0, <1>n, <2>4, <3>2 DEF EditOk
    <3>4. ASSUME last = "running" PROVE Activating' = {} /\ Active' = {id}
      <4>1. PICK d \in Editors : Alone(d)
        BY <1>0, <3>4
      <4>2. d = e /\ Activating = {e}
        BY <2>1, <4>1 DEF Alone, Activating
      <4>3. Activating' = {}
        BY <1>n, <3>2, <4>2 DEF Activating
      <4>4. Active' = {id}
        BY <2>2, <2>4, <2>6, <4>1, <4>2 DEF Alone, Statements
      <4>5. QED
        BY <4>3, <4>4
    <3>5. last # "whole"
      BY <1>0, <2>1 DEF Activating
    <3>6. QED
      BY <1>0, <2>4, <2>5, <3>1, <3>2, <3>3, <3>4, <3>5 DEF VersionsInv
  <2>7. CASE edit[e].todo # {s}
    <3> DEFINE r == [edit[e] EXCEPT !.todo = edit[e].todo \ {s}]
    <3>1. edit[e] \in Edits
      BY <1>0
    <3>2. r \in Edits /\ r.pc = "activating" /\ r.id = id /\ r.todo = edit[e].todo \ {s}
      BY <2>1, <2>2, <3>1 DEF Edits
    <3>3. edit' = [edit EXCEPT ![e] = r] /\ last' = last
      BY <1>6, <2>7 DEF ActivateWrites
    <3> HIDE DEF r
    <3>4. /\ edit' \in [Editors -> Edits] /\ edit'[e] = r
          /\ \A d \in Editors : d # e => edit'[d] = edit[d]
      BY <1>0, <3>2, <3>3
    <3>5. \A d \in Editors : EditOk(d)'
      BY <1>0, <2>1, <2>4, <2>7, <3>2, <3>4 DEF EditOk
    <3>6. Activating' = Activating /\ e \in Activating
      BY <2>1, <3>2, <3>4 DEF Activating
    <3>7. ASSUME last = "running" PROVE Alone(e)'
      <4>1. PICK d \in Editors : Alone(d)
        BY <1>0, <3>7
      <4>2. d = e
        BY <3>6, <4>1 DEF Alone
      <4>3. QED
        BY <2>2, <2>4, <3>2, <3>4, <3>6, <4>1, <4>2 DEF Alone, Statements
    <3>8. QED
      BY <1>0, <2>4, <2>5, <3>3, <3>4, <3>5, <3>6, <3>7 DEF VersionsInv
  <2>8. QED
    BY <2>6, <2>7
<1>7. ASSUME NEW e \in Editors, ActivateCut(e) PROVE VersionsInv'
  <2>1. edit' = [edit EXCEPT ![e] = NoEdit] /\ last' = "torn" /\ templates' = templates
    BY <1>7 DEF ActivateCut, End
  <2>2. edit' \in [Editors -> Edits] /\ \A d \in Editors : edit'[d] \in {edit[d], NoEdit}
    BY <1>0, <1>n, <2>1
  <2>3. \A d \in Editors : EditOk(d)'
    BY <1>0, <1>n, <2>1, <2>2 DEF EditOk, Rows
  <2>4. QED
    BY <1>0, <2>1, <2>2, <2>3 DEF VersionsInv, VersionsInOrder, Rows
<1>8. CASE UNCHANGED templateVars
  <2>1. UNCHANGED <<templates, edit, last>>
    BY <1>8 DEF templateVars
  <2>2. \A e \in Editors : EditOk(e)' = EditOk(e) /\ Alone(e)' = Alone(e)
    BY <2>1 DEF EditOk, Alone, Rows, Active, Activating
  <2>3. QED
    BY <1>0, <2>1, <2>2 DEF VersionsInv, VersionsInOrder, Rows, Active, Activating
<1>9. QED
  BY <1>2, <1>3, <1>4, <1>5, <1>6, <1>7, <1>8 DEF TemplatesNext, Statements

\* Versions are numbered without gaps, and after an activation that nothing
\* overlapped and nothing cut short one is active (templates.ts).
THEOREM VersionsStayInOrder == TemplatesSpec => []VersionsKept
<1>1. TemplatesInit => VersionsInv
  BY InitVersionsInv
<1>2. VersionsInv /\ [TemplatesNext]_templateVars => VersionsInv'
  BY NextVersionsInv
<1>3. VersionsInv => VersionsKept
  <2> SUFFICES ASSUME VersionsInv PROVE VersionsKept
    OBVIOUS
  <2>1. TemplatesTypeOK
    <3>1. Rows = 1 .. Len(templates) /\ Len(templates) \in Nat
          /\ \A i \in Rows : templates[i] \in TemplateRows /\ templates[i].version = i
      BY DEF VersionsInv, VersionsInOrder, Rows
    <3>2. \A i \in Rows : templates[i].version \in Ids /\ templates[i].isActive \in BOOLEAN
      BY <3>1, TemplatesAssumption DEF VersionsInv, Ids, TemplateRows
    <3>3. \A e \in Editors : edit[e].pc \in {"idle", "creating", "activating"}
      BY DEF VersionsInv, Edits
    <3>4. QED
      BY <3>2, <3>3 DEF VersionsInv, EditOk, TemplatesTypeOK
  <2>2. ASSUME last = "whole" PROVE Cardinality(Active) = 1
    <3>1. PICK i \in Rows : Active = {i}
      BY <2>2 DEF VersionsInv
    <3>2. QED
      BY <3>1, FS_Singleton
  <2>3. QED
    BY <2>1, <2>2 DEF VersionsKept, OneActiveUnlessTorn, VersionsInv
<1>4. QED
  BY <1>1, <1>2, <1>3, PTL DEF TemplatesSpec

-----------------------------------------------------------------------------
(* FixesScreen.  A card shows a row of its own finding.  When nothing is   *)
(* on its way and nobody else wrote behind the screen, it shows the newest *)
(* row; while one request is on its way, that request found the newest row *)
(* on the screen and brings back the newest.                               *)

Statuses == {"none", "error", "pending", "accepted", "rejected", "superseded"}
ShownSet == [id : 0 .. MaxFixRows + 2, status : Statuses]
RowSet == [of : FixAudits, status : Statuses]

\* A request of a click, as the screen and the API write it.
ClickOk(c) ==
    c \in [op : {"generate", "accept", "reject"}, of : FixAudits,
           id : 0 .. MaxFixRows + 2, reply : ShownSet, nth : {c.nth}]

ShapeInv ==
    /\ suggested \in Seq(RowSet) /\ Len(suggested) <= MaxFixRows + 1
    /\ httpCopy \in [FixAudits -> ShownSet] /\ shown \in [FixAudits -> ShownSet] /\ served \in ShownSet
    /\ address \in FixAudits \union {Nowhere} /\ spinner \in BOOLEAN
    /\ load \in {"idle", "findings", "suggestions", "arriving"}
    /\ cards \subseteq FixAudits /\ behind \subseteq FixAudits
    /\ fixErrors \in 0 .. MaxFixErrors /\ goes \in 0 .. MaxGoes
    /\ \A c \in clicks : ClickOk(c)
    /\ spinner = (load # "idle")
    /\ load # "idle" => address # Nowhere

\* A suggestion kept for a finding is a row of that finding, or no row at all.
Of(a, s) == s.id \in RowsOf(a) \/ s \in {Nothing, Envelope}

OwnInv ==
    /\ \A a \in FixAudits : Of(a, httpCopy[a]) /\ Of(a, shown[a])
    /\ address # Nowhere => Of(address, served)
    /\ address = Nowhere => served = Nothing
    /\ \A c \in clicks : c.op # "generate" => c.id \in RowsOf(c.of)
    /\ \A c \in clicks : Of(c.of, c.reply)

ArrivingInv ==
    load = "arriving" /\ address \notin behind => served = Newest(address) /\ ~Awaited(address)

\* What the only request of a finding found on the screen, or brings back.
Fits(c) ==
    /\ c.reply = Nothing =>
           /\ shown[c.of] = Newest(c.of)
           /\ c.op = "generate" => shown[c.of] = Nothing
           /\ c.op # "generate" => shown[c.of].status = "pending" /\ c.id = shown[c.of].id
    /\ c.reply \notin {Nothing, Envelope} => c.reply = Newest(c.of)

QuietInv ==
    load = "idle" /\ address \in cards /\ address \notin behind =>
        /\ \A c, d \in clicks : c.of = address /\ d.of = address => c = d
        /\ ~Awaited(address) => shown[address] = Newest(address)
        /\ \A c \in clicks : c.of = address => Fits(c)

FixesInv == ShapeInv /\ OwnInv /\ OwnFindings /\ ArrivingInv /\ QuietInv

RowsIn(t, a) == {i \in DOMAIN t : t[i].of = a}
IsNewest(t, a, s) ==
    \/ RowsIn(t, a) = {} /\ s = Nothing
    \/ \E m \in RowsIn(t, a) :
           (\A i \in RowsIn(t, a) : i <= m) /\ s = [id |-> m, status |-> t[m].status]

\* The empty slot and the envelope of an error are no rows.
LEMMA Blanks ==
    /\ Nothing \in ShownSet /\ Envelope \in ShownSet /\ Nothing # Envelope
    /\ Nothing.status # "pending" /\ Envelope.status # "pending"
    /\ Nothing.id = 0 /\ Envelope.id = 0
BY FixesAssumption DEF Nothing, Envelope, ShownSet, Statuses

\* The rows of a finding are numbers of the table.
LEMMA RowsAreFew ==
    ASSUME NEW t \in Seq(RowSet), NEW a
    PROVE  /\ Len(t) \in Nat /\ DOMAIN t = 1 .. Len(t)
           /\ RowsIn(t, a) \in SUBSET (1 .. Len(t))
           /\ \A i \in RowsIn(t, a) : i \in Nat /\ i >= 1 /\ i <= Len(t) /\ t[i] \in RowSet
BY DEF RowsIn

LatestIn(t, a) ==
    IF RowsIn(t, a) = {} THEN Nothing
    ELSE LET m == CHOOSE i \in RowsIn(t, a) : \A j \in RowsIn(t, a) : j <= i
         IN [id |-> m, status |-> t[m].status]
NewestIn(t, a) ==
    IF RowsIn(t, a) = {} THEN Nothing
    ELSE LET m == CHOOSE i \in RowsIn(t, a) : RowsIn(t, a) \subseteq 1 .. i
         IN [id |-> m, status |-> t[m].status]

\* The list names the newest row, however it is computed.
LEMMA NewestInIs ==
    ASSUME NEW t \in Seq(RowSet), NEW a
    PROVE  IsNewest(t, a, NewestIn(t, a)) /\ LatestIn(t, a) = NewestIn(t, a)
<1>1. CASE RowsIn(t, a) = {}
  BY <1>1 DEF NewestIn, LatestIn, IsNewest
<1>2. CASE RowsIn(t, a) # {}
  <2>1. PICK m \in RowsIn(t, a) : \A i \in RowsIn(t, a) : i <= m
    BY <1>2, RowsAreFew, GreatestOf
  <2>2. \A i \in RowsIn(t, a) : i \in Nat /\ i >= 1
    BY RowsAreFew
  <2>3. (CHOOSE i \in RowsIn(t, a) : \A j \in RowsIn(t, a) : j <= i) = m
    BY <2>1, <2>2
  <2>4. (CHOOSE i \in RowsIn(t, a) : RowsIn(t, a) \subseteq 1 .. i) = m
    <3>1. RowsIn(t, a) \subseteq 1 .. m
      BY <2>1, <2>2
    <3>2. ASSUME NEW i \in RowsIn(t, a), RowsIn(t, a) \subseteq 1 .. i PROVE i = m
      <4>1. m \in 1 .. i
        BY <3>2, <2>1
      <4>2. QED
        BY <4>1, <2>1, <2>2
    <3>3. QED
      BY <3>1, <3>2
  <2>5. LatestIn(t, a) = [id |-> m, status |-> t[m].status]
    BY <1>2, <2>3 DEF LatestIn
  <2>6. NewestIn(t, a) = [id |-> m, status |-> t[m].status]
    BY <1>2, <2>4 DEF NewestIn
  <2>7. QED
    BY <2>1, <2>5, <2>6 DEF IsNewest
<1>3. QED
  BY <1>1, <1>2

\* The screen's words for it are of the table as it stands, or will stand.
LEMMA InTheTable ==
    /\ \A a : RowsOf(a) = RowsIn(suggested, a) /\ RowsOf(a)' = RowsIn(suggested', a)
    /\ \A a : Newest(a) = NewestIn(suggested, a) /\ Newest(a)' = NewestIn(suggested', a)
    /\ \A a : Latest(a) = LatestIn(suggested, a)
BY DEF RowsOf, RowsIn, Newest, NewestIn, Latest, LatestIn, AsShown

\* What the list names for a finding is its newest row.
LEMMA NewestIs ==
    ASSUME suggested \in Seq(RowSet), NEW a
    PROVE  IsNewest(suggested, a, Newest(a)) /\ Latest(a) = Newest(a)
BY NewestInIs, InTheTable

\* A finding has one newest row.
LEMMA NewestIsOne ==
    ASSUME NEW t \in Seq(RowSet), NEW a, NEW r, NEW s, IsNewest(t, a, r), IsNewest(t, a, s)
    PROVE  r = s
<1>1. CASE RowsIn(t, a) = {}
  BY <1>1 DEF IsNewest
<1>2. CASE RowsIn(t, a) # {}
  <2>1. PICK m \in RowsIn(t, a) :
           (\A i \in RowsIn(t, a) : i <= m) /\ r = [id |-> m, status |-> t[m].status]
    BY <1>2 DEF IsNewest
  <2>2. PICK n \in RowsIn(t, a) :
           (\A i \in RowsIn(t, a) : i <= n) /\ s = [id |-> n, status |-> t[n].status]
    BY <1>2 DEF IsNewest
  <2>3. m <= n /\ n <= m /\ m \in Nat /\ n \in Nat
    BY <2>1, <2>2, RowsAreFew
  <2>4. m = n
    BY <2>3
  <2>5. QED
    BY <2>1, <2>2, <2>4
<1>3. QED
  BY <1>1, <1>2

\* The newest row is a suggestion of its finding.
LEMMA NewestIsOwn ==
    ASSUME suggested \in Seq(RowSet), Len(suggested) <= MaxFixRows + 1, NEW a \in FixAudits
    PROVE  Newest(a) \in ShownSet /\ Of(a, Newest(a)) /\ (Newest(a) = Nothing => RowsOf(a) = {})
<1>1. RowsOf(a) = RowsIn(suggested, a)
  BY DEF RowsOf, RowsIn
<1>2. CASE RowsIn(suggested, a) = {} /\ Newest(a) = Nothing
  BY <1>1, <1>2, Blanks DEF Of
<1>3. CASE \E m \in RowsIn(suggested, a) : Newest(a) = [id |-> m, status |-> suggested[m].status]
  <2>1. PICK m \in RowsIn(suggested, a) : Newest(a) = [id |-> m, status |-> suggested[m].status]
    BY <1>3
  <2>2. m \in Nat /\ m >= 1 /\ m <= Len(suggested) /\ Len(suggested) \in Nat /\ suggested[m] \in RowSet
    BY RowsAreFew
  <2>3. suggested[m].status \in Statuses
    BY <2>2 DEF RowSet
  <2>4. m \in 0 .. MaxFixRows + 2 /\ m # 0
    BY <2>2, FixesAssumption
  <2>5. Newest(a).id = m /\ Newest(a) \in ShownSet
    BY <2>1, <2>3, <2>4 DEF ShownSet
  <2>6. QED
    BY <1>1, <2>4, <2>5, Blanks DEF Of
<1>4. QED
  BY <1>2, <1>3, NewestIs DEF IsNewest

\* The bounds of the model are numbers.
LEMMA BoundsAreNat ==
    MaxFixRows \in Nat /\ MaxFixCalls \in Nat /\ MaxFixErrors \in Nat /\ MaxGoes \in Nat
BY FixesAssumption

\* A step that leaves the table alone leaves its newest rows.
LEMMA TableStays ==
    ASSUME suggested' = suggested
    PROVE  /\ \A a : RowsOf(a)' = RowsOf(a)
           /\ \A a : Newest(a)' = Newest(a)
BY DEF RowsOf, Newest, AsShown

\* Initially the table is empty and no screen is open.
LEMMA FixesInvInit == FixesInit => FixesInv
<1> SUFFICES ASSUME FixesInit PROVE FixesInv
  OBVIOUS
<1>1. suggested \in Seq(RowSet) /\ Len(suggested) <= MaxFixRows + 1
  <2>1. PICK a \in FixAudits : suggested = <<>> \/ suggested = <<[of |-> a, status |-> "pending"]>>
    BY DEF FixesInit
  <2>2. [of |-> a, status |-> "pending"] \in RowSet
    BY DEF RowSet, Statuses
  <2>3. <<[of |-> a, status |-> "pending"]>> \in Seq(RowSet) /\ Len(<<[of |-> a, status |-> "pending"]>>) = 1
    BY <2>2
  <2>4. <<>> \in Seq(RowSet) /\ Len(<<>>) = 0
    OBVIOUS
  <2>5. suggested \in Seq(RowSet) /\ Len(suggested) \in {0, 1}
    BY <2>1, <2>3, <2>4
  <2>6. QED
    BY <2>5, BoundsAreNat
<1>2. ShapeInv
  <2>1. 0 \in 0 .. MaxFixErrors /\ 0 \in 0 .. MaxGoes
    BY BoundsAreNat
  <2>2. QED
    BY <1>1, <2>1, Blanks DEF FixesInit, ShapeInv
<1>3. OwnInv
  BY DEF FixesInit, OwnInv, Of
<1>4. OwnFindings /\ ArrivingInv /\ QuietInv
  BY DEF FixesInit, OwnFindings, ArrivingInv, QuietInv
<1>5. QED
  BY <1>2, <1>3, <1>4 DEF FixesInv

\* FixQueue.tsx: another address empties the screen and starts a load of its
\* own.
LEMMA GoKeeps ==
    ASSUME FixesInv, NEW a \in FixAudits \union {Nowhere}, Go(a)
    PROVE  FixesInv'
<1> USE DEF FixesInv
<1>1. suggested' = suggested /\ httpCopy' = httpCopy /\ clicks' = clicks /\ behind' = behind
  BY DEF Go
<1>2. ShapeInv'
  <2>1. goes' \in 0 .. MaxGoes
    BY BoundsAreNat DEF Go, ShapeInv
  <2>2. QED
    BY <2>1, Blanks DEF Go, ShapeInv, ClickOk
<1>3. OwnInv'
  BY <1>1, TableStays, Blanks DEF Go, ShapeInv, OwnInv, Of
<1>4. OwnFindings'
  BY FixesAssumption DEF Go, OwnFindings
<1>5. ArrivingInv' /\ QuietInv'
  BY DEF Go, ArrivingInv, QuietInv
<1>6. QED
  BY <1>2, <1>3, <1>4, <1>5

\* FixQueue.tsx: the findings of the address give the cards.
LEMMA FindingsArriveKeeps ==
    ASSUME FixesInv, FindingsArrive
    PROVE  FixesInv'
<1> USE DEF FixesInv
<1>1. suggested' = suggested
  BY DEF FindingsArrive
<1>2. ShapeInv'
  BY Blanks, FixesAssumption DEF FindingsArrive, Wanted, ShapeInv, ClickOk
<1>3. OwnInv'
  BY <1>1, TableStays, Blanks DEF FindingsArrive, OwnInv, Of
<1>4. OwnFindings'
  BY FixesAssumption DEF FindingsArrive, Wanted, OwnFindings
<1>5. ArrivingInv' /\ QuietInv'
  BY DEF FindingsArrive, ArrivingInv, QuietInv
<1>6. QED
  BY <1>2, <1>3, <1>4, <1>5

\* FixQueue.tsx: a load that fails ends and shows what it has.
LEMMA LoadEndsKeeps ==
    ASSUME FixesInv, FindingsRefused \/ ListFails
    PROVE  FixesInv'
<1> USE DEF FixesInv
<1>1. /\ suggested' = suggested /\ httpCopy' = httpCopy /\ address' = address /\ served' = served
      /\ shown' = shown /\ clicks' = clicks /\ cards' = cards /\ goes' = goes
      /\ load' = "idle" /\ spinner' = FALSE /\ behind' = behind \union {address}
      /\ fixErrors < MaxFixErrors /\ fixErrors' = fixErrors + 1 /\ load # "idle"
  BY DEF FindingsRefused, ListFails, LoadOver
<1>2. ShapeInv'
  <2>1. fixErrors' \in 0 .. MaxFixErrors
    BY <1>1, BoundsAreNat DEF ShapeInv
  <2>2. QED
    BY <1>1, <2>1, FixesAssumption DEF ShapeInv, ClickOk
<1>3. OwnInv'
  BY <1>1, TableStays DEF OwnInv, Of
<1>4. (OwnFindings /\ ArrivingInv /\ QuietInv)'
  BY <1>1 DEF OwnFindings, ArrivingInv, QuietInv
<1>5. QED
  BY <1>2, <1>3, <1>4

\* suggestions.ts: the list is what the table has when it is read.
LEMMA ListServedKeeps ==
    ASSUME FixesInv, ListServed
    PROVE  FixesInv'
<1> USE DEF FixesInv
<1>1. /\ suggested' = suggested /\ address' = address /\ spinner' = spinner /\ cards' = cards
      /\ shown' = shown /\ clicks' = clicks /\ fixErrors' = fixErrors /\ goes' = goes
      /\ load = "suggestions" /\ load' = "arriving"
  BY DEF ListServed
<1>2. address \in FixAudits
  BY <1>1 DEF ShapeInv
<1>3. Newest(address) \in ShownSet /\ Of(address, Newest(address)) /\ Latest(address) = Newest(address)
  BY <1>2, NewestIs, NewestIsOwn DEF ShapeInv
<1>4. \/ /\ served' = Newest(address) /\ httpCopy' = [httpCopy EXCEPT ![address] = Newest(address)]
         /\ behind' = IF Awaited(address) THEN behind \union {address} ELSE behind \ {address}
      \/ served' = httpCopy[address] /\ httpCopy' = httpCopy /\ behind' = behind \union {address}
  BY <1>3 DEF ListServed
<1>5. ShapeInv'
  <2>1. served' \in ShownSet /\ httpCopy' \in [FixAudits -> ShownSet] /\ behind' \subseteq FixAudits
    BY <1>2, <1>3, <1>4 DEF ShapeInv
  <2>2. QED
    BY <1>1, <2>1 DEF ShapeInv, ClickOk
<1>6. OwnInv'
  <2>1. Of(address, served') /\ \A a \in FixAudits : Of(a, httpCopy'[a])
    BY <1>2, <1>3, <1>4 DEF ShapeInv, OwnInv
  <2>2. QED
    BY <1>1, <1>2, <2>1, TableStays, FixesAssumption DEF OwnInv, Of
<1>7. OwnFindings' /\ QuietInv'
  BY <1>1 DEF OwnFindings, QuietInv
<1>8. ArrivingInv'
  <2>1. Newest(address)' = Newest(address) /\ Awaited(address)' = Awaited(address)
    BY <1>1, TableStays DEF Awaited
  <2>2. QED
    BY <1>1, <1>4, <2>1 DEF ArrivingInv
<1>9. QED
  BY <1>5, <1>6, <1>7, <1>8

\* FixQueue.tsx: a list that arrives is shown, a late one is not.
LEMMA ListArrivesKeeps ==
    ASSUME FixesInv, ListArrives
    PROVE  FixesInv'
<1> USE DEF FixesInv
<1>1. /\ suggested' = suggested /\ httpCopy' = httpCopy /\ address' = address /\ cards' = cards
      /\ clicks' = clicks /\ behind' = behind /\ fixErrors' = fixErrors /\ goes' = goes
      /\ load = "arriving" /\ load' = "idle" /\ spinner' = FALSE /\ served' = Nothing
      /\ shown' = [a \in FixAudits |-> IF a = address THEN served ELSE Nothing]
  BY DEF ListArrives, LoadOver
<1>2. address \in FixAudits
  BY <1>1 DEF ShapeInv
<1>3. ShapeInv'
  BY <1>1, Blanks DEF ShapeInv, ClickOk
<1>4. OwnInv'
  BY <1>1, <1>2, TableStays, FixesAssumption DEF OwnInv, Of
<1>5. OwnFindings' /\ ArrivingInv'
  BY <1>1 DEF OwnFindings, ArrivingInv
<1>6. QuietInv'
  <2> SUFFICES ASSUME address \notin behind PROVE QuietInv'
    BY <1>1 DEF QuietInv
  <2>1. served = Newest(address) /\ \A c \in clicks : c.of # address
    BY <1>1 DEF ArrivingInv, Awaited
  <2>2. shown'[address] = Newest(address)'
    BY <1>1, <1>2, <2>1, TableStays
  <2>3. QED
    BY <1>1, <2>1, <2>2 DEF QuietInv
<1>7. QED
  BY <1>3, <1>4, <1>5, <1>6

\* SuggestionPanel.tsx: a click sends the row the panel shows.
LEMMA ClickKeeps ==
    ASSUME FixesInv, Click
    PROVE  FixesInv'
<1> USE DEF FixesInv
<1>0. PICK a \in cards : \E op \in Offered(a) :
        /\ clicks' = clicks \union
               {[op |-> op, of |-> a, id |-> shown[a].id, reply |-> Nothing, nth |-> FreshNth]}
        /\ behind' = IF Awaited(a) THEN behind \union {a} ELSE behind
  BY DEF Click
<1>1. PICK op \in Offered(a) :
        /\ clicks' = clicks \union
               {[op |-> op, of |-> a, id |-> shown[a].id, reply |-> Nothing, nth |-> FreshNth]}
        /\ behind' = IF Awaited(a) THEN behind \union {a} ELSE behind
  BY <1>0
<1>2. /\ suggested' = suggested /\ httpCopy' = httpCopy /\ address' = address /\ load' = load
      /\ served' = served /\ spinner' = spinner /\ cards' = cards /\ shown' = shown
      /\ fixErrors' = fixErrors /\ goes' = goes /\ ~spinner
  BY DEF Click
<1>3. a \in FixAudits /\ load = "idle"
  BY <1>2 DEF ShapeInv
<1>a. PICK new : new = [op |-> op, of |-> a, id |-> shown[a].id, reply |-> Nothing, nth |-> FreshNth]
  OBVIOUS
<1>4. /\ op \in {"generate", "accept", "reject"}
      /\ op = "generate" => shown[a] = Nothing
      /\ op # "generate" => shown[a].status = "pending"
  BY DEF Offered
<1>5. ClickOk(new)
  BY <1>a, <1>3, <1>4, Blanks DEF ClickOk, ShapeInv, ShownSet
<1>6. new.op = op /\ new.of = a /\ new.id = shown[a].id /\ new.reply = Nothing
  BY <1>a
<1>7. clicks' = clicks \union {new}
  BY <1>1, <1>a
<1>8. ShapeInv'
  BY <1>1, <1>2, <1>3, <1>5, <1>7 DEF ShapeInv, ClickOk
<1>9. OwnInv'
  <2>1. op # "generate" => shown[a].id \in RowsOf(a)
    BY <1>3, <1>4, Blanks DEF OwnInv, Of
  <2>2. QED
    BY <1>2, <1>6, <1>7, <2>1, TableStays DEF OwnInv, Of
<1>10. OwnFindings' /\ ArrivingInv'
  BY <1>1, <1>2, <1>3 DEF OwnFindings, ArrivingInv
<1>11. QuietInv'
  <2> SUFFICES ASSUME address \in cards, address \notin behind' PROVE QuietInv'
    BY <1>2 DEF QuietInv
  <2>0. address \notin behind /\ QuietInv
    BY <1>1
  <2>1. \A b : Newest(b)' = Newest(b)
    BY <1>2, TableStays
  <2>2. CASE a = address
    <3>1. \A c \in clicks : c.of # a
      BY <1>1, <2>2 DEF Awaited
    <3>2. shown[a] = Newest(a)
      BY <1>3, <2>0, <2>2, <3>1 DEF QuietInv, Awaited
    <3>3. Fits(new)'
      BY <1>2, <1>4, <1>6, <2>1, <3>2 DEF Fits
    <3>4. Awaited(address)'
      BY <1>2, <1>6, <1>7, <2>2 DEF Awaited
    <3>5. QED
      BY <1>2, <1>6, <1>7, <2>2, <3>1, <3>3, <3>4 DEF QuietInv
  <2>3. CASE a # address
    <3>1. \A c \in clicks' : c.of = address => c \in clicks
      BY <1>6, <1>7, <2>3
    <3>2. Awaited(address)' = Awaited(address)
      BY <1>2, <1>7, <3>1 DEF Awaited
    <3>3. \A c \in clicks : Fits(c)' <=> Fits(c)
      BY <1>2, <2>1 DEF Fits
    <3>4. QED
      BY <1>2, <1>3, <2>0, <2>1, <3>1, <3>2, <3>3 DEF QuietInv
  <2>4. QED
    BY <2>2, <2>3
<1>12. QED
  BY <1>8, <1>9, <1>10, <1>11

\* SuggestionPanel.tsx: an answer replaces what the panel of its finding shows.
LEMMA AnswerArrivesKeeps ==
    ASSUME FixesInv, AnswerArrives
    PROVE  FixesInv'
<1> USE DEF FixesInv
<1>1. PICK c \in clicks :
        /\ c.reply # Nothing
        /\ clicks' = clicks \ {c}
        /\ shown' = [shown EXCEPT ![c.of] = Kept(c)]
        /\ behind' = IF c.reply = Envelope \/ (load = "arriving" /\ address = c.of)
                     THEN behind \union {c.of} ELSE behind
  BY DEF AnswerArrives
<1>2. /\ suggested' = suggested /\ httpCopy' = httpCopy /\ address' = address /\ load' = load
      /\ served' = served /\ spinner' = spinner /\ cards' = cards
      /\ fixErrors' = fixErrors /\ goes' = goes
  BY DEF AnswerArrives
<1>3. c.of \in FixAudits /\ c.reply \in ShownSet /\ Of(c.of, c.reply)
  BY DEF ShapeInv, ClickOk, OwnInv
<1>4. Kept(c) \in ShownSet /\ Of(c.of, Kept(c))
  BY <1>3 DEF Kept, ShapeInv, OwnInv
<1>5. ShapeInv'
  BY <1>1, <1>2, <1>3, <1>4 DEF ShapeInv, ClickOk
<1>6. OwnInv'
  <2>1. \A a \in FixAudits : Of(a, shown'[a])
    BY <1>1, <1>4 DEF ShapeInv, OwnInv
  <2>2. QED
    BY <1>1, <1>2, <2>1, TableStays DEF OwnInv, Of
<1>7. OwnFindings'
  BY <1>1, <1>2 DEF OwnFindings
<1>8. ArrivingInv'
  <2>1. Newest(address)' = Newest(address) /\ (Awaited(address)' => Awaited(address))
    BY <1>1, <1>2, TableStays DEF Awaited
  <2>2. QED
    BY <1>1, <1>2, <2>1 DEF ArrivingInv
<1>9. QuietInv'
  <2> SUFFICES ASSUME load = "idle", address \in cards, address \notin behind' PROVE QuietInv'
    BY <1>2 DEF QuietInv
  <2>0. address \notin behind /\ address \in FixAudits
    BY <1>1 DEF ShapeInv
  <2>1. \A b : Newest(b)' = Newest(b)
    BY <1>2, TableStays
  <2>2. CASE c.of = address
    <3>1. \A d \in clicks' : d.of # address
      BY <1>1, <2>0, <2>2 DEF QuietInv
    <3>2. c.reply # Envelope /\ Fits(c)
      BY <1>1, <2>0, <2>2 DEF QuietInv
    <3>3. shown'[address] = Newest(address)
      BY <1>1, <1>3, <2>2, <3>2 DEF Fits, Kept, ShapeInv
    <3>4. QED
      BY <1>2, <2>1, <3>1, <3>3 DEF QuietInv
  <2>3. CASE c.of # address
    <3>1. Awaited(address)' = Awaited(address)
      BY <1>1, <1>2, <2>3 DEF Awaited
    <3>2. shown'[address] = shown[address]
      BY <1>1, <2>0, <2>3 DEF ShapeInv
    <3>3. \A d \in clicks : d.of = address => (Fits(d)' <=> Fits(d))
      BY <1>2, <2>1, <3>2 DEF Fits
    <3>4. QED
      BY <1>1, <1>2, <2>0, <2>1, <3>1, <3>2, <3>3 DEF QuietInv
  <2>4. QED
    BY <2>2, <2>3
<1>10. QED
  BY <1>5, <1>6, <1>7, <1>8, <1>9

\* Rows that only other findings' steps touch keep their newest one.
LEMMA SameRows ==
    ASSUME NEW t \in Seq(RowSet), NEW u \in Seq(RowSet), NEW a, RowsIn(u, a) = RowsIn(t, a),
           \A i \in RowsIn(t, a) : u[i] = t[i]
    PROVE  NewestIn(u, a) = NewestIn(t, a)
<1>1. IsNewest(t, a, NewestIn(t, a))
  BY NewestInIs
<1>2. IsNewest(u, a, NewestIn(t, a))
  BY <1>1 DEF IsNewest
<1>3. QED
  BY <1>2, NewestInIs, NewestIsOne

\* What serving a request does to the table and how it is answered.
Served(c, r) ==
    /\ r \in ShownSet /\ clicks' = (clicks \ {c}) \union {[c EXCEPT !.reply = r]}
    /\ suggested' \in Seq(RowSet) /\ Len(suggested') <= MaxFixRows + 1
    /\ \A b : RowsIn(suggested, b) \subseteq RowsIn(suggested', b)
    /\ \A b : b # c.of => /\ RowsIn(suggested', b) = RowsIn(suggested, b)
                          /\ \A i \in RowsIn(suggested, b) : suggested'[i] = suggested[i]
    /\ r = Envelope \/ r.id \in RowsIn(suggested', c.of)
    /\ fixErrors' \in 0 .. MaxFixErrors
    /\ Fits(c) => r = Envelope \/ r = NewestIn(suggested', c.of)

\* suggestions.ts: a request that fails answers an envelope, whatever it
\* stored.
LEMMA FailServes ==
    ASSUME FixesInv, NEW c \in clicks, Fail(c), suggested' \in Seq(RowSet), Len(suggested') = Len(suggested),
           \A i \in DOMAIN suggested : suggested'[i].of = suggested[i].of,
           \A i \in DOMAIN suggested : suggested[i].of # c.of => suggested'[i] = suggested[i]
    PROVE  Served(c, Envelope)
<1>1. DOMAIN suggested' = DOMAIN suggested /\ Len(suggested) <= MaxFixRows + 1
  BY DEF FixesInv, ShapeInv
<1>2. \A b : RowsIn(suggested', b) = RowsIn(suggested, b)
  BY <1>1 DEF RowsIn
<1>3. \A b : b # c.of => \A i \in RowsIn(suggested, b) : suggested'[i] = suggested[i]
  BY DEF RowsIn
<1>4. fixErrors' \in 0 .. MaxFixErrors
  BY BoundsAreNat DEF Fail, FixesInv, ShapeInv
<1>5. QED
  BY <1>1, <1>2, <1>3, <1>4, Blanks DEF Served, Fail, AnswerWith

\* suggestions.ts: accept and reject change the row they name and answer it.
LEMMA DecisionServes ==
    ASSUME FixesInv, NEW c \in clicks, c.reply = Nothing, c.op # "generate", ServeDecision(c)
    PROVE  \E r : Served(c, r)
<1> DEFINE decided == IF c.op = "accept" THEN "accepted" ELSE "rejected"
<1>0. /\ suggested \in Seq(RowSet) /\ Len(suggested) <= MaxFixRows + 1
      /\ c.of \in FixAudits /\ c.id \in RowsIn(suggested, c.of) /\ fixErrors \in 0 .. MaxFixErrors
  BY InTheTable DEF FixesInv, ShapeInv, OwnInv, ClickOk
<1>1. c.id \in DOMAIN suggested /\ suggested[c.id].of = c.of /\ suggested[c.id] \in RowSet
  BY <1>0, RowsAreFew DEF RowsIn
<1>2. CASE suggested[c.id].status # "pending"
  <2>1. AnswerWith(c, Envelope) /\ suggested' = suggested /\ fixErrors' = fixErrors
    BY <1>2 DEF ServeDecision
  <2>2. QED
    BY <1>0, <2>1, Blanks DEF Served, AnswerWith
<1>3. CASE suggested[c.id].status = "pending"
  <2>1. /\ suggested' = [suggested EXCEPT ![c.id].status = decided]
        /\ \/ AnswerWith(c, [id |-> c.id, status |-> decided]) /\ UNCHANGED fixErrors
           \/ Fail(c)
    BY <1>3 DEF ServeDecision
  <2>2. suggested' = [suggested EXCEPT ![c.id] = [suggested[c.id] EXCEPT !.status = decided]]
    BY <2>1, Zenon
  <2>3. PICK row : row = [suggested[c.id] EXCEPT !.status = decided]
    OBVIOUS
  <2>4. row \in RowSet /\ row.of = c.of /\ row.status = decided
    BY <1>1, <2>3 DEF RowSet, Statuses
  <2>5. suggested' = [suggested EXCEPT ![c.id] = row]
    BY <2>2, <2>3
  <2>6. suggested' \in Seq(RowSet) /\ Len(suggested') = Len(suggested) /\ DOMAIN suggested' = DOMAIN suggested
    BY <1>0, <1>1, <2>4, <2>5
  <2>7. suggested'[c.id] = row /\ \A i \in DOMAIN suggested : i # c.id => suggested'[i] = suggested[i]
    BY <1>1, <2>5
  <2>8. \A b : RowsIn(suggested', b) = RowsIn(suggested, b)
    BY <1>1, <2>4, <2>6, <2>7 DEF RowsIn
  <2>9. CASE Fail(c)
    BY <2>4, <2>6, <2>7, <2>9, <1>1, FailServes
  <2>10. CASE AnswerWith(c, [id |-> c.id, status |-> decided]) /\ UNCHANGED fixErrors
    <3> DEFINE r == [id |-> c.id, status |-> decided]
    <3>1. r \in ShownSet
      BY DEF ShownSet, Statuses, FixesInv, ShapeInv, ClickOk
    <3>2. ASSUME Fits(c) PROVE r = NewestIn(suggested', c.of)
      <4>1. shown[c.of] = NewestIn(suggested, c.of) /\ shown[c.of].status = "pending" /\ c.id = shown[c.of].id
        BY <3>2, InTheTable DEF Fits
      <4>2. IsNewest(suggested, c.of, shown[c.of])
        BY <1>0, <4>1, NewestInIs
      <4>3. \A i \in RowsIn(suggested, c.of) : i <= c.id
        <5>1. PICK m \in RowsIn(suggested, c.of) :
                 (\A i \in RowsIn(suggested, c.of) : i <= m) /\ shown[c.of] = [id |-> m, status |-> suggested[m].status]
          BY <4>1, <4>2, Blanks DEF IsNewest
        <5>2. m = c.id
          BY <4>1, <5>1
        <5>3. QED
          BY <5>1, <5>2
      <4>4. IsNewest(suggested', c.of, r)
        BY <1>0, <2>4, <2>7, <2>8, <4>3 DEF IsNewest
      <4>5. QED
        BY <2>6, <4>4, NewestInIs, NewestIsOne
    <3>3. \A b : b # c.of => \A i \in RowsIn(suggested, b) : suggested'[i] = suggested[i]
      BY <1>1, <2>7 DEF RowsIn
    <3>4. Served(c, r)
      BY <1>0, <2>6, <2>8, <2>10, <3>1, <3>2, <3>3 DEF Served, AnswerWith
    <3>5. QED
      BY <3>4
  <2>11. QED
    BY <2>1, <2>9, <2>10
<1>4. QED
  BY <1>2, <1>3

\* suggestions.ts: generate supersedes the rows of the finding and answers a
\* new one.
LEMMA GenerateServes ==
    ASSUME FixesInv, NEW c \in clicks, c.reply = Nothing, c.op = "generate", ServeGenerate(c)
    PROVE  \E r : Served(c, r)
<1> DEFINE pending == {i \in RowsOf(c.of) : suggested[i].status = "pending"}
           retired == [i \in DOMAIN suggested |->
                          IF i \in pending THEN [suggested[i] EXCEPT !.status = "superseded"] ELSE suggested[i]]
<1>0. /\ suggested \in Seq(RowSet) /\ Len(suggested) \in Nat /\ Len(suggested) <= MaxFixRows + 1
      /\ c.of \in FixAudits /\ fixErrors \in 0 .. MaxFixErrors
      /\ pending \subseteq RowsIn(suggested, c.of)
      /\ DOMAIN suggested = 1 .. Len(suggested)
  BY InTheTable DEF FixesInv, ShapeInv, ClickOk
<1>1. \/ /\ pending # {} /\ AnswerWith(c, AsShown(CHOOSE i \in pending : TRUE))
         /\ UNCHANGED <<suggested, fixErrors>>
      \/ /\ Len(suggested) < MaxFixRows
         /\ suggested' = Append(retired, [of |-> c.of, status |-> "pending"])
         /\ AnswerWith(c, [id |-> Len(suggested) + 1, status |-> "pending"]) /\ UNCHANGED fixErrors
      \/ suggested' \in {suggested, retired} /\ Fail(c)
  BY DEF ServeGenerate
<1>2. \A i \in DOMAIN suggested : /\ retired[i] \in RowSet /\ retired[i].of = suggested[i].of
                                  /\ i \notin pending => retired[i] = suggested[i]
  <2> SUFFICES ASSUME NEW i \in DOMAIN suggested
               PROVE  /\ retired[i] \in RowSet /\ retired[i].of = suggested[i].of
                      /\ i \notin pending => retired[i] = suggested[i]
    OBVIOUS
  <2>1. suggested[i] \in RowSet
    BY <1>0
  <2>2. CASE i \in pending
    BY <2>1, <2>2 DEF RowSet, Statuses
  <2>3. CASE i \notin pending
    BY <2>1, <2>3
  <2>4. QED
    BY <2>2, <2>3
<1>3. DOMAIN retired = DOMAIN suggested
  OBVIOUS
<1>4. pending # {} => ~Fits(c) \/ FALSE
  <2> SUFFICES ASSUME Fits(c) PROVE pending = {}
    OBVIOUS
  <2>1. Newest(c.of) = Nothing
    BY DEF Fits
  <2>2. RowsOf(c.of) = {}
    BY <1>0, <2>1, NewestIsOwn
  <2>3. QED
    BY <2>2
<1>b. retired \in [1 .. Len(suggested) -> RowSet]
  BY <1>0, <1>2
<1> HIDE DEF retired, pending
<1>5. retired \in Seq(RowSet) /\ Len(retired) = Len(suggested)
  BY <1>0, <1>b
<1>6. CASE pending # {} /\ AnswerWith(c, AsShown(CHOOSE i \in pending : TRUE)) /\ UNCHANGED <<suggested, fixErrors>>
  <2>1. PICK m \in pending : AnswerWith(c, AsShown(m))
    BY <1>6
  <2>2. m \in RowsIn(suggested, c.of) /\ m \in 1 .. Len(suggested) /\ suggested[m] \in RowSet
    BY <1>0, RowsAreFew
  <2>3. m \in 0 .. MaxFixRows + 2
    BY <1>0, <2>2, BoundsAreNat
  <2>4. AsShown(m) \in ShownSet /\ AsShown(m).id = m
    BY <2>2, <2>3 DEF AsShown, ShownSet, RowSet
  <2>5. Served(c, AsShown(m))
    BY <1>0, <1>4, <1>6, <2>1, <2>2, <2>4 DEF Served, AnswerWith
  <2>6. QED
    BY <2>5
<1>7. CASE /\ Len(suggested) < MaxFixRows
           /\ suggested' = Append(retired, [of |-> c.of, status |-> "pending"])
           /\ AnswerWith(c, [id |-> Len(suggested) + 1, status |-> "pending"]) /\ UNCHANGED fixErrors
  <2>1. PICK n \in Nat : n = Len(suggested) + 1
    BY <1>0
  <2>2. PICK row : row = [of |-> c.of, status |-> "pending"]
    OBVIOUS
  <2>3. row \in RowSet /\ row.of = c.of /\ row.status = "pending"
    BY <1>0, <2>2 DEF RowSet, Statuses
  <2>4. /\ suggested' = Append(retired, row) /\ suggested' \in Seq(RowSet) /\ Len(suggested') = n
        /\ suggested'[n] = row /\ \A i \in 1 .. Len(suggested) : suggested'[i] = retired[i]
    BY <1>0, <1>5, <1>7, <2>1, <2>2, <2>3
  <2>5. DOMAIN suggested' = DOMAIN suggested \union {n} /\ n \notin DOMAIN suggested
    BY <1>0, <2>1, <2>4
  <2>6. \A i \in DOMAIN suggested : suggested'[i].of = suggested[i].of
    BY <1>0, <1>2, <2>4
  <2>7. RowsIn(suggested', c.of) = RowsIn(suggested, c.of) \union {n}
    BY <2>3, <2>4, <2>5, <2>6 DEF RowsIn
  <2>8. \A b : b # c.of => RowsIn(suggested', b) = RowsIn(suggested, b)
    BY <2>3, <2>4, <2>5, <2>6 DEF RowsIn
  <2>9. \A b : b # c.of => \A i \in RowsIn(suggested, b) : suggested'[i] = suggested[i]
    BY <1>0, <1>2, <2>4 DEF RowsIn
  <2>10. n <= MaxFixRows
    BY <1>0, <1>7, <2>1, BoundsAreNat
  <2> DEFINE r == [id |-> n, status |-> "pending"]
  <2>11. r \in ShownSet
    BY <2>10, BoundsAreNat DEF ShownSet, Statuses
  <2>12. \A i \in RowsIn(suggested', c.of) : i <= n
    BY <1>0, <2>1, <2>7, RowsAreFew
  <2>13. IsNewest(suggested', c.of, r)
    BY <2>3, <2>4, <2>7, <2>12 DEF IsNewest
  <2>14. r = NewestIn(suggested', c.of)
    BY <2>4, <2>13, NewestInIs, NewestIsOne
  <2>15. AnswerWith(c, r)
    BY <1>7, <2>1
  <2>16. \A b : RowsIn(suggested, b) \subseteq RowsIn(suggested', b)
    BY <2>7, <2>8
  <2>17. n <= MaxFixRows + 1
    BY <2>10, BoundsAreNat
  <2>18. Served(c, r)
    BY <1>0, <1>7, <2>4, <2>7, <2>8, <2>9, <2>11, <2>14, <2>15, <2>16, <2>17 DEF Served, AnswerWith
  <2>19. QED
    BY <2>18
<1>8. CASE suggested' \in {suggested, retired} /\ Fail(c)
  <2>1. suggested' \in Seq(RowSet) /\ Len(suggested') = Len(suggested)
    BY <1>0, <1>5, <1>8
  <2>2. \A i \in DOMAIN suggested : suggested'[i].of = suggested[i].of
    BY <1>2, <1>8
  <2>3. \A i \in DOMAIN suggested : suggested[i].of # c.of => suggested'[i] = suggested[i]
    BY <1>0, <1>2, <1>8 DEF RowsIn
  <2>4. QED
    BY <1>8, <2>1, <2>2, <2>3, FailServes
<1>9. QED
  BY <1>1, <1>6, <1>7, <1>8

\* suggestions.ts: every request that is served.
LEMMA ServeKeeps ==
    ASSUME FixesInv, Serve
    PROVE  FixesInv'
<1> USE DEF FixesInv
<1>1. PICK c \in clicks : c.reply = Nothing /\ IF c.op = "generate" THEN ServeGenerate(c) ELSE ServeDecision(c)
  BY DEF Serve
<1>2. /\ httpCopy' = httpCopy /\ address' = address /\ load' = load /\ served' = served
      /\ spinner' = spinner /\ cards' = cards /\ shown' = shown /\ behind' = behind /\ goes' = goes
  BY DEF Serve
<1>3. PICK r : Served(c, r)
  BY <1>1, DecisionServes, GenerateServes
<1>4. c \in [op : {"generate", "accept", "reject"}, of : FixAudits,
             id : 0 .. MaxFixRows + 2, reply : ShownSet, nth : {c.nth}]
  BY DEF ShapeInv, ClickOk
<1>5. PICK d : d = [c EXCEPT !.reply = r]
  OBVIOUS
<1>6. ClickOk(d) /\ d.op = c.op /\ d.of = c.of /\ d.id = c.id /\ d.reply = r
  BY <1>3, <1>4, <1>5 DEF ClickOk, Served
<1>7. clicks' = (clicks \ {c}) \union {d}
  BY <1>3, <1>5 DEF Served
<1>8. suggested \in Seq(RowSet) /\ suggested' \in Seq(RowSet)
  BY <1>3 DEF Served, ShapeInv
<1>9. \A a : RowsOf(a) \subseteq RowsOf(a)'
  BY <1>3, InTheTable DEF Served
<1>10. \A a : a # c.of => Newest(a)' = Newest(a)
  BY <1>3, <1>8, InTheTable, SameRows DEF Served
<1>11. \A a : Awaited(a)' <=> Awaited(a)
  BY <1>6, <1>7 DEF Awaited
<1>12. ShapeInv'
  BY <1>2, <1>3, <1>6, <1>7 DEF ShapeInv, ClickOk, Served
<1>13. OwnInv'
  <2>1. r = Envelope \/ r.id \in RowsOf(c.of)'
    BY <1>3, InTheTable DEF Served
  <2>2. QED
    BY <1>2, <1>6, <1>7, <1>9, <2>1 DEF OwnInv, Of
<1>14. OwnFindings'
  BY <1>2 DEF OwnFindings
<1>15. ArrivingInv'
  BY <1>2, <1>10, <1>11 DEF ArrivingInv, Awaited
<1>16. QuietInv'
  <2> SUFFICES ASSUME load = "idle", address \in cards, address \notin behind PROVE QuietInv'
    BY <1>2 DEF QuietInv
  <2>1. CASE c.of = address
    <3>1. \A e \in clicks' : e.of = address => e = d
      BY <1>7, <2>1 DEF QuietInv
    <3>2. Fits(c)
      BY <2>1 DEF QuietInv
    <3>3. r = Envelope \/ r = Newest(c.of)'
      BY <1>3, <3>2, InTheTable DEF Served
    <3>4. r # Nothing
      <4>1. r = Envelope \/ r.id \in RowsIn(suggested', c.of)
        BY <1>3 DEF Served
      <4>2. QED
        BY <1>8, <4>1, RowsAreFew, Blanks
    <3>5. Fits(d)'
      BY <1>6, <3>3, <3>4 DEF Fits
    <3>6. Awaited(address)'
      BY <1>2, <1>6, <1>7, <2>1 DEF Awaited
    <3>7. QED
      BY <1>2, <3>1, <3>5, <3>6 DEF QuietInv
  <2>2. CASE c.of # address
    <3>1. \A e \in clicks' : e.of = address => e \in clicks
      BY <1>6, <1>7, <2>2
    <3>2. \A e \in clicks : e.of = address => (Fits(e)' <=> Fits(e))
      BY <1>2, <1>10, <2>2 DEF Fits
    <3>3. QED
      BY <1>2, <1>10, <1>11, <2>2, <3>1, <3>2 DEF QuietInv
  <2>3. QED
    BY <2>1, <2>2
<1>17. QED
  BY <1>12, <1>13, <1>14, <1>15, <1>16

\* The screen of fixes settles on what is stored (FixesPage.tsx).
THEOREM CardsAreTrue == FixesSpec => []CardsTrue
<1>1. FixesInv /\ [FixesNext]_fixesVars => FixesInv'
  <2> SUFFICES ASSUME FixesInv, [FixesNext]_fixesVars PROVE FixesInv'
    OBVIOUS
  <2>1. CASE \E a \in FixAudits \union {Nowhere} : Go(a)
    BY <2>1, GoKeeps
  <2>2. CASE FindingsArrive
    BY <2>2, FindingsArriveKeeps
  <2>3. CASE FindingsRefused \/ ListFails
    BY <2>3, LoadEndsKeeps
  <2>4. CASE ListServed
    BY <2>4, ListServedKeeps
  <2>5. CASE ListArrives
    BY <2>5, ListArrivesKeeps
  <2>6. CASE Click
    BY <2>6, ClickKeeps
  <2>7. CASE Serve
    BY <2>7, ServeKeeps
  <2>8. CASE AnswerArrives
    BY <2>8, AnswerArrivesKeeps
  <2>9. CASE UNCHANGED fixesVars
    <3>1. \A a : RowsOf(a)' = RowsOf(a) /\ Newest(a)' = Newest(a) /\ Awaited(a)' = Awaited(a)
      BY <2>9, TableStays DEF fixesVars, Awaited
    <3>2. ShapeInv'
      BY <2>9 DEF fixesVars, FixesInv, ShapeInv, ClickOk
    <3>3. OwnInv'
      BY <2>9, <3>1 DEF fixesVars, FixesInv, OwnInv, Of
    <3>4. OwnFindings' /\ ArrivingInv'
      BY <2>9, <3>1 DEF fixesVars, FixesInv, OwnFindings, ArrivingInv
    <3>5. QuietInv'
      BY <2>9, <3>1 DEF fixesVars, FixesInv, QuietInv, Fits
    <3>6. QED
      BY <3>2, <3>3, <3>4, <3>5 DEF FixesInv
  <2>10. QED
    BY <2>1, <2>2, <2>3, <2>4, <2>5, <2>6, <2>7, <2>8, <2>9 DEF FixesNext
<1>2. FixesInv => CardsTrue
  <2> SUFFICES ASSUME FixesInv PROVE CardsTrue
    OBVIOUS
  <2>1. \A i \in DOMAIN suggested : suggested[i].of \in FixAudits
    <3>1. \A i \in DOMAIN suggested : suggested[i] \in RowSet
      BY DEF FixesInv, ShapeInv
    <3>2. QED
      BY <3>1 DEF RowSet
  <2>2. FixesTypeOK
    BY <2>1 DEF FixesTypeOK, FixesInv, ShapeInv, ShownSet, Statuses
  <2>3. SpinnerHasLoad
    BY DEF SpinnerHasLoad, FixesInv, ShapeInv
  <2>4. ShownAsStored
    BY DEF ShownAsStored, FixesInv, QuietInv, Awaited
  <2>5. QED
    BY <2>2, <2>3, <2>4 DEF CardsTrue, FixesInv
<1>3. QED
  BY <1>1, <1>2, FixesInvInit, PTL DEF FixesSpec

-----------------------------------------------------------------------------
(* Delivery and LlmCalls.  Every post is explained by the fault that lost  *)
(* its outcome, but for the one that is being made; every question to a    *)
(* model has an answer nobody could read before it.                        *)

\* Posts nobody has explained yet: the one being tagged, stored or just recorded.
Unexplained ==
    IF call \in {"tagging", "storing"} \/ (publish.status = "completed" /\ ~again) THEN 1 ELSE 0

\* What the publisher is about to return, or has returned, is at the site.
Names(n) ==
    /\ kind \in {"wordpress", "http"} => posts > 0
    /\ kind = "wordpress" => n = posts
    /\ kind = "http" => n \in {None, posts}
    /\ kind = "agent" => n \in DOMAIN bundles /\ bundles[n] = BundleFiles

DeliveryTypes ==
    /\ kind \in {"wordpress", "http", "agent"}
    /\ publish \in [status : {"queued", "running", "completed", "failed"}, attempts : Nat, names : Nat]
    /\ call \in {"none", "posting", "tagging", "storing"}
    /\ tagAt \in 1 .. Len(Tags) + 1 /\ result \in Nat /\ posts \in Nat
    /\ terms \subseteq {Tags[i] : i \in DOMAIN Tags}
    /\ bundles \in Seq(0 .. BundleFiles)
    /\ unknown \in Nat /\ unstored \in Nat /\ redirected \in BOOLEAN
    /\ deaths \in 0 .. MaxDeaths /\ again \in BOOLEAN /\ repeated \in 0 .. deaths

DeliveryBounds ==
    /\ publish.attempts + (IF again THEN 1 ELSE 0) <= MaxAttempts + deaths
    /\ posts + (IF call = "posting" THEN 1 ELSE 0) <= publish.attempts
    /\ Len(bundles) + (IF call = "posting" THEN 1 ELSE 0) <= publish.attempts
    /\ result <= publish.attempts /\ publish.names <= publish.attempts

DeliveryTurns ==
    /\ call # "none" => publish.status = "running" /\ ~again
    /\ publish.status = "queued" => publish.attempts < MaxAttempts
    /\ again => publish.status \in {"running", "completed"}
    /\ publish.status = "running" => call # "none" \/ again
    /\ call = "tagging" => kind = "wordpress"

DeliveryNames ==
    /\ call \in {"tagging", "storing"} => Names(result)
    /\ publish.status = "completed" => Names(publish.names)

DeliveryInv ==
    /\ DeliveryTypes /\ DeliveryBounds /\ DeliveryTurns /\ DeliveryNames
    /\ posts <= unknown + unstored + repeated + Unexplained
    /\ FailsEarlyOnlyOnRedirect

\* The numbers of a delivery.
LEMMA DeliveryConstants ==
    /\ MaxStoreFailures \in Nat /\ MaxDeaths \in Nat /\ Len(Tags) \in Nat /\ DOMAIN Tags = 1 .. Len(Tags)
    /\ MaxAttempts = 3 /\ BundleFiles = 5 /\ None = 0
BY DeliveryAssumption DEF MaxAttempts, BundleFiles, None

\* Initially nothing was posted.
LEMMA DeliveryInvInit == DeliveryInit => DeliveryInv
<1> SUFFICES ASSUME DeliveryInit PROVE DeliveryInv
  OBVIOUS
<1>1. DeliveryTypes
  <2>1. publish \in [status : {"queued", "running", "completed", "failed"}, attempts : Nat, names : Nat]
    BY DeliveryConstants DEF DeliveryInit
  <2>2. 1 \in 1 .. Len(Tags) + 1 /\ 0 \in 0 .. MaxDeaths /\ 0 \in 0 .. deaths
    BY DeliveryConstants DEF DeliveryInit
  <2>3. bundles \in Seq(0 .. BundleFiles)
    BY DEF DeliveryInit
  <2>4. 0 \in Nat /\ None \in Nat
    BY DeliveryConstants
  <2>5. QED
    BY <2>1, <2>2, <2>3, <2>4 DEF DeliveryInit, DeliveryTypes
<1>2. DeliveryBounds /\ DeliveryTurns
  BY DeliveryConstants DEF DeliveryInit, DeliveryBounds, DeliveryTurns
<1>3. DeliveryNames /\ posts <= unknown + unstored + repeated + Unexplained /\ FailsEarlyOnlyOnRedirect
  BY DEF DeliveryInit, DeliveryNames, Unexplained, FailsEarlyOnlyOnRedirect
<1>4. QED
  BY <1>1, <1>2, <1>3 DEF DeliveryInv

\* An error is answered by queueing again or by giving up.
LEMMA CaughtMeans ==
    ASSUME DeliveryInv, NEW s, Caught(s)
    PROVE  /\ call' = "none" /\ publish' \in [status : {"queued", "failed"}, attempts : Nat, names : Nat]
           /\ publish'.attempts = publish.attempts /\ publish'.names = publish.names
           /\ publish'.status = "queued" => publish.attempts < MaxAttempts
           /\ publish'.status = "failed" => publish.attempts >= MaxAttempts \/ ~Retryable(s)
<1>1. publish.attempts \in Nat
  BY DEF DeliveryInv, DeliveryTypes
<1>2. publish \in [status : {"queued", "running", "completed", "failed"}, attempts : Nat, names : Nat]
  BY DEF DeliveryInv, DeliveryTypes
<1>3. PICK q \in {"queued", "failed"} :
         /\ publish' = [publish EXCEPT !.status = q]
         /\ q = "queued" => publish.attempts < MaxAttempts
         /\ q = "failed" => ~Retryable(s) \/ ~(publish.attempts < MaxAttempts)
  BY DEF Caught
<1>4. /\ publish' \in [status : {"queued", "failed"}, attempts : Nat, names : Nat]
      /\ publish'.attempts = publish.attempts /\ publish'.names = publish.names /\ publish'.status = q
  BY <1>2, <1>3
<1>5. QED
  BY <1>1, <1>3, <1>4, DeliveryConstants DEF Caught

\* publish-job.ts and distribution/: every step of a delivery.
LEMMA DeliveryStep == DeliveryInv /\ [DeliveryNext]_deliveryVars => DeliveryInv'
<1> SUFFICES ASSUME DeliveryInv, [DeliveryNext]_deliveryVars PROVE DeliveryInv'
  OBVIOUS
<1> USE DeliveryConstants
<1>0. /\ publish \in [status : {"queued", "running", "completed", "failed"}, attempts : Nat, names : Nat]
      /\ publish.attempts \in Nat /\ publish.names \in Nat /\ Len(bundles) \in Nat
  BY DEF DeliveryInv, DeliveryTypes
<1>1. CASE PickUp
  <2>0. PICK fewer : fewer = [publish EXCEPT !.status = "running"]
    OBVIOUS
  <2>a. /\ fewer \in [status : {"running"}, attempts : Nat, names : Nat]
        /\ fewer.attempts = publish.attempts /\ fewer.names = publish.names
    BY <1>0, <2>0
  <2>1. PICK row : row = [publish EXCEPT !.status = "running", !.attempts = @ + 1]
    OBVIOUS
  <2>b. row = [fewer EXCEPT !.attempts = fewer.attempts + 1]
    BY <2>0, <2>1
  <2>2. /\ row \in [status : {"running"}, attempts : Nat, names : Nat]
        /\ row.attempts = publish.attempts + 1 /\ row.names = publish.names
    BY <2>a, <2>b
  <2>3. /\ call = "none" /\ (publish.status = "queued" \/ again) /\ again' = FALSE /\ publish' = row
        /\ call' = "posting" /\ tagAt' = 1 /\ result' = None /\ redirected' = FALSE
        /\ UNCHANGED <<kind, posts, terms, bundles, unknown, unstored, deaths, repeated>>
    BY <1>1, <2>1 DEF PickUp
  <2>4. DeliveryTypes'
    <3>1. 1 \in 1 .. Len(Tags) + 1 /\ publish' \in [status : {"queued", "running", "completed", "failed"}, attempts : Nat, names : Nat]
      BY <2>2, <2>3
    <3>2. QED
      BY <2>3, <3>1 DEF DeliveryInv, DeliveryTypes
  <2>5. DeliveryBounds'
    BY <1>0, <2>2, <2>3 DEF DeliveryInv, DeliveryTypes, DeliveryTurns, DeliveryBounds
  <2>6. DeliveryTurns' /\ DeliveryNames' /\ FailsEarlyOnlyOnRedirect'
    BY <2>2, <2>3 DEF DeliveryTurns, DeliveryNames, FailsEarlyOnlyOnRedirect
  <2>7. (posts <= unknown + unstored + repeated + Unexplained)'
    BY <2>2, <2>3 DEF DeliveryInv, DeliveryTypes, DeliveryTurns, Unexplained
  <2>8. QED
    BY <2>4, <2>5, <2>6, <2>7 DEF DeliveryInv
<1>2. CASE Accepted
  <2>1. /\ call = "posting" /\ kind # "agent" /\ posts' = posts + 1
        /\ result' \in IF kind = "http" THEN {posts + 1, None} ELSE {posts + 1}
        /\ call' = IF kind = "wordpress" THEN "tagging" ELSE "storing"
        /\ UNCHANGED <<kind, publish, tagAt, terms, bundles, unknown, unstored, redirected, deaths, again, repeated>>
    BY <1>2 DEF Accepted, deathVars
  <2>2. result' \in Nat /\ result' <= posts + 1
    BY <2>1 DEF DeliveryInv, DeliveryTypes
  <2>4. DeliveryTypes'
    BY <2>1, <2>2 DEF DeliveryInv, DeliveryTypes
  <2>5. DeliveryBounds'
    BY <1>0, <2>1, <2>2 DEF DeliveryInv, DeliveryTypes, DeliveryBounds
  <2>6. DeliveryTurns' /\ FailsEarlyOnlyOnRedirect'
    BY <2>1 DEF DeliveryInv, DeliveryTypes, DeliveryTurns, FailsEarlyOnlyOnRedirect
  <2>7. DeliveryNames'
    BY <2>1 DEF DeliveryInv, DeliveryTypes, DeliveryTurns, DeliveryNames, Names
  <2>8. (posts <= unknown + unstored + repeated + Unexplained)'
    BY <2>1 DEF DeliveryInv, DeliveryTypes, DeliveryTurns, Unexplained
  <2>9. QED
    BY <2>4, <2>5, <2>6, <2>7, <2>8 DEF DeliveryInv
<1>3. CASE AcceptedUnread
  <2>1. /\ call = "posting" /\ kind # "agent" /\ posts' = posts + 1 /\ unknown' = unknown + 1 /\ Caught(NoStatus)
        /\ UNCHANGED <<kind, tagAt, result, terms, bundles, unstored, redirected, deaths, again, repeated>>
    BY <1>3 DEF AcceptedUnread, deathVars
  <2>2. Retryable(NoStatus)
    BY DEF Retryable
  <2>4. DeliveryTypes'
    BY <2>1, CaughtMeans DEF DeliveryInv, DeliveryTypes
  <2>5. DeliveryBounds'
    BY <1>0, <2>1, CaughtMeans DEF DeliveryInv, DeliveryTypes, DeliveryBounds
  <2>6. DeliveryTurns' /\ FailsEarlyOnlyOnRedirect' /\ DeliveryNames'
    BY <2>1, <2>2, CaughtMeans DEF DeliveryInv, DeliveryTypes, DeliveryTurns, FailsEarlyOnlyOnRedirect, DeliveryNames
  <2>8. (posts <= unknown + unstored + repeated + Unexplained)'
    BY <2>1, CaughtMeans DEF DeliveryInv, DeliveryTypes, DeliveryTurns, Unexplained
  <2>9. QED
    BY <2>4, <2>5, <2>6, <2>8 DEF DeliveryInv
<1>4. CASE Refused
  <2>1. PICK answer \in {304, 403, 503} : Caught(StatusOf(answer)) /\ redirected' = (answer = 304)
    BY <1>4 DEF Refused
  <2>2. /\ call = "posting"
        /\ UNCHANGED <<kind, tagAt, result, posts, terms, bundles, unknown, unstored, deaths, again, repeated>>
    BY <1>4 DEF Refused, deathVars
  <2>3. Retryable(StatusOf(answer)) \/ answer = 304
    BY DEF Retryable, StatusOf, NoStatus
  <2>4. DeliveryTypes'
    BY <2>1, <2>2, CaughtMeans DEF DeliveryInv, DeliveryTypes
  <2>5. DeliveryBounds'
    BY <1>0, <2>1, <2>2, CaughtMeans DEF DeliveryInv, DeliveryTypes, DeliveryBounds
  <2>6. DeliveryTurns' /\ FailsEarlyOnlyOnRedirect' /\ DeliveryNames'
    BY <2>1, <2>2, <2>3, CaughtMeans DEF DeliveryInv, DeliveryTypes, DeliveryTurns, FailsEarlyOnlyOnRedirect, DeliveryNames
  <2>8. (posts <= unknown + unstored + repeated + Unexplained)'
    BY <2>1, <2>2, CaughtMeans DEF DeliveryInv, DeliveryTypes, DeliveryTurns, Unexplained
  <2>9. QED
    BY <2>4, <2>5, <2>6, <2>8 DEF DeliveryInv
<1>5. CASE ResolveTag \/ TagsDone
  <2>1. /\ call = "tagging" /\ call' \in {"tagging", "storing"} /\ tagAt' \in 1 .. Len(Tags) + 1
        /\ terms' \subseteq {Tags[i] : i \in DOMAIN Tags}
        /\ UNCHANGED <<kind, publish, result, posts, bundles, unknown, unstored, redirected, deaths, again, repeated>>
    <3>1. tagAt \in 1 .. Len(Tags) + 1 /\ terms \subseteq {Tags[i] : i \in DOMAIN Tags}
      BY DEF DeliveryInv, DeliveryTypes
    <3>2. CASE TagsDone
      BY <3>1, <3>2 DEF TagsDone, deathVars
    <3>3. CASE ResolveTag
      <4>1. /\ call = "tagging" /\ call' = call /\ tagAt <= Len(Tags) /\ tagAt' = tagAt + 1
            /\ terms' = terms \union {Tags[tagAt]} \/ terms' = terms
            /\ UNCHANGED <<kind, publish, result, posts, bundles, unknown, unstored, redirected, deaths, again, repeated>>
        BY <3>3 DEF ResolveTag, TagFailed, deathVars
      <4>2. tagAt \in DOMAIN Tags
        BY <3>1, <4>1
      <4>3. QED
        BY <3>1, <4>1, <4>2
    <3>4. QED
      BY <1>5, <3>2, <3>3
  <2>2. DeliveryTypes'
    BY <2>1 DEF DeliveryInv, DeliveryTypes
  <2>3. DeliveryBounds' /\ DeliveryTurns' /\ FailsEarlyOnlyOnRedirect'
    BY <2>1 DEF DeliveryInv, DeliveryBounds, DeliveryTurns, FailsEarlyOnlyOnRedirect
  <2>4. DeliveryNames' /\ (posts <= unknown + unstored + repeated + Unexplained)'
    BY <2>1 DEF DeliveryInv, DeliveryNames, Names, Unexplained
  <2>5. QED
    BY <2>2, <2>3, <2>4 DEF DeliveryInv
<1>6. CASE WriteBundle
  <2>1. PICK files \in 0 .. BundleFiles :
           /\ bundles' = Append(bundles, files)
           /\ IF Written(files)
              THEN call' = "storing" /\ result' = Len(bundles) + 1 /\ UNCHANGED publish
              ELSE Caught(NoStatus) /\ UNCHANGED result
    BY <1>6 DEF WriteBundle
  <2>2. /\ call = "posting" /\ kind = "agent"
        /\ UNCHANGED <<kind, tagAt, posts, terms, unknown, unstored, redirected, deaths, again, repeated>>
    BY <1>6 DEF WriteBundle, deathVars
  <2>3. /\ bundles' \in Seq(0 .. BundleFiles) /\ Len(bundles') = Len(bundles) + 1
        /\ bundles'[Len(bundles) + 1] = files /\ Len(bundles) + 1 \in DOMAIN bundles'
    BY <2>1, <1>0 DEF DeliveryInv, DeliveryTypes
  <2>4. CASE Written(files)
    <3>1. call' = "storing" /\ result' = Len(bundles) + 1 /\ publish' = publish /\ files = BundleFiles
      BY <2>1, <2>4 DEF Written
    <3>2. DeliveryTypes'
      BY <1>0, <2>2, <2>3, <3>1 DEF DeliveryInv, DeliveryTypes
    <3>3. DeliveryBounds'
      BY <1>0, <2>2, <2>3, <3>1 DEF DeliveryInv, DeliveryTypes, DeliveryBounds
    <3>4. DeliveryTurns' /\ FailsEarlyOnlyOnRedirect'
      BY <2>2, <3>1 DEF DeliveryInv, DeliveryTurns, FailsEarlyOnlyOnRedirect
    <3>5. DeliveryNames'
      BY <2>2, <2>3, <3>1 DEF DeliveryInv, DeliveryTurns, DeliveryNames, Names
    <3>6. (posts <= unknown + unstored + repeated + Unexplained)'
      BY <2>2, <3>1 DEF DeliveryInv, DeliveryTypes, DeliveryTurns, Unexplained
    <3>7. QED
      BY <3>2, <3>3, <3>4, <3>5, <3>6 DEF DeliveryInv
  <2>5. CASE ~Written(files)
    <3>1. Caught(NoStatus) /\ result' = result /\ Retryable(NoStatus)
      BY <2>1, <2>5 DEF Retryable
    <3>2. DeliveryTypes'
      BY <2>2, <2>3, <3>1, CaughtMeans DEF DeliveryInv, DeliveryTypes
    <3>3. DeliveryBounds'
      BY <1>0, <2>2, <2>3, <3>1, CaughtMeans DEF DeliveryInv, DeliveryTypes, DeliveryBounds
    <3>4. DeliveryTurns' /\ FailsEarlyOnlyOnRedirect' /\ DeliveryNames'
      BY <2>2, <3>1, CaughtMeans DEF DeliveryInv, DeliveryTypes, DeliveryTurns, FailsEarlyOnlyOnRedirect, DeliveryNames
    <3>5. (posts <= unknown + unstored + repeated + Unexplained)'
      BY <2>2, <3>1, CaughtMeans DEF DeliveryInv, DeliveryTypes, DeliveryTurns, Unexplained
    <3>6. QED
      BY <3>2, <3>3, <3>4, <3>5 DEF DeliveryInv
  <2>6. QED
    BY <2>4, <2>5
<1>7. CASE StoreResult
  <2>1. PICK row : row = [publish EXCEPT !.status = "completed", !.names = result]
    OBVIOUS
  <2>2. /\ row \in [status : {"completed"}, attempts : Nat, names : Nat]
        /\ row.attempts = publish.attempts /\ row.names = result
    BY <2>1, <1>0 DEF DeliveryInv, DeliveryTypes
  <2>3. /\ call = "storing" /\ publish' = row /\ call' = "none"
        /\ UNCHANGED <<kind, tagAt, result, posts, terms, bundles, unknown, unstored, redirected, deaths, again, repeated>>
    BY <1>7, <2>1 DEF StoreResult, deathVars
  <2>4. DeliveryTypes'
    BY <2>2, <2>3 DEF DeliveryInv, DeliveryTypes
  <2>5. DeliveryBounds'
    BY <1>0, <2>2, <2>3 DEF DeliveryInv, DeliveryTypes, DeliveryBounds
  <2>6. DeliveryTurns' /\ FailsEarlyOnlyOnRedirect'
    BY <2>2, <2>3 DEF DeliveryInv, DeliveryTurns, FailsEarlyOnlyOnRedirect
  <2>7. DeliveryNames'
    BY <2>2, <2>3 DEF DeliveryInv, DeliveryTurns, DeliveryNames, Names
  <2>8. (posts <= unknown + unstored + repeated + Unexplained)'
    BY <2>2, <2>3 DEF DeliveryInv, DeliveryTypes, DeliveryTurns, Unexplained
  <2>9. QED
    BY <2>4, <2>5, <2>6, <2>7, <2>8 DEF DeliveryInv
<1>8. CASE StoreFails
  <2>1. /\ call = "storing" /\ unstored' = unstored + 1 /\ Caught(NoStatus)
        /\ UNCHANGED <<kind, tagAt, result, posts, terms, bundles, unknown, redirected, deaths, again, repeated>>
    BY <1>8 DEF StoreFails, deathVars
  <2>2. Retryable(NoStatus)
    BY DEF Retryable
  <2>4. DeliveryTypes'
    BY <2>1, CaughtMeans DEF DeliveryInv, DeliveryTypes
  <2>5. DeliveryBounds'
    BY <1>0, <2>1, CaughtMeans DEF DeliveryInv, DeliveryTypes, DeliveryBounds
  <2>6. DeliveryTurns' /\ FailsEarlyOnlyOnRedirect' /\ DeliveryNames'
    BY <2>1, <2>2, CaughtMeans DEF DeliveryInv, DeliveryTypes, DeliveryTurns, FailsEarlyOnlyOnRedirect, DeliveryNames
  <2>8. (posts <= unknown + unstored + repeated + Unexplained)'
    BY <2>1, CaughtMeans DEF DeliveryInv, DeliveryTypes, DeliveryTurns, Unexplained
  <2>9. QED
    BY <2>4, <2>5, <2>6, <2>8 DEF DeliveryInv
<1>9. CASE Dies
  <2>1. /\ deaths < MaxDeaths /\ ~again /\ (call # "none" \/ publish.status = "completed")
        /\ deaths' = deaths + 1 /\ again' = TRUE /\ call' = "none"
        /\ repeated' = repeated + (IF call = "posting" THEN 0 ELSE 1)
        /\ UNCHANGED <<kind, publish, tagAt, result, terms, unstored, redirected>>
    BY <1>9 DEF Dies
  <2>2. \/ UNCHANGED <<posts, unknown, bundles>>
        \/ /\ call = "posting" /\ kind # "agent"
           /\ posts' = posts + 1 /\ unknown' = unknown + 1 /\ bundles' = bundles
        \/ /\ call = "posting" /\ posts' = posts /\ unknown' = unknown
           /\ bundles' \in Seq(0 .. BundleFiles) /\ Len(bundles') = Len(bundles) + 1
    <3>1. \A files \in 0 .. BundleFiles : /\ Append(bundles, files) \in Seq(0 .. BundleFiles)
                                          /\ Len(Append(bundles, files)) = Len(bundles) + 1
      BY DEF DeliveryInv, DeliveryTypes
    <3>2. QED
      BY <1>9, <3>1 DEF Dies
  <2>3. publish.status \in {"running", "completed"} /\ (call = "posting" => publish.status = "running")
    BY <2>1 DEF DeliveryInv, DeliveryTurns
  <2>4. DeliveryTypes'
    BY <2>1, <2>2 DEF DeliveryInv, DeliveryTypes
  <2>5. DeliveryBounds'
    BY <1>0, <2>1, <2>2 DEF DeliveryInv, DeliveryTypes, DeliveryBounds
  <2>6. DeliveryTurns' /\ FailsEarlyOnlyOnRedirect'
    BY <2>1, <2>3 DEF DeliveryTurns, FailsEarlyOnlyOnRedirect
  <2>7. DeliveryNames'
    BY <2>1, <2>2, <2>3 DEF DeliveryInv, DeliveryTurns, DeliveryNames, Names
  <2>8. (posts <= unknown + unstored + repeated + Unexplained)'
    <3>1. Unexplained' = 0 /\ posts <= unknown + unstored + repeated + Unexplained
      BY <2>1 DEF DeliveryInv, Unexplained
    <3>2. unknown \in Nat /\ unstored \in Nat /\ repeated \in Nat /\ posts \in Nat
      BY DEF DeliveryInv, DeliveryTypes
    <3>3. CASE call = "posting"
      <4>1. Unexplained = 0
        BY <2>3, <3>3 DEF Unexplained
      <4>2. QED
        BY <2>1, <2>2, <3>1, <3>2, <3>3, <4>1
    <3>4. CASE call # "posting"
      <4>1. Unexplained \in {0, 1} /\ repeated' = repeated + 1 /\ unknown' = unknown /\ posts' = posts /\ unstored' = unstored
        BY <2>1, <2>2, <3>4 DEF Unexplained
      <4>2. QED
        BY <3>1, <3>2, <4>1
    <3>5. QED
      BY <3>3, <3>4
  <2>9. QED
    BY <2>4, <2>5, <2>6, <2>7, <2>8 DEF DeliveryInv
<1>10. CASE UNCHANGED deliveryVars
  <2>1. DeliveryTypes' /\ DeliveryBounds' /\ DeliveryTurns'
    BY <1>10 DEF deliveryVars, DeliveryInv, DeliveryTypes, DeliveryBounds, DeliveryTurns
  <2>2. DeliveryNames' /\ FailsEarlyOnlyOnRedirect' /\ (posts <= unknown + unstored + repeated + Unexplained)'
    BY <1>10 DEF deliveryVars, DeliveryInv, DeliveryNames, Names, FailsEarlyOnlyOnRedirect, Unexplained
  <2>3. QED
    BY <2>1, <2>2 DEF DeliveryInv
<1>11. QED
  BY <1>1, <1>2, <1>3, <1>4, <1>5, <1>6, <1>7, <1>8, <1>9, <1>10 DEF DeliveryNext

\* The last answer a writer has read.
LastAnswer == answers[Len(answers)]

LlmInv ==
    /\ LlmTypeOK
    /\ Len(asks) \in {1, 2} /\ asks[1] = FirstAsk /\ (Len(asks) = 2 => asks[2] = SecondAsk)
    /\ writer = "suggestion" => Len(asks) = 1
    /\ \A i \in DOMAIN answers : answers[i] \in Texts
    /\ waiting => outcome = "none" /\ Len(answers) + 1 = Len(asks)
    /\ outcome = "written" => answers # <<>> /\ Read(LastAnswer) = "valid"
    /\ outcome = "unreadable" =>
           /\ answers # <<>> /\ Len(answers) = Len(asks)
           /\ Read(LastAnswer) # "valid" /\ ~AsksAgain(Read(LastAnswer))

\* What the readers make of an answer is a payload or nothing.
LEMMA ReadsAPayload ==
    ASSUME NEW a \in Texts
    PROVE  Stripped(a) \in Payload /\ ReadReport(a) \in Payload
BY DEF Texts, Text, Payload, Stripped, ReadReport, Scanned

\* Initially no model was asked.
LEMMA LlmInvInit == LlmInit => LlmInv
<1> SUFFICES ASSUME LlmInit PROVE LlmInv
  OBVIOUS
<1>1. asks = <<FirstAsk>> /\ answers = <<>> /\ waiting = TRUE /\ outcome = "none"
  BY DEF LlmInit
<1>2. Len(asks) = 1 /\ asks \in Seq(Ask) /\ asks[1] = FirstAsk
  <2>1. FirstAsk \in Ask
    BY DEF FirstAsk, Ask
  <2>2. QED
    BY <1>1, <2>1
<1>3. QED
  BY <1>1, <1>2 DEF LlmInit, LlmInv, LlmTypeOK

\* generation/ and reports/: every question and every answer.
LEMMA LlmStep == LlmInv /\ [LlmNext]_llmVars => LlmInv'
<1> SUFFICES ASSUME LlmInv, [LlmNext]_llmVars PROVE LlmInv'
  OBVIOUS
<1>0. /\ asks \in Seq(Ask) /\ answers \in Seq(Text) /\ Len(asks) \in {1, 2} /\ Len(answers) \in Nat
      /\ writer \in {"generation", "report", "suggestion"}
      /\ asks[1] = FirstAsk /\ (Len(asks) = 2 => asks[2] = SecondAsk)
  BY DEF LlmInv, LlmTypeOK
<1>1. CASE Receive
  <2>1. PICK a \in Texts :
           /\ answers' = Append(answers, a)
           /\ CASE Read(a) = "valid" -> outcome' = "written" /\ waiting' = FALSE /\ UNCHANGED asks
                [] Read(a) # "valid" /\ AsksAgain(Read(a)) ->
                       asks' = Append(asks, SecondAsk) /\ UNCHANGED <<outcome, waiting>>
                [] OTHER -> outcome' = "unreadable" /\ waiting' = FALSE /\ UNCHANGED asks
    BY <1>1 DEF Receive
  <2>2. waiting /\ outcome = "none" /\ Len(answers) + 1 = Len(asks) /\ writer' = writer
    BY <1>1 DEF Receive, LlmInv
  <2>3. /\ answers' \in Seq(Text) /\ Len(answers') = Len(answers) + 1 /\ answers' # <<>>
        /\ LastAnswer' = a /\ \A i \in DOMAIN answers' : answers'[i] \in Texts
    <3>1. a \in Text
      BY DEF Texts
    <3>2. answers' \in Seq(Text) /\ Len(answers') = Len(answers) + 1 /\ answers'[Len(answers) + 1] = a
      BY <1>0, <2>1, <3>1
    <3>3. \A i \in DOMAIN answers' : i = Len(answers) + 1 \/ (i \in DOMAIN answers /\ answers'[i] = answers[i])
      BY <1>0, <2>1, <3>1
    <3>4. QED
      BY <3>2, <3>3 DEF LlmInv, LastAnswer
  <2>4. \A r : Read(r)' = Read(r)
    BY <2>2 DEF Read
  <2>5. Read(LastAnswer)' = Read(a)
    BY <2>2, <2>3 DEF Read
  <2>6. CASE Read(a) = "valid"
    <3>1. outcome' = "written" /\ waiting' = FALSE /\ asks' = asks
      BY <2>1, <2>6
    <3>2. QED
      BY <1>0, <2>2, <2>3, <2>5, <2>6, <3>1 DEF LlmInv, LlmTypeOK, SecondAsk
  <2>7. CASE Read(a) # "valid" /\ AsksAgain(Read(a))
    <3>1. asks' = Append(asks, SecondAsk) /\ outcome' = outcome /\ waiting' = waiting
      BY <2>1, <2>7
    <3>2. Len(asks) = 1 /\ writer # "suggestion"
      BY <2>7 DEF AsksAgain
    <3>3. SecondAsk' = SecondAsk /\ SecondAsk \in Ask
      BY <2>2 DEF SecondAsk, Ask
    <3>4. /\ asks' \in Seq(Ask) /\ Len(asks') = 2
          /\ asks'[1] = FirstAsk /\ asks'[2] = SecondAsk
      <4>1. PICK g \in Ask : g = SecondAsk
        BY <3>3
      <4>2. asks' = Append(asks, g)
        BY <3>1, <4>1
      <4>3. asks' \in Seq(Ask) /\ Len(asks') = Len(asks) + 1 /\ asks'[Len(asks) + 1] = g
        BY <1>0, <4>2
      <4>4. \A i \in 1 .. Len(asks) : asks'[i] = asks[i]
        BY <1>0, <4>2
      <4>5. asks'[1] = FirstAsk
        BY <1>0, <3>2, <4>4
      <4>6. Len(asks') = 2 /\ asks'[2] = g
        BY <3>2, <4>3
      <4>7. QED
        BY <4>1, <4>3, <4>5, <4>6
    <3>5. LlmTypeOK'
      BY <1>0, <2>2, <2>3, <3>1, <3>4 DEF LlmInv, LlmTypeOK
    <3>6. outcome' = "none" /\ Len(answers') + 1 = Len(asks') /\ writer' # "suggestion"
      BY <1>0, <2>2, <2>3, <3>1, <3>2, <3>4
    <3>7. QED
      BY <2>3, <3>3, <3>4, <3>5, <3>6 DEF LlmInv
  <2>8. CASE Read(a) # "valid" /\ ~AsksAgain(Read(a))
    <3>1. outcome' = "unreadable" /\ waiting' = FALSE /\ asks' = asks
      BY <2>1, <2>8
    <3>2. ~AsksAgain(Read(LastAnswer))'
      BY <2>2, <2>5, <2>8, <3>1 DEF AsksAgain
    <3>3. QED
      BY <1>0, <2>2, <2>3, <2>5, <2>8, <3>1, <3>2 DEF LlmInv, LlmTypeOK, SecondAsk
  <2>9. QED
    BY <2>6, <2>7, <2>8
<1>2. CASE CallFails
  BY <1>2 DEF CallFails, LlmInv, LlmTypeOK, SecondAsk
<1>3. CASE UNCHANGED llmVars
  <2>1. LastAnswer' = LastAnswer /\ Read(LastAnswer)' = Read(LastAnswer)
    BY <1>3 DEF llmVars, LastAnswer, Read
  <2>2. AsksAgain(Read(LastAnswer))' = AsksAgain(Read(LastAnswer))
    BY <1>3, <2>1 DEF llmVars, AsksAgain
  <2>3. QED
    BY <1>3, <2>1, <2>2 DEF llmVars, LlmInv, LlmTypeOK, SecondAsk
<1>4. QED
  BY <1>1, <1>2, <1>3 DEF LlmNext

\* What the invariant of a delivery says of its posts and names.
LEMMA DeliveryMeans == DeliveryInv => DeliveryTypeOK /\ DuplicatesExplained /\ NamesWhatExists
<1> SUFFICES ASSUME DeliveryInv PROVE DeliveryTypeOK /\ DuplicatesExplained /\ NamesWhatExists
  OBVIOUS
<1> USE DeliveryConstants
<1>0. publish \in [status : {"queued", "running", "completed", "failed"}, attempts : Nat, names : Nat]
  BY DEF DeliveryInv, DeliveryTypes
<1>1. /\ publish.attempts \in 0 .. MaxAttempts + MaxDeaths /\ publish.names \in 0 .. MaxAttempts + MaxDeaths
      /\ result \in 0 .. MaxAttempts + MaxDeaths /\ posts \in 0 .. MaxAttempts + MaxDeaths
  BY <1>0 DEF DeliveryInv, DeliveryTypes, DeliveryBounds
<1>2. publish \in [status : {"queued", "running", "completed", "failed"},
                   attempts : 0 .. MaxAttempts + MaxDeaths, names : 0 .. MaxAttempts + MaxDeaths]
  BY <1>0, <1>1
<1>3. DeliveryTypeOK
  BY <1>1, <1>2 DEF DeliveryInv, DeliveryTypes, DeliveryTypeOK
<1>4. DuplicatesExplained
  BY DEF DeliveryInv, DeliveryTypes, Unexplained, DuplicatesExplained
<1>5. NamesWhatExists
  BY DEF DeliveryInv, DeliveryTypes, DeliveryNames, Names, NamesWhatExists
<1>6. QED
  BY <1>3, <1>4, <1>5

\* What the invariant of the calls says of the questions and the drafts.
LEMMA LlmMeans == LlmInv => AskedInFull /\ DraftOnlyInNeed /\ GivesUpInTurn
<1> SUFFICES ASSUME LlmInv PROVE AskedInFull /\ DraftOnlyInNeed /\ GivesUpInTurn
  OBVIOUS
<1>1. Len(asks) \in {1, 2} /\ DOMAIN asks = 1 .. Len(asks) /\ asks[1] = FirstAsk
  BY DEF LlmInv, LlmTypeOK
<1>2. AskedInFull
  <2> SUFFICES ASSUME NEW i \in DOMAIN asks, writer # "generation" \/ i = 1
               PROVE  asks[i].locale /\ asks[i].task
    BY DEF AskedInFull
  <2>1. CASE i = 1
    BY <1>1, <2>1 DEF FirstAsk
  <2>2. CASE i # 1
    <3>1. i = 2 /\ Len(asks) = 2
      BY <1>1, <2>2
    <3>2. asks[2] = SecondAsk
      BY <3>1 DEF LlmInv
    <3>3. writer = "report"
      BY <2>2, <3>1 DEF LlmInv, LlmTypeOK
    <3>4. SecondAsk.locale /\ SecondAsk.task
      BY <3>3 DEF SecondAsk
    <3>5. QED
      BY <3>1, <3>2, <3>4
  <2>3. QED
    BY <2>1, <2>2
<1>3. answers # <<>> => LastAnswer \in Texts
  <2>1. answers \in Seq(Text)
    BY DEF LlmInv, LlmTypeOK
  <2>2. answers # <<>> => Len(answers) \in DOMAIN answers
    BY <2>1
  <2>3. QED
    BY <2>2 DEF LlmInv, LastAnswer
<1>4. DraftOnlyInNeed
  <2> SUFFICES ASSUME outcome = "written", writer = "report"
               PROVE  LastAnswer.payload = "valid" \/ LastAnswer.wrap = "prose" \/ LastAnswer.payload = "none"
    BY DEF DraftOnlyInNeed, LastAnswer
  <2>1. ReadReport(LastAnswer) = "valid" /\ LastAnswer \in Texts
    BY <1>3 DEF LlmInv, Read
  <2>2. QED
    BY <2>1 DEF ReadReport, Stripped, Texts, Text, Payload
<1>5. GivesUpInTurn
  <2> SUFFICES ASSUME outcome = "unreadable"
               PROVE  /\ writer = "generation" => Len(answers) = 2
                      /\ writer = "report" /\ Len(answers) = 1 => ReadReport(answers[1]) = "none"
    BY <1>1 DEF GivesUpInTurn
  <2>1. Len(answers) = Len(asks) /\ Read(LastAnswer) # "valid" /\ ~AsksAgain(Read(LastAnswer)) /\ LastAnswer \in Texts
    BY <1>3 DEF LlmInv
  <2>2. writer = "generation" => Len(answers) = 2
    BY <1>1, <2>1 DEF AsksAgain
  <2>3. writer = "report" /\ Len(answers) = 1 => ReadReport(answers[1]) = "none"
    <3> SUFFICES ASSUME writer = "report", Len(answers) = 1 PROVE ReadReport(answers[1]) = "none"
      OBVIOUS
    <3>1. Read(LastAnswer) = ReadReport(answers[1]) /\ LastAnswer = answers[1]
      BY DEF Read, LastAnswer
    <3>2. ReadReport(answers[1]) \notin {"valid", "invalid"}
      BY <2>1, <3>1 DEF AsksAgain
    <3>3. QED
      BY <2>1, <3>1, <3>2, ReadsAPayload DEF Payload
  <2>4. QED
    BY <2>2, <2>3
<1>6. QED
  BY <1>2, <1>4, <1>5

\* What leaves for other services is asked again for a reason.
THEOREM CallsHaveReasons == DeliverySpec /\ LlmSpec => []CallsExplained
<1>1. DeliverySpec => []DeliveryInv
  BY DeliveryInvInit, DeliveryStep, PTL DEF DeliverySpec
<1>2. LlmSpec => []LlmInv
  BY LlmInvInit, LlmStep, PTL DEF LlmSpec
<1>3. DeliveryInv /\ LlmInv => CallsExplained
  <2>1. DeliveryInv => FailsEarlyOnlyOnRedirect
    BY DEF DeliveryInv
  <2>2. LlmInv => LlmTypeOK
    BY DEF LlmInv
  <2>3. QED
    BY <2>1, <2>2, DeliveryMeans, LlmMeans DEF CallsExplained
<1>4. QED
  BY <1>1, <1>2, <1>3, PTL

-----------------------------------------------------------------------------
(* TokenBucket.  What a client got through since any time and what it      *)
(* would find now are together at most a full bucket and what refilled     *)
(* since.  Time and the eviction of idle buckets leave that, and a client  *)
(* that waited as told finds a token because its bucket fills at the rate  *)
(* the wait was computed with.                                             *)

\* Multiplying by a number keeps the order and distributes over sums.
LEMMA Products ==
    ASSUME NEW a \in Int, NEW b \in Int, NEW k \in Nat
    PROVE  /\ a * k \in Int /\ b * k \in Int
           /\ a <= b => a * k <= b * k
           /\ (a + b) * k = a * k + b * k /\ (a - b) * k = a * k - b * k
BY SMTT(30)

\* A quotient of whole numbers is the last multiple that fits.
LEMMA Quotients ==
    ASSUME NEW x \in Nat, NEW b \in Nat \ {0}
    PROVE  (x \div b) \in Int /\ (x \div b) * b <= x /\ x < (x \div b) * b + b
BY SMTT(30)

\* The sizes of a bucket: a token is Window parts, and a full bucket has one at
\* least.
LEMMA BucketNumbers ==
    /\ Burst \in Nat /\ Burst >= 1 /\ Window \in Nat /\ Window >= 1 /\ MaxKeys \in Nat /\ MaxKeys >= 1
    /\ IdleTtl \in Nat /\ IdleTtl >= Window /\ MaxNow \in Nat /\ Token = Window /\ Never = -1
    /\ Full \in Nat /\ Full = Window * Burst /\ Token <= Full
<1>1. /\ Burst \in Nat /\ Burst >= 1 /\ Window \in Nat /\ Window >= 1 /\ MaxKeys \in Nat /\ MaxKeys >= 1
      /\ IdleTtl \in Nat /\ IdleTtl >= Window /\ MaxNow \in Nat /\ Token = Window /\ Never = -1
  BY BucketAssumption DEF Token, Never
<1>2. Full = Burst * Window /\ Burst * Window = Window * Burst
  BY <1>1, SMTT(30) DEF Full
<1>3. 1 * Window <= Burst * Window /\ Burst * Window \in Int
  BY <1>1, Products
<1>4. QED
  BY <1>1, <1>2, <1>3

\* A number of parts divided and rounded up is enough, and no more than needed.
LEMMA CeilIsEnough ==
    ASSUME NEW a \in Nat, a >= 1
    PROVE  /\ CeilDiv(a, Burst) \in Nat /\ CeilDiv(a, Burst) <= a
           /\ CeilDiv(a, Burst) * Burst >= a
<1>1. PICK x \in Nat : x = a + Burst - 1
  BY BucketNumbers
<1>2. PICK q : q = x \div Burst
  OBVIOUS
<1>3. q \in Int /\ q * Burst <= x /\ x < q * Burst + Burst /\ q * Burst \in Int
  BY <1>2, Quotients, Products, BucketNumbers
<1>4. q * Burst >= a
  BY <1>1, <1>3, BucketNumbers
<1>5. q >= 0
  <2>1. CASE q <= -1
    <3>1. q * Burst <= (-1) * Burst /\ (-1) * Burst = - Burst
      BY <1>3, <2>1, Products, BucketNumbers
    <3>2. QED
      BY <1>4, <1>3, <3>1, BucketNumbers
  <2>2. QED
    BY <1>3, <2>1
<1>6. q <= a
  <2>1. CASE q >= a + 1
    <3>1. (a + 1) * Burst <= q * Burst /\ (a + 1) * Burst = a * Burst + 1 * Burst /\ 1 * Burst = Burst /\ a * Burst \in Int
      BY <1>3, <2>1, Products, BucketNumbers
    <3>2. a * 1 <= a * Burst
      <4>1. 1 * a <= Burst * a /\ Burst * a = a * Burst
        BY Products, BucketNumbers, SMTT(30)
      <4>2. QED
        BY <4>1
    <3>3. QED
      BY <1>1, <1>3, <3>1, <3>2, BucketNumbers
  <2>2. QED
    BY <1>3, <2>1
<1>7. QED
  BY <1>1, <1>2, <1>3, <1>4, <1>5, <1>6 DEF CeilDiv

BucketSet == [tokens : 0 .. Full, last : 0 .. now]

BucketShape ==
    /\ now \in 0 .. MaxNow /\ Clients \subseteq Callers
    /\ \A c \in Clients : buckets[c] \in BucketSet
    /\ retryAt \in [Callers -> {Never} \cup 0 .. MaxNow + Window]
    /\ passed \in [Callers -> [0 .. MaxNow -> Nat]] /\ dropped \subseteq Callers
    /\ \A c \in Callers : \A t \in 0 .. MaxNow : t > now => passed[c][t] = 0

\* The Map is in one order.
OrderInv ==
    /\ IsFiniteSet(Clients) /\ Cardinality(Clients) <= MaxKeys + 1
    /\ before \subseteq Clients \X Clients
    /\ \A c \in Clients : <<c, c>> \notin before
    /\ \A c, d, e \in Clients : <<c, d>> \in before /\ <<d, e>> \in before => <<c, e>> \in before
    /\ \A c, d \in Clients : c # d => <<c, d>> \in before \/ <<d, c>> \in before

\* What a client would find in its bucket now.
Avail(c) == IF c \in Clients THEN Refilled(buckets[c]).tokens ELSE Full

RateInv ==
    \A c \in Callers \ dropped : \A from \in 0 .. now :
        passed[c][from] * Token + Avail(c) <= Full + (now - from) * Burst

RetryInv ==
    \A c \in Clients : retryAt[c] # Never =>
        /\ retryAt[c] >= buckets[c].last
        /\ buckets[c].tokens + (retryAt[c] - buckets[c].last) * Burst >= Token

BucketInv == BucketShape /\ OrderInv /\ RateInv /\ RetryInv

After(c) == {d \in NotIdle : <<c, d>> \in before}

\* No more than MaxKeys buckets survive an eviction: the one that was inserted
\* before all others goes if there is one too many.
LEMMA FewKept ==
    ASSUME OrderInv
    PROVE  IsFiniteSet(Surviving) /\ Cardinality(Surviving) <= MaxKeys
<1>1. /\ NotIdle \subseteq Clients /\ Surviving \subseteq NotIdle /\ MaxKeys \in Nat
      /\ Surviving = {c \in NotIdle : Cardinality(After(c)) < MaxKeys}
  BY BucketNumbers DEF NotIdle, Surviving, After
<1>a. IsFiniteSet(Clients) /\ Cardinality(Clients) \in Nat /\ Cardinality(Clients) <= MaxKeys + 1
  BY FS_CardinalityType DEF OrderInv
<1>b. IsFiniteSet(NotIdle) /\ Cardinality(NotIdle) \in Nat /\ Cardinality(NotIdle) <= Cardinality(Clients)
  BY <1>1, <1>a, FS_Subset, FS_CardinalityType
<1>c. IsFiniteSet(Surviving) /\ Cardinality(Surviving) \in Nat /\ Cardinality(Surviving) <= Cardinality(NotIdle)
  BY <1>1, <1>b, FS_Subset, FS_CardinalityType
<1>2. Cardinality(NotIdle) <= MaxKeys + 1
  BY <1>1, <1>a, <1>b
<1>3. CASE Cardinality(NotIdle) <= MaxKeys
  BY <1>1, <1>c, <1>3, <1>b
<1>4. CASE Cardinality(NotIdle) = MaxKeys + 1
  <2>1. ASSUME NEW c \in NotIdle
        PROVE  IsFiniteSet(After(c)) /\ Cardinality(After(c)) \in Nat /\ Cardinality(After(c)) + 1 \in 1 .. MaxKeys + 2
    <3>1. After(c) \subseteq NotIdle
      BY DEF After
    <3>2. IsFiniteSet(After(c)) /\ Cardinality(After(c)) <= Cardinality(NotIdle)
      BY <1>b, <3>1, FS_Subset
    <3>3. Cardinality(After(c)) \in Nat
      BY <3>2, FS_CardinalityType
    <3>4. QED
      BY <1>1, <1>4, <3>2, <3>3
  <2> DEFINE S == {Cardinality(After(c)) + 1 : c \in NotIdle}
  <2>2. S \in SUBSET (1 .. MaxKeys + 2)
    BY <2>1
  <2>3. S # {}
    <3>1. NotIdle # {}
      BY <1>1, <1>4, FS_EmptySet
    <3>2. QED
      BY <3>1
  <2>4. MaxKeys + 2 \in Nat
    BY <1>1
  <2> HIDE DEF S
  <2>5. PICK s \in S : \A i \in S : i <= s
    BY <2>2, <2>3, <2>4, GreatestOf
  <2>6. PICK m \in NotIdle : s = Cardinality(After(m)) + 1
    BY DEF S
  <2>7. \A d \in NotIdle : Cardinality(After(d)) <= Cardinality(After(m))
    <3>1. ASSUME NEW d \in NotIdle PROVE Cardinality(After(d)) <= Cardinality(After(m))
      <4>1. Cardinality(After(d)) + 1 \in S
        BY DEF S
      <4>2. Cardinality(After(d)) + 1 <= Cardinality(After(m)) + 1
        BY <2>5, <2>6, <4>1
      <4>3. Cardinality(After(d)) \in Nat /\ Cardinality(After(m)) \in Nat
        BY <2>1
      <4>4. QED
        BY <4>2, <4>3
    <3>2. QED
      BY <3>1
  <2>8. ASSUME NEW d \in NotIdle, d # m PROVE <<m, d>> \in before
    <3>1. CASE <<d, m>> \in before
      <4>1. m \in After(d) /\ m \notin After(m) /\ After(m) \subseteq After(d)
        BY <1>1, <3>1 DEF OrderInv, After
      <4>2. After(m) \cup {m} \subseteq After(d)
        BY <4>1
      <4>3. Cardinality(After(m) \cup {m}) = Cardinality(After(m)) + 1
        BY <2>1, <4>1, FS_AddElement
      <4>4. Cardinality(After(m) \cup {m}) <= Cardinality(After(d))
        BY <2>1, <4>2, FS_Subset
      <4>5. Cardinality(After(d)) <= Cardinality(After(m)) /\ Cardinality(After(m)) \in Nat /\ Cardinality(After(d)) \in Nat
        BY <2>1, <2>7
      <4>6. QED
        BY <4>3, <4>4, <4>5
    <3>2. QED
      BY <1>1, <2>8, <3>1 DEF OrderInv
  <2>9. After(m) = NotIdle \ {m}
    BY <1>1, <2>8 DEF OrderInv, After
  <2>10. Cardinality(NotIdle \ {m}) = MaxKeys /\ IsFiniteSet(NotIdle \ {m})
    <3>1. IsFiniteSet(NotIdle \ {m}) /\ Cardinality(NotIdle \ {m}) = Cardinality(NotIdle) - 1
      BY <1>b, FS_RemoveElement
    <3>2. QED
      BY <1>1, <1>4, <3>1
  <2>11. m \notin Surviving
    BY <1>1, <2>9, <2>10
  <2>12. Surviving \subseteq NotIdle \ {m}
    BY <1>1, <2>11
  <2>13. Cardinality(Surviving) <= Cardinality(NotIdle \ {m})
    BY <2>10, <2>12, FS_Subset
  <2>14. QED
    BY <1>c, <2>10, <2>13
<1>5. QED
  BY <1>1, <1>2, <1>b, <1>3, <1>4

\* What refilling a bucket gives.
LEMMA RefilledIs ==
    ASSUME now \in Nat, NEW b \in BucketSet
    PROVE  /\ Refilled(b) \in [tokens : 0 .. Full, last : {now}]
           /\ (now - b.last) * Burst \in Nat
           /\ Refilled(b).tokens = IF b.tokens + (now - b.last) * Burst > Full THEN Full
                                   ELSE b.tokens + (now - b.last) * Burst
<1>1. b.tokens \in 0 .. Full /\ b.last \in 0 .. now /\ now - b.last \in Nat
  BY DEF BucketSet
<1>2. PICK x : x = (now - b.last) * Burst
  OBVIOUS
<1>3. x \in Int /\ 0 * Burst <= x /\ 0 * Burst = 0
  BY <1>1, <1>2, Products, BucketNumbers
<1>4. x \in Nat
  BY <1>3
<1>5. Refilled(b) = [tokens |-> IF b.tokens + x > Full THEN Full ELSE b.tokens + x, last |-> now]
  BY <1>2 DEF Refilled
<1>6. QED
  BY <1>1, <1>2, <1>4, <1>5, BucketNumbers

\* An idle bucket has filled up, so that forgetting it gives nothing away.
LEMMA IdleIsFull ==
    ASSUME BucketShape, NEW c \in Clients, c \notin NotIdle
    PROVE  Avail(c) = Full
<1>1. buckets[c] \in BucketSet /\ now \in Nat
  BY BucketNumbers DEF BucketShape
<1>2. buckets[c].tokens \in Nat /\ buckets[c].last \in Nat
  BY <1>1 DEF BucketSet
<1>3. now - buckets[c].last > IdleTtl
  BY <1>1, <1>2, BucketNumbers DEF NotIdle
<1>4. Window * Burst <= (now - buckets[c].last) * Burst
  <2>1. Window <= now - buckets[c].last /\ now - buckets[c].last \in Int
    BY <1>1, <1>2, <1>3, BucketNumbers
  <2>2. QED
    BY <2>1, Products, BucketNumbers
<1>5. QED
  BY <1>1, <1>2, <1>4, RefilledIs, BucketNumbers DEF Avail

\* A check finds what its client has, unless the bucket was dropped.
LEMMA FoundIs ==
    ASSUME BucketShape, NEW c \in Callers
    PROVE  /\ Found(c) \in [tokens : 0 .. Full, last : {now}]
           /\ c \notin NotIdle \ Surviving => Found(c).tokens = Avail(c)
<1>1. Full \in 0 .. Full /\ now \in Nat
  BY BucketNumbers DEF BucketShape
<1>2. Surviving \subseteq NotIdle /\ NotIdle \subseteq Clients
  BY DEF Surviving, NotIdle
<1>3. CASE c \in Surviving
  <2>1. Found(c) = Refilled(buckets[c]) /\ buckets[c] \in BucketSet
    BY <1>2, <1>3 DEF Found, BucketShape
  <2>2. QED
    BY <1>1, <1>2, <1>3, <2>1, RefilledIs DEF Avail
<1>4. CASE c \notin Surviving
  <2>1. Found(c) = [tokens |-> Full, last |-> now]
    BY <1>4 DEF Found
  <2>2. c \in Clients /\ c \notin NotIdle => Avail(c) = Full
    BY IdleIsFull
  <2>3. c \notin Clients => Avail(c) = Full
    BY DEF Avail
  <2>4. QED
    BY <1>1, <1>2, <1>4, <2>1, <2>2, <2>3
<1>5. QED
  BY <1>3, <1>4

\* Initially there is no bucket, and everybody has a full one.
LEMMA BucketInvInit == BucketInit => BucketInv
<1> SUFFICES ASSUME BucketInit PROVE BucketInv
  OBVIOUS
<1>1. Clients = {} /\ now = 0 /\ dropped = {} /\ before = {}
  BY DEF BucketInit, Clients
<1>2. BucketShape
  BY <1>1, BucketNumbers DEF BucketInit, BucketShape
<1>3. OrderInv
  BY <1>1, FS_EmptySet, BucketNumbers DEF OrderInv
<1>4. RateInv
  <2> SUFFICES ASSUME NEW c \in Callers, NEW from \in 0 .. now
               PROVE  passed[c][from] * Token + Avail(c) <= Full + (now - from) * Burst
    BY DEF RateInv
  <2>1. passed[c][from] = 0 /\ from = 0 /\ now - from = 0
    <3>1. from = 0 /\ 0 \in 0 .. MaxNow
      BY <1>1, BucketNumbers
    <3>2. passed[c] = [t \in 0 .. MaxNow |-> 0]
      BY DEF BucketInit
    <3>3. QED
      BY <1>1, <3>1, <3>2
  <2>2. Avail(c) = Full
    BY <1>1 DEF Avail
  <2>3. 0 * Token = 0 /\ 0 * Burst = 0
    BY BucketNumbers
  <2>4. QED
    BY <2>1, <2>2, <2>3, BucketNumbers
<1>5. RetryInv
  BY <1>1 DEF RetryInv
<1>6. QED
  BY <1>2, <1>3, <1>4, <1>5 DEF BucketInv

\* A client whose bucket has filled up to what it was told is let through.
LEMMA WaitedEnough ==
    ASSUME BucketInv, NEW c \in Callers, retryAt[c] # Never, retryAt[c] <= now
    PROVE  Found(c).tokens >= Token
<1>1. CASE c \in Surviving
  <2>1. c \in Clients /\ buckets[c] \in BucketSet /\ now \in Nat /\ retryAt[c] \in Int
    BY <1>1, BucketNumbers DEF Surviving, NotIdle, BucketInv, BucketShape
  <2>2. buckets[c].tokens \in Nat /\ buckets[c].last \in Nat
    BY <2>1 DEF BucketSet
  <2>3. buckets[c].tokens + (retryAt[c] - buckets[c].last) * Burst >= Token
    BY <2>1 DEF BucketInv, RetryInv
  <2>4. /\ (retryAt[c] - buckets[c].last) * Burst <= (now - buckets[c].last) * Burst
        /\ (retryAt[c] - buckets[c].last) * Burst \in Int
    BY <2>1, <2>2, Products, BucketNumbers
  <2>5. QED
    BY <1>1, <2>1, <2>2, <2>3, <2>4, RefilledIs, BucketNumbers DEF Found
<1>2. CASE c \notin Surviving
  BY <1>2, BucketNumbers DEF Found
<1>3. QED
  BY <1>1, <1>2

\* Time adds at most Burst to what anybody would find.
LEMMA TimePassesKeeps ==
    ASSUME BucketInv, TimePasses
    PROVE  BucketInv'
<1>1. /\ now < MaxNow /\ now' = now + 1 /\ buckets' = buckets /\ before' = before /\ retryAt' = retryAt
      /\ passed' = passed /\ dropped' = dropped
  BY DEF TimePasses
<1>2. now \in Nat /\ now' \in 0 .. MaxNow /\ Clients' = Clients
  BY <1>1, BucketNumbers DEF BucketInv, BucketShape, Clients
<1>3. BucketShape'
  <2>1. \A c \in Clients : buckets[c] \in BucketSet'
    BY <1>1, <1>2 DEF BucketInv, BucketShape, BucketSet
  <2>2. \A c \in Callers : \A t \in 0 .. MaxNow : t > now' => passed[c][t] = 0
    BY <1>1, <1>2 DEF BucketInv, BucketShape
  <2>3. QED
    BY <1>1, <1>2, <2>1, <2>2 DEF BucketInv, BucketShape
<1>4. OrderInv' /\ RetryInv'
  BY <1>1, <1>2 DEF BucketInv, OrderInv, RetryInv
<1>5. RateInv'
  <2> SUFFICES ASSUME NEW c \in Callers \ dropped, NEW from \in 0 .. now'
               PROVE  passed[c][from] * Token + Avail(c)' <= Full + (now' - from) * Burst
    BY <1>1 DEF RateInv
  <2>0. from \in Nat /\ from <= now + 1 /\ from \in 0 .. MaxNow /\ passed[c][from] \in Nat
    BY <1>1, <1>2, BucketNumbers DEF BucketInv, BucketShape
  <2>1. Avail(c)' \in Int /\ Avail(c)' <= Full /\ Avail(c) \in Int /\ Avail(c)' <= Avail(c) + Burst
    <3>1. CASE c \in Clients
      <4>1. buckets[c] \in BucketSet /\ buckets[c] \in BucketSet' /\ now' \in Nat
        BY <1>1, <1>2, <1>3, <3>1 DEF BucketInv, BucketShape
      <4>2. buckets[c].tokens \in Nat /\ buckets[c].last \in Nat
        BY <4>1 DEF BucketSet
      <4>3. /\ (now' - buckets[c].last) * Burst = (now - buckets[c].last) * Burst + 1 * Burst /\ 1 * Burst = Burst
            /\ (now - buckets[c].last) * Burst \in Int
        <5>1. now' - buckets[c].last = (now - buckets[c].last) + 1 /\ now - buckets[c].last \in Int
          BY <1>1, <1>2, <4>2
        <5>2. QED
          BY <5>1, Products, BucketNumbers
      <4>4. Avail(c) = IF buckets[c].tokens + (now - buckets[c].last) * Burst > Full THEN Full
                       ELSE buckets[c].tokens + (now - buckets[c].last) * Burst
        BY <1>2, <3>1, <4>1, RefilledIs DEF Avail
      <4>5. Avail(c)' = IF buckets[c].tokens + (now' - buckets[c].last) * Burst > Full THEN Full
                        ELSE buckets[c].tokens + (now' - buckets[c].last) * Burst
        BY <1>1, <1>2, <3>1 DEF Avail, Refilled
      <4>6. QED
        BY <4>2, <4>3, <4>4, <4>5, BucketNumbers
    <3>2. CASE c \notin Clients
      BY <1>1, <1>2, <3>2, BucketNumbers DEF Avail
    <3>3. QED
      BY <3>1, <3>2
  <2>2. CASE from <= now
    <3>1. passed[c][from] * Token + Avail(c) <= Full + (now - from) * Burst
      BY <1>2, <2>0, <2>2 DEF BucketInv, RateInv
    <3>2. /\ (now' - from) * Burst = (now - from) * Burst + 1 * Burst /\ 1 * Burst = Burst
          /\ (now - from) * Burst \in Int /\ passed[c][from] * Token \in Int
      <4>1. now' - from = (now - from) + 1 /\ now - from \in Int
        BY <1>1, <1>2, <2>0
      <4>2. QED
        BY <2>0, <4>1, Products, BucketNumbers
    <3>3. QED
      BY <2>1, <3>1, <3>2, BucketNumbers
  <2>3. CASE from = now + 1
    <3>1. passed[c][from] = 0 /\ now' - from = 0
      BY <1>1, <1>2, <2>0, <2>3 DEF BucketInv, BucketShape
    <3>2. 0 * Token = 0 /\ 0 * Burst = 0
      BY BucketNumbers
    <3>3. QED
      BY <2>1, <3>1, <3>2, BucketNumbers
  <2>4. QED
    BY <1>2, <2>0, <2>2, <2>3
<1>6. QED
  BY <1>3, <1>4, <1>5 DEF BucketInv

\* What a check leaves in the Map.
LEMMA PutKeepsOrder ==
    ASSUME BucketInv, NEW c \in Callers, NEW b, PutBucket(c, b)
    PROVE  OrderInv' /\ Clients' = Surviving \cup {c} /\ Clients' \subseteq Callers
           /\ \A d \in Clients' : buckets'[d] = IF d = c THEN b ELSE buckets[d]
<1>1. /\ Clients' = Surviving \cup {c}
      /\ \A d \in Clients' : buckets'[d] = IF d = c THEN b ELSE buckets[d]
      /\ before' = {pair \in before : pair[1] \in Surviving /\ pair[2] \in Surviving} \cup {pair \in Surviving \X {c} : c \notin Surviving}
  BY DEF PutBucket, Clients
<1>2. Surviving \subseteq Clients /\ Clients \subseteq Callers
  BY DEF Surviving, NotIdle, BucketInv, BucketShape
<1>3. IsFiniteSet(Clients') /\ Cardinality(Clients') <= MaxKeys + 1
  <2>1. IsFiniteSet(Surviving) /\ Cardinality(Surviving) <= MaxKeys /\ Cardinality(Surviving) \in Nat /\ MaxKeys \in Nat
    BY FewKept, FS_CardinalityType, BucketNumbers DEF BucketInv
  <2>2. IsFiniteSet(Surviving \cup {c}) /\ Cardinality(Surviving \cup {c}) = IF c \in Surviving THEN Cardinality(Surviving) ELSE Cardinality(Surviving) + 1
    BY <2>1, FS_AddElement
  <2>3. Cardinality(Surviving \cup {c}) <= MaxKeys + 1
    BY <2>1, <2>2
  <2>4. QED
    BY <1>1, <2>2, <2>3
<1>4. \A d, e : <<d, e>> \in before' <=> \/ d \in Surviving /\ e \in Surviving /\ <<d, e>> \in before
                                         \/ d \in Surviving /\ e = c /\ c \notin Surviving
  BY <1>1
<1>5. before' \subseteq Clients' \X Clients'
  BY <1>1 DEF BucketInv, OrderInv
<1>6. \A d \in Clients' : <<d, d>> \notin before'
  BY <1>1, <1>2, <1>4 DEF BucketInv, OrderInv
<1>7. \A d, e, f \in Clients' : <<d, e>> \in before' /\ <<e, f>> \in before' => <<d, f>> \in before'
  BY <1>1, <1>2, <1>4 DEF BucketInv, OrderInv
<1>8. \A d, e \in Clients' : d # e => <<d, e>> \in before' \/ <<e, d>> \in before'
  BY <1>1, <1>2, <1>4 DEF BucketInv, OrderInv
<1>9. QED
  BY <1>1, <1>2, <1>3, <1>5, <1>6, <1>7, <1>8 DEF OrderInv

\* token-bucket.ts, check: the client pays a token or is told when to come
\* back; the others keep what they have.
LEMMA CheckKeeps ==
    ASSUME BucketInv, NEW c \in Callers, Check(c)
    PROVE  BucketInv'
<1>1. PICK b : b = Found(c)
  OBVIOUS
<1>2. /\ now' = now /\ dropped' = dropped \cup (NotIdle \ Surviving)
      /\ IF b.tokens < Token
         THEN /\ PutBucket(c, b) /\ retryAt' = [retryAt EXCEPT ![c] = now + RetryAfter(b)] /\ passed' = passed
         ELSE /\ PutBucket(c, [tokens |-> b.tokens - Token, last |-> b.last])
              /\ retryAt' = [retryAt EXCEPT ![c] = Never]
              /\ passed' = [passed EXCEPT ![c] =
                                [t \in 0 .. MaxNow |->
                                    IF c \in dropped' THEN 0 ELSE IF t <= now THEN @[t] + 1 ELSE @[t]]]
  BY <1>1 DEF Check
<1>3. now \in Nat /\ now \in 0 .. MaxNow /\ BucketShape /\ BucketSet' = BucketSet
  BY <1>2, BucketNumbers DEF BucketInv, BucketShape, BucketSet
<1>4. /\ b \in [tokens : 0 .. Full, last : {now}] /\ b.tokens \in Nat /\ b.tokens <= Full /\ b.last = now
      /\ c \notin dropped' => b.tokens = Avail(c)
  <2>1. b \in [tokens : 0 .. Full, last : {now}] /\ (c \notin NotIdle \ Surviving => b.tokens = Avail(c))
    BY <1>1, <1>3, FoundIs
  <2>2. QED
    BY <1>2, <2>1, BucketNumbers
\* what the client has left
<1>5. PICK r \in BucketSet : /\ PutBucket(c, r) /\ r.last = now
                             /\ r = IF b.tokens < Token THEN b ELSE [tokens |-> b.tokens - Token, last |-> b.last]
  <2>1. CASE b.tokens < Token
    <3>1. b \in BucketSet
      BY <1>3, <1>4 DEF BucketSet
    <3>2. QED
      BY <1>2, <1>4, <2>1, <3>1
  <2>2. CASE ~(b.tokens < Token)
    <3>1. b.tokens - Token \in 0 .. Full
      BY <1>4, <2>2, BucketNumbers
    <3>2. [tokens |-> b.tokens - Token, last |-> b.last] \in BucketSet
      BY <1>3, <1>4, <3>1 DEF BucketSet
    <3>3. QED
      BY <1>2, <1>4, <2>2, <3>2
  <2>3. QED
    BY <2>1, <2>2
<1>6. /\ OrderInv' /\ Clients' = Surviving \cup {c} /\ Clients' \subseteq Callers
      /\ \A d \in Clients' : buckets'[d] = IF d = c THEN r ELSE buckets[d]
  BY <1>5, PutKeepsOrder
<1>7. Surviving \subseteq Clients /\ NotIdle \subseteq Clients /\ Clients \subseteq Callers
  BY <1>3 DEF Surviving, NotIdle, BucketShape
\* the others neither gain nor lose
<1>8. ASSUME NEW d \in Callers \ dropped', d # c
      PROVE  Avail(d)' = Avail(d) /\ passed'[d] = passed[d]
  <2>1. passed'[d] = passed[d]
    BY <1>2, <1>3, <1>8 DEF BucketShape
  <2>2. CASE d \in Surviving
    <3>1. d \in Clients /\ d \in Clients' /\ buckets'[d] = buckets[d]
      BY <1>6, <1>7, <1>8, <2>2
    <3>2. QED
      BY <1>2, <2>1, <3>1 DEF Avail, Refilled
  <2>3. CASE d \notin Surviving
    <3>1. d \notin Clients' /\ d \notin NotIdle
      BY <1>2, <1>6, <1>8, <2>3
    <3>2. Avail(d) = Full
      BY <1>3, <3>1, IdleIsFull DEF Avail
    <3>3. Avail(d)' = Full
      BY <3>1 DEF Avail, Full
    <3>4. QED
      BY <2>1, <3>2, <3>3
  <2>4. QED
    BY <2>2, <2>3
<1>9. Avail(c)' = r.tokens
  <2>1. c \in Clients' /\ buckets'[c] = r /\ r.tokens \in Nat /\ r.tokens <= Full /\ r.last = now
    BY <1>5, <1>6, BucketNumbers DEF BucketSet
  <2>2. (now - r.last) * Burst = 0
    <3>1. now - r.last = 0 /\ 0 * Burst = 0
      BY <1>3, <2>1, BucketNumbers
    <3>2. QED
      BY <3>1
  <2>3. Refilled(r).tokens = r.tokens
    BY <1>3, <1>5, <2>1, <2>2, RefilledIs
  <2>4. Avail(c)' = Refilled(r).tokens
    BY <1>2, <2>1 DEF Avail, Refilled
  <2>5. QED
    BY <2>3, <2>4
<1>10. \A d \in Callers \ dropped' : d \in Callers \ dropped
  BY <1>2
<1>11. CASE b.tokens < Token
  <2>1. r = b /\ retryAt' = [retryAt EXCEPT ![c] = now + RetryAfter(b)] /\ passed' = passed
    BY <1>2, <1>5, <1>11
  <2>2. PICK a \in Nat : a = Token - b.tokens /\ a >= 1 /\ a <= Window
    BY <1>4, <1>11, BucketNumbers
  <2>3. PICK w \in Nat : w = RetryAfter(b) /\ w <= a /\ w * Burst >= a
    BY <2>2, CeilIsEnough DEF RetryAfter
  <2>4. now + w \in 0 .. MaxNow + Window /\ now + w # Never /\ now + w >= now
    BY <1>3, <2>2, <2>3, BucketNumbers
  <2>5. BucketShape'
    BY <1>2, <1>3, <1>5, <1>6, <1>7, <2>1, <2>3, <2>4 DEF BucketShape
  <2>6. RetryInv'
    <3> SUFFICES ASSUME NEW d \in Clients', retryAt'[d] # Never
                 PROVE  /\ retryAt'[d] >= buckets'[d].last
                        /\ buckets'[d].tokens + (retryAt'[d] - buckets'[d].last) * Burst >= Token
      BY DEF RetryInv
    <3>1. CASE d = c
      <4>1. buckets'[d] = b /\ retryAt'[d] = now + w /\ (now + w) - now = w
        BY <1>3, <1>6, <2>1, <2>3, <3>1 DEF BucketShape
      <4>2. b.tokens + w * Burst >= Token /\ w * Burst \in Int
        <5>1. w * Burst \in Int
          BY Products, BucketNumbers
        <5>2. QED
          BY <1>4, <2>2, <2>3, <5>1, BucketNumbers
      <4>3. QED
        BY <1>4, <2>4, <4>1, <4>2
    <3>2. CASE d # c
      <4>1. d \in Clients /\ buckets'[d] = buckets[d] /\ retryAt'[d] = retryAt[d]
        BY <1>3, <1>6, <1>7, <2>1, <3>2 DEF BucketShape
      <4>2. QED
        BY <4>1 DEF BucketInv, RetryInv
    <3>3. QED
      BY <3>1, <3>2
  <2>7. RateInv'
    <3> SUFFICES ASSUME NEW d \in Callers \ dropped', NEW from \in 0 .. now
                 PROVE  passed'[d][from] * Token + Avail(d)' <= Full + (now - from) * Burst
      BY <1>2 DEF RateInv, Token, Full
    <3>1. passed'[d] = passed[d] /\ Avail(d)' = Avail(d)
      BY <1>4, <1>8, <1>9, <2>1
    <3>2. QED
      BY <1>10, <3>1 DEF BucketInv, RateInv
  <2>8. QED
    BY <1>6, <2>5, <2>6, <2>7 DEF BucketInv
<1>12. CASE ~(b.tokens < Token)
  <2>1. /\ r.tokens = b.tokens - Token /\ retryAt' = [retryAt EXCEPT ![c] = Never]
        /\ \A d \in Callers : d # c => passed'[d] = passed[d]
        /\ passed'[c] = [t \in 0 .. MaxNow |->
                             IF c \in dropped' THEN 0 ELSE IF t <= now THEN passed[c][t] + 1 ELSE passed[c][t]]
        /\ DOMAIN passed' = Callers /\ passed' = [d \in Callers |-> passed'[d]]
    BY <1>2, <1>3, <1>5, <1>12 DEF BucketShape
  <2>2. passed'[c] \in [0 .. MaxNow -> Nat] /\ \A t \in 0 .. MaxNow : t > now => passed'[c][t] = 0
    <3>1. PICK p \in [0 .. MaxNow -> Nat] : p = passed[c]
      BY <1>3 DEF BucketShape
    <3>2. \A t \in 0 .. MaxNow : t > now => p[t] = 0
      BY <1>3, <3>1 DEF BucketShape
    <3>3. PICK out : out = (c \in dropped')
      OBVIOUS
    <3>4. passed'[c] = [t \in 0 .. MaxNow |-> IF out THEN 0 ELSE IF t <= now THEN p[t] + 1 ELSE p[t]]
      BY <2>1, <3>1, <3>3
    <3>5. \A t \in 0 .. MaxNow : p[t] \in Nat /\ p[t] + 1 \in Nat /\ t \in Int
      BY BucketNumbers
    <3>6. QED
      BY <1>3, <3>2, <3>4, <3>5
  <2>3. passed' \in [Callers -> [0 .. MaxNow -> Nat]]
    <3>1. \A d \in Callers : passed'[d] \in [0 .. MaxNow -> Nat]
      BY <1>3, <2>1, <2>2 DEF BucketShape
    <3>2. QED
      BY <2>1, <3>1
  <2>4. retryAt' \in [Callers -> {Never} \cup 0 .. MaxNow + Window]
    BY <1>3, <2>1 DEF BucketShape
  <2>5. BucketShape'
    <3>1. \A d \in Callers : \A t \in 0 .. MaxNow : t > now => passed'[d][t] = 0
      <4>1. ASSUME NEW d \in Callers, NEW t \in 0 .. MaxNow, t > now PROVE passed'[d][t] = 0
        <5>1. CASE d = c
          BY <2>2, <4>1, <5>1
        <5>2. CASE d # c
          BY <1>3, <2>1, <4>1, <5>2 DEF BucketShape
        <5>3. QED
          BY <5>1, <5>2
      <4>2. QED
        BY <1>2, <4>1
    <3>2. \A d \in Clients' : buckets'[d] \in BucketSet
      BY <1>3, <1>5, <1>6, <1>7 DEF BucketShape
    <3>3. dropped' \subseteq Callers
      BY <1>2, <1>3, <1>7 DEF BucketShape
    <3>4. QED
      BY <1>2, <1>3, <1>6, <2>3, <2>4, <3>1, <3>2, <3>3 DEF BucketShape
  <2>6. RetryInv'
    <3> SUFFICES ASSUME NEW d \in Clients', retryAt'[d] # Never
                 PROVE  /\ retryAt'[d] >= buckets'[d].last
                        /\ buckets'[d].tokens + (retryAt'[d] - buckets'[d].last) * Burst >= Token
      BY DEF RetryInv, Token, Never
    <3>1. d # c /\ retryAt'[d] = retryAt[d]
      BY <1>3, <1>6, <2>1 DEF BucketShape
    <3>2. d \in Clients /\ buckets'[d] = buckets[d]
      BY <1>6, <1>7, <3>1
    <3>3. QED
      BY <3>1, <3>2 DEF BucketInv, RetryInv
  <2>7. RateInv'
    <3> SUFFICES ASSUME NEW d \in Callers \ dropped', NEW from \in 0 .. now
                 PROVE  passed'[d][from] * Token + Avail(d)' <= Full + (now - from) * Burst
      BY <1>2 DEF RateInv, Token, Full
    <3>0. passed[d][from] * Token + Avail(d) <= Full + (now - from) * Burst
      BY <1>10 DEF BucketInv, RateInv
    <3>1. CASE d # c
      BY <1>8, <3>0, <3>1
    <3>2. CASE d = c
      <4>1. from \in 0 .. MaxNow /\ from <= now
        BY <1>3, BucketNumbers
      <4>2. passed'[c][from] = passed[c][from] + 1
        BY <2>1, <3>2, <4>1
      <4>3. PICK n \in Nat : n = passed[c][from]
        BY <1>3, <4>1 DEF BucketShape
      <4>4. (n + 1) * Token = n * Token + 1 * Token /\ n * Token \in Int /\ 1 * Token = Token
        BY Products, BucketNumbers
      <4>5. Avail(c) = b.tokens /\ Avail(c)' = b.tokens - Token
        BY <1>4, <1>9, <2>1, <3>2
      <4>6. passed'[d][from] * Token + Avail(d)' = passed[d][from] * Token + Avail(d)
        BY <1>4, <3>2, <4>2, <4>3, <4>4, <4>5, BucketNumbers
      <4>7. QED
        BY <3>0, <4>6
    <3>3. QED
      BY <3>1, <3>2
  <2>8. QED
    BY <1>6, <2>5, <2>6, <2>7 DEF BucketInv
<1>13. QED
  BY <1>11, <1>12

\* token-bucket.ts: the invariant holds in every state.
LEMMA BucketInvInvariant == BucketSpec => []BucketInv
<1>1. BucketInv /\ UNCHANGED bucketVars => BucketInv'
  <2> SUFFICES ASSUME BucketInv, UNCHANGED bucketVars PROVE BucketInv'
    OBVIOUS
  <2>1. /\ now' = now /\ buckets' = buckets /\ before' = before /\ retryAt' = retryAt /\ passed' = passed
        /\ dropped' = dropped
    BY DEF bucketVars
  <2>2. Clients' = Clients /\ BucketSet' = BucketSet /\ \A c : Avail(c)' = Avail(c)
    BY <2>1 DEF Clients, BucketSet, Avail, Refilled
  <2>3. BucketShape' /\ OrderInv' /\ RetryInv'
    BY <2>1, <2>2 DEF BucketInv, BucketShape, OrderInv, RetryInv
  <2>4. RateInv'
    BY <2>1, <2>2 DEF BucketInv, RateInv, Token, Full
  <2>5. QED
    BY <2>3, <2>4 DEF BucketInv
<1>2. BucketInv /\ BucketNext => BucketInv'
  BY TimePassesKeeps, CheckKeeps DEF BucketNext
<1>3. QED
  BY <1>1, <1>2, BucketInvInit, PTL DEF BucketSpec

THEOREM NobodyExceedsTheRate == BucketSpec => []RateKept
<1>1. BucketInv => RateKept
  <2> SUFFICES ASSUME BucketInv PROVE RateKept
    OBVIOUS
  <2>1. BucketTypeOK
    BY DEF BucketInv, BucketShape, OrderInv, BucketTypeOK, BucketSet
  <2>2. RateBound
    <3> SUFFICES ASSUME NEW c \in Callers \ dropped, NEW from \in 0 .. now
                 PROVE  passed[c][from] * Token <= Full + (now - from) * Burst
      BY DEF RateBound
    <3>1. passed[c][from] * Token + Avail(c) <= Full + (now - from) * Burst
      BY DEF BucketInv, RateInv
    <3>2. from \in 0 .. MaxNow /\ now \in Nat /\ now - from \in Int
      BY BucketNumbers DEF BucketInv, BucketShape
    <3>3. passed[c][from] * Token \in Int /\ (now - from) * Burst \in Int
      <4>1. passed[c][from] \in Int
        <5>1. PICK p \in [0 .. MaxNow -> Nat] : p = passed[c]
          BY DEF BucketInv, BucketShape
        <5>2. p[from] \in Nat
          BY <3>2
        <5>3. QED
          BY <5>1, <5>2
      <4>2. QED
        BY <3>2, <4>1, Products, BucketNumbers
    <3>4. Avail(c) \in Nat
      <4>1. CASE c \in Clients
        <5>1. buckets[c] \in BucketSet
          BY <4>1 DEF BucketInv, BucketShape
        <5>2. Refilled(buckets[c]).tokens \in 0 .. Full
          BY <3>2, <5>1, RefilledIs
        <5>3. QED
          BY <4>1, <5>2, BucketNumbers DEF Avail
      <4>2. CASE c \notin Clients
        BY <4>2, BucketNumbers DEF Avail
      <4>3. QED
        BY <4>1, <4>2
    <3>5. QED
      BY <3>1, <3>3, <3>4, BucketNumbers
  <2>3. RetryAfterIsEnough
    <3> SUFFICES ASSUME NEW c \in Callers, retryAt[c] \in 0 .. now PROVE Found(c).tokens >= Token
      BY DEF RetryAfterIsEnough
    <3>1. retryAt[c] # Never /\ retryAt[c] <= now
      BY BucketNumbers DEF BucketInv, BucketShape
    <3>2. QED
      BY <3>1, WaitedEnough
  <2>4. QED
    BY <2>1, <2>2, <2>3 DEF RateKept
<1>2. QED
  BY <1>1, BucketInvInvariant, PTL

-----------------------------------------------------------------------------
(* Discovery and WorkPools.  A document is read once, because it is        *)
(* entered among those read in the step that reads it; a sitemap or a page *)
(* that was named is read or waits in the queue, so nothing is missed when *)
(* the queue ends.  In a pool every index that was taken runs or has       *)
(* settled, and a day that settled has all its rows.                       *)

\* Some numbers up to n have a least one.
LEMMA LeastOf ==
    ASSUME NEW n \in Nat, NEW S \in SUBSET (1 .. n), S # {}
    PROVE  \E m \in S : \A i \in S : m <= i
<1> DEFINE R == {p \in Nat \X Nat : p[1] < p[2]}
<1>1. IsWellFoundedOn(R, Nat)
  BY NatLessThanWellFounded DEF OpToRel
<1>2. \A x, y \in Nat : y < x => <<y, x>> \in R
  OBVIOUS
<1> HIDE DEF R
<1>3. S \subseteq Nat
  OBVIOUS
<1>4. PICK m \in S : \A i \in S : ~(<<i, m>> \in R)
  BY <1>1, <1>3, WFMin
<1>5. ASSUME NEW i \in S PROVE m <= i
  <2>1. i \in Nat /\ m \in Nat
    BY <1>3
  <2>2. ~(i < m)
    BY <1>2, <1>4, <2>1
  <2>3. QED
    BY <2>1, <2>2
<1>6. QED
  BY <1>5

\* What a read may answer.
LEMMA AnswersAre ==
    ASSUME NEW k, NEW S, NEW a \in Answers(k, S)
    PROVE  /\ a.urls \in Seq(S) /\ a.kind \in {k, "failed"}
           /\ a = Failed \/ a.kind = k
           /\ Failed.kind = "failed" /\ Failed.urls = <<>>
<1>1. Failed.kind = "failed" /\ Failed.urls = <<>>
  BY DEF Failed
<1>2. \A s \in Lists(S) : s \in Seq(S)
  <2>1. \A x \in S : <<x>> \in Seq(S)
    OBVIOUS
  <2>2. \A s \in (S \ {Foreign}) \X (S \ {Foreign}) : s \in Seq(S)
    <3>1. ASSUME NEW s \in (S \ {Foreign}) \X (S \ {Foreign}) PROVE s \in Seq(S)
      <4>1. PICK x \in S, y \in S : s = <<x, y>>
        BY <3>1
      <4>2. <<x, y>> \in Seq(S)
        OBVIOUS
      <4>3. QED
        BY <4>1, <4>2
    <3>2. QED
      BY <3>1
  <2>3. QED
    BY <2>1, <2>2 DEF Lists
<1>3. <<>> \in Seq(S)
  OBVIOUS
<1>4. CASE a = Failed
  BY <1>1, <1>3, <1>4
<1>5. CASE a # Failed
  <2>1. PICK s \in Lists(S) : a = [kind |-> k, urls |-> s]
    BY <1>5 DEF Answers
  <2>2. a.kind = k /\ a.urls = s
    BY <2>1
  <2>3. QED
    BY <1>1, <1>2, <2>2
<1>6. QED
  BY <1>4, <1>5

\* The set of what was found, once the admitted places of a document are added.
With(urls) == FoundUrls \cup {urls[i] : i \in Admitted(urls)}

\* What is admitted: places of new URLs, the first ones when there is not room
\* for all.
LEMMA AdmittedIs ==
    ASSUME IsFiniteSet(FoundUrls), FoundUrls \subseteq Pages, maxPages \in Nat, NEW U, NEW urls \in Seq(U),
           maxPages > 0 => Cardinality(FoundUrls) <= maxPages
    PROVE  /\ IsFiniteSet(With(urls)) /\ With(urls) \subseteq Pages
           /\ maxPages > 0 => Cardinality(With(urls)) <= maxPages
           /\ maxPages = 0 => SeqSet(urls) \cap Pages \subseteq With(urls)
           /\ Admitted(urls) \subseteq DOMAIN urls
<1>1. /\ DOMAIN urls = 1 .. Len(urls) /\ Len(urls) \in Nat
      /\ Admitted(urls) \subseteq NewAt(urls) /\ NewAt(urls) \subseteq DOMAIN urls
  BY DEF Admitted, NewAt
<1>2. IsFiniteSet(1 .. Len(urls)) /\ IsFiniteSet(NewAt(urls)) /\ IsFiniteSet(Admitted(urls))
  <2>1. IsFiniteSet(1 .. Len(urls))
    <3>1. 1 \in Int /\ Len(urls) \in Int
      BY <1>1
    <3>2. QED
      BY <3>1, FS_Interval
  <2>2. NewAt(urls) \in SUBSET (1 .. Len(urls)) /\ Admitted(urls) \in SUBSET NewAt(urls)
    BY <1>1
  <2>3. QED
    BY <2>1, <2>2, FS_Subset
<1>3. PICK A : A = Admitted(urls)
  OBVIOUS
<1>4. PICK image : image = {urls[i] : i \in A}
  OBVIOUS
<1>5. IsFiniteSet(image) /\ Cardinality(image) <= Cardinality(A) /\ Cardinality(image) \in Nat /\ Cardinality(A) \in Nat
  <2>1. [i \in A |-> urls[i]] \in Surjection(A, image)
    BY <1>4 DEF Surjection
  <2>2. IsFiniteSet(A)
    BY <1>2, <1>3
  <2>3. QED
    BY <2>1, <2>2, FS_Surjection, FS_CardinalityType
<1>6. With(urls) = FoundUrls \cup image
  BY <1>3, <1>4 DEF With
<1>7. IsFiniteSet(With(urls)) /\ Cardinality(With(urls)) <= Cardinality(FoundUrls) + Cardinality(image)
  <2>1. /\ IsFiniteSet(FoundUrls \cup image) /\ IsFiniteSet(FoundUrls \cap image)
        /\ Cardinality(FoundUrls \cup image) = Cardinality(FoundUrls) + Cardinality(image) - Cardinality(FoundUrls \cap image)
    BY <1>5, FS_Union, FS_Intersection
  <2>2. Cardinality(FoundUrls \cap image) \in Nat /\ Cardinality(FoundUrls) \in Nat
    BY <2>1, FS_CardinalityType
  <2>3. QED
    BY <1>5, <1>6, <2>1, <2>2
<1>8. With(urls) \subseteq Pages
  BY <1>1 DEF With, NewAt
<1>9. ASSUME maxPages > 0 PROVE Cardinality(With(urls)) <= maxPages
  <2>1. PICK room \in Nat : room = maxPages - Cardinality(FoundUrls)
    BY <1>9, FS_CardinalityType
  <2>2. Cardinality(A) <= room
    <3>1. CASE A = {}
      BY <2>1, <3>1, FS_EmptySet
    <3>2. CASE A # {}
      <4>1. PICK m \in A : \A i \in A : i <= m
        BY <1>1, <1>3, <3>2, GreatestOf
      <4>2. PICK B : B = {j \in NewAt(urls) : j < m}
        OBVIOUS
      <4>3. Cardinality(FoundUrls) + Cardinality(B) < maxPages
        BY <1>3, <1>9, <4>2 DEF Admitted
      <4>4. A \ {m} \subseteq B
        BY <1>1, <1>3, <4>1, <4>2
      <4>5. IsFiniteSet(B) /\ Cardinality(B) \in Nat
        BY <1>2, <4>2, FS_Subset, FS_CardinalityType
      <4>6. Cardinality(A \ {m}) <= Cardinality(B) /\ Cardinality(A \ {m}) = Cardinality(A) - 1
        BY <1>2, <1>3, <4>4, <4>5, FS_Subset, FS_RemoveElement
      <4>7. Cardinality(FoundUrls) \in Nat
        BY FS_CardinalityType
      <4>8. QED
        BY <1>5, <2>1, <4>3, <4>5, <4>6, <4>7
    <3>3. QED
      BY <3>1, <3>2
  <2>3. Cardinality(FoundUrls) \in Nat /\ Cardinality(With(urls)) \in Nat
    BY <1>7, FS_CardinalityType
  <2>4. QED
    BY <1>5, <1>7, <2>1, <2>2, <2>3
<1>10. ASSUME maxPages = 0, NEW u \in SeqSet(urls) \cap Pages PROVE u \in With(urls)
  <2>1. CASE u \in FoundUrls
    BY <2>1 DEF With
  <2>2. CASE u \notin FoundUrls
    <3>1. PICK S : S = {i \in DOMAIN urls : urls[i] = u}
      OBVIOUS
    <3>2. S \in SUBSET (1 .. Len(urls)) /\ S # {}
      BY <1>1, <1>10, <3>1 DEF SeqSet
    <3>3. PICK m \in S : \A i \in S : m <= i
      BY <1>1, <3>2, LeastOf
    <3>4. m \in NewAt(urls)
      <4>1. ASSUME NEW j \in 1 .. m - 1, urls[j] = u PROVE FALSE
        <5>1. m \in Nat /\ m <= Len(urls) /\ j \in 1 .. Len(urls) /\ j < m
          BY <1>1, <3>2
        <5>2. j \in S
          BY <1>1, <3>1, <4>1, <5>1
        <5>3. QED
          BY <3>3, <5>1, <5>2
      <4>2. QED
        BY <1>10, <2>2, <3>1, <3>3, <4>1 DEF NewAt
    <3>5. m \in Admitted(urls) /\ urls[m] = u
      BY <1>10, <3>1, <3>3, <3>4 DEF Admitted
    <3>6. QED
      BY <3>5 DEF With
  <2>3. QED
    BY <2>1, <2>2
<1>11. QED
  BY <1>1, <1>7, <1>8, <1>9, <1>10

\* Adding the admitted places of a document to the Map.
LEMMA AddIs ==
    ASSUME NEW urls, NEW via, Add(urls, via)
    PROVE  /\ FoundUrls' = With(urls) /\ FoundUrls \subseteq FoundUrls'
           /\ \A u \in FoundUrls' : discovered'[u] = IF u \in FoundUrls THEN discovered[u] ELSE via
<1>1. discovered' = [u \in With(urls) |-> IF u \in FoundUrls THEN discovered[u] ELSE via]
  BY DEF Add, With
<1>2. FoundUrls' = With(urls)
  BY <1>1 DEF FoundUrls
<1>3. FoundUrls \subseteq With(urls)
  BY DEF With
<1>4. QED
  BY <1>1, <1>2, <1>3

\* The members of a queue, of its tail, and of two queues in a row.
LEMMA Queues ==
    ASSUME NEW U, NEW s \in Seq(U)
    PROVE  /\ SeqSet(s) \subseteq U
           /\ s = <<>> => SeqSet(s) = {}
           /\ s # <<>> => /\ Head(s) \in SeqSet(s) /\ Tail(s) \in Seq(U)
                          /\ SeqSet(s) = {Head(s)} \cup SeqSet(Tail(s))
           /\ \A t \in Seq(U) : s \o t \in Seq(U) /\ SeqSet(s \o t) = SeqSet(s) \cup SeqSet(t)
<1>1. SeqSet(s) \subseteq U /\ (s = <<>> => SeqSet(s) = {})
  BY DEF SeqSet
<1>2. ASSUME s # <<>>
      PROVE  Head(s) \in SeqSet(s) /\ Tail(s) \in Seq(U) /\ SeqSet(s) = {Head(s)} \cup SeqSet(Tail(s))
  <2>1. /\ Len(s) \in Nat /\ Len(s) >= 1 /\ DOMAIN s = 1 .. Len(s) /\ Head(s) = s[1]
        /\ Tail(s) \in Seq(U) /\ DOMAIN Tail(s) = 1 .. Len(s) - 1
        /\ \A i \in 1 .. Len(s) - 1 : Tail(s)[i] = s[i + 1]
    BY <1>2
  <2>2. SeqSet(Tail(s)) \subseteq SeqSet(s) /\ Head(s) \in SeqSet(s)
    BY <2>1 DEF SeqSet
  <2>3. ASSUME NEW i \in DOMAIN s PROVE s[i] \in {Head(s)} \cup SeqSet(Tail(s))
    <3>1. CASE i = 1
      BY <2>1, <3>1
    <3>2. CASE i # 1
      <4>1. i - 1 \in DOMAIN Tail(s) /\ Tail(s)[i - 1] = s[i]
        BY <2>1, <3>2
      <4>2. QED
        BY <4>1 DEF SeqSet
    <3>3. QED
      BY <3>1, <3>2
  <2>4. QED
    BY <2>1, <2>2, <2>3 DEF SeqSet
<1>3. ASSUME NEW t \in Seq(U) PROVE s \o t \in Seq(U) /\ SeqSet(s \o t) = SeqSet(s) \cup SeqSet(t)
  <2>1. /\ s \o t \in Seq(U) /\ DOMAIN (s \o t) = 1 .. Len(s) + Len(t)
        /\ Len(s) \in Nat /\ Len(t) \in Nat /\ DOMAIN s = 1 .. Len(s) /\ DOMAIN t = 1 .. Len(t)
        /\ \A i \in 1 .. Len(s) + Len(t) : (s \o t)[i] = IF i <= Len(s) THEN s[i] ELSE t[i - Len(s)]
    OBVIOUS
  <2>2. \A i \in DOMAIN s : i \in DOMAIN (s \o t) /\ (s \o t)[i] = s[i]
    BY <2>1
  <2>3. \A i \in DOMAIN t : i + Len(s) \in DOMAIN (s \o t) /\ (s \o t)[i + Len(s)] = t[i]
    BY <2>1
  <2>4. \A i \in DOMAIN (s \o t) : (s \o t)[i] \in SeqSet(s) \cup SeqSet(t)
    BY <2>1 DEF SeqSet
  <2>5. SeqSet(s) \subseteq SeqSet(s \o t)
    BY <2>2 DEF SeqSet
  <2>6. SeqSet(t) \subseteq SeqSet(s \o t)
    BY <2>3 DEF SeqSet
  <2>7. SeqSet(s \o t) \subseteq SeqSet(s) \cup SeqSet(t)
    BY <2>4 DEF SeqSet
  <2>8. QED
    BY <2>1, <2>5, <2>6, <2>7
<1>4. QED
  BY <1>1, <1>2, <1>3

\* The documents are told apart by what they are read as.
LEMMA DocumentsDiffer ==
    /\ Robots \in Documents
    /\ \A s \in Sitemaps : <<"sitemap", s>> \in Documents /\ <<"sitemap", s>> # Robots
    /\ \A p \in Pages : <<"page", p>> \in Documents /\ <<"page", p>> # Robots
    /\ \A s \in Sitemaps, p \in Pages : <<"sitemap", s>> # <<"page", p>>
    /\ \A s, t \in Sitemaps : <<"sitemap", s>> = <<"sitemap", t>> => s = t
    /\ \A p, q \in Pages : <<"page", p>> = <<"page", q>> => p = q
    /\ \A d \in Documents : \/ d = Robots
                            \/ \E s \in Sitemaps : d = <<"sitemap", s>>
                            \/ \E p \in Pages : d = <<"page", p>>
BY DEF Documents, Robots

\* What hearing one document changes.
LEMMA HearIs ==
    ASSUME DOMAIN heard = Documents, reads \in [Documents -> Nat], NEW d \in Documents, NEW a, Hear(d, a)
    PROVE  /\ DOMAIN heard' = Documents /\ reads' \in [Documents -> Nat]
           /\ reads'[d] = reads[d] + 1
           /\ PagesOf(d)' = IF a.kind \in {"urlset", "page"} THEN SeqSet(a.urls) \cap Pages ELSE {}
           /\ SitemapsOf(d)' = IF a.kind \in {"index", "robots"} THEN SeqSet(a.urls) \cap Sitemaps ELSE {}
           /\ \A e \in Documents : e # d => /\ PagesOf(e)' = PagesOf(e) /\ SitemapsOf(e)' = SitemapsOf(e)
                                            /\ reads'[e] = reads[e]
<1>1. /\ heard' = [heard EXCEPT ![d] = a] /\ reads' = [reads EXCEPT ![d] = @ + 1]
  BY DEF Hear
<1>2. /\ DOMAIN heard' = Documents /\ heard'[d] = a /\ \A e \in Documents : e # d => heard'[e] = heard[e]
  BY <1>1
<1>3. reads' \in [Documents -> Nat] /\ reads'[d] = reads[d] + 1 /\ \A e \in Documents : e # d => reads'[e] = reads[e]
  BY <1>1
<1>4. QED
  BY <1>2, <1>3 DEF PagesOf, SitemapsOf

Queued == SeqSet(todo)

FindingShape ==
    /\ DiscoveryTypeOK /\ maxPages \in Nat
    /\ IsFiniteSet(FoundUrls) /\ (maxPages > 0 => Cardinality(FoundUrls) <= maxPages)
    /\ todo \in Seq(Pages \cup Sitemaps)
    /\ phase \in {"robots", "sitemaps"} => Queued \subseteq Sitemaps
    /\ phase = "crawl" => Queued \subseteq Pages
    /\ phase = "robots" => sources["sitemap"]
    /\ sources["root"] => Root \in FoundUrls /\ discovered[Root] = "root"
    /\ DOMAIN heard = Documents /\ reads \in [Documents -> Nat]

\* A document is read once, when it is entered among those read.
ReadInv ==
    /\ \A s \in Sitemaps : reads[<<"sitemap", s>>] = IF s \in seen THEN 1 ELSE 0
    /\ \A p \in Pages : reads[<<"page", p>>] = IF p \in crawled THEN 1 ELSE 0
    /\ reads[Robots] = IF phase = "robots" \/ ~sources["sitemap"] THEN 0 ELSE 1

\* A sitemap that was named is read or waits to be.
SitemapInv ==
    /\ maxPages = 0 => \A s \in seen : PagesOf(<<"sitemap", s>>) \subseteq FoundUrls
    /\ phase \in {"robots", "sitemaps"} => crawled = {} /\ NamedSitemaps \subseteq seen \cup Queued
    /\ sources["sitemap"] /\ phase \in {"robots", "sitemaps"} => SitemapXml \in seen \cup Queued
    /\ phase \in {"crawl", "done"} /\ maxPages = 0 /\ Cardinality(seen) < MaxSitemaps =>
          /\ NamedSitemaps \subseteq seen
          /\ sources["sitemap"] => SitemapXml \in seen

\* A crawl starts from the root alone, and a page it found was crawled or waits.
CrawlInv ==
    /\ crawled # {} \/ phase = "crawl" => \A u \in FoundUrls : discovered[u] # "sitemap"
    /\ phase = "crawl" => FoundUrls \cup {Root} \subseteq crawled \cup Queued
    /\ maxPages = 0 => \A p \in crawled : PagesOf(<<"page", p>>) \subseteq FoundUrls
    /\ phase = "done" /\ crawled # {} /\ Room => FoundUrls \cup {Root} \subseteq crawled
    /\ phase = "done" /\ crawled = {} /\ Room => ~CrawlNeeded

DiscoveryInv == FindingShape /\ ReadInv /\ SitemapInv /\ CrawlInv

\* Initially the root waits to be crawled and nothing was read.
LEMMA DiscoveryInvInit == DiscoveryInit => DiscoveryInv
<1> SUFFICES ASSUME DiscoveryInit PROVE DiscoveryInv
  OBVIOUS
<1>1. /\ Root \in Pages /\ SitemapXml \in Sitemaps /\ maxPages \in Nat
      /\ FoundUrls = IF sources["root"] THEN {Root} ELSE {}
      /\ seen = {} /\ crawled = {} /\ phase \in {"robots", "sitemaps"}
      /\ \A u \in FoundUrls : discovered[u] = "root"
      /\ heard = [d \in Documents |-> Failed] /\ reads = [d \in Documents |-> 0]
      /\ todo = IF sources["sitemap"] THEN <<SitemapXml>> ELSE <<>>
      /\ phase = "robots" => sources["sitemap"]
  BY DiscoveryAssumption DEF DiscoveryInit, FoundUrls
<1>2. todo \in Seq(Sitemaps) /\ Queued = IF sources["sitemap"] THEN {SitemapXml} ELSE {}
  BY <1>1 DEF Queued, SeqSet
<1>3. IsFiniteSet(FoundUrls) /\ (maxPages > 0 => Cardinality(FoundUrls) <= maxPages)
  <2>1. IsFiniteSet({}) /\ Cardinality({}) = 0 /\ IsFiniteSet({Root}) /\ Cardinality({Root}) = 1
    BY FS_EmptySet, FS_Singleton
  <2>2. QED
    BY <1>1, <2>1
<1>4. FindingShape
  <2>1. todo \in Seq(Pages \cup Sitemaps) /\ reads \in [Documents -> Nat] /\ DOMAIN heard = Documents
    <3>1. <<SitemapXml>> \in Seq(Pages \cup Sitemaps) /\ <<>> \in Seq(Pages \cup Sitemaps)
      BY <1>1
    <3>2. 0 \in Nat
      OBVIOUS
    <3>3. QED
      BY <1>1, <3>1, <3>2
  <2>2. QED
    BY <1>1, <1>2, <1>3, <2>1 DEF FindingShape, DiscoveryTypeOK
<1>5. ReadInv
  <2>1. phase = "robots" \/ ~sources["sitemap"]
    BY DEF DiscoveryInit
  <2>2. QED
    BY <1>1, <2>1, DocumentsDiffer DEF ReadInv
<1>6. NamedSitemaps = {}
  <2>1. \A d \in Documents : SitemapsOf(d) = {}
    BY <1>1 DEF SitemapsOf, Failed
  <2>2. QED
    BY <1>1, <2>1, DocumentsDiffer DEF NamedSitemaps
<1>7. SitemapInv /\ CrawlInv
  BY <1>1, <1>2, <1>6 DEF SitemapInv, CrawlInv
<1>8. QED
  BY <1>4, <1>5, <1>7 DEF DiscoveryInv

\* site-discovery.ts: robots.txt names the first sitemaps, or the default one
\* is tried.
LEMMA ReadRobotsKeeps ==
    ASSUME DiscoveryInv, ReadRobots
    PROVE  DiscoveryInv'
<1>1. PICK a \in Answers("robots", Sitemaps) :
         /\ phase = "robots" /\ Hear(Robots, a) /\ todo' = todo \o a.urls /\ phase' = "sitemaps"
         /\ UNCHANGED <<sources, maxPages, seen, crawled, discovered>>
  BY DEF ReadRobots
<1>2. /\ a.urls \in Seq(Sitemaps) /\ a.urls \in Seq(Pages \cup Sitemaps) /\ todo \in Seq(Pages \cup Sitemaps)
      /\ a.kind \in {"robots", "failed"}
  BY AnswersAre DEF DiscoveryInv, FindingShape
<1>3. /\ todo' \in Seq(Pages \cup Sitemaps) /\ Queued' = Queued \cup SeqSet(a.urls) /\ SeqSet(a.urls) \subseteq Sitemaps
  <2>1. SeqSet(todo \o a.urls) = SeqSet(todo) \cup SeqSet(a.urls) /\ todo \o a.urls \in Seq(Pages \cup Sitemaps)
        /\ SeqSet(a.urls) \subseteq Sitemaps
    BY <1>2, Queues
  <2>2. QED
    BY <1>1, <2>1 DEF Queued, SeqSet
<1>4. /\ DOMAIN heard' = Documents /\ reads' \in [Documents -> Nat] /\ reads'[Robots] = reads[Robots] + 1
      /\ SitemapsOf(Robots)' \subseteq SeqSet(a.urls)
      /\ \A e \in Documents : e # Robots => /\ PagesOf(e)' = PagesOf(e) /\ SitemapsOf(e)' = SitemapsOf(e)
                                            /\ reads'[e] = reads[e]
  <2>1. DOMAIN heard = Documents /\ reads \in [Documents -> Nat] /\ Robots \in Documents
    BY DocumentsDiffer DEF DiscoveryInv, FindingShape
  <2>2. SitemapsOf(Robots)' = IF a.kind \in {"index", "robots"} THEN SeqSet(a.urls) \cap Sitemaps ELSE {}
    BY <1>1, <2>1, HearIs
  <2>3. QED
    BY <1>1, <2>1, <2>2, HearIs
<1>5. FoundUrls' = FoundUrls
  BY <1>1 DEF FoundUrls
<1>6. FindingShape'
  BY <1>1, <1>3, <1>4, <1>5 DEF DiscoveryInv, FindingShape, DiscoveryTypeOK
<1>7. ReadInv'
  <2>1. reads[Robots] = 0
    BY <1>1 DEF DiscoveryInv, ReadInv
  <2>2. sources["sitemap"] /\ reads'[Robots] = 1
    BY <1>1, <1>4, <2>1 DEF DiscoveryInv, FindingShape
  <2>3. QED
    BY <1>1, <1>4, <2>2, DocumentsDiffer DEF DiscoveryInv, ReadInv
<1>8. SitemapInv'
  <2>1. seen \subseteq Sitemaps
    BY DEF DiscoveryInv, FindingShape, DiscoveryTypeOK
  <2>2. NamedSitemaps' \subseteq seen \cup Queued'
    <3>1. ASSUME NEW s \in seen PROVE SitemapsOf(<<"sitemap", s>>)' \subseteq seen \cup Queued'
      <4>1. SitemapsOf(<<"sitemap", s>>)' = SitemapsOf(<<"sitemap", s>>)
        BY <1>4, <2>1, DocumentsDiffer
      <4>2. SitemapsOf(<<"sitemap", s>>) \subseteq NamedSitemaps
        BY DEF NamedSitemaps
      <4>3. NamedSitemaps \subseteq seen \cup Queued
        BY <1>1 DEF DiscoveryInv, SitemapInv
      <4>4. QED
        BY <1>3, <4>1, <4>2, <4>3
    <3>2. QED
      <4>1. NamedSitemaps' = SitemapsOf(Robots)' \cup UNION {SitemapsOf(<<"sitemap", s>>)' : s \in seen}
        BY <1>1 DEF NamedSitemaps
      <4>2. SitemapsOf(Robots)' \subseteq Queued'
        BY <1>3, <1>4
      <4>3. QED
        BY <3>1, <4>1, <4>2
  <2>3. \A s \in seen : PagesOf(<<"sitemap", s>>)' = PagesOf(<<"sitemap", s>>)
    BY <1>4, <2>1, DocumentsDiffer
  <2>4. QED
    BY <1>1, <1>3, <1>5, <2>2, <2>3 DEF DiscoveryInv, SitemapInv
<1>9. CrawlInv'
  BY <1>1, <1>4, <1>5, DocumentsDiffer DEF DiscoveryInv, CrawlInv, FindingShape, DiscoveryTypeOK, SitemapInv
<1>10. QED
  BY <1>6, <1>7, <1>8, <1>9 DEF DiscoveryInv

\* What a step that only shortens the queue leaves.
LEMMA HeardStays ==
    ASSUME heard' = heard
    PROVE  \A d : PagesOf(d)' = PagesOf(d) /\ SitemapsOf(d)' = SitemapsOf(d)
BY DEF PagesOf, SitemapsOf

\* site-discovery.ts: a sitemap that was read already is not read again.
LEMMA SkipSitemapKeeps ==
    ASSUME DiscoveryInv, SkipSitemap
    PROVE  DiscoveryInv'
<1>1. /\ phase = "sitemaps" /\ todo # <<>> /\ Head(todo) \in seen /\ todo' = Tail(todo)
      /\ sources' = sources /\ maxPages' = maxPages /\ phase' = phase /\ seen' = seen /\ crawled' = crawled
      /\ discovered' = discovered /\ heard' = heard /\ reads' = reads
  BY DEF SkipSitemap, SitemapNext, Seen
<1>2. todo \in Seq(Pages \cup Sitemaps)
  BY DEF DiscoveryInv, FindingShape
<1>3. todo' \in Seq(Pages \cup Sitemaps) /\ Queued = {Head(todo)} \cup Queued'
  <2>1. SeqSet(todo) = {Head(todo)} \cup SeqSet(Tail(todo)) /\ Tail(todo) \in Seq(Pages \cup Sitemaps)
    BY <1>1, <1>2, Queues
  <2>2. QED
    BY <1>1, <2>1 DEF Queued, SeqSet
<1>4. FoundUrls' = FoundUrls /\ NamedSitemaps' = NamedSitemaps /\ \A d : PagesOf(d)' = PagesOf(d)
  BY <1>1, HeardStays DEF FoundUrls, NamedSitemaps, SitemapsOf
<1>5. FindingShape' /\ ReadInv'
  BY <1>1, <1>3, <1>4 DEF DiscoveryInv, FindingShape, ReadInv, DiscoveryTypeOK
<1>6. SitemapInv'
  BY <1>1, <1>3, <1>4 DEF DiscoveryInv, SitemapInv
<1>7. CrawlInv'
  BY <1>1, <1>4 DEF DiscoveryInv, CrawlInv
<1>8. QED
  BY <1>5, <1>6, <1>7 DEF DiscoveryInv

\* site-discovery.ts: a sitemap names sitemaps, which are queued, and pages,
\* which are added.
LEMMA ReadSitemapKeeps ==
    ASSUME DiscoveryInv, ReadSitemap
    PROVE  DiscoveryInv'
<1>1. PICK a \in Answers("index", Sitemaps) \cup Answers("urlset", Pages \cup {Foreign}) :
         /\ phase = "sitemaps" /\ todo # <<>> /\ Head(todo) \notin seen
         /\ Hear(<<"sitemap", Head(todo)>>, a)
         /\ seen' = seen \cup {Head(todo)}
         /\ IF a.kind = "urlset" THEN todo' = Tail(todo) /\ Add(a.urls, "sitemap")
            ELSE todo' = Tail(todo) \o a.urls /\ discovered' = discovered
         /\ UNCHANGED <<sources, maxPages, phase, crawled>>
  BY DEF ReadSitemap, SitemapNext, Seen
<1>2. PICK u : u = Head(todo)
  OBVIOUS
<1>3. PICK rest : rest = Tail(todo)
  OBVIOUS
<1>4. /\ todo \in Seq(Pages \cup Sitemaps) /\ rest \in Seq(Pages \cup Sitemaps)
      /\ Queued = {u} \cup SeqSet(rest) /\ Queued \subseteq Sitemaps /\ u \in Sitemaps
      /\ seen \subseteq Sitemaps /\ crawled = {}
  <2>1. todo \in Seq(Pages \cup Sitemaps) /\ Queued \subseteq Sitemaps /\ seen \subseteq Sitemaps
    BY <1>1 DEF DiscoveryInv, FindingShape, DiscoveryTypeOK
  <2>2. SeqSet(todo) = {Head(todo)} \cup SeqSet(Tail(todo)) /\ Tail(todo) \in Seq(Pages \cup Sitemaps)
    BY <1>1, <2>1, Queues
  <2>3. QED
    BY <1>1, <1>2, <1>3, <2>1, <2>2 DEF Queued, DiscoveryInv, SitemapInv
<1>5. PICK d \in Documents : d = <<"sitemap", u>> /\ Hear(d, a)
  BY <1>1, <1>2, <1>4, DocumentsDiffer
<1>6. DOMAIN heard = Documents /\ reads \in [Documents -> Nat]
  BY DEF DiscoveryInv, FindingShape
<1>7. /\ DOMAIN heard' = Documents /\ reads' \in [Documents -> Nat]
      /\ reads'[d] = reads[d] + 1
      /\ PagesOf(d)' = IF a.kind \in {"urlset", "page"} THEN SeqSet(a.urls) \cap Pages ELSE {}
      /\ SitemapsOf(d)' = IF a.kind \in {"index", "robots"} THEN SeqSet(a.urls) \cap Sitemaps ELSE {}
      /\ \A e \in Documents : e # d => /\ PagesOf(e)' = PagesOf(e) /\ SitemapsOf(e)' = SitemapsOf(e)
                                       /\ reads'[e] = reads[e]
  BY <1>5, <1>6, HearIs
<1>8. /\ \A s \in seen : /\ PagesOf(<<"sitemap", s>>)' = PagesOf(<<"sitemap", s>>)
                         /\ SitemapsOf(<<"sitemap", s>>)' = SitemapsOf(<<"sitemap", s>>)
      /\ SitemapsOf(Robots)' = SitemapsOf(Robots)
  BY <1>1, <1>2, <1>4, <1>5, <1>7, DocumentsDiffer
<1>9. ReadInv'
  <2>1. reads[d] = 0
    BY <1>1, <1>2, <1>4, <1>5 DEF DiscoveryInv, ReadInv
  <2>2. \A s \in Sitemaps : reads'[<<"sitemap", s>>] = IF s \in seen' THEN 1 ELSE 0
    <3>1. ASSUME NEW s \in Sitemaps, s = u PROVE reads'[<<"sitemap", s>>] = 1 /\ s \in seen'
      BY <1>1, <1>2, <1>5, <1>7, <2>1, <3>1
    <3>2. ASSUME NEW s \in Sitemaps, s # u
          PROVE  reads'[<<"sitemap", s>>] = reads[<<"sitemap", s>>] /\ (s \in seen' <=> s \in seen)
      BY <1>1, <1>2, <1>4, <1>5, <1>7, <3>2, DocumentsDiffer
    <3>3. QED
      BY <3>1, <3>2 DEF DiscoveryInv, ReadInv
  <2>3. \A p \in Pages : reads'[<<"page", p>>] = reads[<<"page", p>>]
    BY <1>4, <1>5, <1>7, DocumentsDiffer
  <2>4. reads'[Robots] = reads[Robots]
    BY <1>4, <1>5, <1>7, DocumentsDiffer
  <2>5. QED
    BY <1>1, <2>2, <2>3, <2>4 DEF DiscoveryInv, ReadInv
<1>10. NamedSitemaps' = NamedSitemaps \cup SitemapsOf(d)'
  <2>1. NamedSitemaps' = SitemapsOf(Robots)' \cup UNION {SitemapsOf(<<"sitemap", s>>)' : s \in seen \cup {u}}
    BY <1>1, <1>2 DEF NamedSitemaps
  <2>2. NamedSitemaps = SitemapsOf(Robots) \cup UNION {SitemapsOf(<<"sitemap", s>>) : s \in seen}
    BY DEF NamedSitemaps
  <2>3. SitemapsOf(d)' = SitemapsOf(<<"sitemap", u>>)'
    BY <1>5
  <2>4. \A x : x \in NamedSitemaps' <=> x \in NamedSitemaps \/ x \in SitemapsOf(d)'
    BY <1>8, <2>1, <2>2, <2>3
  <2>5. QED
    BY <2>4
<1>11. NamedSitemaps \subseteq seen \cup Queued /\ (sources["sitemap"] => SitemapXml \in seen \cup Queued)
  BY <1>1 DEF DiscoveryInv, SitemapInv
<1>12. CASE a.kind = "urlset"
  <2>1. /\ todo' = rest /\ Add(a.urls, "sitemap") /\ a.urls \in Seq(Pages \cup {Foreign})
        /\ PagesOf(d)' = SeqSet(a.urls) \cap Pages /\ SitemapsOf(d)' = {}
    <3>1. a \in Answers("urlset", Pages \cup {Foreign})
      BY <1>1, <1>12, AnswersAre
    <3>2. QED
      BY <1>1, <1>3, <1>7, <1>12, <3>1, AnswersAre
  <2>2. Queued' = SeqSet(rest)
    BY <2>1 DEF Queued, SeqSet
  <2>3. /\ FoundUrls' = With(a.urls) /\ FoundUrls \subseteq FoundUrls'
        /\ \A v \in FoundUrls' : discovered'[v] = IF v \in FoundUrls THEN discovered[v] ELSE "sitemap"
    BY <2>1, AddIs
  <2>4. /\ IsFiniteSet(FoundUrls') /\ FoundUrls' \subseteq Pages
        /\ maxPages > 0 => Cardinality(FoundUrls') <= maxPages
        /\ maxPages = 0 => SeqSet(a.urls) \cap Pages \subseteq FoundUrls'
    BY <2>1, <2>3, AdmittedIs DEF DiscoveryInv, FindingShape, DiscoveryTypeOK
  <2>5. FindingShape'
    <3>1. DiscoveryTypeOK'
      BY <1>1, <1>2, <1>4, <2>3, <2>4 DEF DiscoveryInv, FindingShape, DiscoveryTypeOK
    <3>2. sources["root"] => Root \in FoundUrls' /\ discovered'[Root] = "root"
      BY <2>3 DEF DiscoveryInv, FindingShape
    <3>3. QED
      BY <1>1, <1>4, <1>7, <2>1, <2>2, <2>4, <3>1, <3>2 DEF DiscoveryInv, FindingShape
  <2>6. SitemapInv'
    <3>1. maxPages = 0 => \A s \in seen' : PagesOf(<<"sitemap", s>>)' \subseteq FoundUrls'
      BY <1>1, <1>2, <1>5, <1>8, <2>1, <2>3, <2>4 DEF DiscoveryInv, SitemapInv
    <3>2. NamedSitemaps' \subseteq seen' \cup Queued' /\ (sources["sitemap"] => SitemapXml \in seen' \cup Queued')
      BY <1>1, <1>2, <1>4, <1>10, <1>11, <2>1, <2>2
    <3>3. QED
      BY <1>1, <1>4, <3>1, <3>2 DEF SitemapInv
  <2>7. CrawlInv'
    BY <1>1, <1>4 DEF CrawlInv
  <2>8. QED
    BY <1>9, <2>5, <2>6, <2>7 DEF DiscoveryInv
<1>13. CASE a.kind # "urlset"
  <2>1. /\ todo' = rest \o a.urls /\ discovered' = discovered /\ FoundUrls' = FoundUrls
        /\ a.urls \in Seq(Sitemaps) /\ a.urls \in Seq(Pages \cup Sitemaps)
        /\ PagesOf(d)' = {} /\ SitemapsOf(d)' \subseteq SeqSet(a.urls)
    <3>1. a \in Answers("index", Sitemaps)
      BY <1>1, <1>13, AnswersAre DEF Answers
    <3>2. a.urls \in Seq(Sitemaps) /\ a.kind \in {"index", "failed"}
      BY <3>1, AnswersAre
    <3>3. QED
      BY <1>1, <1>3, <1>7, <1>13, <3>2 DEF FoundUrls
  <2>2. todo' \in Seq(Pages \cup Sitemaps) /\ Queued' = SeqSet(rest) \cup SeqSet(a.urls) /\ SeqSet(a.urls) \subseteq Sitemaps
    <3>1. rest \o a.urls \in Seq(Pages \cup Sitemaps) /\ SeqSet(rest \o a.urls) = SeqSet(rest) \cup SeqSet(a.urls)
          /\ SeqSet(a.urls) \subseteq Sitemaps
      BY <1>4, <2>1, Queues
    <3>2. QED
      BY <2>1, <3>1 DEF Queued, SeqSet
  <2>3. FindingShape'
    BY <1>1, <1>2, <1>4, <1>7, <2>1, <2>2 DEF DiscoveryInv, FindingShape, DiscoveryTypeOK
  <2>4. SitemapInv'
    <3>1. maxPages = 0 => \A s \in seen' : PagesOf(<<"sitemap", s>>)' \subseteq FoundUrls'
      BY <1>1, <1>2, <1>5, <1>8, <2>1 DEF DiscoveryInv, SitemapInv
    <3>2. NamedSitemaps' \subseteq seen' \cup Queued' /\ (sources["sitemap"] => SitemapXml \in seen' \cup Queued')
      BY <1>1, <1>2, <1>4, <1>10, <1>11, <2>1, <2>2
    <3>3. QED
      BY <1>1, <1>4, <3>1, <3>2 DEF SitemapInv
  <2>5. CrawlInv'
    BY <1>1, <1>4 DEF CrawlInv
  <2>6. QED
    BY <1>9, <2>3, <2>4, <2>5 DEF DiscoveryInv
<1>14. QED
  BY <1>12, <1>13

\* site-discovery.ts: when the queue is empty the crawl starts, or the sitemaps
\* were enough.
LEMMA SitemapsDoneKeeps ==
    ASSUME DiscoveryInv, SitemapsDone
    PROVE  DiscoveryInv'
<1>1. /\ phase = "sitemaps" /\ (todo = <<>> \/ ~Room \/ ~(Cardinality(seen) < MaxSitemaps))
      /\ phase' = (IF CrawlNeeded THEN "crawl" ELSE "done") /\ todo' = (IF CrawlNeeded THEN <<Root>> ELSE <<>>)
      /\ sources' = sources /\ maxPages' = maxPages /\ seen' = seen /\ crawled' = crawled
      /\ discovered' = discovered /\ heard' = heard /\ reads' = reads
  BY DEF SitemapsDone, SitemapNext
<1>2. FoundUrls' = FoundUrls /\ NamedSitemaps' = NamedSitemaps /\ (\A d : PagesOf(d)' = PagesOf(d)) /\ (CrawlNeeded' <=> CrawlNeeded)
  BY <1>1, HeardStays DEF FoundUrls, NamedSitemaps, SitemapsOf, CrawlNeeded
<1>3. /\ todo' \in Seq(Pages \cup Sitemaps) /\ Root \in Pages /\ crawled = {}
      /\ Queued' = IF CrawlNeeded THEN {Root} ELSE {}
  <2>1. <<Root>> \in Seq(Pages \cup Sitemaps) /\ <<>> \in Seq(Pages \cup Sitemaps) /\ Root \in Pages
    BY DiscoveryAssumption
  <2>2. crawled = {}
    BY <1>1 DEF DiscoveryInv, SitemapInv
  <2>3. SeqSet(<<Root>>) = {Root} /\ SeqSet(<<>>) = {}
    BY DEF SeqSet
  <2>4. Queued' = SeqSet(IF CrawlNeeded THEN <<Root>> ELSE <<>>)
    BY <1>1 DEF Queued, SeqSet
  <2>5. QED
    BY <1>1, <2>1, <2>2, <2>3, <2>4
<1>4. FindingShape' /\ ReadInv'
  BY <1>1, <1>2, <1>3 DEF DiscoveryInv, FindingShape, ReadInv, DiscoveryTypeOK
<1>5. SitemapInv'
  <2>1. ASSUME maxPages = 0, Cardinality(seen) < MaxSitemaps PROVE Queued = {}
    BY <1>1, <2>1 DEF Room, Queued, SeqSet
  <2>2. NamedSitemaps \subseteq seen \cup Queued /\ (sources["sitemap"] => SitemapXml \in seen \cup Queued)
    BY <1>1 DEF DiscoveryInv, SitemapInv
  <2>3. phase' \notin {"robots", "sitemaps"}
    BY <1>1
  <2>4. QED
    BY <1>1, <1>2, <2>1, <2>2, <2>3 DEF DiscoveryInv, SitemapInv
<1>6. CrawlInv'
  <2>1. ASSUME CrawlNeeded PROVE FoundUrls \subseteq {Root} /\ \A u \in FoundUrls : discovered[u] # "sitemap"
    <3>1. IsFiniteSet(FoundUrls) /\ Cardinality(FoundUrls) = IF sources["root"] THEN 1 ELSE 0
      BY <2>1 DEF CrawlNeeded, DiscoveryInv, FindingShape
    <3>2. CASE sources["root"]
      <4>1. Root \in FoundUrls /\ discovered[Root] = "root"
        BY <3>2 DEF DiscoveryInv, FindingShape
      <4>2. IsFiniteSet({Root}) /\ Cardinality({Root}) = 1
        BY FS_Singleton
      <4>3. FoundUrls = {Root}
        <5>1. {Root} \subseteq FoundUrls /\ Cardinality({Root}) = Cardinality(FoundUrls)
          BY <3>1, <3>2, <4>1, <4>2
        <5>2. QED
          BY <3>1, <5>1, FS_Subset
      <4>4. QED
        BY <4>1, <4>3
    <3>3. CASE ~sources["root"]
      BY <3>1, <3>3, FS_EmptySet
    <3>4. QED
      BY <3>2, <3>3
  <2>2. QED
    BY <1>1, <1>2, <1>3, <2>1 DEF CrawlInv
<1>7. QED
  BY <1>4, <1>5, <1>6 DEF DiscoveryInv

\* site-discovery.ts: a page names pages, which are added and queued.
LEMMA CrawlPageKeeps ==
    ASSUME DiscoveryInv, CrawlPage
    PROVE  DiscoveryInv'
<1>1. PICK a \in Answers("page", Pages \cup {Foreign}) :
         /\ phase = "crawl" /\ todo # <<>> /\ Head(todo) \notin crawled
         /\ Hear(<<"page", Head(todo)>>, a)
         /\ crawled' = crawled \cup {Head(todo)}
         /\ Add(a.urls, "crawl")
         /\ \E at \in InOrder(Admitted(a.urls)) :
               todo' = (IF a = Failed THEN AfterFailure ELSE Tail(todo)) \o [k \in DOMAIN at |-> a.urls[at[k]]]
         /\ UNCHANGED <<sources, maxPages, phase, seen>>
  BY DEF CrawlPage, CrawlNext
<1>2. PICK u : u = Head(todo)
  OBVIOUS
<1>3. PICK rest : rest = Tail(todo)
  OBVIOUS
<1>4. PICK at \in InOrder(Admitted(a.urls)) : todo' = rest \o [k \in DOMAIN at |-> a.urls[at[k]]]
  BY <1>1, <1>3 DEF AfterFailure
<1>5. PICK new : new = [k \in DOMAIN at |-> a.urls[at[k]]]
  OBVIOUS
<1>6. /\ todo \in Seq(Pages \cup Sitemaps) /\ rest \in Seq(Pages \cup Sitemaps)
      /\ Queued = {u} \cup SeqSet(rest) /\ Queued \subseteq Pages /\ u \in Pages
      /\ crawled \subseteq Pages /\ seen \subseteq Sitemaps
  <2>1. todo \in Seq(Pages \cup Sitemaps) /\ Queued \subseteq Pages /\ crawled \subseteq Pages /\ seen \subseteq Sitemaps
    BY <1>1 DEF DiscoveryInv, FindingShape, DiscoveryTypeOK
  <2>2. SeqSet(todo) = {Head(todo)} \cup SeqSet(Tail(todo)) /\ Tail(todo) \in Seq(Pages \cup Sitemaps)
    BY <1>1, <2>1, Queues
  <2>3. QED
    BY <1>1, <1>2, <1>3, <2>1, <2>2 DEF Queued
<1>7. PICK d \in Documents : d = <<"page", u>> /\ Hear(d, a)
  BY <1>1, <1>2, <1>6, DocumentsDiffer
<1>8. DOMAIN heard = Documents /\ reads \in [Documents -> Nat]
  BY DEF DiscoveryInv, FindingShape
<1>9. a.urls \in Seq(Pages \cup {Foreign}) /\ a.kind \in {"page", "failed"} /\ (a.kind = "failed" => a.urls = <<>>)
  BY AnswersAre
<1>10. /\ DOMAIN heard' = Documents /\ reads' \in [Documents -> Nat]
       /\ reads'[d] = reads[d] + 1
       /\ PagesOf(d)' \subseteq SeqSet(a.urls) \cap Pages
       /\ \A e \in Documents : e # d => /\ PagesOf(e)' = PagesOf(e) /\ SitemapsOf(e)' = SitemapsOf(e)
                                        /\ reads'[e] = reads[e]
  <2>1. PagesOf(d)' = IF a.kind \in {"urlset", "page"} THEN SeqSet(a.urls) \cap Pages ELSE {}
    BY <1>7, <1>8, HearIs
  <2>2. QED
    BY <1>7, <1>8, <2>1, HearIs
<1>11. /\ \A s \in seen : /\ PagesOf(<<"sitemap", s>>)' = PagesOf(<<"sitemap", s>>)
                          /\ SitemapsOf(<<"sitemap", s>>)' = SitemapsOf(<<"sitemap", s>>)
       /\ SitemapsOf(Robots)' = SitemapsOf(Robots)
       /\ \A p \in crawled : PagesOf(<<"page", p>>)' = PagesOf(<<"page", p>>)
  <2>1. \A s \in seen : <<"sitemap", s>> \in Documents /\ <<"sitemap", s>> # d
    BY <1>6, <1>7, DocumentsDiffer
  <2>2. \A p \in crawled : <<"page", p>> \in Documents /\ <<"page", p>> # d
    BY <1>1, <1>2, <1>6, <1>7, DocumentsDiffer
  <2>3. Robots \in Documents /\ Robots # d
    BY <1>6, <1>7, DocumentsDiffer
  <2>4. QED
    BY <1>10, <2>1, <2>2, <2>3
<1>12. NamedSitemaps' = NamedSitemaps
  <2>1. NamedSitemaps' = SitemapsOf(Robots)' \cup UNION {SitemapsOf(<<"sitemap", s>>)' : s \in seen}
    BY <1>1 DEF NamedSitemaps
  <2>2. NamedSitemaps = SitemapsOf(Robots) \cup UNION {SitemapsOf(<<"sitemap", s>>) : s \in seen}
    BY DEF NamedSitemaps
  <2>3. \A x : x \in NamedSitemaps' <=> x \in NamedSitemaps
    BY <1>11, <2>1, <2>2
  <2>4. QED
    BY <2>3
<1>13. ReadInv'
  <2>1. reads[d] = 0
    BY <1>1, <1>2, <1>6, <1>7 DEF DiscoveryInv, ReadInv
  <2>2. \A p \in Pages : reads'[<<"page", p>>] = IF p \in crawled' THEN 1 ELSE 0
    <3>1. ASSUME NEW p \in Pages, p = u PROVE reads'[<<"page", p>>] = 1 /\ p \in crawled'
      <4>1. <<"page", p>> = d /\ p \in crawled'
        BY <1>1, <1>2, <1>7, <3>1
      <4>2. reads'[d] = 1
        BY <1>10, <2>1
      <4>3. QED
        BY <4>1, <4>2
    <3>2. ASSUME NEW p \in Pages, p # u
          PROVE  reads'[<<"page", p>>] = reads[<<"page", p>>] /\ (p \in crawled' <=> p \in crawled)
      BY <1>1, <1>2, <1>6, <1>7, <1>10, <3>2, DocumentsDiffer
    <3>3. QED
      BY <3>1, <3>2 DEF DiscoveryInv, ReadInv
  <2>3. \A s \in Sitemaps : reads'[<<"sitemap", s>>] = reads[<<"sitemap", s>>]
    BY <1>6, <1>7, <1>10, DocumentsDiffer
  <2>4. reads'[Robots] = reads[Robots]
    BY <1>6, <1>7, <1>10, DocumentsDiffer
  <2>5. QED
    BY <1>1, <2>2, <2>3, <2>4 DEF DiscoveryInv, ReadInv
<1>14. /\ FoundUrls' = With(a.urls) /\ FoundUrls \subseteq FoundUrls'
       /\ \A v \in FoundUrls' : discovered'[v] = IF v \in FoundUrls THEN discovered[v] ELSE "crawl"
  BY <1>1, AddIs
<1>15. /\ IsFiniteSet(FoundUrls') /\ FoundUrls' \subseteq Pages
       /\ maxPages > 0 => Cardinality(FoundUrls') <= maxPages
       /\ maxPages = 0 => SeqSet(a.urls) \cap Pages \subseteq FoundUrls'
       /\ Admitted(a.urls) \subseteq DOMAIN a.urls
  BY <1>9, <1>14, AdmittedIs DEF DiscoveryInv, FindingShape, DiscoveryTypeOK
<1>16. /\ new \in Seq(Pages \cup Sitemaps) /\ SeqSet(new) = {a.urls[i] : i \in Admitted(a.urls)}
       /\ SeqSet(new) \subseteq Pages
  <2>1. PICK places : places = Admitted(a.urls)
    OBVIOUS
  <2>2. at \in [1 .. Cardinality(places) -> places] /\ {at[k] : k \in DOMAIN at} = places
    BY <1>4, <2>1 DEF InOrder
  <2>3. IsFiniteSet(places)
    <3>1. DOMAIN a.urls = 1 .. Len(a.urls) /\ Len(a.urls) \in Int
      BY <1>9
    <3>2. PICK n \in Int : DOMAIN a.urls = 1 .. n
      BY <3>1
    <3>3. IsFiniteSet(1 .. n)
      BY FS_Interval
    <3>4. QED
      BY <1>15, <2>1, <3>2, <3>3, FS_Subset
  <2>4. Cardinality(places) \in Nat /\ DOMAIN new = 1 .. Cardinality(places) /\ DOMAIN at = 1 .. Cardinality(places)
    BY <1>5, <2>2, <2>3, FS_CardinalityType
  <2>5. \A k \in DOMAIN new : at[k] \in places /\ new[k] = a.urls[at[k]]
    BY <1>5, <2>2
  <2>6. {a.urls[i] : i \in places} \subseteq Pages
    BY <1>14, <1>15, <2>1 DEF With
  <2>7. \A k \in DOMAIN new : new[k] \in Pages
    BY <2>5, <2>6
  <2>8. new \in Seq(Pages \cup Sitemaps)
    <3>1. new = [k \in 1 .. Cardinality(places) |-> new[k]]
      BY <1>5, <2>4
    <3>2. new \in [1 .. Cardinality(places) -> Pages \cup Sitemaps]
      BY <2>4, <2>7, <3>1
    <3>3. QED
      BY <2>4, <3>2
  <2>9. SeqSet(new) \subseteq {a.urls[i] : i \in places}
    BY <2>5 DEF SeqSet
  <2>10. \A i \in places : a.urls[i] \in SeqSet(new)
    <3>1. ASSUME NEW i \in places PROVE a.urls[i] \in SeqSet(new)
      <4>1. PICK k \in DOMAIN at : at[k] = i
        BY <2>2
      <4>2. k \in DOMAIN new /\ new[k] = a.urls[i]
        BY <2>4, <2>5, <4>1
      <4>3. QED
        BY <4>2 DEF SeqSet
    <3>2. QED
      BY <3>1
  <2>11. QED
    BY <2>1, <2>6, <2>8, <2>9, <2>10
<1>17. /\ todo' \in Seq(Pages \cup Sitemaps) /\ Queued' = SeqSet(rest) \cup SeqSet(new)
       /\ FoundUrls' = FoundUrls \cup SeqSet(new)
  <2>1. rest \o new \in Seq(Pages \cup Sitemaps) /\ SeqSet(rest \o new) = SeqSet(rest) \cup SeqSet(new)
    BY <1>6, <1>16, Queues
  <2>2. todo' = rest \o new
    BY <1>4, <1>5
  <2>3. Queued' = SeqSet(rest \o new)
    BY <2>2 DEF Queued, SeqSet
  <2>4. QED
    BY <1>14, <1>16, <2>1, <2>2, <2>3 DEF With
<1>18. FindingShape'
  <2>1. DiscoveryTypeOK'
    BY <1>1, <1>2, <1>6, <1>14, <1>15 DEF DiscoveryInv, FindingShape, DiscoveryTypeOK
  <2>2. sources["root"] => Root \in FoundUrls' /\ discovered'[Root] = "root"
    BY <1>14 DEF DiscoveryInv, FindingShape
  <2>3. Queued' \subseteq Pages
    BY <1>6, <1>16, <1>17
  <2>4. QED
    BY <1>1, <1>10, <1>15, <1>17, <2>1, <2>2, <2>3 DEF DiscoveryInv, FindingShape
<1>19. SitemapInv'
  BY <1>1, <1>11, <1>12, <1>14 DEF DiscoveryInv, SitemapInv
<1>20. CrawlInv'
  <2>1. \A v \in FoundUrls' : discovered'[v] # "sitemap"
    BY <1>1, <1>14 DEF DiscoveryInv, CrawlInv
  <2>2. FoundUrls' \cup {Root} \subseteq crawled' \cup Queued'
    BY <1>1, <1>2, <1>6, <1>17 DEF DiscoveryInv, CrawlInv
  <2>3. maxPages = 0 => \A p \in crawled' : PagesOf(<<"page", p>>)' \subseteq FoundUrls'
    <3>1. ASSUME maxPages = 0, NEW p \in crawled' PROVE PagesOf(<<"page", p>>)' \subseteq FoundUrls'
      <4>1. CASE p = u
        <5>1. PagesOf(<<"page", p>>)' = PagesOf(d)'
          BY <1>7, <4>1
        <5>2. QED
          BY <1>10, <1>15, <3>1, <5>1
      <4>2. CASE p # u
        <5>1. p \in crawled
          BY <1>1, <1>2, <3>1, <4>2
        <5>2. PagesOf(<<"page", p>>) \subseteq FoundUrls
          BY <3>1, <5>1 DEF DiscoveryInv, CrawlInv
        <5>3. QED
          BY <1>11, <1>14, <5>1, <5>2
      <4>3. QED
        BY <4>1, <4>2
    <3>2. QED
      BY <3>1
  <2>4. QED
    BY <1>1, <2>1, <2>2, <2>3 DEF CrawlInv
<1>21. QED
  BY <1>13, <1>18, <1>19, <1>20 DEF DiscoveryInv

\* A crawl that read its page waits for the others or ends.
LEMMA CrawlGoesOn ==
    ASSUME DiscoveryInv, SkipPage \/ CrawlDone
    PROVE  DiscoveryInv'
<1>1. /\ phase = "crawl" /\ sources' = sources /\ maxPages' = maxPages /\ seen' = seen /\ crawled' = crawled
      /\ discovered' = discovered /\ heard' = heard /\ reads' = reads
  BY DEF SkipPage, CrawlNext, CrawlDone
<1>2. /\ FoundUrls' = FoundUrls /\ NamedSitemaps' = NamedSitemaps /\ (\A d : PagesOf(d)' = PagesOf(d))
      /\ (CrawlNeeded' <=> CrawlNeeded) /\ (Room' <=> Room)
  BY <1>1, HeardStays DEF FoundUrls, NamedSitemaps, SitemapsOf, CrawlNeeded, Room
<1>3. todo \in Seq(Pages \cup Sitemaps)
  BY DEF DiscoveryInv, FindingShape
<1>4. CASE SkipPage
  <2>1. todo # <<>> /\ Head(todo) \in crawled /\ todo' = Tail(todo) /\ phase' = phase
    BY <1>4 DEF SkipPage, CrawlNext
  <2>2. todo' \in Seq(Pages \cup Sitemaps) /\ Queued = {Head(todo)} \cup Queued'
    <3>1. SeqSet(todo) = {Head(todo)} \cup SeqSet(Tail(todo)) /\ Tail(todo) \in Seq(Pages \cup Sitemaps)
      BY <1>3, <2>1, Queues
    <3>2. QED
      BY <2>1, <3>1 DEF Queued, SeqSet
  <2>3. FindingShape' /\ ReadInv'
    BY <1>1, <1>2, <2>1, <2>2 DEF DiscoveryInv, FindingShape, ReadInv, DiscoveryTypeOK
  <2>4. SitemapInv' /\ CrawlInv'
    BY <1>1, <1>2, <2>1, <2>2 DEF DiscoveryInv, SitemapInv, CrawlInv
  <2>5. QED
    BY <2>3, <2>4 DEF DiscoveryInv
<1>5. CASE CrawlDone
  <2>1. (todo = <<>> \/ ~Room) /\ todo' = todo /\ phase' = "done" /\ Queued' = Queued
    BY <1>1, <1>5 DEF CrawlDone, CrawlNext, Queued, SeqSet
  <2>2. FindingShape' /\ ReadInv'
    BY <1>1, <1>2, <2>1, <1>3 DEF DiscoveryInv, FindingShape, ReadInv, DiscoveryTypeOK
  <2>3. SitemapInv'
    BY <1>1, <1>2, <2>1 DEF DiscoveryInv, SitemapInv
  <2>4. Room => FoundUrls \cup {Root} \subseteq crawled
    BY <1>1, <2>1 DEF DiscoveryInv, CrawlInv, Queued, SeqSet
  <2>5. CrawlInv'
    BY <1>1, <1>2, <2>1, <2>4 DEF DiscoveryInv, CrawlInv
  <2>6. QED
    BY <2>2, <2>3, <2>5 DEF DiscoveryInv
<1>6. QED
  BY <1>4, <1>5

\* site-discovery.ts: every step.
LEMMA DiscoveryStep == DiscoveryInv /\ [DiscoveryNext]_discoveryVars => DiscoveryInv'
<1>1. ASSUME DiscoveryInv, UNCHANGED discoveryVars PROVE DiscoveryInv'
  <2>1. /\ sources' = sources /\ maxPages' = maxPages /\ phase' = phase /\ todo' = todo /\ seen' = seen
        /\ crawled' = crawled /\ discovered' = discovered /\ heard' = heard /\ reads' = reads
    BY <1>1 DEF discoveryVars
  <2>2. /\ FoundUrls' = FoundUrls /\ NamedSitemaps' = NamedSitemaps /\ (\A d : PagesOf(d)' = PagesOf(d)) /\ Queued' = Queued
        /\ (CrawlNeeded' <=> CrawlNeeded) /\ (Room' <=> Room)
    BY <2>1, HeardStays DEF FoundUrls, NamedSitemaps, SitemapsOf, CrawlNeeded, Room, Queued, SeqSet
  <2>3. FindingShape' /\ ReadInv'
    BY <1>1, <2>1, <2>2 DEF DiscoveryInv, FindingShape, ReadInv, DiscoveryTypeOK
  <2>4. SitemapInv' /\ CrawlInv'
    BY <1>1, <2>1, <2>2 DEF DiscoveryInv, SitemapInv, CrawlInv
  <2>5. QED
    BY <2>3, <2>4 DEF DiscoveryInv
<1>2. QED
  BY <1>1, ReadRobotsKeeps, SkipSitemapKeeps, ReadSitemapKeeps, SitemapsDoneKeeps, CrawlPageKeeps, CrawlGoesOn
  DEF DiscoveryNext

\* What the invariant says of the pages found.
LEMMA DiscoveryMeans ==
    ASSUME DiscoveryInv
    PROVE  DiscoveryTypeOK /\ FoundOnceWithinLimit /\ NothingMissed /\ CrawlOnlyAlone
<1>1. DiscoveryTypeOK
  BY DEF DiscoveryInv, FindingShape
<1>2. FoundOnceWithinLimit
  <2>1. ASSUME NEW d \in Documents PROVE reads[d] <= 1
    <3>1. reads[d] \in {0, 1}
      BY DocumentsDiffer DEF DiscoveryInv, ReadInv
    <3>2. QED
      BY <3>1
  <2>2. QED
    BY <2>1 DEF FoundOnceWithinLimit, DiscoveryInv, FindingShape
<1>3. NothingMissed
  BY DEF NothingMissed, DiscoveryInv, SitemapInv, CrawlInv, Room
<1>4. CrawlOnlyAlone
  <2>1. (\E u \in FoundUrls : discovered[u] = "sitemap") => crawled = {}
    BY DEF DiscoveryInv, CrawlInv
  <2>2. ASSUME phase = "done", sources["crawl"], FoundUrls \subseteq {Root}, Room, FoundUrls = {} \/ sources["root"]
        PROVE  Root \in crawled
    <3>1. CASE crawled # {}
      BY <2>2, <3>1 DEF DiscoveryInv, CrawlInv
    <3>2. CASE crawled = {}
      <4>1. ~CrawlNeeded
        BY <2>2, <3>2 DEF DiscoveryInv, CrawlInv
      <4>2. CASE sources["root"]
        <5>1. FoundUrls = {Root}
          BY <2>2, <4>2 DEF DiscoveryInv, FindingShape
        <5>2. Cardinality(FoundUrls) = 1
          BY <5>1, FS_Singleton
        <5>3. QED
          BY <2>2, <4>1, <4>2, <5>2 DEF CrawlNeeded
      <4>3. CASE ~sources["root"]
        <5>1. Cardinality(FoundUrls) = 0
          BY <2>2, <4>3, FS_EmptySet
        <5>2. QED
          BY <2>2, <4>1, <4>3, <5>1 DEF CrawlNeeded
      <4>4. QED
        BY <4>2, <4>3
    <3>3. QED
      BY <3>1, <3>2
  <2>3. QED
    BY <2>1, <2>2 DEF CrawlOnlyAlone
<1>5. QED
  BY <1>1, <1>2, <1>3, <1>4


ResultSet == [status : {Waiting, "fulfilled", "rejected"}, of : Nat \cup Workers]

PoolShape ==
    /\ PoolTypeOK /\ pool \in {"plugins", "days"}
    /\ rowsOf \in [Index -> 0 .. MaxRows] /\ results \in [Index -> ResultSet]
    /\ \A i \in Index : got[i] <= rowsOf[i]

\* Whatever was taken either runs or has settled.
TakenInv ==
    /\ TakenOnce
    /\ \A w \in Running : doing[w] < next /\ results[doing[w]] = Unsettled
    /\ \A i \in Index : /\ i >= next => results[i] = Unsettled
                        /\ i < next /\ results[i] = Unsettled => \E w \in Running : doing[w] = i

\* An index that settled has its own result.
ResultInv ==
    /\ pool = "plugins" => \A i \in Index : results[i] # Unsettled => results[i].of = i
    /\ pool = "days" => \A i \in Index : results[i].status = "fulfilled" => got[i] = rowsOf[i]
    /\ \A i \in Index : results[i].status = Waiting <=> results[i] = Unsettled
    /\ settled = "fulfilled" => /\ next > Items /\ Running = {}
                                /\ pool = "days" => \A i \in Index : results[i].status # "rejected"
    /\ settled = "rejected" => pool = "days"

PoolInv == PoolShape /\ TakenInv /\ ResultInv

\* The numbers of a pool.
LEMMA PoolNumbers ==
    /\ Items \in Nat /\ Items >= 1 /\ RowLimit \in Nat /\ RowLimit >= 1 /\ MaxRows \in Nat
    /\ NoIndex = 0 /\ Index = 1 .. Items /\ Unsettled.status = Waiting /\ Waiting = "pending"
    /\ Unsettled \in ResultSet
BY PoolAssumption DEF NoIndex, Index, Unsettled, Waiting, ResultSet

\* A page is what is left of a day, unless it is full.
LEMMA NextPageIs ==
    ASSUME NEW i \in Index, rowsOf[i] \in Nat, got[i] \in Nat, got[i] <= rowsOf[i]
    PROVE  /\ NextPage(i) \in Nat /\ got[i] + NextPage(i) <= rowsOf[i]
           /\ LastPage(NextPage(i)) => got[i] + NextPage(i) = rowsOf[i]
<1>1. PICK l \in Nat : l = rowsOf[i] - got[i]
  OBVIOUS
<1>2. PICK S : S = {RowLimit, l}
  OBVIOUS
<1>3. \E x \in S : \A y \in S : x <= y
  <2>1. CASE RowLimit <= l
    BY <1>2, <2>1, PoolNumbers
  <2>2. CASE l <= RowLimit
    BY <1>2, <2>2, PoolNumbers
  <2>3. QED
    BY <2>1, <2>2, PoolNumbers
<1>4. Min(S) \in S /\ \A y \in S : Min(S) <= y
  BY <1>3 DEF Min
<1>5. NextPage(i) = Min(S)
  BY <1>1, <1>2 DEF NextPage
<1>6. NextPage(i) \in {RowLimit, l} /\ NextPage(i) <= RowLimit /\ NextPage(i) <= l
  BY <1>2, <1>4, <1>5
<1>7. QED
  BY <1>1, <1>6, PoolNumbers DEF LastPage

\* Initially nothing was taken.
LEMMA PoolInvInit == PoolInit => PoolInv
<1> SUFFICES ASSUME PoolInit PROVE PoolInv
  OBVIOUS
<1>1. /\ pool \in {"plugins", "days"} /\ rowsOf \in [Index -> 0 .. MaxRows] /\ next = 1 /\ settled = Waiting
      /\ doing = [w \in Workers |-> NoIndex] /\ results = [i \in Index |-> Unsettled] /\ got = [i \in Index |-> 0]
  BY DEF PoolInit
<1>2. Running = {}
  BY <1>1 DEF Running
<1>3. PoolTypeOK
  BY <1>1, PoolNumbers DEF PoolTypeOK
<1>4. PoolShape
  <2>1. rowsOf \in [Index -> Nat] /\ got \in [Index -> Nat] /\ results \in [Index -> ResultSet]
    BY <1>1, PoolNumbers
  <2>2. \A i \in Index : got[i] <= rowsOf[i]
    BY <1>1, <2>1
  <2>3. QED
    BY <1>1, <1>3, <2>1, <2>2 DEF PoolShape
<1>5. TakenInv
  BY <1>1, <1>2, PoolNumbers DEF TakenInv, TakenOnce
<1>6. ResultInv
  BY <1>1, PoolNumbers DEF ResultInv
<1>7. QED
  BY <1>4, <1>5, <1>6 DEF PoolInv

\* The types of the variables, as the steps below need them.
LEMMA PoolTypes ==
    PoolInv => /\ next \in 1 .. Items + 1 /\ next \in Nat /\ doing \in [Workers -> 0 .. Items]
               /\ \A w \in Running : w \in Workers /\ doing[w] \in Index /\ doing[w] \in Nat
               /\ results \in [Index -> ResultSet] /\ got \in [Index -> 0 .. MaxRows] /\ got \in [Index -> Nat]
               /\ rowsOf \in [Index -> Nat] /\ \A i \in Index : got[i] <= rowsOf[i] /\ got[i] <= MaxRows
               /\ settled \in {Waiting, "fulfilled", "rejected"}
BY PoolNumbers DEF PoolInv, PoolShape, PoolTypeOK, Running

\* A worker takes the next index.
LEMMA TakeNextKeeps ==
    ASSUME PoolInv, NEW w \in Workers, TakeNext(w)
    PROVE  PoolInv'
<1>1. /\ doing[w] = NoIndex /\ next <= Items /\ doing' = [doing EXCEPT ![w] = next] /\ next' = next + 1
      /\ pool' = pool /\ rowsOf' = rowsOf /\ results' = results /\ got' = got /\ settled' = settled
  BY DEF TakeNext, Taken
<1>2. next \in Index /\ next \in Nat /\ next # NoIndex /\ doing \in [Workers -> 0 .. Items]
  BY <1>1, PoolTypes, PoolNumbers
<1>3. /\ Running' = Running \cup {w} /\ w \notin Running /\ doing'[w] = next
      /\ \A v \in Running : doing'[v] = doing[v]
  BY <1>1, <1>2 DEF Running
<1>4. PoolShape'
  <2>1. doing' \in [Workers -> 0 .. Items] /\ next' \in 1 .. Items + 1
    BY <1>1, <1>2, PoolNumbers
  <2>2. QED
    BY <1>1, <2>1 DEF PoolInv, PoolShape, PoolTypeOK
<1>5. TakenInv'
  <2>1. TakenOnce'
    <3>1. \A v \in Running : doing[v] < next
      BY DEF PoolInv, TakenInv
    <3>2. \A v \in Running : doing[v] # next
      BY <1>2, <3>1, PoolTypes
    <3>3. QED
      BY <1>3, <3>2 DEF TakenOnce, PoolInv, TakenInv
  <2>2. \A v \in Running' : doing'[v] < next' /\ results'[doing'[v]] = Unsettled
    <3>1. next < next' /\ results[next] = Unsettled
      BY <1>1, <1>2 DEF PoolInv, TakenInv
    <3>2. \A v \in Running : doing[v] < next /\ doing[v] \in Nat /\ results[doing[v]] = Unsettled
      BY PoolTypes DEF PoolInv, TakenInv
    <3>3. QED
      BY <1>1, <1>2, <1>3, <3>1, <3>2
  <2>3. ASSUME NEW i \in Index
        PROVE  /\ i >= next' => results'[i] = Unsettled
               /\ i < next' /\ results'[i] = Unsettled => \E v \in Running' : doing'[v] = i
    <3>1. i \in Nat
      BY PoolNumbers
    <3>2. CASE i = next
      BY <1>1, <1>2, <1>3, <3>2
    <3>3. CASE i # next
      BY <1>1, <1>2, <1>3, <3>1, <3>3 DEF PoolInv, TakenInv
    <3>4. QED
      BY <3>2, <3>3
  <2>4. QED
    BY <2>1, <2>2, <2>3 DEF TakenInv
<1>6. ResultInv'
  <2>1. settled # "fulfilled"
    BY <1>1, <1>2, PoolNumbers DEF PoolInv, ResultInv
  <2>2. QED
    BY <1>1, <2>1 DEF PoolInv, ResultInv
<1>7. QED
  BY <1>4, <1>5, <1>6 DEF PoolInv

\* A worker that has settled its index leaves the others theirs.
LEMMA SettledIsTaken ==
    ASSUME PoolInv, NEW w \in Running, NEW r \in ResultSet, r.status # Waiting, next' = next,
           results' = [results EXCEPT ![doing[w]] = r], doing' = [doing EXCEPT ![w] = NoIndex]
    PROVE  /\ TakenInv' /\ doing' \in [Workers -> 0 .. Items] /\ results' \in [Index -> ResultSet]
           /\ doing[w] \in Index /\ Running' = Running \ {w}
           /\ \A i \in Index : results'[i] = IF i = doing[w] THEN r ELSE results[i]
<1>1. PICK j \in Index : j = doing[w]
  BY PoolTypes
<1>2. /\ results' \in [Index -> ResultSet] /\ results'[j] = r /\ \A i \in Index : i # j => results'[i] = results[i]
  BY <1>1, PoolTypes
<1>3. /\ doing' \in [Workers -> 0 .. Items] /\ Running' = Running \ {w} /\ \A v \in Running' : doing'[v] = doing[v]
  BY PoolTypes, PoolNumbers DEF Running
<1>4. r # Unsettled
  BY PoolNumbers
<1>5. \A v \in Running' : doing'[v] # j /\ doing'[v] \in Index
  BY <1>1, <1>3, PoolTypes DEF PoolInv, TakenInv, TakenOnce
<1>6. TakenInv'
  <2>1. TakenOnce'
    BY <1>3 DEF TakenOnce, PoolInv, TakenInv
  <2>2. \A v \in Running' : doing'[v] < next' /\ results'[doing'[v]] = Unsettled
    BY <1>2, <1>3, <1>5 DEF PoolInv, TakenInv
  <2>3. ASSUME NEW i \in Index
        PROVE  /\ i >= next' => results'[i] = Unsettled
               /\ i < next' /\ results'[i] = Unsettled => \E v \in Running' : doing'[v] = i
    <3>1. CASE i = j
      <4>1. j < next /\ j \in Nat /\ next \in Nat
        BY <1>1, PoolTypes DEF PoolInv, TakenInv
      <4>2. QED
        BY <1>2, <1>4, <3>1, <4>1
    <3>2. CASE i # j
      BY <1>1, <1>2, <1>3, <3>2 DEF PoolInv, TakenInv
    <3>3. QED
      BY <3>1, <3>2
  <2>4. QED
    BY <2>1, <2>2, <2>3 DEF TakenInv
<1>7. QED
  BY <1>1, <1>2, <1>3, <1>6

\* What the promise of the pool settles to.
LEMMA SettlesMeans ==
    ASSUME PoolInv, Settles, doing' \in [Workers -> 0 .. Items]
    PROVE  /\ settled' \in {Waiting, "fulfilled", "rejected"}
           /\ settled' = "rejected" => pool = "days"
           /\ settled # "fulfilled" /\ settled' = "fulfilled" =>
                  /\ next > Items /\ Running' = {}
                  /\ pool = "days" => \A i \in Index : results'[i].status # "rejected"
<1>1. settled' = IF settled # Waiting THEN settled
                 ELSE IF pool = "days" /\ \E i \in Index : results'[i].status = "rejected" THEN "rejected"
                 ELSE IF next > Items /\ \A w \in Workers : doing'[w] = NoIndex THEN "fulfilled" ELSE Waiting
  BY DEF Settles
<1>2. settled \in {Waiting, "fulfilled", "rejected"} /\ (settled = "rejected" => pool = "days")
  BY PoolTypes DEF PoolInv, ResultInv
<1>3. QED
  BY <1>1, <1>2, PoolNumbers DEF Running

\* A day or a plugin settles.
LEMMA SettledKeeps ==
    ASSUME PoolInv, NEW w \in Running, NEW r \in ResultSet, r.status # Waiting, next' = next, Settles,
           results' = [results EXCEPT ![doing[w]] = r], doing' = [doing EXCEPT ![w] = NoIndex],
           pool' = pool, rowsOf' = rowsOf, got' \in [Index -> Nat],
           \A i \in Index : got'[i] <= rowsOf[i] /\ got'[i] <= MaxRows,
           \A i \in Index : i # doing[w] => got'[i] = got[i],
           pool = "plugins" => r.of = doing[w],
           pool = "days" /\ r.status = "fulfilled" => got'[doing[w]] = rowsOf[doing[w]]
    PROVE  PoolInv'
<1>1. /\ TakenInv' /\ doing' \in [Workers -> 0 .. Items] /\ results' \in [Index -> ResultSet]
      /\ doing[w] \in Index /\ Running' = Running \ {w}
      /\ \A i \in Index : results'[i] = IF i = doing[w] THEN r ELSE results[i]
  BY SettledIsTaken
<1>2. /\ settled' \in {Waiting, "fulfilled", "rejected"}
      /\ settled' = "rejected" => pool = "days"
      /\ settled # "fulfilled" /\ settled' = "fulfilled" =>
             /\ next > Items /\ Running' = {}
             /\ pool = "days" => \A i \in Index : results'[i].status # "rejected"
  BY <1>1, SettlesMeans
<1>3. settled # "fulfilled"
  BY DEF PoolInv, ResultInv
<1>4. got' \in [Index -> 0 .. MaxRows]
  BY PoolNumbers
<1>5. PoolShape'
  BY <1>1, <1>2, <1>4 DEF PoolInv, PoolShape, PoolTypeOK
<1>6. ResultInv'
  <2>1. pool = "plugins" => \A i \in Index : results'[i] # Unsettled => results'[i].of = i
    BY <1>1 DEF PoolInv, ResultInv
  <2>2. pool = "days" => \A i \in Index : results'[i].status = "fulfilled" => got'[i] = rowsOf[i]
    BY <1>1 DEF PoolInv, ResultInv
  <2>3. \A i \in Index : results'[i].status = Waiting <=> results'[i] = Unsettled
    BY <1>1, PoolNumbers DEF PoolInv, ResultInv
  <2>4. QED
    BY <1>2, <1>3, <2>1, <2>2, <2>3 DEF ResultInv
<1>7. QED
  BY <1>1, <1>5, <1>6 DEF PoolInv

\* queries.ts: a page of a day is stored; the last one settles the day.
LEMMA FetchPageKeeps ==
    ASSUME PoolInv, NEW w \in Workers, FetchPage(w)
    PROVE  PoolInv'
<1>1. PICK i : i = doing[w]
  OBVIOUS
<1>2. /\ pool = "days" /\ i # NoIndex /\ got' = [got EXCEPT ![i] = @ + NextPage(i)]
      /\ IF LastPage(NextPage(i))
         THEN /\ results' = [results EXCEPT ![i] = [status |-> "fulfilled", of |-> i]]
              /\ doing' = [doing EXCEPT ![w] = NoIndex]
         ELSE results' = results /\ doing' = doing
      /\ Settles /\ pool' = pool /\ rowsOf' = rowsOf /\ next' = next
  BY <1>1 DEF FetchPage
<1>3. w \in Running /\ i \in Index /\ i \in Nat
  BY <1>1, <1>2, PoolTypes DEF Running
<1>4. /\ got \in [Index -> Nat] /\ rowsOf \in [Index -> Nat] /\ rowsOf \in [Index -> 0 .. MaxRows]
      /\ \A j \in Index : got[j] <= rowsOf[j] /\ rowsOf[j] <= MaxRows
  BY PoolTypes, PoolNumbers DEF PoolInv, PoolShape
<1>5. /\ NextPage(i) \in Nat /\ got[i] + NextPage(i) <= rowsOf[i]
      /\ LastPage(NextPage(i)) => got[i] + NextPage(i) = rowsOf[i]
  BY <1>3, <1>4, NextPageIs
<1>6. /\ got' \in [Index -> Nat] /\ got'[i] = got[i] + NextPage(i)
      /\ \A j \in Index : j # i => got'[j] = got[j]
  BY <1>2, <1>3, <1>4, <1>5
<1>7. \A j \in Index : got'[j] <= rowsOf[j] /\ got'[j] <= MaxRows
  <2>1. ASSUME NEW j \in Index PROVE got'[j] <= rowsOf[j] /\ got'[j] <= MaxRows
    <3>1. got'[j] \in Nat /\ rowsOf[j] \in Nat /\ rowsOf[j] <= MaxRows /\ got'[j] <= rowsOf[j]
      BY <1>4, <1>5, <1>6
    <3>2. QED
      BY <3>1, PoolNumbers
  <2>2. QED
    BY <2>1
<1>8. CASE LastPage(NextPage(i))
  <2>1. PICK r \in ResultSet : r = [status |-> "fulfilled", of |-> i]
    BY <1>3 DEF ResultSet
  <2>2. r.status = "fulfilled" /\ r.status # Waiting
    BY <2>1, PoolNumbers
  <2>3. QED
    BY <1>1, <1>2, <1>3, <1>5, <1>6, <1>7, <1>8, <2>1, <2>2, SettledKeeps
<1>9. CASE ~LastPage(NextPage(i))
  <2>1. results' = results /\ doing' = doing /\ Running' = Running
    BY <1>2, <1>9 DEF Running
  <2>2. /\ settled' \in {Waiting, "fulfilled", "rejected"} /\ settled # "fulfilled"
        /\ settled' # "fulfilled"
    <3>1. settled # "fulfilled" /\ Running' # {}
      BY <1>3, <2>1 DEF PoolInv, ResultInv
    <3>2. doing' \in [Workers -> 0 .. Items]
      BY <2>1, PoolTypes
    <3>3. QED
      BY <1>2, <3>1, <3>2, SettlesMeans
  <2>3. got' \in [Index -> 0 .. MaxRows]
    BY <1>6, <1>7, PoolNumbers
  <2>4. PoolShape'
    BY <1>2, <1>6, <1>7, <2>1, <2>2, <2>3 DEF PoolInv, PoolShape, PoolTypeOK
  <2>5. TakenInv'
    BY <1>2, <2>1 DEF PoolInv, TakenInv, TakenOnce
  <2>6. ResultInv'
    <3>1. results[i].status # "fulfilled"
      BY <1>1, <1>3, PoolNumbers DEF PoolInv, TakenInv
    <3>2. QED
      BY <1>2, <1>6, <2>1, <2>2, <3>1 DEF PoolInv, ResultInv
  <2>7. QED
    BY <2>4, <2>5, <2>6 DEF PoolInv
<1>10. QED
  BY <1>8, <1>9

\* queries.ts: a day that fails settles as rejected.
LEMMA DayFailsKeeps ==
    ASSUME PoolInv, NEW w \in Workers, DayFails(w)
    PROVE  PoolInv'
<1>1. PICK i : i = doing[w]
  OBVIOUS
<1>2. /\ pool = "days" /\ i # NoIndex /\ got' = [got EXCEPT ![i] = 0]
      /\ results' = [results EXCEPT ![i] = [status |-> "rejected", of |-> w]]
      /\ doing' = [doing EXCEPT ![w] = NoIndex]
      /\ Settles /\ pool' = pool /\ rowsOf' = rowsOf /\ next' = next
  BY <1>1 DEF DayFails
<1>3. w \in Running /\ i \in Index /\ i \in Nat
  BY <1>1, <1>2, PoolTypes DEF Running
<1>4. /\ got' \in [Index -> Nat] /\ \A j \in Index : j # i => got'[j] = got[j]
      /\ \A j \in Index : got'[j] <= rowsOf[j] /\ got'[j] <= MaxRows
  BY <1>2, <1>3, PoolTypes, PoolNumbers
<1>5. PICK r \in ResultSet : r = [status |-> "rejected", of |-> w]
  BY DEF ResultSet
<1>6. r.status = "rejected" /\ r.status # Waiting
  BY <1>5, PoolNumbers
<1>7. QED
  BY <1>1, <1>2, <1>3, <1>4, <1>5, <1>6, SettledKeeps

\* orchestrator.ts: a plugin settles in the place of its index.
LEMMA RunPluginKeeps ==
    ASSUME PoolInv, NEW w \in Workers, RunPlugin(w)
    PROVE  PoolInv'
<1> DEFINE i == doing[w]
<1>1. PICK how \in {"fulfilled", "rejected"} :
         /\ pool = "plugins" /\ i # NoIndex
         /\ results' = [results EXCEPT ![i] = [status |-> how, of |-> i]]
         /\ got' = (IF how = "fulfilled" THEN [got EXCEPT ![i] = rowsOf[i]] ELSE got)
         /\ doing' = [doing EXCEPT ![w] = NoIndex]
         /\ Settles /\ pool' = pool /\ rowsOf' = rowsOf /\ next' = next
  BY DEF RunPlugin, SlotOf
<1>2. w \in Running /\ i \in Index /\ i \in Nat
  BY <1>1, PoolTypes DEF Running
<1>3. rowsOf \in [Index -> 0 .. MaxRows]
  BY DEF PoolInv, PoolShape
<1>4. /\ got' \in [Index -> Nat] /\ \A j \in Index : j # i => got'[j] = got[j]
      /\ \A j \in Index : got'[j] <= rowsOf[j] /\ got'[j] <= MaxRows
  BY <1>1, <1>2, <1>3, PoolTypes, PoolNumbers
<1>5. PICK r \in ResultSet : r = [status |-> how, of |-> i]
  BY <1>2 DEF ResultSet
<1>6. r.status # Waiting /\ r.of = i
  BY <1>5, PoolNumbers
<1>7. QED
  BY <1>1, <1>2, <1>4, <1>5, <1>6, SettledKeeps

\* orchestrator.ts and queries.ts: every step of a pool.
LEMMA PoolStep == PoolInv /\ [PoolNext]_poolVars => PoolInv'
<1>1. ASSUME PoolInv, UNCHANGED poolVars PROVE PoolInv'
  <2>1. /\ pool' = pool /\ rowsOf' = rowsOf /\ next' = next /\ doing' = doing /\ results' = results
        /\ got' = got /\ settled' = settled /\ Running' = Running
    BY <1>1 DEF poolVars, Running
  <2>2. QED
    BY <1>1, <2>1 DEF PoolInv, PoolShape, PoolTypeOK, TakenInv, TakenOnce, ResultInv
<1>2. QED
  BY <1>1, TakeNextKeeps, FetchPageKeeps, DayFailsKeeps, RunPluginKeeps DEF PoolNext

\* What the invariant says of the results.
LEMMA PoolMeans ==
    ASSUME PoolInv
    PROVE  PoolTypeOK /\ TakenOnce /\ AttributedToItsPlugin /\ NoRowLost
<1>1. PoolTypeOK /\ TakenOnce
  BY DEF PoolInv, PoolShape, TakenInv
<1>2. settled = "fulfilled" => \A i \in Index : results[i] # Unsettled
  <2>1. ASSUME settled = "fulfilled", NEW i \in Index PROVE results[i] # Unsettled
    <3>1. i < next /\ Running = {}
      BY <2>1, PoolTypes, PoolNumbers DEF PoolInv, ResultInv
    <3>2. QED
      BY <3>1 DEF PoolInv, TakenInv
  <2>2. QED
    BY <2>1
<1>3. AttributedToItsPlugin
  <2>1. settled \in {Waiting, "fulfilled", "rejected"} /\ (settled = "rejected" => pool = "days")
    BY PoolTypes DEF PoolInv, ResultInv
  <2>2. QED
    BY <1>2, <2>1 DEF AttributedToItsPlugin, PoolInv, ResultInv
<1>4. NoRowLost
  <2>1. ASSUME pool = "days", settled = "fulfilled" PROVE got = rowsOf
    <3>1. \A i \in Index : results[i].status = "fulfilled"
      <4>1. \A i \in Index : results[i].status \in {Waiting, "fulfilled", "rejected"}
        BY PoolTypes DEF ResultSet
      <4>2. QED
        BY <1>2, <2>1, <4>1 DEF PoolInv, ResultInv
    <3>2. \A i \in Index : got[i] = rowsOf[i]
      BY <2>1, <3>1 DEF PoolInv, ResultInv
    <3>3. QED
      BY <3>2, PoolTypes
  <2>2. QED
    BY <2>1 DEF NoRowLost
<1>5. QED
  BY <1>1, <1>3, <1>4

\* An audit misses no page of its site and no result of a page
\* (site-discovery.ts, orchestrator.ts, queries.ts).
THEOREM NothingIsMissed == DiscoverySpec /\ PoolSpec => []SiteCovered
<1>1. DiscoverySpec => []DiscoveryInv
  BY DiscoveryInvInit, DiscoveryStep, PTL DEF DiscoverySpec
<1>2. PoolSpec => []PoolInv
  BY PoolInvInit, PoolStep, PTL DEF PoolSpec
<1>3. DiscoveryInv /\ PoolInv => SiteCovered
  BY DiscoveryMeans, PoolMeans DEF SiteCovered
<1>4. QED
  BY <1>1, <1>2, <1>3, PTL
=============================================================================
