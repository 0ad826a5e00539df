--------------------------- MODULE FindingsProofs ---------------------------
(***************************************************************************)
(* Theorems about what is built on findings.                               *)
(*                                                                         *)
(*   DecisionsAreKept   Suggestions: what a user decided of a suggestion   *)
(*                      stays decided, but for the requests that were      *)
(*                      already past their check;                          *)
(*   LineageIsExact     PageReaudit: findings of a rule form one chain but *)
(*                      for audits that overlapped, and the diff of a      *)
(*                      second audit is the difference of the two.         *)
(*                                                                         *)
(* Both models take the least or the newest of some rows; that one exists  *)
(* is FirstOf: a finite set has a first element in any strict order.       *)
(***************************************************************************)
EXTENDS PageReaudit, Suggestions, BullJobProofs, FiniteSetTheorems, WellFoundedInduction, TLAPS
-----------------------------------------------------------------------------
(* Numbers in finite sets. *)

\* A finite set that is not empty has an element nothing in it precedes,
\* whatever irreflexive and transitive order R it is given.
LEMMA FirstOf ==
    ASSUME NEW S, IsFiniteSet(S), S # {},
           NEW R, \A x \in S : <<x, x>> \notin R,
           \A x, y, z \in S : <<x, y>> \in R /\ <<y, z>> \in R => <<x, z>> \in R
    PROVE  \E x \in S : \A y \in S : <<y, x>> \notin R
<1> DEFINE below(x) == {y \in S : <<y, x>> \in R}
           family == {below(x) : x \in S}
<1>1. IsWellFoundedOn(StrictSubsetOrdering(S), FiniteSubsetsOf(S))
  BY FS_StrictSubsetOrderingWellFounded
<1>2. family \subseteq FiniteSubsetsOf(S) /\ family # {}
  <2>1. \A x \in S : below(x) \in SUBSET S
    OBVIOUS
  <2>2. \A x \in S : IsFiniteSet(below(x))
    BY <2>1, FS_Subset
  <2> HIDE DEF below
  <2>3. family # {}
    OBVIOUS
  <2>4. \A b \in family : b \in FiniteSubsetsOf(S)
    BY <2>1, <2>2 DEF FiniteSubsetsOf
  <2>5. QED
    BY <2>3, <2>4
<1> HIDE DEF family
<1>3. \E b \in family : \A c \in family : ~(<<c, b>> \in StrictSubsetOrdering(S))
  BY <1>1, <1>2, WFMin
<1>4. PICK b \in family : \A c \in family : ~(<<c, b>> \in StrictSubsetOrdering(S))
  BY <1>3
<1>5. PICK x \in S : b = below(x)
  BY DEF family
<1>6. ASSUME NEW y \in S, <<y, x>> \in R PROVE FALSE
  <2>1. below(y) \in family
    BY DEF family
  <2>2. below(y) \subseteq below(x)
    BY <1>6
  <2>3. y \in below(x) /\ y \notin below(y)
    BY <1>6
  <2>4. <<below(y), b>> \in StrictSubsetOrdering(S)
    <3> DEFINE u == below(y)
               v == below(x)
    <3>1. u \in SUBSET S /\ v \in SUBSET S /\ u \subseteq v /\ u # v
      BY <2>2, <2>3
    <3> HIDE DEF u, v
    <3>2. <<u, v>> \in StrictSubsetOrdering(S)
      BY <3>1 DEF StrictSubsetOrdering
    <3>3. QED
      BY <1>5, <3>2 DEF u, v
  <2>5. QED
    BY <1>4, <2>1, <2>4
<1>7. QED
  BY <1>6

\* The least and the greatest of some numbers up to n are among them.
LEMMA LeastAndGreatest ==
    ASSUME NEW n \in Nat, NEW S \in SUBSET (1 .. n), S # {}
    PROVE  /\ Min(S) \in S /\ \A x \in S : Min(S) <= x
           /\ Max(S) \in S /\ \A x \in S : x <= Max(S)
<1>1. IsFiniteSet(S)
  <2>1. IsFiniteSet(1 .. n)
    BY FS_Interval
  <2>2. QED
    BY <2>1, FS_Subset
<1>2. \A x \in S : x \in Int
  OBVIOUS
<1>3. \E x \in S : \A y \in S : x <= y
  <2> DEFINE R == {p \in S \X S : p[1] < p[2]}
  <2>1. \A x, y \in S : <<x, y>> \in R <=> x < y
    OBVIOUS
  <2> HIDE DEF R
  <2>2. PICK x \in S : \A y \in S : <<y, x>> \notin R
    <3>1. \A x \in S : <<x, x>> \notin R
      BY <1>2, <2>1
    <3>2. \A x, y, z \in S : <<x, y>> \in R /\ <<y, z>> \in R => <<x, z>> \in R
      BY <1>2, <2>1
    <3>3. QED
      BY <1>1, <3>1, <3>2, FirstOf
  <2>3. ASSUME NEW y \in S PROVE x <= y
    <3>1. <<y, x>> \in R <=> y < x
      BY <2>1
    <3>2. <<y, x>> \notin R
      BY <2>2
    <3>3. x \in Int /\ y \in Int
      BY <1>2
    <3>4. QED
      BY <3>1, <3>2, <3>3
  <2>4. QED
    BY <2>3
<1>4. \E x \in S : \A y \in S : x >= y
  <2> DEFINE R == {p \in S \X S : p[1] > p[2]}
  <2>1. \A x, y \in S : <<x, y>> \in R <=> x > y
    OBVIOUS
  <2> HIDE DEF R
  <2>2. PICK x \in S : \A y \in S : <<y, x>> \notin R
    <3>1. \A x \in S : <<x, x>> \notin R
      BY <1>2, <2>1
    <3>2. \A x, y, z \in S : <<x, y>> \in R /\ <<y, z>> \in R => <<x, z>> \in R
      BY <1>2, <2>1
    <3>3. QED
      BY <1>1, <3>1, <3>2, FirstOf
  <2>3. ASSUME NEW y \in S PROVE x >= y
    <3>1. <<y, x>> \in R <=> y > x
      BY <2>1
    <3>2. <<y, x>> \notin R
      BY <2>2
    <3>3. x \in Int /\ y \in Int
      BY <1>2
    <3>4. QED
      BY <3>1, <3>2, <3>3
  <2>4. QED
    BY <2>3
<1>5. Min(S) \in S /\ \A x \in S : Min(S) <= x
  BY <1>3 DEF Min
<1>6. Max(S) \in S /\ \A x \in S : Max(S) >= x
  BY <1>4 DEF Max
<1>7. QED
  BY <1>2, <1>5, <1>6

-----------------------------------------------------------------------------
(***************************************************************************)
(* Suggestions.  A request that holds a row's id read it while it was      *)
(* pending, so the row exists, and nothing gives a row that has left       *)
(* pending that status back: a decision a page shows is never undone to    *)
(* pending, and a second pending row is never created.                     *)
(***************************************************************************)
AskPcs == {"idle", "stale", "asking", "creating", "accepting", "rejecting", "delegating"}
Ask == [pc : AskPcs, id : Ids \cup {0}]
View == [id : Ids \cup {0}, status : SuggestionStatus \cup {"none", "error"}]

Left(i) == sugg[i] \notin {"none", "pending"}

AskOk(a) ==
    /\ a.pc = "idle" => a.id = 0
    /\ a.pc \in {"stale", "accepting", "rejecting", "delegating"} =>
         a.id \in Ids /\ sugg[a.id] # "none"
    /\ a.pc = "delegating" => Left(a.id)

ViewOk(v) ==
    /\ v.status \in SuggestionStatus => v.id \in Ids /\ sugg[v.id] # "none"
    /\ v.status \in Decided => Left(v.id)

SuggInv ==
    /\ SuggTypeOK
    /\ \A i, j \in With("pending") : i = j
    /\ \A k \in Browsers : AskOk(ask[k]) /\ ViewOk(view[k])

\* What a step may do to the rows: create one, or end one.
RowsMove ==
    /\ sugg' \in [Ids -> {"none"} \cup SuggestionStatus]
    /\ fresh' \in [Ids -> BOOLEAN]
    /\ \A i \in Ids : /\ sugg[i] # "none" => sugg'[i] # "none"
                      /\ Left(i) => Left(i)'
    /\ \A i, j \in With("pending")' : i = j

\* A step of one browser that keeps the rows in order keeps the invariant.
LEMMA BrowserStep ==
    ASSUME SuggInv, RowsMove, NEW k \in Browsers, NEW a \in Ask, NEW v \in View,
           ask' = [ask EXCEPT ![k] = a], view' = [view EXCEPT ![k] = v],
           asks' \in 0 .. MaxAsks, AskOk(a)', ViewOk(v)'
    PROVE  SuggInv'
<1>1. SuggTypeOK'
  BY DEF SuggInv, SuggTypeOK, RowsMove, Ask, AskPcs, View
<1>2. ASSUME NEW b \in Browsers PROVE AskOk(ask[b])' /\ ViewOk(view[b])'
  <2>1. CASE b = k
    BY <2>1 DEF SuggInv, SuggTypeOK
  <2>2. CASE b # k
    <3>1. ask'[b] = ask[b] /\ view'[b] = view[b]
      BY <2>2 DEF SuggInv, SuggTypeOK
    <3>2. AskOk(ask[b]) /\ ViewOk(view[b])
      BY DEF SuggInv
    <3>3. Decided \subseteq SuggestionStatus
      BY DEF SuggestionStatus
    <3>4. QED
      BY <3>1, <3>2, <3>3 DEF AskOk, ViewOk, RowsMove
  <2>3. QED
    BY <2>1, <2>2
<1>3. QED
  BY <1>1, <1>2 DEF SuggInv, RowsMove

\* Rows that do not change, or of which one is ended, stay in order.
LEMMA RowsEnd ==
    ASSUME SuggInv,
           fresh' = fresh,
           \/ sugg' = sugg
           \/ \E i \in Ids, s \in SuggestionStatus \ {"pending"} : sugg' = [sugg EXCEPT ![i] = s]
    PROVE  RowsMove
<1>1. sugg \in [Ids -> {"none"} \cup SuggestionStatus] /\ fresh \in [Ids -> BOOLEAN]
  BY DEF SuggInv, SuggTypeOK
<1>2. CASE sugg' = sugg
  BY <1>1, <1>2 DEF RowsMove, Left, With, SuggInv
<1>3. ASSUME NEW i \in Ids, NEW s \in SuggestionStatus \ {"pending"}, sugg' = [sugg EXCEPT ![i] = s]
      PROVE  RowsMove
  <2>1. s \notin {"none", "pending"}
    BY DEF SuggestionStatus, Decided
  <2>2. /\ sugg'[i] = s /\ \A j \in Ids : j # i => sugg'[j] = sugg[j]
        /\ sugg' \in [Ids -> {"none"} \cup SuggestionStatus]
    BY <1>1, <1>3
  <2>3. \A j \in With("pending")' : j \in With("pending")
    BY <2>1, <2>2 DEF With
  <2>4. QED
    BY <1>1, <2>1, <2>2, <2>3 DEF RowsMove, Left, SuggInv
<1>4. QED
  BY <1>2, <1>3

\* suggestions.ts: the invariant holds before the first request ...
LEMMA InitSuggInv == SuggInit => SuggInv
BY SuggestionsAssumption
DEF SuggInit, SuggInv, SuggTypeOK, With, AskOk, ViewOk, IdleAsk, Nothing, Left, Decided,
    SuggestionStatus

\* ... and after every step.
LEMMA NextSuggInv == SuggInv /\ [SuggNext]_suggVars => SuggInv'
<1> SUFFICES ASSUME SuggInv, [SuggNext]_suggVars PROVE SuggInv'
  OBVIOUS
<1>0. /\ SuggTypeOK /\ sugg \in [Ids -> {"none"} \cup SuggestionStatus]
      /\ fresh \in [Ids -> BOOLEAN]
      /\ ask \in [Browsers -> Ask] /\ view \in [Browsers -> View]
      /\ asks \in 0 .. MaxAsks /\ MaxAsks \in Nat
      /\ IdleAsk \in Ask /\ ErrorCard \in View /\ Nothing \in View
  BY SuggestionsAssumption DEF SuggInv, SuggTypeOK, Ask, AskPcs, View, IdleAsk, ErrorCard, Nothing
<1>s. /\ Decided \subseteq SuggestionStatus
      /\ SuggestionStatus = {"pending", "superseded", "accepted", "rejected"}
      /\ Decided = {"accepted", "rejected"}
  BY DEF SuggestionStatus, Decided
<1>1. ASSUME NEW k \in Browsers
      PROVE  /\ ask[k] \in Ask /\ view[k] \in View /\ AskOk(ask[k]) /\ ViewOk(view[k])
             /\ \A p : [ask EXCEPT ![k].pc = p] = [ask EXCEPT ![k] = [pc |-> p, id |-> ask[k].id]]
             /\ view = [view EXCEPT ![k] = view[k]] /\ ask = [ask EXCEPT ![k] = ask[k]]
  BY <1>0 DEF SuggInv, Ask
\* The rows are as they were: only the ids and the shown statuses matter.
<1>2. ASSUME NEW k \in Browsers, NEW a \in Ask, NEW v \in View, UNCHANGED <<sugg, fresh>>,
             ask' = [ask EXCEPT ![k] = a], view' = [view EXCEPT ![k] = v],
             asks' \in 0 .. MaxAsks, AskOk(a), ViewOk(v)
      PROVE  SuggInv'
  <2>1. AskOk(a)' /\ ViewOk(v)'
    BY <1>2 DEF AskOk, ViewOk, Left
  <2>2. QED
    BY <1>2, <2>1, BrowserStep, RowsEnd
<1>i. AskOk(IdleAsk) /\ ViewOk(ErrorCard) /\ ViewOk(Nothing)
  BY <1>s DEF AskOk, ViewOk, IdleAsk, ErrorCard, Nothing
<1>3. ASSUME NEW k \in Browsers, PostRead(k) PROVE SuggInv'
  <2>1. ASSUME NEW i \in With("pending"), Begin(k, "stale", i), UNCHANGED <<sugg, fresh, view>>
        PROVE  SuggInv'
    <3> DEFINE a == [pc |-> "stale", id |-> i]
    <3>1. i \in Ids /\ sugg[i] = "pending"
      BY DEF With
    <3>2. a \in Ask /\ AskOk(a)
      BY <3>1 DEF Ask, AskPcs, AskOk
    <3>3. ask' = [ask EXCEPT ![k] = a] /\ asks' \in 0 .. MaxAsks
      BY <1>0, <2>1 DEF Begin
    <3> HIDE DEF a
    <3>4. QED
      BY <1>1, <1>2, <2>1, <3>2, <3>3
  <2>2. ASSUME Begin(k, "asking", 0), UNCHANGED <<sugg, fresh, view>> PROVE SuggInv'
    <3> DEFINE a == [pc |-> "asking", id |-> 0]
    <3>1. a \in Ask /\ AskOk(a)
      BY DEF Ask, AskPcs, AskOk
    <3>2. ask' = [ask EXCEPT ![k] = a] /\ asks' \in 0 .. MaxAsks
      BY <1>0, <2>2 DEF Begin
    <3> HIDE DEF a
    <3>3. QED
      BY <1>1, <1>2, <2>2, <3>1, <3>2
  <2>3. ASSUME NEW i \in With("pending"), asks < MaxAsks, asks' = asks + 1,
               view' = [view EXCEPT ![k] = Shown(i, "pending")], UNCHANGED <<sugg, fresh, ask>>
        PROVE  SuggInv'
    <3>1. i \in Ids /\ sugg[i] = "pending"
      BY DEF With
    <3>2. Shown(i, "pending") \in View /\ ViewOk(Shown(i, "pending"))
      BY <1>s, <3>1 DEF View, ViewOk, Shown
    <3>3. asks' \in 0 .. MaxAsks
      BY <1>0, <2>3
    <3>4. QED
      BY <1>1, <1>2, <2>3, <3>2, <3>3
  <2>4. QED
    BY <1>3, <2>1, <2>2, <2>3 DEF PostRead
<1>4. ASSUME NEW k \in Browsers, Supersede(k) PROVE SuggInv'
  <2>0. PICK n \in Ids, w \in View : n = ask[k].id /\ w = view[k]
    BY <1>1, <1>4 DEF Supersede, AskOk
  <2> DEFINE a == [pc |-> "asking", id |-> n]
  <2>1. sugg' = [sugg EXCEPT ![n] = "superseded"]
    BY <1>4, <2>0 DEF Supersede
  <2>2. RowsMove
    BY <1>4, <1>s, <2>1, RowsEnd DEF Supersede
  <2>3. a \in Ask /\ AskOk(a)' /\ ViewOk(w)'
    <3>1. ViewOk(w)
      BY <1>1, <2>0
    <3>2. QED
      BY <1>s, <2>2, <3>1 DEF Ask, AskPcs, AskOk, ViewOk, RowsMove
  <2>4. ask' = [ask EXCEPT ![k] = a] /\ view' = [view EXCEPT ![k] = w] /\ asks' = asks
    BY <1>1, <1>4, <2>0 DEF Supersede, Continue
  <2> HIDE DEF a
  <2>5. QED
    BY <1>0, <1>1, <2>2, <2>3, <2>4, BrowserStep
<1>5. ASSUME NEW k \in Browsers, SupersedeConflicts(k) \/ LlmFails(k) \/ PostConflicts(k)
      PROVE  SuggInv'
  BY <1>0, <1>1, <1>2, <1>5, <1>i DEF SupersedeConflicts, LlmFails, PostConflicts, Answer
<1>6. ASSUME NEW k \in Browsers, LlmAnswers(k) PROVE SuggInv'
  <2> DEFINE a == [pc |-> "creating", id |-> ask[k].id]
  <2>1. a \in Ask /\ AskOk(a)
    BY <1>1 DEF Ask, AskPcs, AskOk
  <2>2. ask' = [ask EXCEPT ![k] = a] /\ UNCHANGED <<sugg, fresh, view, asks>>
    BY <1>1, <1>6 DEF LlmAnswers, Continue
  <2> HIDE DEF a
  <2>3. QED
    BY <1>0, <1>1, <1>2, <2>1, <2>2
<1>7. ASSUME NEW k \in Browsers, PostCreate(k) PROVE SuggInv'
  <2>1. PICK i \in Ids : i = Min(With("none")) /\ sugg[i] = "none"
    <3>1. With("none") \in SUBSET (1 .. MaxSuggestions) /\ With("none") # {}
      BY <1>7 DEF PostCreate, With, Ids
    <3>2. Min(With("none")) \in With("none")
      BY <3>1, SuggestionsAssumption, LeastAndGreatest
    <3>3. QED
      BY <3>2 DEF With
  <2>2. /\ sugg' = [sugg EXCEPT ![i] = "pending"] /\ fresh' = [fresh EXCEPT ![i] = TRUE]
        /\ ask' = [ask EXCEPT ![k] = IdleAsk] /\ asks' = asks
        /\ view' = [view EXCEPT ![k] = Shown(i, "pending")]
        /\ With("pending") = {}
    BY <1>7, <2>1 DEF PostCreate, Answer
  <2>3. /\ sugg'[i] = "pending" /\ \A j \in Ids : j # i => sugg'[j] = sugg[j]
    BY <1>0, <2>1, <2>2
  <2>4. RowsMove
    <3>1. \A j \in With("pending")' : j = i
      BY <2>2, <2>3 DEF With
    <3>2. sugg' \in [Ids -> {"none"} \cup SuggestionStatus] /\ fresh' \in [Ids -> BOOLEAN]
      BY <1>0, <1>s, <2>2
    <3>3. QED
      BY <2>1, <2>3, <3>1, <3>2 DEF RowsMove, Left
  <2>5. Shown(i, "pending") \in View /\ ViewOk(Shown(i, "pending"))' /\ AskOk(IdleAsk)'
    BY <1>s, <2>1, <2>3 DEF View, ViewOk, Shown, AskOk, IdleAsk
  <2>6. QED
    BY <1>0, <2>2, <2>4, <2>5, BrowserStep
<1>8. ASSUME NEW k \in Browsers, DecideRead(k) PROVE SuggInv'
  <2>1. view[k].id \in Ids /\ sugg[view[k].id] = "pending"
    BY <1>1, <1>8, <1>s DEF DecideRead, ViewOk
  <2>2. PICK p \in {"accepting", "rejecting"} : Begin(k, p, view[k].id)
    BY <1>8 DEF DecideRead
  <2> DEFINE a == [pc |-> p, id |-> view[k].id]
  <2>3. a \in Ask /\ AskOk(a)
    BY <2>1 DEF Ask, AskPcs, AskOk
  <2>4. ask' = [ask EXCEPT ![k] = a] /\ asks' \in 0 .. MaxAsks
    BY <1>0, <2>2 DEF Begin
  <2> HIDE DEF a
  <2>5. QED
    BY <1>1, <1>2, <1>8, <2>3, <2>4 DEF DecideRead
<1>9. ASSUME NEW k \in Browsers, DecideRefused(k) PROVE SuggInv'
  <2>1. asks' \in 0 .. MaxAsks /\ UNCHANGED <<sugg, fresh, ask, view>>
    BY <1>0, <1>9 DEF DecideRefused
  <2>2. QED
    BY <1>1, <1>2, <2>1
<1>10. ASSUME NEW k \in Browsers, AcceptWrite(k) PROVE SuggInv'
  <2>0. PICK n \in Ids, w \in View : n = ask[k].id /\ w = view[k]
    BY <1>1, <1>10 DEF AcceptWrite, AskOk
  <2> DEFINE a == [pc |-> "delegating", id |-> n]
  <2>1. sugg' = [sugg EXCEPT ![n] = "accepted"]
    BY <1>10, <2>0 DEF AcceptWrite
  <2>2. RowsMove
    BY <1>10, <1>s, <2>1, RowsEnd DEF AcceptWrite
  <2>3. sugg'[n] = "accepted"
    BY <1>0, <2>1
  <2>4. a \in Ask /\ AskOk(a)' /\ ViewOk(w)'
    <3>1. ViewOk(w)
      BY <1>1, <2>0
    <3>2. QED
      BY <1>s, <2>2, <2>3, <3>1 DEF Ask, AskPcs, AskOk, ViewOk, RowsMove, Left
  <2>5. ask' = [ask EXCEPT ![k] = a] /\ view' = [view EXCEPT ![k] = w] /\ asks' = asks
    BY <1>1, <1>10, <2>0 DEF AcceptWrite, Continue
  <2> HIDE DEF a
  <2>6. QED
    BY <1>0, <1>1, <2>2, <2>4, <2>5, BrowserStep
<1>11. ASSUME NEW k \in Browsers, RejectWrite(k) PROVE SuggInv'
  <2>0. PICK n \in Ids : n = ask[k].id
    BY <1>1, <1>11 DEF RejectWrite, AskOk
  <2> DEFINE v == Shown(n, "rejected")
  <2>1. sugg' = [sugg EXCEPT ![n] = "rejected"]
    BY <1>11, <2>0 DEF RejectWrite
  <2>2. RowsMove
    BY <1>11, <1>s, <2>1, RowsEnd DEF RejectWrite
  <2>3. sugg'[n] = "rejected"
    BY <1>0, <2>1
  <2>4. v \in View /\ ViewOk(v)' /\ AskOk(IdleAsk)'
    BY <1>s, <2>1, <2>3 DEF View, ViewOk, Shown, Left, AskOk, IdleAsk
  <2>5. ask' = [ask EXCEPT ![k] = IdleAsk] /\ view' = [view EXCEPT ![k] = v] /\ asks' = asks
    BY <1>11, <2>0 DEF RejectWrite, Answer
  <2> HIDE DEF v
  <2>6. QED
    BY <1>0, <2>2, <2>4, <2>5, BrowserStep
<1>12. ASSUME NEW k \in Browsers, DecideConflicts(k) PROVE SuggInv'
  BY <1>0, <1>1, <1>2, <1>12, <1>i DEF DecideConflicts, Answer
<1>13. ASSUME NEW k \in Browsers, Delegate(k) PROVE SuggInv'
  <2> DEFINE v == Shown(ask[k].id, "accepted")
  <2>1. ask[k].id \in Ids /\ Left(ask[k].id)
    BY <1>1, <1>13 DEF Delegate, AskOk
  <2>2. v \in View /\ ViewOk(v)
    BY <1>s, <2>1 DEF View, ViewOk, Shown, Left
  <2>3. PICK w \in {view[k], v} : Answer(k, w)
    BY <1>13 DEF Delegate
  <2>4. w \in View /\ ViewOk(w)
    BY <1>1, <2>2
  <2>5. UNCHANGED <<sugg, fresh>>
    BY <1>13 DEF Delegate
  <2> HIDE DEF v
  <2>6. QED
    BY <1>0, <1>2, <1>i, <2>3, <2>4, <2>5 DEF Answer
<1>14. ASSUME NEW k \in Browsers, Load(k) PROVE SuggInv'
  <2> DEFINE all == {i \in Ids : sugg[i] # "none"}
             v == IF all = {} THEN Nothing ELSE Shown(Max(all), sugg[Max(all)])
  <2>1. v \in View /\ ViewOk(v)
    <3>1. CASE all = {}
      BY <1>0, <1>i, <3>1
    <3>2. CASE all # {}
      <4>1. Max(all) \in all
        BY <3>2, SuggestionsAssumption, LeastAndGreatest DEF Ids
      <4>2. PICK m \in Ids : m = Max(all) /\ sugg[m] # "none"
        BY <4>1
      <4>3. v = Shown(m, sugg[m])
        BY <3>2, <4>2
      <4>4. QED
        BY <1>0, <1>s, <4>2, <4>3 DEF View, ViewOk, Shown, Left
    <3>3. QED
      BY <3>1, <3>2
  <2>2. view' = [view EXCEPT ![k] = v] /\ UNCHANGED <<sugg, fresh, ask, asks>>
    BY <1>14 DEF Load
  <2> HIDE DEF v
  <2>3. QED
    BY <1>0, <1>1, <1>2, <2>1, <2>2
<1>15. ASSUME NEW k \in Browsers, AskLost(k) PROVE SuggInv'
  BY <1>0, <1>1, <1>2, <1>15, <1>i DEF AskLost
<1>16. CASE (\E i \in Ids : AgeOut(i)) \/ UNCHANGED suggVars
  <2>1. UNCHANGED <<sugg, ask, view, asks>> /\ fresh' \in [Ids -> BOOLEAN]
    BY <1>0, <1>16 DEF AgeOut, suggVars
  <2>2. QED
    BY <2>1 DEF SuggInv, SuggTypeOK, With, AskOk, ViewOk, Left
<1>17. QED
  BY <1>3, <1>4, <1>5, <1>6, <1>7, <1>8, <1>9, <1>10, <1>11, <1>12, <1>13, <1>14, <1>15, <1>16
  DEF SuggNext

\* Moving a request on keeps the row it names.
LEMMA AskMoves ==
    ASSUME ask \in [Browsers -> Ask], NEW k \in Browsers, NEW q
    PROVE  [ask EXCEPT ![k].pc = q] = [ask EXCEPT ![k] = [pc |-> q, id |-> ask[k].id]]
<1>1. [ask[k] EXCEPT !.pc = q] = [pc |-> q, id |-> ask[k].id]
  BY DEF Ask
<1>2. QED
  BY <1>1, Zenon

\* suggestions.ts: a decision changes only under a request that read the row
\* while it was pending.
LEMMA DecisionStep ==
    ASSUME SuggInv, SuggNext
    PROVE  /\ \A i \in Ids : (sugg[i] \in Decided /\ sugg'[i] # sugg[i]) =>
                \E k \in Browsers : ask[k].id = i /\ ask[k].pc \in {"stale", "accepting", "rejecting"}
           /\ \A k \in Browsers :
                (ask[k].pc = "idle" /\ ask'[k].id # 0) => sugg[ask'[k].id] = "pending"
<1>0. /\ sugg \in [Ids -> {"none"} \cup SuggestionStatus]
      /\ ask \in [Browsers -> Ask]
      /\ \A k \in Browsers : AskOk(ask[k])
  BY DEF SuggInv, SuggTypeOK, Ask, AskPcs
<1>1. ASSUME NEW i \in Ids, sugg[i] \in Decided, sugg'[i] # sugg[i]
      PROVE  \E k \in Browsers : ask[k].id = i /\ ask[k].pc \in {"stale", "accepting", "rejecting"}
  <2>1. ASSUME NEW k \in Browsers, PostCreate(k) PROVE FALSE
    <3>1. With("none") \in SUBSET (1 .. MaxSuggestions) /\ With("none") # {}
      BY <2>1 DEF PostCreate, With, Ids
    <3>2. Min(With("none")) \in With("none")
      BY <3>1, SuggestionsAssumption, LeastAndGreatest
    <3>3. PICK j \in Ids : sugg[j] = "none" /\ j = Min(With("none"))
      BY <3>2 DEF With
    <3>4. sugg' = [sugg EXCEPT ![j] = "pending"] /\ i # j
      BY <1>1, <2>1, <3>3 DEF PostCreate, Decided
    <3>5. QED
      BY <1>0, <1>1, <3>4
  <2>2. PICK k \in Browsers : Supersede(k) \/ AcceptWrite(k) \/ RejectWrite(k)
    <3>1. CASE \E k \in Browsers : Supersede(k) \/ AcceptWrite(k) \/ RejectWrite(k)
      BY <3>1
    <3>2. CASE ~(\E k \in Browsers : Supersede(k) \/ AcceptWrite(k) \/ RejectWrite(k))
      <4>1. sugg' = sugg
        BY <2>1, <3>2
        DEF SuggNext, PostRead, SupersedeConflicts, LlmAnswers, LlmFails, PostConflicts, DecideRead,
            DecideRefused, DecideConflicts, Delegate, Load, AskLost, AgeOut
      <4>2. QED
        BY <1>1, <4>1
    <3>3. QED
      BY <3>1, <3>2
  <2>3. /\ ask[k].pc \in {"stale", "accepting", "rejecting"}
        /\ \E s : sugg' = [sugg EXCEPT ![ask[k].id] = s]
    BY <2>2 DEF Supersede, AcceptWrite, RejectWrite
  <2>4. ask[k].id = i
    BY <1>0, <1>1, <2>3
  <2>5. QED
    BY <2>3, <2>4
<1>2. ASSUME NEW k \in Browsers, ask[k].pc = "idle", ask'[k].id # 0
      PROVE  sugg[ask'[k].id] = "pending"
  <2>1. ask[k].id = 0
    BY <1>0, <1>2 DEF AskOk
  <2>2. PICK b \in Browsers, p \in AskPcs, i \in Ids \cup {0} :
           /\ ask' = [ask EXCEPT ![b] = [pc |-> p, id |-> i]]
           /\ ask[b].pc = "idle" => i = 0 \/ sugg[i] = "pending"
    <3>1. ask' # ask
      BY <1>2, <2>1
    <3>2. PICK b \in Browsers :
             \/ PostRead(b) \/ Supersede(b) \/ SupersedeConflicts(b)
             \/ LlmAnswers(b) \/ LlmFails(b) \/ PostCreate(b) \/ PostConflicts(b)
             \/ DecideRead(b) \/ AcceptWrite(b) \/ RejectWrite(b)
             \/ DecideConflicts(b) \/ Delegate(b) \/ AskLost(b)
      BY <3>1 DEF SuggNext, DecideRefused, Load, AgeOut
    <3>3. ask[b] \in Ask
      BY <1>0
    <3>4. CASE PostRead(b) \/ DecideRead(b)
      <4>1. ASSUME NEW q, NEW i, Begin(b, q, i)
            PROVE  ask' = [ask EXCEPT ![b] = [pc |-> q, id |-> i]]
        BY <4>1 DEF Begin
      <4>2. CASE DecideRead(b)
        <5>1. view[b].id \in Ids /\ sugg[view[b].id] = "pending"
          BY <4>2 DEF DecideRead, SuggInv, ViewOk, SuggestionStatus
        <5>2. QED
          BY <4>1, <4>2, <5>1 DEF DecideRead, AskPcs
      <4>3. CASE PostRead(b)
        BY <3>1, <4>1, <4>3 DEF PostRead, With, AskPcs
      <4>4. QED
        BY <3>4, <4>2, <4>3
    <3>5. CASE ~(PostRead(b) \/ DecideRead(b))
      <4>1. ask[b].pc # "idle"
        BY <3>2, <3>5
        DEF Supersede, SupersedeConflicts, LlmAnswers, LlmFails, PostCreate, PostConflicts,
            AcceptWrite, RejectWrite, DecideConflicts, Delegate, AskLost
      <4>2. \/ ask' = [ask EXCEPT ![b] = IdleAsk]
            \/ \E q \in {"asking", "creating", "delegating"} : ask' = [ask EXCEPT ![b].pc = q]
        BY <3>2, <3>5
        DEF Supersede, SupersedeConflicts, LlmAnswers, LlmFails, PostCreate, PostConflicts,
            AcceptWrite, RejectWrite, DecideConflicts, Delegate, AskLost, Answer, Continue
      <4>3. \A q : [ask EXCEPT ![b].pc = q] = [ask EXCEPT ![b] = [pc |-> q, id |-> ask[b].id]]
        BY <1>0, AskMoves
      <4>4. ask[b].id \in Ids \cup {0}
        BY <3>3 DEF Ask
      <4>5. CASE ask' = [ask EXCEPT ![b] = IdleAsk]
        BY <4>1, <4>5 DEF IdleAsk, AskPcs
      <4>6. ASSUME NEW q \in {"asking", "creating", "delegating"}, ask' = [ask EXCEPT ![b].pc = q]
            PROVE  \E p \in AskPcs, i \in Ids \cup {0} : ask' = [ask EXCEPT ![b] = [pc |-> p, id |-> i]]
        BY <4>3, <4>4, <4>6 DEF AskPcs
      <4>7. QED
        BY <4>1, <4>2, <4>5, <4>6
    <3>6. QED
      BY <3>4, <3>5
  <2>3. QED
    BY <1>0, <1>2, <2>1, <2>2
<1>3. QED
  BY <1>1, <1>2

\* suggestions.ts and FixesPage.tsx: a finding has one suggestion to decide on,
\* a page shows no decision that is not stored, and a decision is overwritten
\* by an earlier reader only, for any number of pages, suggestions and requests.
THEOREM DecisionsAreKept == SuggSpec => DecisionsKept
<1>1. SuggInv => SuggTypeOK /\ OnePending /\ ShownDecisionsAreStored
  <2>1. ASSUME SuggInv PROVE OnePending
    <3>1. CASE With("pending") = {}
      BY <3>1, FS_EmptySet DEF OnePending
    <3>2. ASSUME NEW i \in With("pending") PROVE OnePending
      <4>1. With("pending") = {i}
        BY <2>1, <3>2 DEF SuggInv
      <4>2. QED
        BY <4>1, FS_Singleton DEF OnePending
    <3>3. QED
      BY <3>1, <3>2
  <2>2. QED
    BY <2>1 DEF SuggInv, ShownDecisionsAreStored, ViewOk, Left
<1>2. SuggInv /\ [SuggNext]_suggVars =>
        [/\ \A i \in Ids : (sugg[i] \in Decided /\ sugg'[i] # sugg[i]) =>
               \E k \in Browsers : ask[k].id = i /\ ask[k].pc \in {"stale", "accepting", "rejecting"}
         /\ \A k \in Browsers :
               (ask[k].pc = "idle" /\ ask'[k].id # 0) => sugg[ask'[k].id] = "pending"]_suggVars
  BY DecisionStep
<1>3. QED
  BY <1>1, <1>2, InitSuggInv, NextSuggInv, PTL
  DEF SuggSpec, DecisionsKept, OnlyEarlierReadersOverwrite
-----------------------------------------------------------------------------
(* PageReaudit: the lineage of findings. *)

\* A finding of a committed PageAudit has one place, points to a head its row
\* read when there was one of its rule, and to nothing otherwise.
RowOk(r) ==
    \A f \in batch[r] :
       /\ \A g \in batch[r] : f.on = g.on => f = g
       /\ f.prev = None => \A h \in Heads(basis[r]) : RuleOf(h[2]) # RuleOf(f.on)
       /\ f.prev # None => f.prev \in Heads(basis[r]) /\ RuleOf(f.prev[2]) = RuleOf(f.on)

\* The types, that a row is committed once and by the execution that read its
\* basis, and that what it read was committed and stays.
LineageInv ==
    /\ PageTypeOK
    /\ \A k \in Clients : req[k].pc = "created" => req[k].row \in Rows
    /\ \A r \in Rows :
          /\ exec[r].pc \in {"audited", "linked"} => exec[r].sees \in Contents
          /\ exec[r].pc \in {"taken", "fetching", "audited", "linked", "catch"}
                => status[r] # "completed"
          /\ basis[r] \subseteq Completed
          /\ r \in Completed => RowOk(r)

\* No finding is not a finding.
LEMMA NoneIsNoPlace == \A r, o : None # <<r, o>>
BY DEF None

\* Heads are the places of the findings of rows that nothing precedes.
LEMMA HeadsArePlaces ==
    ASSUME PageTypeOK, NEW rs \in SUBSET Rows
    PROVE  /\ Heads(rs) \subseteq Rows \X Occurrences
           /\ \A r \in rs : \A f \in batch[r] : f.prev = None => <<r, f.on>> \in Heads(rs)
           /\ \A h \in Heads(rs) : \E f \in batch[h[1]] :
                h[1] \in rs /\ f.prev = None /\ f.on = h[2] /\ h = <<h[1], h[2]>>
<1>1. \A r \in rs : r \in Rows /\ \A f \in batch[r] : f.on \in Occurrences
  BY DEF PageTypeOK, Finding
<1>2. ASSUME NEW h \in Heads(rs)
      PROVE  \E r \in rs : \E f \in batch[r] : f.prev = None /\ h = <<r, f.on>>
  BY DEF Heads
<1>3. ASSUME NEW r \in rs, NEW f \in batch[r], f.prev = None
      PROVE  <<r, f.on>> \in Heads(rs)
  BY <1>3 DEF Heads
<1>4. QED
  BY <1>1, <1>2, <1>3

\* page-audit-job.ts, attachLineage: the predecessor is a head of the rule,
\* and there is one when a head of the rule was read.  Some head of the rule is
\* the newest: newer by transaction, then by place in the batch, is an order.
LEMMA PredecessorOk ==
    ASSUME PageTypeOK, NEW o \in Occurrences, NEW rs \in SUBSET Rows
    PROVE  LET p == Predecessor(o, Heads(rs)) IN
           /\ p = None => \A h \in Heads(rs) : RuleOf(h[2]) # RuleOf(o)
           /\ p # None => p \in Heads(rs) /\ RuleOf(p[2]) = RuleOf(o)
<1> DEFINE H == Heads(rs)
           same == {h \in H : RuleOf(h[2]) = RuleOf(o)}
<1>1. H \subseteq Rows \X Occurrences
  BY HeadsArePlaces
<1> HIDE DEF H
<1>2. CASE same = {}
  BY <1>2 DEF Predecessor, H
<1>3. ASSUME same # {}
      PROVE  \E h \in same : \A g \in same : ~Newer(g, h)
  <2> DEFINE at(x) == SelectInSeq(committed, LAMBDA r : r = x[1])
             R == {p \in same \X same :
                     \/ at(p[1]) > at(p[2])
                     \/ at(p[1]) = at(p[2]) /\ p[1][2][2] > p[2][2][2]}
  <2>1. \A h \in same : at(h) \in Nat /\ h[2][2] \in Nat
    <3>1. ASSUME NEW h \in same PROVE at(h) \in Nat
      <4> DEFINE I == {j \in 1 .. Len(committed) : committed[j] = h[1]}
      <4>1. Len(committed) \in Nat
        BY DEF PageTypeOK
      <4>2. CASE I = {}
        BY <4>2 DEF SelectInSeq
      <4>3. CASE I # {}
        <5>1. Min(I) \in I
          BY <4>1, <4>3, LeastAndGreatest
        <5>2. QED
          BY <4>1, <4>3, <5>1 DEF SelectInSeq
      <4>4. QED
        BY <4>2, <4>3
    <3>2. \A h \in same : h[2] \in Occurrences
      BY <1>1
    <3>3. QED
      BY <3>1, <3>2, ReauditAssumption
  <2>2. \A g, h \in same : g[1] = h[1] => at(g) = at(h)
    OBVIOUS
  <2>3. \A g, h \in same : Newer(g, h) =>
          (at(g) > at(h) \/ (g[1] = h[1] /\ g[2][2] > h[2][2]))
    BY DEF Newer
  <2>4. IsFiniteSet(same)
    <3>1. IsFiniteSet(Rows \X Occurrences)
      <4>1. IsFiniteSet(Rows)
        BY ReauditAssumption, FS_Interval DEF Rows
      <4>2. QED
        BY <4>1, ReauditAssumption, FS_Product
    <3>2. same \in SUBSET (Rows \X Occurrences)
      BY <1>1
    <3>3. QED
      BY <3>1, <3>2, FS_Subset
  <2> HIDE DEF at, same
  <2>5. \A g, h \in same : <<g, h>> \in R <=>
          (at(g) > at(h) \/ (at(g) = at(h) /\ g[2][2] > h[2][2]))
    OBVIOUS
  <2> HIDE DEF R
  <2>6. \A x \in same : <<x, x>> \notin R
    BY <2>1, <2>5
  <2>7. \A x, y, z \in same : <<x, y>> \in R /\ <<y, z>> \in R => <<x, z>> \in R
    BY <2>1, <2>5
  <2>8. PICK h \in same : \A g \in same : <<g, h>> \notin R
    BY <1>3, <2>4, <2>6, <2>7, FirstOf
  <2>9. \A g \in same : ~Newer(g, h)
    BY <2>2, <2>3, <2>5, <2>8
  <2>10. QED
    BY <2>9
<1>4. CASE same # {}
  <2>1. Predecessor(o, H) = CHOOSE h \in same : \A g \in same : ~Newer(g, h)
    BY <1>4 DEF Predecessor
  <2>2. Predecessor(o, H) \in same
    BY <1>3, <1>4, <2>1
  <2>3. Predecessor(o, H) # None
    <3>1. PICK r \in Rows, q \in Occurrences : Predecessor(o, H) = <<r, q>>
      BY <1>1, <2>2
    <3>2. QED
      BY <3>1, NoneIsNoPlace
  <2>4. QED
    BY <2>2, <2>3 DEF H
<1>5. QED
  BY <1>2, <1>4

\* Nothing is committed initially.
LEMMA InitLineageInv ==
    ASSUME PageInit
    PROVE  LineageInv
<1>1. NoJob \in Job
  BY FreshJobs
<1>2. committed = <<>> /\ <<>> \in Seq(Rows)
  BY DEF PageInit
<1>3. PageTypeOK
  BY <1>1, <1>2, ReauditAssumption
  DEF PageInit, PageTypeOK, LiveStatus, EndedStatus, IdleExec, IdleReq
<1>4. QED
  BY <1>3 DEF PageInit, LineageInv, Completed, IdleExec, IdleReq

\* A row whose batch and basis stay, and whose basis' batches stay, stays Ok.
LEMMA RowOkStays ==
    ASSUME PageTypeOK, NEW r \in Rows, RowOk(r),
           batch'[r] = batch[r], basis'[r] = basis[r],
           \A p \in basis[r] : batch'[p] = batch[p]
    PROVE  RowOk(r)'
<1>1. basis[r] \in SUBSET Rows
  BY DEF PageTypeOK
<1> DEFINE H == Heads(basis[r])
           K == UNION {{<<p, f.on>> : f \in {g \in batch'[p] : g.prev = None}} : p \in basis'[r]}
<1>3. K = H
  BY DEF Heads
<1> HIDE DEF H, K
<1>4. \A f \in batch[r] :
        /\ \A g \in batch[r] : f.on = g.on => f = g
        /\ f.prev = None => \A h \in H : RuleOf(h[2]) # RuleOf(f.on)
        /\ f.prev # None => f.prev \in H /\ RuleOf(f.prev[2]) = RuleOf(f.on)
  BY DEF RowOk, H
<1>5. QED
  BY <1>3, <1>4 DEF RowOk, Heads, K

\* CommitRow writes findings that are Ok, and findings of the model.
LEMMA CommitRowOk ==
    ASSUME LineageInv, NEW r \in Rows, CommitRow(r)
    PROVE  RowOk(r)' /\ batch' \in [Rows -> SUBSET Finding]
<1> DEFINE H == Heads(basis[r])
           P(o) == Predecessor(o, H)
           K == UNION {{<<p, f.on>> : f \in {g \in batch'[p] : g.prev = None}} : p \in basis'[r]}
           written == {[on |-> o, look |-> exec[r].sees[o], prev |-> P(o)] : o \in DOMAIN exec[r].sees}
<1>1. /\ batch \in [Rows -> SUBSET Finding] /\ basis \in [Rows -> SUBSET Rows]
      /\ basis[r] \subseteq Rows /\ basis[r] \subseteq Completed
      /\ exec[r].sees \in Contents /\ status[r] # "completed"
  BY DEF LineageInv, PageTypeOK, CommitRow
<1>2. batch' = [batch EXCEPT ![r] = written] /\ basis' = basis
  BY DEF CommitRow
<1>3. \A o \in DOMAIN exec[r].sees : o \in Occurrences /\ exec[r].sees[o] \in Looks
  BY <1>1 DEF Contents
<1>4. r \notin basis[r]
  BY <1>1 DEF Completed
<1>5. K = H
  BY <1>1, <1>2, <1>4 DEF Heads
<1>6. H \subseteq Rows \X Occurrences
  BY <1>1, HeadsArePlaces DEF LineageInv
<1>7. ASSUME NEW o \in DOMAIN exec[r].sees
      PROVE  /\ P(o) = None => \A h \in H : RuleOf(h[2]) # RuleOf(o)
             /\ P(o) # None => P(o) \in H /\ RuleOf(P(o)[2]) = RuleOf(o)
  BY <1>1, <1>3, PredecessorOk DEF LineageInv
<1> HIDE DEF H, K, P
<1>8. written \subseteq Finding
  <2>1. ASSUME NEW o \in DOMAIN exec[r].sees PROVE P(o) \in {None} \cup (Rows \X Occurrences)
    BY <1>6, <1>7
  <2>2. QED
    BY <1>3, <2>1 DEF Finding
<1>9. \A f \in written : \E o \in DOMAIN exec[r].sees : f.on = o /\ f.prev = P(o)
                                                      /\ f.look = exec[r].sees[o]
  OBVIOUS
<1>10. \A f, g \in written : f.on = g.on => f = g
  OBVIOUS
<1> HIDE DEF written
<1>11. batch'[r] = written
  BY <1>1, <1>2
<1>12. \A f \in written :
          /\ \A g \in written : f.on = g.on => f = g
          /\ f.prev = None => \A h \in H : RuleOf(h[2]) # RuleOf(f.on)
          /\ f.prev # None => f.prev \in H /\ RuleOf(f.prev[2]) = RuleOf(f.on)
  BY <1>7, <1>9, <1>10
<1>13. RowOk(r)'
  BY <1>5, <1>11, <1>12 DEF RowOk, Heads, K
<1>14. QED
  BY <1>1, <1>2, <1>8, <1>13

\* What most steps leave alone: the rows, the findings and what was read.
LEMMA RowsStand ==
    ASSUME LineageInv, UNCHANGED <<batch, basis>>, Completed' = Completed
    PROVE  \A r \in Rows : /\ basis'[r] \subseteq Completed'
                           /\ r \in Completed' => RowOk(r)'
<1>1. ASSUME NEW r \in Rows, r \in Completed'
      PROVE  RowOk(r)'
  <2>1. RowOk(r) /\ PageTypeOK
    BY <1>1 DEF LineageInv
  <2>2. QED
    BY <2>1, RowOkStays
<1>2. QED
  BY <1>1 DEF LineageInv

\* Where a handler and a POST may be.
Execs == [pc : {"idle", "taken", "fetching", "audited", "linked", "catch", "returned"},
          sees : {None} \cup Contents, at : Nat]
Reqs == [pc : {"idle", "checked", "created", "ok", "busy", "failed"}, row : Rows \cup {0}]

\* A handler moves on, and keeps what it found.
LEMMA GotoMoves ==
    ASSUME exec \in [Rows -> Execs], NEW r \in Rows,
           NEW q \in {"idle", "taken", "fetching", "audited", "linked", "catch", "returned"},
           Goto(r, q)
    PROVE  /\ exec' \in [Rows -> Execs]
           /\ exec'[r].pc = q /\ exec'[r].sees = exec[r].sees
           /\ \A p \in Rows : p # r => exec'[p] = exec[p]
<1>1. exec' = [exec EXCEPT ![r] = [exec[r] EXCEPT !.pc = q]]
  BY Zenon DEF Goto
<1>2. [exec[r] EXCEPT !.pc = q] = [pc |-> q, sees |-> exec[r].sees, at |-> exec[r].at]
  BY DEF Execs
<1>3. exec' = [exec EXCEPT ![r] = [pc |-> q, sees |-> exec[r].sees, at |-> exec[r].at]]
  BY <1>1, <1>2
<1>4. QED
  BY <1>3 DEF Execs

\* A POST moves on, and keeps the row it created.
LEMMA ReqMoves ==
    ASSUME req \in [Clients -> Reqs], NEW k \in Clients,
           NEW q \in {"idle", "checked", "created", "ok", "busy", "failed"},
           req' = [req EXCEPT ![k].pc = q]
    PROVE  /\ req' \in [Clients -> Reqs]
           /\ req'[k].pc = q /\ req'[k].row = req[k].row
           /\ \A c \in Clients : c # k => req'[c] = req[c]
<1>1. req' = [req EXCEPT ![k] = [req[k] EXCEPT !.pc = q]]
  BY Zenon
<1>2. [req[k] EXCEPT !.pc = q] = [pc |-> q, row |-> req[k].row]
  BY DEF Reqs
<1>3. req' = [req EXCEPT ![k] = [pc |-> q, row |-> req[k].row]]
  BY <1>1, <1>2
<1>4. QED
  BY <1>3 DEF Reqs

\* Every step of pages.ts and page-audit-job.ts keeps the invariant.
LEMMA NextLineageInv ==
    ASSUME LineageInv, [PageNext]_pageVars
    PROVE  LineageInv'
<1>0. /\ status \in [Rows -> {"none", "queued", "running", "completed", "failed"}]
      /\ batch \in [Rows -> SUBSET Finding] /\ finished \in [Rows -> Nat]
      /\ committed \in Seq(Rows) /\ basis \in [Rows -> SUBSET Rows]
      /\ job \in [Rows -> Job]
      /\ exec \in [Rows -> Execs] /\ req \in [Clients -> Reqs]
      /\ clock \in Nat /\ lost \subseteq Rows /\ crashes \in Nat /\ faults \in Nat
  BY DEF LineageInv, PageTypeOK, LiveStatus, EndedStatus, Execs, Reqs
<1>1. /\ \A k \in Clients : req[k].pc = "created" => req[k].row \in Rows
      /\ \A r \in Rows :
            /\ exec[r].pc \in {"audited", "linked"} => exec[r].sees \in Contents
            /\ exec[r].pc \in {"taken", "fetching", "audited", "linked", "catch"}
                  => status[r] # "completed"
            /\ basis[r] \subseteq Completed
            /\ r \in Completed => RowOk(r)
  BY DEF LineageInv
<1>f. ASSUME FreeRows # {}
      PROVE  Min(FreeRows) \in Rows /\ status[Min(FreeRows)] = "none"
  <2>1. FreeRows \in SUBSET (1 .. MaxRows)
    BY DEF FreeRows, Rows
  <2>2. Min(FreeRows) \in FreeRows
    BY <1>f, <2>1, ReauditAssumption, LeastAndGreatest
  <2>3. QED
    BY <2>2 DEF FreeRows
<1>j. NoJob \in Job /\ AddedJob \in Job /\ PageAttempts \in Nat
  BY FreshJobs, ReauditAssumption
<1>k. \A j \in Job : /\ TakenJob(j) \in Job /\ CompletedJob(j) \in Job /\ StalledJob(j) \in Job
                     /\ ThrownJob(j, PageAttempts) \in Job
  BY <1>j, TakeAndComplete, Thrown, Stalled
<1> DEFINE Typed ==
              /\ status' \in [Rows -> {"none", "queued", "running", "completed", "failed"}]
              /\ batch' \in [Rows -> SUBSET Finding] /\ finished' \in [Rows -> Nat]
              /\ committed' \in Seq(Rows) /\ basis' \in [Rows -> SUBSET Rows]
              /\ job' \in [Rows -> Job]
              /\ exec' \in [Rows -> Execs] /\ req' \in [Clients -> Reqs]
              /\ clock' \in Nat /\ lost' \subseteq Rows /\ crashes' \in Nat /\ faults' \in Nat
           Asked == \A k \in Clients : req'[k].pc = "created" => req'[k].row \in Rows
           Handled == \A r \in Rows :
              /\ exec'[r].pc \in {"audited", "linked"} => exec'[r].sees \in Contents
              /\ exec'[r].pc \in {"taken", "fetching", "audited", "linked", "catch"}
                    => status'[r] # "completed"
           Stood == UNCHANGED <<batch, basis>> /\ Completed' = Completed
<1>y. ASSUME Typed PROVE PageTypeOK'
  BY <1>y DEF PageTypeOK, LiveStatus, EndedStatus, Execs, Reqs
<1>s. ASSUME Typed, Asked, Handled, Stood PROVE LineageInv'
  <2>1. \A r \in Rows : /\ basis'[r] \subseteq Completed'
                        /\ r \in Completed' => RowOk(r)'
    BY <1>s, RowsStand
  <2>2. QED
    BY <1>s, <1>y, <2>1 DEF LineageInv
<1>t. ASSUME UNCHANGED <<dataVars, exec>> PROVE Handled /\ Stood
  BY <1>1, <1>t DEF dataVars, Completed
<1>e. \A k \in Clients : req[k].row \in Rows \cup {0}
  BY <1>0 DEF Reqs
<1>2. ASSUME NEW k \in Clients, CheckLive(k) PROVE LineageInv'
  <2>1. PICK q \in {"checked", "busy"} : req' = [req EXCEPT ![k].pc = q]
    BY <1>2 DEF CheckLive
  <2>2. /\ req' \in [Clients -> Reqs] /\ req'[k].pc = q
        /\ \A c \in Clients : c # k => req'[c] = req[c]
    BY <1>0, <2>1, ReqMoves
  <2>3. UNCHANGED <<dataVars, job, exec, bounds>>
    BY <1>2 DEF CheckLive
  <2>4. Typed /\ Asked
    BY <1>0, <1>1, <2>2, <2>3 DEF dataVars, bounds
  <2>5. QED
    BY <1>s, <1>t, <2>3, <2>4
<1>3. ASSUME NEW k \in Clients, CreateRow(k) PROVE LineageInv'
  <2>1. PICK n \in Rows : n = Min(FreeRows) /\ status[n] = "none"
    BY <1>3, <1>f DEF CreateRow
  <2>2. /\ status' = [status EXCEPT ![n] = "queued"]
        /\ req' = [req EXCEPT ![k] = [pc |-> "created", row |-> n]]
        /\ UNCHANGED <<batch, finished, committed, basis, job, exec, clock, lost, crashes, faults>>
    BY <1>3, <2>1 DEF CreateRow, bounds
  <2>3. Typed /\ Asked
    BY <1>0, <1>1, <2>2 DEF Reqs
  <2>4. Handled /\ Stood
    BY <1>0, <1>1, <2>1, <2>2 DEF Completed
  <2>5. QED
    BY <1>s, <2>3, <2>4
<1>4. ASSUME NEW k \in Clients, EnqueueRow(k) \/ EnqueueRowFails(k) \/ Answered(k)
      PROVE  LineageInv'
  <2>1. Typed /\ Asked
    <3>1. CASE EnqueueRow(k)
      <4>1. req' \in [Clients -> Reqs] /\ req'[k].pc = "ok"
            /\ \A c \in Clients : c # k => req'[c] = req[c]
        BY <1>0, <3>1, ReqMoves DEF EnqueueRow
      <4>2. job' \in [Rows -> Job]
        BY <1>0, <1>j, <3>1 DEF EnqueueRow
      <4>3. QED
        BY <1>0, <1>1, <3>1, <4>1, <4>2 DEF EnqueueRow, dataVars, bounds
    <3>2. CASE EnqueueRowFails(k)
      <4>1. req' \in [Clients -> Reqs] /\ req'[k].pc = "failed"
            /\ \A c \in Clients : c # k => req'[c] = req[c]
        BY <1>0, <3>2, ReqMoves DEF EnqueueRowFails
      <4>2. lost' \subseteq Rows
        BY <1>0, <1>1, <3>2 DEF EnqueueRowFails
      <4>3. QED
        BY <1>0, <1>1, <3>2, <4>1, <4>2 DEF EnqueueRowFails, ReauditFault, dataVars
    <3>3. CASE Answered(k)
      <4>1. IdleReq \in Reqs /\ IdleReq.pc = "idle"
        BY DEF IdleReq, Reqs
      <4>2. QED
        BY <1>0, <1>1, <3>3, <4>1 DEF Answered, dataVars, bounds
    <3>4. QED
      BY <1>4, <3>1, <3>2, <3>3
  <2>2. QED
    BY <1>4, <1>s, <1>t, <2>1 DEF EnqueueRow, EnqueueRowFails, Answered
<1>5. ASSUME SiteAuditReaches PROVE LineageInv'
  <2>1. PICK n \in Rows : n = Min(FreeRows) /\ status[n] = "none"
    BY <1>5, <1>f DEF SiteAuditReaches
  <2>2. /\ status' = [status EXCEPT ![n] = "queued"]
        /\ job' = [job EXCEPT ![n] = AddedJob]
        /\ UNCHANGED <<batch, finished, committed, basis, exec, req, clock, lost, crashes, faults>>
    BY <1>5, <2>1 DEF SiteAuditReaches, bounds
  <2>3. Typed /\ Asked
    BY <1>0, <1>1, <1>j, <2>2
  <2>4. Handled /\ Stood
    BY <1>0, <1>1, <2>1, <2>2 DEF Completed
  <2>5. QED
    BY <1>s, <2>3, <2>4
<1>6. ASSUME NEW r \in Rows, TakeRow(r) PROVE LineageInv'
  <2>1. PICK q \in {"returned", "taken"} :
          Goto(r, q) /\ (q = "taken" => status[r] # "completed")
    BY <1>6 DEF TakeRow, EndedStatus
  <2>2. /\ exec' \in [Rows -> Execs] /\ exec'[r].pc = q
        /\ \A p \in Rows : p # r => exec'[p] = exec[p]
    BY <1>0, <2>1, GotoMoves
  <2>3. job' \in [Rows -> Job]
    BY <1>0, <1>k, <1>6 DEF TakeRow
  <2>4. UNCHANGED <<dataVars, req, bounds>>
    BY <1>6 DEF TakeRow
  <2>5. Typed /\ Asked
    BY <1>0, <1>1, <2>2, <2>3, <2>4 DEF dataVars, bounds
  <2>6. Handled /\ Stood
    BY <1>0, <1>1, <2>1, <2>2, <2>4 DEF dataVars, Completed
  <2>7. QED
    BY <1>s, <2>5, <2>6
<1>7. ASSUME NEW r \in Rows, StartRow(r) PROVE LineageInv'
  <2>1. /\ exec' \in [Rows -> Execs] /\ exec'[r].pc = "fetching"
        /\ \A p \in Rows : p # r => exec'[p] = exec[p]
    BY <1>0, <1>7, GotoMoves DEF StartRow
  <2>2. /\ status' = [status EXCEPT ![r] = "running"] /\ exec[r].pc = "taken"
        /\ UNCHANGED <<batch, finished, committed, basis, job, req, clock, lost, crashes, faults>>
    BY <1>7 DEF StartRow, bounds
  <2>3. Typed /\ Asked
    BY <1>0, <1>1, <2>1, <2>2
  <2>4. Handled /\ Stood
    BY <1>0, <1>1, <2>1, <2>2 DEF Completed
  <2>5. QED
    BY <1>s, <2>3, <2>4
<1>8. ASSUME NEW r \in Rows, StartRowFails(r) \/ AuditRowFails(r) PROVE LineageInv'
  <2>1. PICK q \in {"idle", "catch"} :
          Goto(r, q) /\ (q = "catch" => exec[r].pc \in {"fetching", "audited", "linked"})
    BY <1>8 DEF StartRowFails, AuditRowFails
  <2>2. /\ exec' \in [Rows -> Execs] /\ exec'[r].pc = q
        /\ \A p \in Rows : p # r => exec'[p] = exec[p]
    BY <1>0, <2>1, GotoMoves
  <2>3. job' \in [Rows -> Job]
    <3>1. CASE StartRowFails(r)
      BY <1>0, <1>k, <3>1 DEF StartRowFails
    <3>2. CASE AuditRowFails(r)
      BY <1>0, <3>2 DEF AuditRowFails
    <3>3. QED
      BY <1>8, <3>1, <3>2
  <2>4. faults' \in Nat
    BY <1>0, <1>8 DEF StartRowFails, AuditRowFails, ReauditFault
  <2>5. UNCHANGED <<dataVars, req, clock, lost, crashes>>
    BY <1>8 DEF StartRowFails, AuditRowFails
  <2>6. Typed /\ Asked
    BY <1>0, <1>1, <2>2, <2>3, <2>4, <2>5 DEF dataVars
  <2>7. Handled /\ Stood
    BY <1>0, <1>1, <2>1, <2>2, <2>5 DEF dataVars, Completed
  <2>8. QED
    BY <1>s, <2>6, <2>7
<1>9. ASSUME NEW r \in Rows, AuditRow(r) PROVE LineageInv'
  <2>3. PICK content \in Contents :
          exec' = [exec EXCEPT ![r] = [pc |-> "audited", sees |-> content, at |-> clock + 1]]
    BY <1>9 DEF AuditRow
  <2>4. /\ exec[r].pc = "fetching" /\ clock' = clock + 1
        /\ UNCHANGED <<status, batch, finished, committed, basis, job, req, lost, crashes, faults>>
    BY <1>9 DEF AuditRow, dataVars
  <2>5. Typed /\ Asked
    BY <1>0, <1>1, <2>3, <2>4 DEF Execs
  <2>6. Handled /\ Stood
    BY <1>0, <1>1, <2>3, <2>4 DEF Completed
  <2>7. QED
    BY <1>s, <2>5, <2>6
<1>10. ASSUME NEW r \in Rows, ReadLineage(r) PROVE LineageInv'
  <2>1. /\ basis' = [basis EXCEPT ![r] = Completed] /\ exec[r].pc = "audited"
        /\ Goto(r, "linked")
        /\ UNCHANGED <<status, batch, finished, committed, job, req, clock, lost, crashes, faults>>
    BY <1>10 DEF ReadLineage, bounds
  <2>2. Completed \subseteq Rows /\ Completed' = Completed
    BY <2>1 DEF Completed
  <2>g. /\ exec' \in [Rows -> Execs] /\ exec'[r].pc = "linked" /\ exec'[r].sees = exec[r].sees
        /\ \A p \in Rows : p # r => exec'[p] = exec[p]
    BY <1>0, <2>1, GotoMoves
  <2>3. Typed /\ Asked /\ Handled
    BY <1>0, <1>1, <2>1, <2>2, <2>g
  <2>4. ASSUME NEW q \in Rows PROVE basis'[q] \subseteq Completed'
    BY <1>0, <1>1, <2>1, <2>2
  <2>5. ASSUME NEW q \in Rows, q \in Completed' PROVE RowOk(q)'
    <3>1. q # r /\ basis'[q] = basis[q] /\ RowOk(q) /\ PageTypeOK
      BY <1>0, <1>1, <2>1, <2>2, <2>5 DEF Completed, LineageInv
    <3>2. QED
      BY <2>1, <3>1, RowOkStays
  <2>6. QED
    BY <1>y, <2>3, <2>4, <2>5 DEF LineageInv
<1>11. ASSUME NEW r \in Rows, CommitRow(r) PROVE LineageInv'
  <2>1. /\ status' = [status EXCEPT ![r] = "completed"]
        /\ finished' = [finished EXCEPT ![r] = exec[r].at]
        /\ committed' = Append(committed, r)
        /\ exec[r].pc = "linked"
        /\ UNCHANGED <<basis, job, req, clock, lost, crashes, faults>>
    BY <1>11 DEF CommitRow, bounds
  <2>e. exec' = [exec EXCEPT ![r] = [pc |-> "returned", sees |-> None, at |-> 0]]
    <3>1. [IdleExec EXCEPT !.pc = "returned"] = [pc |-> "returned", sees |-> None, at |-> 0]
      BY DEF IdleExec
    <3>2. QED
      BY <1>11, <3>1 DEF CommitRow
  <2>2. RowOk(r)' /\ batch' \in [Rows -> SUBSET Finding]
    BY <1>11, CommitRowOk
  <2>a. exec[r].at \in Nat
    BY <1>0 DEF Execs
  <2>b. exec' \in [Rows -> Execs] /\ Handled
    BY <1>0, <1>1, <2>1, <2>e DEF Execs
  <2>c. committed' \in Seq(Rows)
    BY <1>0, <2>1
  <2>d. status' \in [Rows -> {"none", "queued", "running", "completed", "failed"}]
        /\ finished' \in [Rows -> Nat]
    BY <1>0, <2>1, <2>a
  <2>3. Typed /\ Asked
    BY <1>0, <1>1, <2>1, <2>2, <2>b, <2>c, <2>d
  <2>4. Completed' = Completed \cup {r} /\ r \notin Completed
    BY <1>0, <1>1, <2>1 DEF Completed
  <2>5. ASSUME NEW q \in Rows, q \in Completed PROVE RowOk(q)'
    <3>1. RowOk(q) /\ PageTypeOK /\ basis[q] \subseteq Completed /\ basis[q] \subseteq Rows
      BY <1>0, <1>1, <2>5 DEF LineageInv
    <3>2. \A p \in Rows : p # r => batch'[p] = batch[p]
      BY <1>0, <1>11 DEF CommitRow
    <3>3. batch'[q] = batch[q] /\ \A p \in basis[q] : batch'[p] = batch[p]
      BY <2>4, <2>5, <3>1, <3>2
    <3>4. QED
      BY <2>1, <3>1, <3>3, RowOkStays
  <2>6. ASSUME NEW q \in Rows
        PROVE  basis'[q] \subseteq Completed' /\ (q \in Completed' => RowOk(q)')
    BY <1>1, <2>1, <2>2, <2>4, <2>5
  <2>7. QED
    BY <1>y, <2>b, <2>3, <2>6 DEF LineageInv
<1>i. IdleExec \in Execs /\ IdleExec.pc = "idle"
  BY DEF IdleExec, Execs
<1>12. ASSUME NEW r \in Rows, CatchRow(r) PROVE LineageInv'
  <2>1. /\ exec' = [exec EXCEPT ![r] = IdleExec] /\ exec[r].pc = "catch"
        /\ status' = [status EXCEPT ![r] = "failed"]
        /\ UNCHANGED <<batch, finished, committed, basis, req, clock, lost, crashes, faults>>
    BY <1>12 DEF CatchRow, bounds
  <2>2. job' \in [Rows -> Job]
    BY <1>0, <1>k, <1>12 DEF CatchRow
  <2>3. Typed /\ Asked
    BY <1>0, <1>1, <1>i, <2>1, <2>2
  <2>4. Handled /\ Stood
    BY <1>0, <1>1, <1>i, <2>1 DEF Completed
  <2>5. QED
    BY <1>s, <2>3, <2>4
<1>13. ASSUME NEW r \in Rows, AckRow(r) PROVE LineageInv'
  <2>1. /\ exec' = [exec EXCEPT ![r] = IdleExec]
        /\ UNCHANGED <<status, batch, finished, committed, basis, req, clock, lost, crashes, faults>>
    BY <1>13 DEF AckRow, dataVars, bounds
  <2>2. job' \in [Rows -> Job]
    BY <1>0, <1>k, <1>13 DEF AckRow
  <2>3. Typed /\ Asked
    BY <1>0, <1>1, <1>i, <2>1, <2>2
  <2>4. Handled /\ Stood
    BY <1>0, <1>1, <1>i, <2>1 DEF Completed
  <2>5. QED
    BY <1>s, <2>3, <2>4
<1>14. ASSUME PageCrash PROVE LineageInv'
  <2>1. /\ UNCHANGED <<status, batch, finished, committed, basis, clock, faults>>
        /\ exec' = [r \in Rows |-> IdleExec]
        /\ req' = [k \in Clients |-> IdleReq]
        /\ crashes' = crashes + 1
    BY <1>14 DEF PageCrash, dataVars
  <2>i. IdleReq \in Reqs /\ IdleReq.pc = "idle"
    BY DEF IdleReq, Reqs
  <2>2. lost' \subseteq Rows
    BY <1>0, <1>1, <1>14 DEF PageCrash
  <2>3. job' \in [Rows -> Job]
    BY <1>0, <1>k, <1>14 DEF PageCrash
  <2>4. Typed /\ Asked
    BY <1>0, <1>1, <1>i, <2>1, <2>2, <2>3, <2>i
  <2>5. Handled /\ Stood
    BY <1>0, <1>1, <1>i, <2>1 DEF Completed
  <2>6. QED
    BY <1>s, <2>4, <2>5
<1>15. CASE UNCHANGED pageVars
  <2>1. Typed /\ Asked /\ Handled /\ Stood
    BY <1>0, <1>1, <1>15 DEF PageTypeOK, LiveStatus, EndedStatus, pageVars, dataVars, bounds, Completed
  <2>2. QED
    BY <1>s, <2>1
<1>16. QED
  BY <1>2, <1>3, <1>4, <1>5, <1>6, <1>7, <1>8, <1>9, <1>10, <1>11, <1>12, <1>13, <1>14, <1>15
  DEF PageNext, RequestStep, WorkerStep

\* It holds in every behaviour.
LEMMA LineageInvariant == PageSpec => []LineageInv
<1>1. PageInit => LineageInv
  BY InitLineageInv
<1>2. LineageInv /\ [PageNext]_pageVars => LineageInv'
  BY NextLineageInv
<1>3. QED
  BY <1>1, <1>2, PTL DEF PageSpec

\* Two PageAudits that both start a chain of a rule did not see each other.
LEMMA ChainsSplit ==
    ASSUME LineageInv
    PROVE  ChainsSplitOnlyInRaces
<1> SUFFICES ASSUME NEW p \in Completed, NEW q \in Completed, p # q,
                    NEW f \in batch[p], NEW g \in batch[q],
                    f.prev = None, g.prev = None, RuleOf(f.on) = RuleOf(g.on)
             PROVE  p \notin basis[q] /\ q \notin basis[p]
  BY DEF ChainsSplitOnlyInRaces
<1>1. p \in Rows /\ q \in Rows /\ RowOk(p) /\ RowOk(q) /\ PageTypeOK
  BY DEF Completed, LineageInv
<1>2. basis[p] \in SUBSET Rows /\ basis[q] \in SUBSET Rows
  BY <1>1 DEF PageTypeOK
<1>3. p \notin basis[q]
  <2>1. p \in basis[q] => <<p, f.on>> \in Heads(basis[q])
    BY <1>1, <1>2, HeadsArePlaces
  <2>2. \A h \in Heads(basis[q]) : RuleOf(h[2]) # RuleOf(g.on)
    BY <1>1 DEF RowOk
  <2>3. QED
    BY <2>1, <2>2
<1>4. q \notin basis[p]
  <2>1. q \in basis[p] => <<q, g.on>> \in Heads(basis[p])
    BY <1>1, <1>2, HeadsArePlaces
  <2>2. \A h \in Heads(basis[p]) : RuleOf(h[2]) # RuleOf(f.on)
    BY <1>1 DEF RowOk
  <2>3. QED
    BY <2>1, <2>2
<1>5. QED
  BY <1>3, <1>4

\* Places are as many as their rules only if each rule has one place.
LEMMA OnePlacePerRule ==
    ASSUME NEW old, IsFiniteSet(old), Cardinality({RuleOf(o) : o \in old}) = Cardinality(old),
           NEW a \in old, NEW b \in old, RuleOf(a) = RuleOf(b)
    PROVE  a = b
<1> DEFINE rules == {RuleOf(o) : o \in old}
           fn == [o \in old |-> RuleOf(o)]
<1>1. fn \in Surjection(old, rules)
  BY DEF Surjection
<1>2. fn \in Injection(old, rules)
  BY <1>1, FS_SurjSameCardinalityImpliesInj
<1>3. QED
  BY <1>2 DEF Injection, IsInjective

\* pages.ts, GET /api/page-audits/:id: when the first PageAudit is all the
\* second one read, and has each rule at one place, what the dashboard says of
\* the second is the difference between the two.
LEMMA SecondDiff ==
    ASSUME LineageInv
    PROVE  SecondDiffIsExact
<1> SUFFICES
      ASSUME NEW p \in Completed, NEW r \in Completed,
             basis[p] = {}, basis[r] = {p}, Prior(r) = p,
             Cardinality(RulesOf(p)) = Cardinality(PlacesOf(p))
      PROVE  DiffIsExact(p, r)
  BY DEF SecondDiffIsExact
<1> DEFINE old == PlacesOf(p)
           rules == RulesOf(p)
<1>0. /\ p \in Rows /\ r \in Rows /\ RowOk(p) /\ RowOk(r) /\ PageTypeOK
      /\ \A f \in batch[p] : f \in Finding
      /\ \A f \in batch[r] : f \in Finding
  BY DEF Completed, LineageInv, PageTypeOK
<1>1. IsFiniteSet(old)
  <2>1. old \in SUBSET Occurrences
    BY <1>0 DEF PlacesOf, Finding
  <2>2. QED
    BY <2>1, ReauditAssumption, FS_Subset
<1>2. \A a, b \in old : RuleOf(a) = RuleOf(b) => a = b
  BY <1>1, OnePlacePerRule DEF RulesOf
<1>3. Heads({p}) = {<<p, o>> : o \in old}
  <2>1. \A f \in batch[p] : f.prev = None
    <3>1. Heads(basis[p]) = {}
      BY DEF Heads
    <3>2. QED
      BY <1>0, <3>1 DEF RowOk
  <2>2. QED
    BY <2>1 DEF Heads, PlacesOf
<1>4. ASSUME NEW f \in batch[r]
      PROVE  /\ f.prev = None => RuleOf(f.on) \notin rules
             /\ f.prev # None => \E o \in old : f.prev = <<p, o>> /\ RuleOf(o) = RuleOf(f.on)
  <2>1. /\ f.prev = None => \A h \in Heads({p}) : RuleOf(h[2]) # RuleOf(f.on)
        /\ f.prev # None => f.prev \in Heads({p}) /\ RuleOf(f.prev[2]) = RuleOf(f.on)
    BY <1>0 DEF RowOk
  <2>2. ASSUME f.prev = None, NEW o \in old PROVE RuleOf(o) # RuleOf(f.on)
    <3>1. <<p, o>> \in Heads({p}) /\ <<p, o>>[2] = o
      BY <1>3
    <3>2. QED
      BY <2>1, <2>2, <3>1
  <2>3. QED
    BY <1>3, <2>1, <2>2 DEF RulesOf
<1>5. Fixed(r) = {h \in {<<p, o>> : o \in old} : \A f \in batch[r] : f.prev # h}
  <2>1. Prior(r) # 0
    BY <1>0 DEF Rows
  <2>2. QED
    BY <1>3, <2>1 DEF Fixed
<1>e. RulesOf(r) = {RuleOf(f.on) : f \in batch[r]}
  BY DEF RulesOf, PlacesOf
<1>r. rules = {RuleOf(o) : o \in old}
  BY DEF RulesOf
<1> HIDE DEF old, rules
<1>6. {RuleOf(h[2]) : h \in Fixed(r)} = rules \ {RuleOf(f.on) : f \in batch[r]}
  <2>1. ASSUME NEW h \in Fixed(r)
        PROVE  RuleOf(h[2]) \in rules \ {RuleOf(f.on) : f \in batch[r]}
    <3>1. PICK o \in old : h = <<p, o>> /\ \A f \in batch[r] : f.prev # h
      BY <1>5
    <3>2. ASSUME NEW f \in batch[r], RuleOf(f.on) = RuleOf(o) PROVE FALSE
      <4>1. f.prev # None
        BY <1>4, <1>r, <3>2
      <4>2. PICK b \in old : f.prev = <<p, b>> /\ RuleOf(b) = RuleOf(f.on)
        BY <1>4, <4>1
      <4>3. b = o
        BY <1>2, <3>2, <4>2
      <4>4. QED
        BY <3>1, <4>2, <4>3
    <3>3. QED
      BY <1>r, <3>1, <3>2
  <2>2. ASSUME NEW o \in old, \A f \in batch[r] : RuleOf(f.on) # RuleOf(o)
        PROVE  \E h \in Fixed(r) : RuleOf(h[2]) = RuleOf(o)
    <3>1. ASSUME NEW f \in batch[r], f.prev = <<p, o>> PROVE FALSE
      <4>1. f.prev # None
        BY <3>1, NoneIsNoPlace
      <4>2. PICK b \in old : f.prev = <<p, b>> /\ RuleOf(b) = RuleOf(f.on)
        BY <1>4, <4>1
      <4>3. QED
        BY <2>2, <3>1, <4>2
    <3>2. <<p, o>> \in Fixed(r) /\ <<p, o>>[2] = o
      BY <1>5, <3>1
    <3>3. QED
      BY <3>2
  <2>3. QED
    BY <1>r, <2>1, <2>2
<1>7. ASSUME NEW f \in batch[r]
      PROVE  /\ (DiffLabel(f) = "NEW") = (RuleOf(f.on) \notin rules)
             /\ DiffLabel(f) = "UNCHANGED" => f.look = LookAt(f, p)
             /\ DiffLabel(f) = "IMPROVEMENT" => f.look[1] < LookAt(f, p)[1]
             /\ DiffLabel(f) = "REGRESSION" => f.look # LookAt(f, p) /\ f.look[1] >= LookAt(f, p)[1]
  <2>1. CASE f.prev = None
    <3>1. DiffLabel(f) = "NEW"
      BY <2>1 DEF DiffLabel
    <3>2. QED
      BY <1>4, <2>1, <3>1
  <2>2. CASE f.prev # None
    <3>1. PICK o \in old : f.prev = <<p, o>> /\ RuleOf(o) = RuleOf(f.on)
      BY <1>4, <2>2
    <3>2. PICK g \in batch[p] : g.on = o
      BY DEF old, PlacesOf
    <3>3. \A e \in batch[p] : e.on = o => e = g
      BY <1>0, <3>2 DEF RowOk
    <3>4. \A e \in batch[p] : RuleOf(e.on) = RuleOf(f.on) => e = g
      <4>1. \A e \in batch[p] : e.on \in old
        BY DEF old, PlacesOf
      <4>2. QED
        BY <1>2, <3>1, <3>3, <4>1
    <3>5. FindingAt(f.prev) = g
      <4>1. f.prev[1] = p /\ f.prev[2] = o
        BY <3>1
      <4>2. QED
        BY <3>2, <3>3, <4>1 DEF FindingAt
    <3>6. LookAt(f, p) = g.look
      BY <3>1, <3>2, <3>4 DEF LookAt
    <3>7. RuleOf(f.on) \in rules
      BY <1>r, <3>1
    <3>8. g.look[1] \in Nat /\ f.look[1] \in Nat
      BY <1>0, ReauditAssumption DEF Finding
    <3>9. DiffLabel(f) = CASE f.look = g.look -> "UNCHANGED"
                           [] f.look[1] < g.look[1] -> "IMPROVEMENT"
                           [] OTHER -> "REGRESSION"
      BY <2>2, <3>5 DEF DiffLabel
    <3>10. \/ f.look = g.look /\ DiffLabel(f) # "NEW" /\ DiffLabel(f) # "REGRESSION"
           \/ /\ f.look # g.look /\ f.look[1] < g.look[1]
              /\ DiffLabel(f) = "IMPROVEMENT"
           \/ /\ f.look # g.look /\ ~(f.look[1] < g.look[1])
              /\ DiffLabel(f) = "REGRESSION"
      BY <3>9
    <3>11. QED
      BY <3>6, <3>7, <3>8, <3>9, <3>10
  <2>3. QED
    BY <2>1, <2>2
<1>8. QED
  BY <1>6, <1>7, <1>e DEF rules, DiffIsExact

\* The lineage of findings and the diffs of second audits are exact
\* (page-audit-job.ts, attachLineage; pages.ts, GET /api/page-audits/:id).
THEOREM LineageIsExact == PageSpec => []LineageExact
<1>1. LineageInv => LineageExact
  BY ChainsSplit, SecondDiff DEF LineageInv, LineageExact
<1>2. QED
  BY <1>1, LineageInvariant, PTL

====
