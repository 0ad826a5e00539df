------------------------------ MODULE MCAnswers ------------------------------
(***************************************************************************)
(* What the API computes once and keeps for later answers: the channel     *)
(* cache in the process, translations in a table, the executive report in  *)
(* a column.  They share no state, so a behaviour exercises one of them,   *)
(* chosen initially, while the others rest.                                *)
(***************************************************************************)
EXTENDS ChannelCache, Translation, ExecutiveReport

VARIABLE focus

MCBatches == {<<"a", "b">>, <<"b", "a", "b">>, <<"body">>}
MCLines == [t \in {"a", "b", "body"} |-> IF t = "body" THEN 2 ELSE 1]

Init ==
    /\ CacheInit /\ TransInit /\ ReportInit
    /\ focus \in {"cache", "translation", "report"}
    /\ focus # "cache" => channel = [c \in Channels |-> 1]
    /\ focus # "translation" => table = [t \in Texts |-> None]

Next ==
    \/ focus = "cache" /\ CacheNext /\ UNCHANGED <<transVars, reportVars, focus>>
    \/ focus = "translation" /\ TransNext /\ UNCHANGED <<cacheVars, reportVars, focus>>
    \/ focus = "report" /\ ReportNext /\ UNCHANGED <<cacheVars, transVars, focus>>
Spec ==
    /\ Init /\ [][Next]_<<cacheVars, transVars, reportVars, focus>>
    /\ CacheFairness /\ TransFairness /\ ReportFairness
=============================================================================
