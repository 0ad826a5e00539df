----------------------------- MODULE MCFindings -----------------------------
(***************************************************************************)
(* PageReaudit and Suggestions on small instances for TLC.  They meet in   *)
(* one answer only (Suggestions!Delegate), so a behaviour exercises one of *)
(* them, chosen initially, while the other rests.                          *)
(***************************************************************************)
EXTENDS PageReaudit, Suggestions

VARIABLE focus

MCOccurrences == {<<"missing-alt", 1>>, <<"missing-alt", 2>>}
MCLooks == {<<1, "warning">>, <<2, "error">>}

Init == PageInit /\ SuggInit /\ focus \in {"page", "suggestion"}
Next ==
    \/ focus = "page" /\ PageNext /\ UNCHANGED <<suggVars, focus>>
    \/ focus = "suggestion" /\ SuggNext /\ UNCHANGED <<pageVars, focus>>
Spec == Init /\ [][Next]_<<pageVars, suggVars, focus>> /\ PageFairness
=============================================================================
