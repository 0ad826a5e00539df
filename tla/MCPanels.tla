------------------------------ MODULE MCPanels -------------------------------
(***************************************************************************)
(* The web client before the server: the Search Console panel with its     *)
(* sync, the screens over one row, the links, and what a tab keeps.  They  *)
(* share no state, so a behaviour exercises one of them, chosen initially, *)
(* while the others rest.                                                  *)
(***************************************************************************)
EXTENDS GscSync, Screens, WebRoutes, WebSession

VARIABLE focus

Init ==
    /\ GscInit /\ ScreensInit /\ RoutesInit /\ BufferInit /\ HealthInit
    /\ focus \in {"gsc", "screen", "routes", "buffer", "health"}
    /\ focus # "gsc" => secret = Unset
    /\ focus # "screen" => screen = "settings"
    /\ focus # "routes" => locale = "en"
    /\ focus # "health" => backend = "hung"

Next ==
    \/ focus = "gsc" /\ GscNext /\ UNCHANGED <<focus, screenVars, routeVars, bufferVars, healthVars>>
    \/ focus = "screen" /\ ScreensNext /\ UNCHANGED <<focus, gscVars, routeVars, bufferVars, healthVars>>
    \/ focus = "routes" /\ RoutesNext /\ UNCHANGED <<focus, gscVars, screenVars, bufferVars, healthVars>>
    \/ focus = "buffer" /\ BufferNext /\ UNCHANGED <<focus, gscVars, screenVars, routeVars, healthVars>>
    \/ focus = "health" /\ HealthNext /\ UNCHANGED <<focus, gscVars, screenVars, routeVars, bufferVars>>

\* Nothing a resting part would have to do is enabled.
Spec ==
    /\ Init /\ [][Next]_<<focus, gscVars, screenVars, routeVars, bufferVars, healthVars>>
    /\ GscFairness /\ ScreensFairness /\ HealthFairness
=============================================================================
