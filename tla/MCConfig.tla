------------------------------ MODULE MCConfig -------------------------------
(***************************************************************************)
(* The parts that keep rows, counters or results and no job: the API's     *)
(* start and secret, what users bring in, templates, the rate limiter; the *)
(* algorithms of an audit: finding the pages, running the plugins, the     *)
(* rules and the score; what leaves for other services: the publishers and *)
(* the calls of a language model; and the screen of fixes.  They share no  *)
(* state, so a behaviour exercises one of them, chosen initially, while    *)
(* the others rest.                                                        *)
(***************************************************************************)
EXTENDS Boot, Intake, Templates, TokenBucket, AuditRules, Discovery, WorkPools,
        Delivery, LlmCalls, FixesScreen

VARIABLE focus

MCTags == <<"x", "y">>

Init ==
    /\ BootInit /\ IntakeInit /\ TemplatesInit /\ BucketInit
    /\ RulesInit /\ DiscoveryInit /\ PoolInit
    /\ DeliveryInit /\ LlmInit /\ FixesInit
    /\ focus \in {"boot", "intake", "templates", "bucket", "rules", "discovery", "pools",
                 "delivery", "llm", "fixes"}
    /\ focus # "boot" => dotenv = NoSecret
    /\ focus # "rules" => base = "good" /\ lines = <<>>
    /\ focus # "discovery" => sources["root"] /\ sources["sitemap"] /\ sources["crawl"] /\ maxPages = 0
    /\ focus # "pools" => pool = "days" /\ \A i \in Index : rowsOf[i] = 0
    /\ focus # "delivery" => kind = "http"
    /\ focus # "llm" => writer = "report"
    /\ focus # "fixes" => suggested = <<>>

Next ==
    \/ /\ focus = "boot" /\ BootNext
       /\ UNCHANGED <<focus, intakeVars, templateVars, bucketVars, ruleVars, discoveryVars,
                      poolVars, deliveryVars, llmVars, fixesVars>>
    \/ /\ focus = "intake" /\ IntakeNext
       /\ UNCHANGED <<focus, bootVars, templateVars, bucketVars, ruleVars, discoveryVars,
                      poolVars, deliveryVars, llmVars, fixesVars>>
    \/ /\ focus = "templates" /\ TemplatesNext
       /\ UNCHANGED <<focus, bootVars, intakeVars, bucketVars, ruleVars, discoveryVars,
                      poolVars, deliveryVars, llmVars, fixesVars>>
    \/ /\ focus = "bucket" /\ BucketNext
       /\ UNCHANGED <<focus, bootVars, intakeVars, templateVars, ruleVars, discoveryVars,
                      poolVars, deliveryVars, llmVars, fixesVars>>
    \/ /\ focus = "rules" /\ RulesNext
       /\ UNCHANGED <<focus, bootVars, intakeVars, templateVars, bucketVars, discoveryVars,
                      poolVars, deliveryVars, llmVars, fixesVars>>
    \/ /\ focus = "discovery" /\ DiscoveryNext
       /\ UNCHANGED <<focus, bootVars, intakeVars, templateVars, bucketVars, ruleVars,
                      poolVars, deliveryVars, llmVars, fixesVars>>
    \/ /\ focus = "pools" /\ PoolNext
       /\ UNCHANGED <<focus, bootVars, intakeVars, templateVars, bucketVars, ruleVars,
                      discoveryVars, deliveryVars, llmVars, fixesVars>>
    \/ /\ focus = "delivery" /\ DeliveryNext
       /\ UNCHANGED <<focus, bootVars, intakeVars, templateVars, bucketVars, ruleVars,
                      discoveryVars, poolVars, llmVars, fixesVars>>
    \/ /\ focus = "llm" /\ LlmNext
       /\ UNCHANGED <<focus, bootVars, intakeVars, templateVars, bucketVars, ruleVars,
                      discoveryVars, poolVars, deliveryVars, fixesVars>>
    \/ /\ focus = "fixes" /\ FixesNext
       /\ UNCHANGED <<focus, bootVars, intakeVars, templateVars, bucketVars, ruleVars,
                      discoveryVars, poolVars, deliveryVars, llmVars>>
Spec ==
    Init /\ [][Next]_<<focus, bootVars, intakeVars, templateVars, bucketVars, ruleVars,
                       discoveryVars, poolVars, deliveryVars, llmVars, fixesVars>>

\* An audit misses no page of the site and no result of a page: discovery finds
\* each page once within its limits, and the pools run each item once, in its
\* slot, and lose no row (site-discovery.ts, orchestrator.ts, gsc/queries.ts).
SiteCovered ==
    /\ DiscoveryTypeOK /\ FoundOnceWithinLimit /\ NothingMissed /\ CrawlOnlyAlone
    /\ PoolTypeOK /\ TakenOnce /\ AttributedToItsPlugin /\ NoRowLost

\* What other services are asked is asked again for a reason: a second post has a
\* lost outcome behind it and a completed row names what exists; a model is asked
\* twice only for an answer nobody can read, and no draft is taken for an answer
\* (distribution/, publish-job.ts, generation/, reports/).
CallsExplained ==
    /\ DeliveryTypeOK /\ DuplicatesExplained /\ NamesWhatExists /\ FailsEarlyOnlyOnRedirect
    /\ LlmTypeOK /\ AskedInFull /\ DraftOnlyInNeed /\ GivesUpInTurn
=============================================================================
