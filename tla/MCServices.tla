------------------------------ MODULE MCServices -------------------------------
(***************************************************************************)
(* The services that share nothing with each other, as one instance: a     *)
(* behaviour is about one of them, and the others stand at an initial      *)
(* state.                                                                  *)
(***************************************************************************)
EXTENDS PeriodCache, RateLimiter, TaskRemarks, Studies, Configuration, TaskImport,
        HuPage, ProjectListPages, TLC

VARIABLE service

Services == {"cache", "limiter", "remarks", "studies", "configuration", "import", "page",
             "list"}

serviceVars == << service, cacheVars, limiterVars, remarkVars, studyVars, configVars,
                  importVars, pageVars, listVars >>

MCTextRank == << 1, 4, 2, 3 >>     \* as text, A1 < A10 < A11 < A2
MCPayloads == {Labels}
MCFiles == {<< t, u, t >> : t, u \in Tasks}
               \cup {<< t, Blank, t, Invalid, u, t >> : t, u \in Tasks}
               \cup {<< Invalid >>}

Saver == CHOOSE p \in Processes : TRUE
FirstLoad == CHOOSE l \in Loads : TRUE

\* The others stand at one initial state, not at each of theirs.
ServicesInit ==
    /\ service \in Services
    /\ CacheInit /\ saving.process = Saver /\ (service # "cache" => prefix \in Dropped)
    /\ StudiesInit
    /\ LimiterInit /\ (service # "limiter" => atEdge)
    /\ RemarksInit /\ (service # "remarks" => hasHistory)
    /\ ConfigInit /\ (service # "configuration" => entity = "role" /\ foreignKeys = "none")
    /\ ImportInit /\ (service = "import" <=> file # << Invalid >>)
                  /\ (service # "import" => importLogs = {})
    /\ PageInit /\ (service # "page" => /\ known = Gone
                                       /\ \A p \in HuProjects : AssetsOf(server, p) = {})
    /\ ListInit /\ (service # "list" => /\ scanned /\ chosen = {1}
                                       /\ \A p \in Periods : listed[p] = {})

\* Bounds of this instance.  The process that saves, by time 1, and that loads with
\* skipCache, as early and what a save drops, is one of the two, and the first of two
\* loads is one of them, as they are alike.
CacheBounds ==
    /\ saving'.process = Saver
    /\ clock > 1 => version' = version
    /\ loads[FirstLoad] = Idle => \A l \in Loads \ {FirstLoad} : loads[l] = Idle => loads'[l] = Idle
    /\ \A l \in Loads : loads[l] = Idle /\ loads'[l].at = "deleteShared" =>
          clock <= 1 /\ prefix \in Dropped /\ loads'[l].process = Saver

\* What is saved last is saved when the rest is over.
ConfigBounds ==
    calls[MaxSaveCalls].at = "idle" /\ calls'[MaxSaveCalls].at # "idle" => InProgress = {}

\* At most two requests on the studies are under way.
StudiesBounds == Cardinality(UnderWay') <= 2

CacheStep == /\ service = "cache" /\ CacheNext /\ CacheBounds
             /\ UNCHANGED << service, limiterVars, remarkVars, studyVars, configVars, importVars, pageVars, listVars >>
LimiterStep == /\ service = "limiter" /\ LimiterNext
               /\ UNCHANGED << service, cacheVars, remarkVars, studyVars, configVars, importVars, pageVars, listVars >>
RemarksStep == /\ service = "remarks" /\ RemarksNext
               /\ UNCHANGED << service, cacheVars, limiterVars, studyVars, configVars, importVars, pageVars, listVars >>
StudiesStep == /\ service = "studies" /\ StudiesNext /\ StudiesBounds
               /\ UNCHANGED << service, cacheVars, limiterVars, remarkVars, configVars, importVars, pageVars, listVars >>
ConfigStep == /\ service = "configuration" /\ ConfigNext /\ ConfigBounds
              /\ UNCHANGED << service, cacheVars, limiterVars, remarkVars, studyVars, importVars, pageVars, listVars >>
ImportStep == /\ service = "import" /\ ImportNext
              /\ UNCHANGED << service, cacheVars, limiterVars, remarkVars, studyVars, configVars, pageVars, listVars >>
PageStep == /\ service = "page" /\ PageNext
            /\ UNCHANGED << service, cacheVars, limiterVars, remarkVars, studyVars, configVars, importVars, listVars >>
ListStep == /\ service = "list" /\ ListNext
            /\ UNCHANGED << service, cacheVars, limiterVars, remarkVars, studyVars, configVars, importVars, pageVars >>

ServicesNext == \/ CacheStep \/ LimiterStep \/ RemarksStep \/ StudiesStep
                \/ ConfigStep \/ ImportStep \/ PageStep \/ ListStep

ServicesSpec == ServicesInit /\ [][ServicesNext]_serviceVars

\* The type invariants of the services.
ServicesTypeOK ==
    /\ service = "cache" => CacheTypeOK
    /\ service = "limiter" => LimiterTypeOK
    /\ service = "remarks" => RemarksTypeOK
    /\ service = "studies" => StudiesTypeOK
    /\ service = "configuration" => ConfigTypeOK
    /\ service = "import" => ImportTypeOK
    /\ service = "page" => PageTypeOK
    /\ service = "list" => ListTypeOK

===============================================================================
