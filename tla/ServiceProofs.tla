----------------------------- MODULE ServiceProofs -----------------------------
(***************************************************************************)
(* The services side by side (MCServices): a step of one is a step of no   *)
(* other, so what was proved of each by itself is true of them together.   *)
(***************************************************************************)
EXTENDS MCServices, TaskActionProofs, ConfigurationProofs, PeriodCacheProofs,
        ProjectListProofs

\* Each step of the composition is one of a service's own, or leaves that service alone.
LEMMA ServiceSteps ==
    [ServicesNext]_serviceVars =>
        /\ [CacheNext]_cacheVars /\ [LimiterNext]_limiterVars
        /\ [RemarksNext]_remarkVars /\ [StudiesNext]_studyVars
        /\ [ConfigNext]_configVars /\ [ImportNext]_importVars
        /\ [PageNext]_pageVars /\ [ListNext]_listVars
PROOF
    <1> SUFFICES ASSUME [ServicesNext]_serviceVars
                 PROVE  /\ [CacheNext]_cacheVars /\ [LimiterNext]_limiterVars
                        /\ [RemarksNext]_remarkVars /\ [StudiesNext]_studyVars
                        /\ [ConfigNext]_configVars /\ [ImportNext]_importVars
                        /\ [PageNext]_pageVars /\ [ListNext]_listVars
        OBVIOUS
    <1>1. CASE CacheStep  BY <1>1 DEF CacheStep
    <1>2. CASE LimiterStep  BY <1>2 DEF LimiterStep
    <1>3. CASE RemarksStep  BY <1>3 DEF RemarksStep
    <1>4. CASE StudiesStep  BY <1>4 DEF StudiesStep
    <1>5. CASE ConfigStep  BY <1>5 DEF ConfigStep
    <1>6. CASE ImportStep  BY <1>6 DEF ImportStep
    <1>7. CASE PageStep  BY <1>7 DEF PageStep
    <1>8. CASE ListStep  BY <1>8 DEF ListStep
    <1>9. CASE UNCHANGED serviceVars  BY <1>9 DEF serviceVars
    <1> QED
        BY <1>1, <1>2, <1>3, <1>4, <1>5, <1>6, <1>7, <1>8, <1>9 DEF ServicesNext

\* Every behaviour of the composition is one of each service.
LEMMA ServicesApart ==
    ServicesSpec => /\ CacheSpec /\ LimiterSpec /\ RemarksSpec /\ StudiesSpec
                    /\ ConfigSpec /\ ImportSpec /\ PageSpec /\ ListSpec
PROOF
    <1>1. ServicesInit => /\ CacheInit /\ LimiterInit /\ RemarksInit /\ StudiesInit
                          /\ ConfigInit /\ ImportInit /\ PageInit /\ ListInit
        BY DEF ServicesInit
    <1> QED
        BY <1>1, ServiceSteps, PTL
           DEF ServicesSpec, CacheSpec, LimiterSpec, RemarksSpec, StudiesSpec, ConfigSpec,
               ImportSpec, PageSpec, ListSpec

\* Whichever service a behaviour is about, its state keeps its types, for every value of the
\* constants of all of them, whatever requests, failures and clocks it meets.
THEOREM ServicesTypes == ServicesSpec => []ServicesTypeOK
PROOF
    <1>1. CacheTypeOK /\ LimiterTypeOK /\ RemarksTypeOK /\ StudiesTypeOK /\ ConfigTypeOK
             /\ ImportTypeOK /\ PageTypeOK /\ ListTypeOK => ServicesTypeOK
        BY DEF ServicesTypeOK
    <1> QED
        BY <1>1, ServicesApart, CachesTyped, LimiterTyped, RemarksTyped, StudiesTypes,
           ConfigTypes, ImportTypesHold, PageTypes, ListTypes, PTL
===============================================================================
