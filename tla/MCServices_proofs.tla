--------------------------- MODULE MCServices_proofs ---------------------------
(***************************************************************************)
(* The components side by side: no step of one reaches the state of another, *)
(* so what the components promise one by one they promise together.        *)
(***************************************************************************)
EXTENDS MCServices, Members_proofs, Operations_proofs, Sites_proofs

\* A behaviour of the composition is one of every component.
LEMMA PartsRun ==
  ServicesSpec =>
    AccountSpec /\ OAuthSpec /\ GraphSpec /\ CleanupSpec /\ SitesSpec /\ SitemapSpec /\ ApiSpec /\
    QuerySpec /\ NoticeSpec /\ BootstrapSpec /\ RolloutSpec /\ ExtractionSpec /\ SnapshotSpec
  <1>1. [ServicesNext]_servicesVars => [AccountNext]_accountVars
    BY DEF ServicesNext, Only, servicesVars
  <1>2. [ServicesNext]_servicesVars => [OAuthNext]_oauthVars
    BY DEF ServicesNext, Only, servicesVars
  <1>3. [ServicesNext]_servicesVars => [GraphNext]_graphVars
    BY DEF ServicesNext, Only, servicesVars
  <1>4. [ServicesNext]_servicesVars => [CleanupNext]_cleanupVars
    BY DEF ServicesNext, Only, servicesVars
  <1>5. [ServicesNext]_servicesVars => [SitesNext]_siteVars
    BY DEF ServicesNext, Only, servicesVars
  <1>6. [ServicesNext]_servicesVars => [SitemapNext]_sitemapVars
    BY DEF ServicesNext, Only, servicesVars
  <1>7. [ServicesNext]_servicesVars => [ApiNext]_apiVars
    BY DEF ServicesNext, Only, servicesVars
  <1>8. [ServicesNext]_servicesVars => [QueryNext]_queryVars
    BY DEF ServicesNext, Only, servicesVars
  <1>9. [ServicesNext]_servicesVars => [NoticeNext]_noticeVars
    BY DEF ServicesNext, Only, servicesVars
  <1>10. [ServicesNext]_servicesVars => [BootstrapNext]_bootVars
    BY DEF ServicesNext, Only, servicesVars
  <1>11. [ServicesNext]_servicesVars => [RolloutNext]_rolloutVars
    BY DEF ServicesNext, Only, servicesVars
  <1>12. [ServicesNext]_servicesVars => [ExtractionNext]_extractionVars
    BY DEF ServicesNext, Only, servicesVars
  <1>13. [ServicesNext]_servicesVars => [SnapshotNext]_snapshotVars
    BY DEF ServicesNext, Only, servicesVars
  <1>14. ServicesInit =>
           AccountInit /\ OAuthInit /\ GraphInit /\ CleanupInit /\ SitesInit /\ SitemapInit /\
           ApiInit /\ QueryInit /\ NoticeInit /\ BootstrapInit /\ RolloutInit /\ ExtractionInit /\
           SnapshotInit
    BY DEF ServicesInit
  <1>. QED
    BY <1>1, <1>2, <1>3, <1>4, <1>5, <1>6, <1>7, <1>8, <1>9, <1>10, <1>11, <1>12, <1>13, <1>14, PTL
    DEF ServicesSpec, AccountSpec, OAuthSpec, GraphSpec, CleanupSpec, SitesSpec, SitemapSpec,
    ApiSpec, QuerySpec, NoticeSpec, BootstrapSpec, RolloutSpec, ExtractionSpec, SnapshotSpec

\* What several processes may create at the same time is created once: bootstrap
\* commands that overlap go on with one vector collection, and attempts that
\* overlap with one extraction of the page.
THEOREM CreatedOnceHolds == ServicesSpec => []CreatedOnce
  <1>1. EnsuredMatches /\ OneExtraction => CreatedOnce
    BY DEF CreatedOnce
  <1>. QED  BY <1>1, PartsRun, EnsuredMatchesHolds, OneExtractionHolds, PTL

-----------------------------------------------------------------------------
(* Types.  The types of the parts follow from their inductive invariants.   *)

LEMMA MembersTyped == ServicesSpec => [](AccountTypeOK /\ OAuthTypeOK /\ ApiTypeOK /\ QueryTypeOK)
  <1>1. AccountSpec => []AccountTypeOK
    BY AccountInvInit, AccountInvNext, AccountInvImplies, PTL DEF AccountSpec
  <1>2. ApiSpec => []ApiTypeOK
    BY ApiInvInit, ApiInvNext, ApiInvImplies, PTL DEF ApiSpec
  <1>. QED  BY <1>1, <1>2, PartsRun, OAuthTyped, SteadyIsFoundHolds, PTL

LEMMA OperationsTyped ==
  ServicesSpec => [](NoticeTypeOK /\ BootstrapTypeOK /\ RolloutTypeOK /\ ExtractionTypeOK)
  <1>1. BootstrapSpec => []BootstrapTypeOK
    BY BootInvInit, BootInvNext, BootInvImplies, PTL DEF BootstrapSpec
  <1>2. RolloutSpec => []RolloutTypeOK
    BY RolloutInvInit, RolloutInvNext, RolloutInvImplies, PTL DEF RolloutSpec
  <1>3. ExtractionSpec => []ExtractionTypeOK
    BY ExtractionInvInit, ExtractionInvNext, ExtractionInvTyped, PTL DEF ExtractionSpec
  <1>. QED  BY <1>1, <1>2, <1>3, PartsRun, CheckpointAnnouncedHolds, PTL

LEMMA SitesTyped ==
  ServicesSpec => [](GraphTypeOK /\ CleanupTypeOK /\ SitesTypeOK /\ SitemapTypeOK /\ SnapshotTypeOK)
  <1>1. CleanupSpec => []CleanupTypeOK
    BY CleanupInvInit, CleanupInvNext, CleanupInvImplies, PTL DEF CleanupSpec
  <1>2. SitesSpec => []SitesTypeOK
    BY RatingsInvInit, RatingsInvNext, RatingsInvImplies, PTL DEF SitesSpec
  <1>. QED  BY <1>1, <1>2, PartsRun, GraphIsFaithfulHolds, ParseIsSoundHolds, SnapshotsStayHolds, PTL

\* The rows of every component stay of their types: a token row that exists has a
\* client and a member, no two sites share a host, a site with a cleanup intent is
\* gone, and the parser's link folding agrees with its definition.
THEOREM ServicesTypeCorrect == ServicesSpec => []ServicesTypeOK
  <1>1. AccountTypeOK /\ OAuthTypeOK /\ GraphTypeOK /\ CleanupTypeOK /\ SitesTypeOK /\ SitemapTypeOK
          /\ ApiTypeOK /\ QueryTypeOK /\ NoticeTypeOK /\ BootstrapTypeOK /\ RolloutTypeOK
          /\ ExtractionTypeOK /\ SnapshotTypeOK => ServicesTypeOK
    BY DEF ServicesTypeOK
  <1>. QED  BY <1>1, MembersTyped, OperationsTyped, SitesTyped, PTL

-----------------------------------------------------------------------------
(* Promises.                                                               *)

\* What the components promise of their states and of their steps, they promise
\* together: members are served on what is current, their sites on what is
\* faithful, and an operation announces what is so.
THEOREM PartsKeepPromises ==
  ServicesSpec =>
    /\ [](/\ ProfileIsCurrent /\ GrantsAreSpent /\ ServedBeforeReplaced
         /\ WindowBudget /\ ExitTellsCause /\ SteadyIsFound
         /\ GraphIsFaithful /\ RatingOfItsHost /\ ParseIsSound
         /\ CheckpointAnnounced /\ CreatedOnce)
    /\ RowOutlivesPoints /\ SnapshotsStay /\ ReadyMeansServing
  <1>1. ServicesSpec =>
          [](/\ ProfileIsCurrent /\ GrantsAreSpent /\ ServedBeforeReplaced
            /\ WindowBudget /\ ExitTellsCause /\ SteadyIsFound)
    BY PartsRun, ProfileIsCurrentHolds, GrantsAreSpentHolds, ServedBeforeReplacedHolds,
       WindowBudgetHolds, ExitTellsCauseHolds,
       SteadyIsFoundHolds, PTL
  <1>2. ServicesSpec => [](GraphIsFaithful /\ RatingOfItsHost /\ ParseIsSound)
    BY PartsRun, GraphIsFaithfulHolds, RatingOfItsHostHolds, ParseIsSoundHolds, PTL
  <1>3. ServicesSpec => RowOutlivesPoints /\ SnapshotsStay /\ ReadyMeansServing
    BY PartsRun, RowOutlivesPointsHolds, SnapshotsStayHolds, ReadyMeansServingHolds
  <1>4. ServicesSpec => [](CheckpointAnnounced /\ CreatedOnce)
    BY PartsRun, CheckpointAnnouncedHolds, CreatedOnceHolds, PTL
  <1>. QED  BY <1>1, <1>2, <1>3, <1>4, PTL

================================================================================
