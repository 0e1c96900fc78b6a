-------------------------------- MODULE IndexNow ------------------------------
(***************************************************************************)
(* Telling search engines about changed public pages: citeguild/indexnow.py *)
(* as its workflow runs it, one run at a time, while releases go live under *)
(* it.  A page is the release that last changed it; Gone is no page.  The   *)
(* main branch only moves on, so a release never comes back.                *)
(***************************************************************************)
EXTENDS Integers, FiniteSets

CONSTANTS
    PublicUrls,        \* public pages: numbers, in the order of sorted()
    Sections,   \* the sitemaps that the sitemap index names
    SectionOf,  \* the one that lists each page
    Dated,       \* the pages whose <lastmod> moves with their content
    BatchSize,   \* URLs in one submission: 10 000
    MaxTries,    \* attempts of request(): 4
    MaxReleases  \* bound: releases in a behaviour

ASSUME NoticeAssumption ==
    /\ PublicUrls \subseteq Nat /\ IsFiniteSet(PublicUrls) /\ SectionOf \in [PublicUrls -> Sections]
    /\ Dated \subseteq PublicUrls /\ {BatchSize, MaxTries, MaxReleases} \subseteq Nat \ {0}

VARIABLES
    release,     \* the live CITEGUILD_RELEASE
    page,        \* the live pages
    checkpoint,  \* the state file in the cache: the state each URL was last saved with
    notice,      \* the run under way
    heard        \* history: the page that was live when the URL was last announced

noticeVars == <<release, page, checkpoint, notice, heard>>

Gone == 0
NoEntry == <<>>
NoNotice == [at |-> "idle", expected |-> 0, force |-> FALSE, unread |-> {},
             current |-> [u \in PublicUrls |-> NoEntry], unsent |-> {}, tries |-> 0]
NoticeInit ==
    /\ release = 1 /\ page \in [PublicUrls -> {Gone, 1}] /\ page # [u \in PublicUrls |-> Gone]
    /\ checkpoint = [u \in PublicUrls |-> NoEntry] /\ notice = NoNotice
    /\ heard = [u \in PublicUrls |-> Gone]

\* Mutant: the revision is left out of the stamp.
FingerprintMutant(expected, u) ==
    IF page[u] = Gone THEN NoEntry ELSE <<IF u \in Dated THEN page[u] ELSE 0>>

\* What the sitemap says of a page when the run expects this revision.
Fingerprint(expected, u) ==
    IF page[u] = Gone THEN NoEntry ELSE <<expected, IF u \in Dated THEN page[u] ELSE 0>>

-----------------------------------------------------------------------------
(* The world.                                                              *)

\* A deployment changes, adds and removes pages.
Deploy ==
    /\ release < MaxReleases /\ release' = release + 1
    /\ \E changed \in SUBSET PublicUrls, gone \in SUBSET PublicUrls :
        page' = [u \in PublicUrls |-> IF u \in gone THEN Gone ELSE IF u \in changed THEN release' ELSE page[u]]
    /\ UNCHANGED <<checkpoint, notice, heard>>

\* The workflow's cache is evicted.
EvictCheckpoint ==
    /\ notice.at = "idle" /\ checkpoint' = [u \in PublicUrls |-> NoEntry]
    /\ UNCHANGED <<release, page, notice, heard>>

-----------------------------------------------------------------------------
(* A run.                                                                  *)

Noticing == UNCHANGED <<release, page>>
Quits == notice' = NoNotice /\ UNCHANGED <<checkpoint, heard>> /\ Noticing

\* The hourly check and the forced refresh after a deployment; the command
\* submit_indexnow expects no revision, here 0, and keeps no checkpoint.
StartNotice ==
    /\ notice.at = "idle" /\ UNCHANGED <<checkpoint, heard>> /\ Noticing
    /\ \E expected \in {0} \cup release .. MaxReleases, force \in BOOLEAN :
        /\ expected = 0 => force
        /\ notice' = [NoNotice EXCEPT !.at = "verify", !.expected = expected, !.force = force]

\* deployment_key: the live key, from the revision expected.
VerifyKey ==
    /\ notice.at = "verify" /\ notice.expected \in {0, release}
    /\ notice' = [notice EXCEPT !.at = "read", !.unread = Sections]
    /\ UNCHANGED <<checkpoint, heard>> /\ Noticing

\* The live revision stays another one for thirty attempts; a request fails for
\* good; a sitemap is malformed, foreign, cyclic or too long; the run is cancelled.
AbandonNotice == notice.at # "idle" /\ Quits

\* sitemap_state reads one document after the other.
ReadSection(d) ==
    /\ notice.at = "read" /\ d \in notice.unread
    /\ notice' = [notice EXCEPT !.unread = @ \ {d},
                                !.current = [u \in PublicUrls |-> IF SectionOf[u] = d
                                             THEN Fingerprint(notice.expected, u) ELSE @[u]]]
    /\ UNCHANGED <<checkpoint, heard>> /\ Noticing

\* The changed URLs; an empty sitemap is refused, a dry run ends here.
CompareStates ==
    /\ notice.at = "read" /\ notice.unread = {}
    /\ \/ Quits
       \/ /\ \E u \in PublicUrls : notice.current[u] # NoEntry
          /\ LET listed == {u \in PublicUrls : notice.current[u] # NoEntry}
                 known == listed \cup {u \in PublicUrls : checkpoint[u] # NoEntry}
                 changed == IF notice.expected = 0 THEN listed
                            ELSE {u \in known : notice.force \/ notice.current[u] # checkpoint[u]}
             IN  notice' = [notice EXCEPT !.at = "send", !.unsent = changed]
          /\ UNCHANGED <<checkpoint, heard>> /\ Noticing

\* request() after a transient failure: another attempt, unless it was the last.
TriedAgain ==
    IF notice.tries + 1 < MaxTries THEN [notice EXCEPT !.tries = @ + 1] ELSE NoNotice

\* One attempt to submit the next batch: it is received, or the answer is lost
\* on the way back, or it never gets there.
SendBatch ==
    /\ notice.at = "send" /\ notice.unsent # {}
    /\ LET batch == {u \in notice.unsent : Cardinality({v \in notice.unsent : v < u}) < BatchSize}
           reached == [u \in PublicUrls |-> IF u \in batch THEN page[u] ELSE heard[u]]
       IN  \/ /\ notice' = [notice EXCEPT !.unsent = @ \ batch, !.tries = 0]
              /\ heard' = reached
           \/ notice' = TriedAgain /\ heard' \in {heard, reached}
    /\ UNCHANGED checkpoint /\ Noticing

\* submit_changes replaces the state file, and the workflow saves it.
SaveCheckpoint ==
    /\ notice.at = "send" /\ notice.unsent = {}
    /\ checkpoint' = IF notice.expected = 0 THEN checkpoint ELSE notice.current
    /\ notice' = NoNotice /\ UNCHANGED heard /\ Noticing

NoticeNext ==
    \/ Deploy \/ EvictCheckpoint \/ StartNotice \/ VerifyKey \/ AbandonNotice
    \/ \E d \in Sections : ReadSection(d)
    \/ CompareStates \/ SendBatch \/ SaveCheckpoint

NoticeSpec == NoticeInit /\ [][NoticeNext]_noticeVars

-----------------------------------------------------------------------------
(* Properties.                                                             *)

NoticeTypeOK ==
    /\ release \in 1 .. MaxReleases /\ page \in [PublicUrls -> 0 .. MaxReleases]
    /\ heard \in [PublicUrls -> 0 .. MaxReleases] /\ notice.unsent \subseteq PublicUrls
    /\ notice.tries \in 0 .. MaxTries - 1

\* Whatever failed, was retried or went live in between: as long as search engines
\* have not been told of a live page as it is now, the next hourly check finds its
\* state different from the checkpoint.
CheckpointAnnounced ==
    \A u \in PublicUrls : page[u] # Gone /\ heard[u] # page[u] => checkpoint[u] # Fingerprint(release, u)

=============================================================================
