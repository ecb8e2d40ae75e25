------------------------- MODULE MobileUpdateProofs -------------------------
(***************************************************************************)
(* The manifest the server serves from its cache is valid and recent, for  *)
(* any releases, checks and lifetime of the cache.  The argument: whatever *)
(* is on its way into the cache was the latest release at some time since  *)
(* its request began, which is the time the cache is dated with, and a     *)
(* manifest that is there does not change.  What the app installs was      *)
(* offered: it has a digest, and is newer than what the app ran from       *)
(* whichever check the offer comes that learnt the running version; and    *)
(* what was hashed keeps the recorded digest.                              *)
(***************************************************************************)
EXTENDS MobileUpdate, TLAPS

\* A release that was looked at since the given time
LatestSince(r, since) == r = latest \/ superseded[r] >= since

\* What a request found is a manifest of a release that was the latest while it ran.
FoundIsRecent ==
    \A c \in Checks :
        /\ serving[c].at \in {"release", "manifest"} => serving[c].now <= clock
        /\ serving[c].at = "manifest" =>
              /\ manifest[serving[c].release] # None
              /\ LatestSince(serving[c].release, serving[c].now)

\* So is what was cached, and it was valid.
CachedIsRecent ==
    /\ cacheTime <= clock
    /\ cache # 0 =>
          /\ manifest[cache] # None
          /\ ValidManifest(manifest[cache], cache)
          /\ LatestSince(cache, cacheTime)

\* While the app updates there is an update available.
UpdatesToSomething == update # Idle => available # 0

IInv == TypeOK /\ FoundIsRecent /\ CachedIsRecent /\ UpdatesToSomething

------------------------------------------------------------------------------
LEMMA ReleasesAreNumbers == Releases = 1..Len(TagOf) /\ Len(TagOf) \in Nat \ {0}
BY MobileUpdateAssumption DEF Releases

\* What is under way determines the fields there are.
LEMMA ServingFields ==
    ASSUME NEW s \in Serving
    PROVE  /\ s.at = "release" => s \in [at : {"release"}, now : 0..MaxClock]
           /\ s.at = "manifest" => s \in [at : {"manifest"}, now : 0..MaxClock, release : Releases]
           /\ s.at \notin {"release", "manifest"} => s = Idle
BY DEF Serving, Idle

LEMMA CheckFields ==
    ASSUME NEW s \in Check
    PROVE  s.at \in {"notes", "manifest"} => s \in [at : {"notes", "manifest"}, release : Releases]
BY DEF Check, Idle

LEMMA UpdateFields ==
    ASSUME NEW s \in Update
    PROVE  /\ s.at = "digest" => s \in [at : {"digest"}, release : Releases, blind : BOOLEAN]
           /\ s.at = "download" =>
                 s \in [at : {"download"}, release : Releases, blind : BOOLEAN, hashed : Bundle]
           /\ s.at = "set" =>
                 s \in [at : {"set"}, bundle : Bundle, blind : BOOLEAN, hashed : Bundle]
           /\ s.at \in {"digest", "download", "set"} <=> s # Idle
BY DEF Update, Idle

\* What a fetch brings.
LEMMA FetchFields ==
    ASSUME TypeOK, NEW r \in Releases
    PROVE  Fetch(r) \in Bundle /\ Fetch(r).release = r
BY DEF Fetch, Bundle, TypeOK

\* An answer leaves the checks well-typed.
LEMMA AnswerKeepsType ==
    ASSUME check \in [Checks -> Check], NEW c \in Checks, NEW r \in Releases \cup {0}, Answer(c, r)
    PROVE  check' \in [Checks -> Check]
BY ReleasesAreNumbers DEF Answer, Check

LEMMA IdleTypes == Idle \in Serving /\ Idle \in Check /\ Idle \in Update /\ Idle.at = "idle"
BY DEF Serving, Check, Update, Idle

LEMMA InitIInv == Init => IInv
<1>. SUFFICES ASSUME Init PROVE IInv
  OBVIOUS
<1>1. TypeOK
  <2>1. /\ clock \in 0..MaxClock /\ cacheTime \in 0..MaxClock
        /\ superseded \in [Releases -> 0..(MaxClock + 1)]
    BY MobileUpdateAssumption DEF Init
  <2>2. {latest, cache, installed, available} \subseteq 0..Len(TagOf)
    BY ReleasesAreNumbers DEF Init
  <2>3. /\ manifest \in [Releases -> Shapes \cup {None}] /\ blind \in BOOLEAN
        /\ file \in [Releases -> Files]
        /\ serving \in [Checks -> Serving] /\ check \in [Checks -> Check] /\ update \in Update
    BY IdleTypes DEF Init, Files
  <2>. QED
    BY <2>1, <2>2, <2>3 DEF TypeOK
<1>2. FoundIsRecent /\ CachedIsRecent /\ UpdatesToSomething
  BY IdleTypes DEF Init, FoundIsRecent, CachedIsRecent, UpdatesToSomething
<1>. QED
  BY <1>1, <1>2 DEF IInv

\* Steps that leave GitHub, the server and the clock alone.
LEMMA AppOnly ==
    ASSUME IInv, UNCHANGED <<clock, githubVars, serverVars>>
    PROVE  FoundIsRecent' /\ CachedIsRecent'
BY DEF IInv, FoundIsRecent, CachedIsRecent, LatestSince, githubVars, serverVars, ValidManifest, ValidTags

LEMMA NextIInv == IInv /\ [Next]_vars => IInv'
<1>. SUFFICES ASSUME IInv, [Next]_vars PROVE IInv'
  OBVIOUS
<1>. USE DEF IInv
<1>. USE ReleasesAreNumbers, MobileUpdateAssumption
<1>1. CASE UNCHANGED vars
  BY <1>1, AppOnly DEF vars, appVars, githubVars, serverVars, TypeOK, UpdatesToSomething
<1>2. CASE Publish
  <2>1. TypeOK'
    BY <1>2 DEF Publish, TypeOK, serverVars, appVars
  <2>2. FoundIsRecent'
    <3>. SUFFICES ASSUME NEW c \in Checks
                  PROVE  /\ serving[c].at \in {"release", "manifest"} => serving[c].now <= clock
                         /\ serving[c].at = "manifest" =>
                              /\ manifest[serving[c].release] # None
                              /\ LatestSince(serving[c].release, serving[c].now)'
      BY <1>2 DEF Publish, FoundIsRecent, serverVars
    <3>. QED
      BY <1>2, ServingFields DEF Publish, FoundIsRecent, LatestSince, TypeOK, serverVars
  <2>3. CachedIsRecent'
    BY <1>2 DEF Publish, CachedIsRecent, LatestSince, TypeOK, serverVars, ValidManifest, ValidTags
  <2>. QED
    BY <1>2, <2>1, <2>2, <2>3 DEF Publish, UpdatesToSomething, appVars
<1>3. ASSUME NEW m \in Shapes, Upload(m) PROVE IInv'
  <2>1. TypeOK'
    BY <1>3 DEF Upload, TypeOK, serverVars, appVars
  <2>2. \A r \in Releases : manifest[r] # None => manifest'[r] = manifest[r]
    BY <1>3 DEF Upload, TypeOK
  <2>3. FoundIsRecent'
    BY <1>3, <2>2, ServingFields DEF Upload, FoundIsRecent, LatestSince, TypeOK, serverVars
  <2>4. CachedIsRecent'
    BY <1>3, <2>2 DEF Upload, CachedIsRecent, LatestSince, TypeOK, serverVars, ValidManifest, ValidTags
  <2>. QED
    BY <1>3, <2>1, <2>3, <2>4 DEF Upload, UpdatesToSomething, appVars
<1>17. ASSUME NEW r \in Releases, Rebuild(r) PROVE IInv'
  <2>1. TypeOK'
    BY <1>17 DEF Rebuild, TypeOK, Files, serverVars, appVars
  <2>2. FoundIsRecent'
    BY <1>17 DEF Rebuild, FoundIsRecent, LatestSince, serverVars
  <2>3. CachedIsRecent'
    BY <1>17 DEF Rebuild, CachedIsRecent, LatestSince, serverVars, ValidManifest, ValidTags
  <2>. QED
    BY <1>17, <2>1, <2>2, <2>3 DEF Rebuild, UpdatesToSomething, appVars
<1>4. CASE Tick
  <2>1. TypeOK' /\ clock <= clock' /\ clock' \in Nat
    BY <1>4 DEF Tick, TypeOK, githubVars, serverVars, appVars
  <2>2. FoundIsRecent'
    BY <1>4, <2>1, ServingFields DEF Tick, FoundIsRecent, LatestSince, TypeOK, githubVars, serverVars
  <2>3. CachedIsRecent'
    BY <1>4, <2>1 DEF Tick, CachedIsRecent, LatestSince, TypeOK, githubVars, serverVars, ValidManifest, ValidTags
  <2>. QED
    BY <1>4, <2>1, <2>2, <2>3 DEF Tick, UpdatesToSomething, appVars
<1>5. ASSUME NEW c \in Checks, StartCheck(c) PROVE IInv'
  <2>1. CASE CacheIsFresh
    <3>1. [at |-> "notes", release |-> cache] \in Check
      BY <2>1 DEF CacheIsFresh, Check, TypeOK
    <3>2. check' = [check EXCEPT ![c] = [at |-> "notes", release |-> cache]] /\ UNCHANGED serving
      BY <1>5, <2>1 DEF StartCheck
    <3>3. TypeOK'
      BY <1>5, <3>1, <3>2 DEF StartCheck, TypeOK, githubVars
    <3>. QED
      BY <1>5, <3>2, <3>3, AppOnly DEF StartCheck, serverVars, UpdatesToSomething
  <2>2. CASE ~CacheIsFresh
    <3>. DEFINE s == [at |-> "release", now |-> clock]
    <3>1. s \in Serving /\ s.at = "release" /\ s.now = clock /\ [at |-> "endpoint"] \in Check
      BY DEF Check, Serving, TypeOK
    <3>2. check' = [check EXCEPT ![c] = [at |-> "endpoint"]] /\ serving' = [serving EXCEPT ![c] = s]
      BY <1>5, <2>2 DEF StartCheck
    <3>. HIDE DEF s
    <3>3. TypeOK'
      BY <1>5, <3>1, <3>2 DEF StartCheck, TypeOK, githubVars
    <3>4. FoundIsRecent'
      BY <1>5, <3>1, <3>2 DEF StartCheck, FoundIsRecent, LatestSince, TypeOK, githubVars
    <3>5. CachedIsRecent'
      BY <1>5 DEF StartCheck, CachedIsRecent, LatestSince, githubVars, ValidManifest, ValidTags
    <3>. QED
      BY <1>5, <3>3, <3>4, <3>5 DEF StartCheck, UpdatesToSomething
  <2>. QED
    BY <2>1, <2>2
<1>6. ASSUME NEW c \in Checks, ReleaseFetched(c) PROVE IInv'
  <2>1. serving[c] \in [at : {"release"}, now : 0..MaxClock]
    BY <1>6, ServingFields DEF ReleaseFetched, TypeOK
  <2>2. latest \in Releases
    BY <1>6 DEF ReleaseFetched, TypeOK
  <2>3. check' \in [Checks -> Check]
    BY <1>6, AnswerKeepsType DEF ReleaseFetched, TypeOK
  <2>4. PICK s \in Serving : /\ serving' = [serving EXCEPT ![c] = s]
                             /\ \/ s = Idle
                                \/ /\ manifest[latest] # None
                                   /\ s = [at |-> "manifest", now |-> serving[c].now, release |-> latest]
    <3>1. Idle \in Serving /\ [at |-> "manifest", now |-> serving[c].now, release |-> latest] \in Serving
      BY <2>1, <2>2 DEF Serving
    <3>. QED
      BY <1>6, <3>1 DEF ReleaseFetched
  <2>5. TypeOK'
    BY <1>6, <2>3, <2>4 DEF ReleaseFetched, TypeOK, githubVars
  <2>6. FoundIsRecent'
    <3>1. CASE s = Idle
      BY <1>6, <2>4, <3>1 DEF ReleaseFetched, FoundIsRecent, LatestSince, TypeOK, githubVars, Idle
    <3>2. CASE /\ manifest[latest] # None
               /\ s = [at |-> "manifest", now |-> serving[c].now, release |-> latest]
      <4>1. s.at = "manifest" /\ s.now = serving[c].now /\ s.release = latest /\ s.now <= clock
        BY <1>6, <2>1, <3>2 DEF FoundIsRecent
      <4>. QED
        BY <1>6, <2>4, <3>2, <4>1 DEF ReleaseFetched, FoundIsRecent, LatestSince, TypeOK, githubVars
    <3>. QED
      BY <2>4, <3>1, <3>2
  <2>7. CachedIsRecent'
    BY <1>6 DEF ReleaseFetched, CachedIsRecent, LatestSince, githubVars, ValidManifest, ValidTags
  <2>. QED
    BY <1>6, <2>5, <2>6, <2>7 DEF ReleaseFetched, UpdatesToSomething
<1>7. ASSUME NEW c \in Checks, ManifestFetched(c) PROVE IInv'
  <2>. DEFINE r == serving[c].release
  <2>1. serving[c] \in [at : {"manifest"}, now : 0..MaxClock, release : Releases]
    BY <1>7, ServingFields DEF ManifestFetched, TypeOK
  <2>2. check' \in [Checks -> Check]
    BY <1>7, <2>1, AnswerKeepsType DEF ManifestFetched, TypeOK
  <2>3. serving' \in [Checks -> Serving]
    BY <1>7 DEF ManifestFetched, TypeOK, Serving
  <2>4. CachedIsRecent' /\ cache' \in 0..Len(TagOf) /\ cacheTime' \in 0..MaxClock
    <3>1. CASE ValidManifest(manifest[r], r)
      <4>1. cache' = r /\ cacheTime' = serving[c].now /\ UNCHANGED <<clock, githubVars>>
        BY <1>7, <3>1 DEF ManifestFetched, Fill
      <4>2. manifest[r] # None /\ LatestSince(r, serving[c].now) /\ serving[c].now <= clock
        BY <1>7, <2>1 DEF ManifestFetched, FoundIsRecent
      <4>. QED
        BY <2>1, <3>1, <4>1, <4>2 DEF CachedIsRecent, LatestSince, githubVars, ValidManifest, ValidTags
    <3>2. CASE ~ValidManifest(manifest[r], r)
      BY <1>7, <3>2 DEF ManifestFetched, CachedIsRecent, LatestSince, githubVars, ValidManifest, ValidTags, TypeOK
    <3>. QED
      BY <3>1, <3>2
  <2>5. TypeOK'
    BY <1>7, <2>2, <2>3, <2>4 DEF ManifestFetched, TypeOK, githubVars
  <2>6. FoundIsRecent'
    BY <1>7 DEF ManifestFetched, FoundIsRecent, LatestSince, TypeOK, githubVars, Idle
  <2>. QED
    BY <1>7, <2>4, <2>5, <2>6 DEF ManifestFetched, UpdatesToSomething
<1>8. ASSUME NEW c \in Checks, ServerFetchFails(c) PROVE IInv'
  <2>1. check' \in [Checks -> Check]
    BY <1>8, AnswerKeepsType DEF ServerFetchFails, TypeOK
  <2>2. TypeOK'
    BY <1>8, <2>1 DEF ServerFetchFails, TypeOK, githubVars, Serving
  <2>3. FoundIsRecent'
    BY <1>8 DEF ServerFetchFails, FoundIsRecent, LatestSince, TypeOK, githubVars, Idle
  <2>4. CachedIsRecent'
    BY <1>8 DEF ServerFetchFails, CachedIsRecent, LatestSince, githubVars, ValidManifest, ValidTags
  <2>. QED
    BY <1>8, <2>2, <2>3, <2>4 DEF ServerFetchFails, UpdatesToSomething
<1>9. ASSUME NEW c \in Checks, EndpointUnreachable(c) PROVE IInv'
  <2>1. check' \in [Checks -> Check]
    BY <1>9, AnswerKeepsType DEF EndpointUnreachable, TypeOK
  <2>2. TypeOK'
    BY <1>9, <2>1 DEF EndpointUnreachable, TypeOK, githubVars, serverVars
  <2>. QED
    BY <1>9, <2>2, AppOnly DEF EndpointUnreachable, UpdatesToSomething
<1>10. ASSUME NEW c \in Checks, DirectRelease(c) PROVE IInv'
  <2>1. [at |-> "manifest", release |-> latest] \in Check
    BY <1>10 DEF DirectRelease, Check, TypeOK
  <2>2. TypeOK'
    BY <1>10, <2>1 DEF DirectRelease, TypeOK, githubVars, serverVars
  <2>. QED
    BY <1>10, <2>2, AppOnly DEF DirectRelease, UpdatesToSomething
<1>11. ASSUME NEW c \in Checks, Conclude(c) PROVE IInv'
  <2>1. check[c].release \in Releases
    BY <1>11, CheckFields DEF Conclude, TypeOK
  <2>2. available' \in {available, check[c].release} /\ blind' \in BOOLEAN
    BY <1>11 DEF Conclude, TypeOK
  <2>3. TypeOK'
    BY <1>11, <2>1, <2>2 DEF Conclude, TypeOK, githubVars, serverVars, Check
  <2>4. UNCHANGED <<clock, githubVars, serverVars, update>>
    BY <1>11 DEF Conclude
  <2>5. UpdatesToSomething'
    BY <2>1, <2>2, <2>4 DEF UpdatesToSomething
  <2>. QED
    BY <2>3, <2>4, <2>5, AppOnly
<1>12. ASSUME NEW c \in Checks, CheckFails(c) PROVE IInv'
  <2>1. TypeOK'
    BY <1>12 DEF CheckFails, TypeOK, githubVars, serverVars, Check
  <2>. QED
    BY <1>12, <2>1, AppOnly DEF CheckFails, UpdatesToSomething
<1>13. CASE UpdateNow
  <2>1. [at |-> "digest", release |-> available, blind |-> blind] \in Update
    BY <1>13 DEF UpdateNow, TypeOK, Update
  <2>2. TypeOK'
    BY <1>13, <2>1 DEF UpdateNow, TypeOK, githubVars, serverVars
  <2>. QED
    BY <1>13, <2>2, AppOnly DEF UpdateNow, UpdatesToSomething
<1>14. CASE Verify
  <2>1. available # 0
    BY <1>14 DEF Verify, UpdatesToSomething, Idle
  <2>2. update.release \in Releases
    BY <1>14, UpdateFields DEF Verify, TypeOK
  <2>3. update' \in Update
    BY <1>14, <2>1, <2>2, FetchFields DEF Verify, TypeOK, Update
  <2>4. TypeOK'
    BY <1>14, <2>3 DEF Verify, TypeOK, githubVars, serverVars
  <2>. QED
    BY <1>14, <2>1, <2>4, AppOnly DEF Verify, UpdatesToSomething
<1>18. CASE Download
  <2>1. available # 0
    BY <1>18 DEF Download, UpdatesToSomething, Idle
  <2>2. update \in [at : {"download"}, release : Releases, blind : BOOLEAN, hashed : Bundle]
    BY <1>18, UpdateFields DEF Download, TypeOK
  <2>3. update' \in Update
    BY <1>18, <2>2, FetchFields DEF Download, Update
  <2>4. TypeOK'
    BY <1>18, <2>3 DEF Download, TypeOK, githubVars, serverVars
  <2>. QED
    BY <1>18, <2>1, <2>4, AppOnly DEF Download, UpdatesToSomething
<1>15. CASE UpdateFails
  <2>1. TypeOK'
    BY <1>15 DEF UpdateFails, TypeOK, githubVars, serverVars, Update
  <2>. QED
    BY <1>15, <2>1, AppOnly DEF UpdateFails, UpdatesToSomething
<1>16. CASE Install
  <2>1. update.bundle.release \in Releases
    BY <1>16, UpdateFields DEF Install, TypeOK, Bundle
  <2>2. TypeOK'
    <3>1. check' \in [Checks -> Check] /\ update' \in Update /\ blind' \in BOOLEAN
      BY <1>16, IdleTypes DEF Install
    <3>2. installed' \in 0..Len(TagOf) /\ available' \in 0..Len(TagOf)
      BY <1>16, <2>1 DEF Install
    <3>. QED
      BY <1>16, <3>1, <3>2 DEF Install, TypeOK, githubVars, serverVars
  <2>. QED
    BY <1>16, <2>2, AppOnly DEF Install, UpdatesToSomething
<1>. QED
  BY <1>1, <1>2, <1>3, <1>4, <1>5, <1>6, <1>7, <1>8, <1>9, <1>10, <1>11, <1>12, <1>13, <1>14, <1>15, <1>16, <1>17, <1>18
  DEF Next, CheckStep

LEMMA Inductive == Spec => []IInv
BY InitIInv, NextIInv, PTL DEF Spec

------------------------------------------------------------------------------
\* Every variable keeps its type.
THEOREM TypeCorrect == Spec => []TypeOK
<1>1. IInv => TypeOK
  BY DEF IInv
<1>. QED
  BY <1>1, Inductive, PTL

\* What the server serves from its cache was the latest release less than the
\* cache's lifetime ago, and valid (server.js:428-478).
THEOREM CacheServesRecent == Spec => []ServedIsRecent
<1>1. IInv => ServedIsRecent
  <2>. SUFFICES ASSUME IInv, CacheIsFresh PROVE ServedIsRecent
    BY DEF ServedIsRecent
  <2>1. cache # 0 /\ clock - cacheTime < CacheTtl
    BY DEF CacheIsFresh
  <2>2. ValidManifest(manifest[cache], cache) /\ LatestSince(cache, cacheTime)
    BY <2>1 DEF IInv, CachedIsRecent
  <2>3. /\ clock \in Nat /\ cacheTime \in Nat /\ CacheTtl \in Nat /\ superseded[cache] \in Nat
    <3>1. cache \in Releases
      BY <2>1, ReleasesAreNumbers DEF IInv, TypeOK
    <3>. QED
      BY <3>1, MobileUpdateAssumption DEF IInv, TypeOK
  <2>4. cache = latest \/ clock - superseded[cache] < CacheTtl
    BY <2>1, <2>2, <2>3 DEF LatestSince
  <2>. QED
    BY <2>2, <2>4 DEF ServedIsRecent, ValidManifest
<1>. QED
  BY <1>1, Inductive, PTL

------------------------------------------------------------------------------
(* What the app installs *)

\* A release that may be offered by a check that learnt the running version, or
\* did not (b).
Offered(r, b) ==
    /\ manifest[r] # None
    /\ manifest[r].digest # "none"
    /\ ~b => Older(Running, manifest[r].channel)

\* A check goes on only with a manifest that is there.
ChecksFound ==
    \A c \in Checks : check[c].at \in {"notes", "manifest"} => manifest[check[c].release] # None

\* What is available and what is being installed was offered, and what was
\* hashed has the recorded digest.
OfferInv ==
    /\ installed # 0 => manifest[installed] # None
    /\ available # 0 => Offered(available, blind)
    /\ update.at \in {"digest", "download"} => Offered(update.release, update.blind)
    /\ update.at = "set" => Offered(update.bundle.release, update.blind)
    /\ update.at \in {"download", "set"} =>
          manifest[update.hashed.release] # None /\ Verified(update.hashed)

AppInv == ChecksFound /\ OfferInv

\* Manifests that are there stay as they are.
ManifestsStay == \A r \in Releases : manifest[r] # None => manifest'[r] = manifest[r]

LEMMA ManifestsAreKept == TypeOK /\ [Next]_vars => ManifestsStay
BY DEF Next, CheckStep, vars, githubVars, Publish, Tick, Upload, Rebuild, StartCheck, ReleaseFetched,
       ManifestFetched, ServerFetchFails, EndpointUnreachable, DirectRelease, Conclude, CheckFails,
       UpdateNow, Verify, Download, UpdateFails, Install, ManifestsStay, TypeOK

\* An offer stands as long as the app runs what it ran.
LEMMA OfferedStays ==
    ASSUME TypeOK, OfferInv, ManifestsStay, UNCHANGED installed,
           NEW r \in Releases, NEW b \in BOOLEAN, Offered(r, b)
    PROVE  Offered(r, b)'
<1>1. installed # 0 => installed \in Releases
  BY ReleasesAreNumbers DEF TypeOK
<1>2. Running' = Running
  BY <1>1 DEF OfferInv, ManifestsStay, Running
<1>. QED
  BY <1>2 DEF ManifestsStay, Offered

\* The releases that OfferInv speaks of.
LEMMA UpdateReleases ==
    ASSUME TypeOK
    PROVE  /\ available # 0 => available \in Releases
           /\ update.at \in {"digest", "download"} => update.release \in Releases
           /\ update.at \in {"digest", "download", "set"} => update.blind \in BOOLEAN
           /\ update.at = "set" => update.bundle \in Bundle /\ update.bundle.release \in Releases
           /\ update.at \in {"download", "set"} =>
                 update.hashed \in Bundle /\ update.hashed.release \in Releases
<1>1. available # 0 => available \in Releases
  BY ReleasesAreNumbers DEF TypeOK
<1>. QED
  BY <1>1, UpdateFields DEF TypeOK, Bundle

\* What was verified stays so: its manifest does not change.
LEMMA VerifiedStays ==
    ASSUME ManifestsStay, NEW h \in Bundle, manifest[h.release] # None, Verified(h)
    PROVE  manifest'[h.release] # None /\ Verified(h)'
<1>1. h.release \in Releases
  BY DEF Bundle
<1>. QED
  BY <1>1 DEF ManifestsStay, Verified, Recorded

\* What the app runs, offers and installs does not change.
LEMMA OfferStays ==
    ASSUME TypeOK, OfferInv, ManifestsStay, UNCHANGED <<installed, available, blind, update>>
    PROVE  OfferInv'
<1>1. installed # 0 => installed \in Releases
  BY ReleasesAreNumbers DEF TypeOK
<1>2. installed' # 0 => manifest'[installed'] # None
  BY <1>1 DEF OfferInv, ManifestsStay
<1>3. available' # 0 => Offered(available, blind)'
  BY UpdateReleases, OfferedStays DEF OfferInv, TypeOK
<1>4. update'.at \in {"digest", "download"} => Offered(update.release, update.blind)'
  BY UpdateReleases, OfferedStays DEF OfferInv
<1>5. update'.at = "set" => Offered(update.bundle.release, update.blind)'
  BY UpdateReleases, OfferedStays DEF OfferInv
<1>6. update'.at \in {"download", "set"} =>
          manifest'[update'.hashed.release] # None /\ Verified(update.hashed)'
  BY UpdateReleases, VerifiedStays DEF OfferInv
<1>. QED
  BY <1>2, <1>3, <1>4, <1>5, <1>6 DEF OfferInv

\* The checks go on with what they had.
LEMMA FoundStays ==
    ASSUME TypeOK, ChecksFound, ManifestsStay,
           \A c \in Checks : check'[c] = check[c] \/ check'[c].at \notin {"notes", "manifest"}
    PROVE  ChecksFound'
<1>1. \A c \in Checks : check[c].at \in {"notes", "manifest"} => check[c].release \in Releases
  BY CheckFields DEF TypeOK
<1>. QED
  BY <1>1 DEF ChecksFound, ManifestsStay

\* One check has found a release.
LEMMA OneFound ==
    ASSUME TypeOK, ChecksFound, ManifestsStay, NEW c \in Checks, NEW s, NEW r \in Releases,
           s.release = r, manifest[r] # None, check' = [check EXCEPT ![c] = s]
    PROVE  ChecksFound'
<1>1. \A d \in Checks : check[d].at \in {"notes", "manifest"} => check[d].release \in Releases
  BY CheckFields DEF TypeOK
<1>2. \A d \in Checks : check'[d] = IF d = c THEN s ELSE check[d]
  BY DEF TypeOK
<1>. QED
  BY <1>1, <1>2 DEF ChecksFound, ManifestsStay

\* The error of the endpoint leads to no manifest.
LEMMA ErrorFinds ==
    ASSUME TypeOK, ChecksFound, ManifestsStay, NEW c \in Checks, Answer(c, 0)
    PROVE  ChecksFound'
<1>1. \A d \in Checks : check'[d] = check[d] \/ check'[d].at \notin {"notes", "manifest"}
  BY DEF Answer, TypeOK
<1>. QED
  BY <1>1, FoundStays

LEMMA InitAppInv == Init => AppInv
BY DEF Init, AppInv, ChecksFound, OfferInv, Idle

LEMMA NextAppInv == IInv /\ AppInv /\ [Next]_vars => AppInv'
<1>. SUFFICES ASSUME IInv, AppInv, [Next]_vars PROVE AppInv'
  OBVIOUS
<1>1. TypeOK /\ ChecksFound /\ OfferInv /\ FoundIsRecent /\ CachedIsRecent /\ ManifestsStay
  BY ManifestsAreKept DEF IInv, AppInv
<1>. USE <1>1 DEF AppInv
<1>2. ASSUME UNCHANGED appVars PROVE AppInv'
  BY <1>2, OfferStays, FoundStays DEF appVars
<1>3. CASE \/ UNCHANGED vars \/ Publish \/ Tick
           \/ (\E m \in Shapes : Upload(m)) \/ (\E r \in Releases : Rebuild(r))
  BY <1>2, <1>3 DEF vars, Publish, Tick, Upload, Rebuild
<1>4. ASSUME NEW c \in Checks, StartCheck(c) PROVE AppInv'
  <2>1. OfferInv'
    BY <1>4, OfferStays DEF StartCheck
  <2>2. CASE CacheIsFresh
    <3>. DEFINE s == [at |-> "notes", release |-> cache]
    <3>1. s.release = cache /\ check' = [check EXCEPT ![c] = s]
      BY <1>4, <2>2 DEF StartCheck
    <3>2. cache \in Releases /\ manifest[cache] # None
      BY <2>2, ReleasesAreNumbers DEF CacheIsFresh, CachedIsRecent, TypeOK
    <3>. QED
      BY <2>1, <3>1, <3>2, OneFound
  <2>3. CASE ~CacheIsFresh
    <3>1. \A d \in Checks : check'[d] = check[d] \/ check'[d].at \notin {"notes", "manifest"}
      BY <1>4, <2>3 DEF StartCheck, TypeOK
    <3>. QED
      BY <2>1, <3>1, FoundStays
  <2>. QED
    BY <2>2, <2>3
<1>5. ASSUME NEW c \in Checks, ReleaseFetched(c) PROVE AppInv'
  <2>1. OfferInv'
    BY <1>5, OfferStays DEF ReleaseFetched
  <2>2. ChecksFound'
    BY <1>5, ErrorFinds, FoundStays DEF ReleaseFetched
  <2>. QED
    BY <2>1, <2>2
<1>6. ASSUME NEW c \in Checks, ManifestFetched(c) PROVE AppInv'
  <2>1. OfferInv'
    BY <1>6, OfferStays DEF ManifestFetched
  <2>2. PICK r \in Releases : /\ r = serving[c].release
                              /\ manifest[r] # None
                              /\ Answer(c, r) \/ Answer(c, 0)
    <3>1. serving[c].release \in Releases
      BY <1>6, ServingFields DEF ManifestFetched, TypeOK
    <3>2. manifest[serving[c].release] # None
      BY <1>6 DEF ManifestFetched, FoundIsRecent
    <3>. QED
      BY <1>6, <3>1, <3>2 DEF ManifestFetched
  <2>3. CASE Answer(c, r)
    <3>1. r # 0
      BY ReleasesAreNumbers
    <3>. DEFINE s == [at |-> "notes", release |-> r]
    <3>2. s.release = r
      OBVIOUS
    <3>3. UNCHANGED check \/ check' = [check EXCEPT ![c] = s]
      BY <2>3, <3>1 DEF Answer
    <3>. HIDE DEF s
    <3>. QED
      BY <2>1, <2>2, <3>2, <3>3, OneFound, FoundStays
  <2>. QED
    BY <2>1, <2>2, <2>3, ErrorFinds
<1>7. ASSUME NEW c \in Checks, ServerFetchFails(c) PROVE AppInv'
  BY <1>7, OfferStays, ErrorFinds DEF ServerFetchFails
<1>8. ASSUME NEW c \in Checks, EndpointUnreachable(c) PROVE AppInv'
  BY <1>8, OfferStays, ErrorFinds DEF EndpointUnreachable
<1>9. ASSUME NEW c \in Checks, DirectRelease(c) PROVE AppInv'
  <2>1. OfferInv'
    BY <1>9, OfferStays DEF DirectRelease
  <2>. DEFINE s == [at |-> "manifest", release |-> latest]
  <2>2. s.release = latest /\ check' = [check EXCEPT ![c] = s]
    BY <1>9 DEF DirectRelease
  <2>3. latest \in Releases /\ manifest[latest] # None
    BY <1>9, ReleasesAreNumbers DEF DirectRelease, TypeOK
  <2>. QED
    BY <2>1, <2>2, <2>3, OneFound
<1>10. ASSUME NEW c \in Checks, CheckFails(c) PROVE AppInv'
  <2>1. \A d \in Checks : check'[d] = check[d] \/ check'[d].at \notin {"notes", "manifest"}
    BY <1>10 DEF CheckFails, TypeOK, Idle
  <2>. QED
    BY <1>10, <2>1, OfferStays, FoundStays DEF CheckFails
<1>11. ASSUME NEW c \in Checks, Conclude(c) PROVE AppInv'
  <2>1. \A d \in Checks : check'[d] = check[d] \/ check'[d].at \notin {"notes", "manifest"}
    BY <1>11 DEF Conclude, TypeOK, Idle
  <2>2. ChecksFound'
    BY <2>1, FoundStays
  <2>3. CASE UNCHANGED <<available, blind>>
    BY <1>11, <2>2, <2>3, OfferStays DEF Conclude
  <2>4. ASSUME NEW known \in BOOLEAN,
               ~NoUpdate(manifest[check[c].release], CurrentVersion(known)),
               available' = check[c].release, blind' = ~known
        PROVE  OfferInv'
    <3>1. PICK r \in Releases : r = check[c].release
      BY <1>11, CheckFields DEF Conclude, TypeOK
    <3>2. available' = r /\ UNCHANGED <<manifest, installed, update>>
      BY <1>11, <2>4, <3>1 DEF Conclude, githubVars
    <3>3. Offered(r, ~known)
      BY <1>11, <2>4, <3>1 DEF Conclude, ChecksFound, NoUpdate, CurrentVersion, Offered
    <3>4. /\ Offered(available, blind)'
          /\ \A q \in Releases, b \in BOOLEAN : Offered(q, b) => Offered(q, b)'
      BY <2>4, <3>2, <3>3 DEF Offered, Running
    <3>5. /\ update'.at \in {"digest", "download"} => Offered(update.release, update.blind)'
          /\ update'.at = "set" => Offered(update.bundle.release, update.blind)'
      BY <3>2, <3>4, UpdateReleases DEF OfferInv, Offered
    <3>6. update'.at \in {"download", "set"} =>
              manifest'[update'.hashed.release] # None /\ Verified(update.hashed)'
      BY <3>2, UpdateReleases, VerifiedStays DEF OfferInv
    <3>. QED
      BY <3>2, <3>4, <3>5, <3>6 DEF OfferInv
  <2>. QED
    BY <1>11, <2>2, <2>3, <2>4 DEF Conclude
<1>12. CASE UpdateNow
  <2>1. ChecksFound'
    BY <1>12, FoundStays DEF UpdateNow
  <2>2. PICK u : u = update' /\ u.at = "digest" /\ u.release = available /\ u.blind = blind
    BY <1>12 DEF UpdateNow
  <2>3. UNCHANGED <<manifest, installed, available, blind>> /\ Offered(available, blind)
    BY <1>12 DEF UpdateNow, OfferInv, githubVars
  <2>4. Offered(available, blind)' /\ Offered(u.release, u.blind)'
    BY <2>2, <2>3 DEF Offered, Running
  <2>. QED
    BY <2>1, <2>2, <2>3, <2>4 DEF OfferInv
<1>13. CASE Verify
  <2>1. ChecksFound'
    BY <1>13, FoundStays DEF Verify
  <2>. DEFINE h == Fetch(update.release)
  <2>2. available # 0 /\ Verified(h) /\ h \in Bundle /\ manifest[h.release] # None
    BY <1>13, UpdateReleases, FetchFields DEF Verify, IInv, UpdatesToSomething, Idle, OfferInv, Offered
  <2>. HIDE DEF h
  <2>3. PICK u : /\ u = update' /\ u.at = "download" /\ u.release = available /\ u.blind = blind
                 /\ u.hashed = h
    BY <1>13 DEF Verify, h
  <2>4. UNCHANGED <<manifest, installed, available, blind>> /\ Offered(available, blind)
    BY <1>13, <2>2 DEF Verify, OfferInv, githubVars
  <2>5. Offered(available, blind)' /\ Offered(u.release, u.blind)'
    BY <2>3, <2>4 DEF Offered, Running
  <2>6. manifest'[u.hashed.release] # None /\ Verified(u.hashed)'
    BY <2>2, <2>3, <2>4 DEF Verified, Recorded
  <2>. QED
    BY <2>1, <2>3, <2>4, <2>5, <2>6 DEF OfferInv
<1>16. CASE Download
  <2>1. ChecksFound'
    BY <1>16, FoundStays DEF Download
  <2>2. update.release \in Releases
    BY <1>16, UpdateReleases DEF Download
  <2>3. PICK u : /\ u = update' /\ u.at = "set" /\ u.bundle.release = update.release
                 /\ u.blind = update.blind /\ u.hashed = update.hashed
    BY <1>16, <2>2, FetchFields DEF Download
  <2>4. UNCHANGED <<manifest, installed, available, blind>>
    BY <1>16 DEF Download, githubVars
  <2>5. /\ available # 0 => Offered(available, blind)'
        /\ Offered(u.bundle.release, u.blind)'
    BY <1>16, <2>3, <2>4 DEF Download, OfferInv, Offered, Running
  <2>6. manifest'[u.hashed.release] # None /\ Verified(u.hashed)'
    BY <1>16, <2>3, <2>4 DEF Download, OfferInv, Verified, Recorded
  <2>. QED
    BY <2>1, <2>3, <2>4, <2>5, <2>6 DEF OfferInv
<1>14. CASE UpdateFails
  <2>1. ChecksFound'
    BY <1>14, FoundStays DEF UpdateFails
  <2>2. update'.at = "idle" /\ UNCHANGED <<manifest, installed, available, blind>>
    BY <1>14 DEF UpdateFails, Idle, githubVars
  <2>3. available # 0 => Offered(available, blind)'
    BY <2>2 DEF OfferInv, Offered, Running
  <2>. QED
    BY <2>1, <2>2, <2>3 DEF OfferInv
<1>15. CASE Install
  <2>1. \A c \in Checks : check'[c].at = "idle"
    BY <1>15 DEF Install, Idle
  <2>2. /\ manifest[update.bundle.release] # None /\ UNCHANGED manifest
        /\ installed' = update.bundle.release /\ available' = 0 /\ update'.at = "idle"
    BY <1>15 DEF Install, OfferInv, Offered, Idle, githubVars
  <2>. QED
    BY <2>1, <2>2 DEF ChecksFound, OfferInv
<1>. QED
  BY <1>3, <1>4, <1>5, <1>6, <1>7, <1>8, <1>9, <1>10, <1>11, <1>12, <1>13, <1>14, <1>15, <1>16
  DEF Next, CheckStep

LEMMA AppInductive == Spec => []AppInv
BY InitAppInv, NextAppInv, Inductive, PTL DEF Spec

\* What the app installs is newer than what it ran, however the checks and the
\* update interleave, if the check that offered it learnt the running version
\* (update-manager.js:122-178, 203-252).
THEOREM InstallsForward == Spec => OnlyForward
<1>1. IInv /\ AppInv => [Install /\ ~update.blind => Older(Running, Running')]_vars
  <2>. SUFFICES ASSUME IInv, AppInv, Install, ~update.blind
                PROVE  Older(Running, Running')
    OBVIOUS
  <2>1. update.at = "set" /\ update.bundle.release \in Releases
    BY UpdateReleases DEF Install, IInv
  <2>2. Running' = manifest[update.bundle.release].channel
    BY <2>1, ReleasesAreNumbers DEF Install, Running, githubVars
  <2>3. Older(Running, manifest[update.bundle.release].channel)
    BY <2>1 DEF AppInv, OfferInv, Offered
  <2>. QED
    BY <2>2, <2>3
<1>. QED
  BY <1>1, Inductive, AppInductive, PTL DEF Spec, OnlyForward

\* A bundle is installed only if its manifest recorded a digest, and with that
\* digest unless it is not what was hashed (update-manager.js:143-155, 222-247).
THEOREM InstallsVerified == Spec => VerifiedIfUnchanged
<1>1. AppInv =>
          [Install => /\ manifest[installed'].digest # "none"
                      /\ update.bundle = update.hashed => Recorded(update.bundle)]_vars
  <2>. SUFFICES ASSUME AppInv, Install
                PROVE  /\ manifest[installed'].digest # "none"
                       /\ update.bundle = update.hashed => Recorded(update.bundle)
    OBVIOUS
  <2>1. update.at = "set" /\ installed' = update.bundle.release
    BY DEF Install
  <2>2. manifest[installed'].digest # "none"
    BY <2>1 DEF AppInv, OfferInv, Offered
  <2>3. Recorded(update.hashed)
    BY <2>1 DEF AppInv, OfferInv, Verified
  <2>. QED
    BY <2>2, <2>3
<1>. QED
  BY <1>1, AppInductive, PTL DEF Spec, VerifiedIfUnchanged
==============================================================================
