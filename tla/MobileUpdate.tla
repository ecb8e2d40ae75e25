---------------------------- MODULE MobileUpdate ----------------------------
(***************************************************************************)
(* Updates of the mobile app: the manifest route of server.js with its     *)
(* cache, the validation of lib/mobile-manifest-validator.js, and the      *)
(* update manager of the app (public/mobile/update-manager.js), which      *)
(* checks, verifies and installs.  A release and its manifest go by one    *)
(* number; its bundle is what a fetch of its URL brings at the time, which *)
(* may change.  The releases and their files on GitHub are external.       *)
(***************************************************************************)
EXTENDS Integers, Sequences

CONSTANTS
    Checks,         \* update checks that may be under way (bounds their overlap)
    None,
    TagOf,          \* the version a release is tagged with, by release
    Shapes,         \* the manifests a release may carry
    CacheTtl,       \* MOBILE_UPDATE_CACHE_TTL_MS, in ticks
    Rebuilt,        \* the releases whose file may be replaced (bounds Rebuild)
    MaxClock        \* bound on the clock

Releases == DOMAIN TagOf

\* What may be at a release's bundleUrl
Files == {"built", "rebuilt"}

\* What validation and the app look at in a manifest.  "tagged": version and
\* tag are those of the release; "digest": absent, or that of the file at
\* bundleUrl as it was first built or as it was built again.
Shape == [tagged : BOOLEAN, channel : Seq(Nat), trusted : BOOLEAN,
          digestAlgorithm : {"none", "sha-256", "sha256", "sha384", "sha512"},
          digest : {"none"} \cup Files]

ASSUME MobileUpdateAssumption ==
    /\ TagOf \in Seq(Seq(Nat)) /\ TagOf # <<>>
    /\ Shapes \subseteq Shape
    /\ CacheTtl \in Nat /\ MaxClock \in Nat
    /\ None \notin Shapes

VARIABLES
    clock,
    latest,         \* the latest release on GitHub
    manifest,       \* the manifest of each release, None before its upload
    file,           \* the file at each release's bundleUrl
    superseded,     \* when each release ceased to be the latest, MaxClock + 1 before
    cache,          \* mobileUpdateCache: a release, 0 for null
    cacheTime,      \* mobileUpdateCacheTime
    serving,        \* the manifest request of each check, at the server
    installed,      \* the bundle the app runs
    available,      \* availableUpdate: a release, 0 for null
    check,          \* checkForUpdate, by check
    blind,          \* availableUpdate comes from a check that did not learn the
                    \* running version
    update          \* update(), and what it has fetched

githubVars == <<latest, manifest, file, superseded>>
serverVars == <<cache, cacheTime, serving>>
appVars == <<installed, available, blind, check, update>>
vars == <<clock, githubVars, serverVars, appVars>>

Idle == [at |-> "idle"]
Serving == {Idle} \cup [at : {"release"}, now : 0..MaxClock]
           \cup [at : {"manifest"}, now : 0..MaxClock, release : Releases]
Check == {Idle} \cup [at : {"endpoint", "release"}]
         \cup [at : {"notes", "manifest"}, release : Releases]
Bundle == [release : Releases, file : Files]
Update ==
    {Idle} \cup [at : {"digest"}, release : Releases, blind : BOOLEAN]
    \cup [at : {"download"}, release : Releases, blind : BOOLEAN, hashed : Bundle]
    \cup [at : {"set"}, bundle : Bundle, blind : BOOLEAN, hashed : Bundle]

-----------------------------------------------------------------------------
(* Versions and manifests *)

Part(v, k) == IF k <= Len(v) THEN v[k] ELSE 0

\* compareVersions(v, w) < 0: missing parts count as 0.
Older(v, w) ==
    \E k \in 1..(Len(v) + Len(w)) :
        /\ Part(v, k) < Part(w, k)
        /\ \A j \in 1..(k - 1) : Part(v, j) = Part(w, j)

ValidSchema(m) == m.digestAlgorithm \in {"sha-256", "sha384", "sha512"} /\ m.digest # "none"
ValidTags(m, r) == m.tagged /\ ~Older(m.channel, TagOf[r])
ValidHosts(m) == m.trusted

\* validateManifest, for the manifest m of release r.
ValidManifest(m, r) == ValidSchema(m) /\ ValidTags(m, r) /\ ValidHosts(m)

\* The version of the running bundle; '0.0.0' for the one the app came with.
Running == IF installed = 0 THEN <<0>> ELSE manifest[installed].channel

\* What a check takes for the running version: '0.0.0' too where the plug-in's
\* getCurrent is missing or fails.
CurrentVersion(known) == IF known THEN Running ELSE <<0>>

\* Mutant of NoUpdate: the running version is offered again.
NoUpdateOlder(m, current) ==
    \/ m.digestAlgorithm \notin {"sha-256", "sha256", "sha384", "sha512"}
    \/ m.digest = "none"
    \/ Older(m.channel, current)

\* checkForUpdate's reasons not to offer the stable channel of a manifest.
NoUpdate(m, current) ==
    \/ m.digestAlgorithm \notin {"sha-256", "sha256", "sha384", "sha512"}
    \/ m.digest = "none"
    \/ ~Older(current, m.channel)

-----------------------------------------------------------------------------
(* GitHub *)

\* A release is published; its manifest is uploaded afterwards.
Publish ==
    /\ latest < Len(TagOf)
    /\ latest' = latest + 1
    /\ superseded' = [r \in Releases |-> IF r = latest THEN clock ELSE superseded[r]]
    /\ UNCHANGED <<clock, manifest, file, serverVars, appVars>>

Upload(m) ==
    /\ latest # 0 /\ manifest[latest] = None
    /\ manifest' = [manifest EXCEPT ![latest] = m]
    /\ UNCHANGED <<clock, latest, file, superseded, serverVars, appVars>>

\* The file of a published release is replaced under the same URL.
Rebuild(r) ==
    /\ r \in Rebuilt /\ r <= latest /\ file[r] = "built"
    /\ file' = [file EXCEPT ![r] = "rebuilt"]
    /\ UNCHANGED <<clock, latest, manifest, superseded, serverVars, appVars>>

Tick ==
    /\ clock < MaxClock
    /\ clock' = clock + 1
    /\ UNCHANGED <<githubVars, serverVars, appVars>>

-----------------------------------------------------------------------------
(* GET /api/mobile/update-manifest, asked by a check *)

\* The answer, a release's manifest or an error (0), reaches the check, if the
\* app is still waiting for it: it goes on to the release notes, or to GitHub.
Answer(c, r) ==
    check' = IF check[c].at # "endpoint" THEN check
             ELSE [check EXCEPT ![c] = IF r = 0 THEN [at |-> "release"]
                                       ELSE [at |-> "notes", release |-> r]]

CacheIsFresh == cache # 0 /\ clock - cacheTime < CacheTtl

\* The release is looked up: it has the manifest among its assets, or not.
ReleaseFetched(c) ==
    /\ serving[c].at = "release"
    /\ latest # 0
    /\ IF manifest[latest] = None
       THEN Answer(c, 0) /\ serving' = [serving EXCEPT ![c] = Idle]
       ELSE /\ serving' = [serving EXCEPT ![c] = [at |-> "manifest", now |-> serving[c].now,
                                                  release |-> latest]]
            /\ UNCHANGED check
    /\ UNCHANGED <<clock, githubVars, cache, cacheTime, installed, available, blind, update>>

\* Mutant of Fill: the cache's time is that of the end of the request.
FillLate(c) == cache' = serving[c].release /\ cacheTime' = clock

\* The cache is filled, and dated with the start of the request.
Fill(c) == cache' = serving[c].release /\ cacheTime' = serving[c].now

\* The manifest is there: if it is valid it is cached and answered.
ManifestFetched(c) ==
    /\ serving[c].at = "manifest"
    /\ LET r == serving[c].release
       IN  IF ValidManifest(manifest[r], r)
           THEN Fill(c) /\ Answer(c, r)
           ELSE UNCHANGED <<cache, cacheTime>> /\ Answer(c, 0)
    /\ serving' = [serving EXCEPT ![c] = Idle]
    /\ UNCHANGED <<clock, githubVars, installed, available, blind, update>>

\* GitHub answers with an error, the fetch times out, or the request is aborted.
ServerFetchFails(c) ==
    /\ serving[c] # Idle
    /\ serving' = [serving EXCEPT ![c] = Idle]
    /\ Answer(c, 0)
    /\ UNCHANGED <<clock, githubVars, cache, cacheTime, installed, available, blind, update>>

-----------------------------------------------------------------------------
(* checkForUpdate: at start, at every interval.  The running bundle cannot   *)
(* change before it ends, because installing one reloads the app.            *)

StartCheck(c) ==
    /\ check[c] = Idle /\ serving[c] = Idle
    /\ IF CacheIsFresh
       THEN check' = [check EXCEPT ![c] = [at |-> "notes", release |-> cache]] /\ UNCHANGED serving
       ELSE /\ check' = [check EXCEPT ![c] = [at |-> "endpoint"]]
            /\ serving' = [serving EXCEPT ![c] = [at |-> "release", now |-> clock]]
    /\ UNCHANGED <<clock, githubVars, cache, cacheTime, installed, available, blind, update>>

\* The endpoint cannot be reached from the app.
EndpointUnreachable(c) ==
    /\ check[c].at = "endpoint"
    /\ Answer(c, 0)
    /\ UNCHANGED <<clock, githubVars, serverVars, installed, available, blind, update>>

\* The app looks the release up itself.
DirectRelease(c) ==
    /\ check[c].at = "release"
    /\ latest # 0 /\ manifest[latest] # None
    /\ check' = [check EXCEPT ![c] = [at |-> "manifest", release |-> latest]]
    /\ UNCHANGED <<clock, githubVars, serverVars, installed, available, blind, update>>

\* The check has the manifest and the release: it offers the update, or not.
\* Whether it learnt the running version was settled when it began.
Conclude(c) ==
    /\ check[c].at \in {"notes", "manifest"}
    /\ check' = [check EXCEPT ![c] = Idle]
    /\ \E known \in BOOLEAN :
          IF NoUpdate(manifest[check[c].release], CurrentVersion(known))
          THEN UNCHANGED <<available, blind>>
          ELSE available' = check[c].release /\ blind' = ~known
    /\ UNCHANGED <<clock, githubVars, serverVars, installed, update>>

\* A fetch of the check fails.  Without the release notes the check throws at
\* release.body, so nothing is offered then either.
CheckFails(c) ==
    /\ check[c].at \in {"release", "manifest", "notes"}
    /\ check' = [check EXCEPT ![c] = Idle]
    /\ UNCHANGED <<clock, githubVars, serverVars, installed, available, blind, update>>

-----------------------------------------------------------------------------
(* update *)

\* What a fetch of a release's bundleUrl brings now.
Fetch(r) == [release |-> r, file |-> file[r]]

\* The digest the manifest of a bundle's release records is that of the bundle.
Recorded(b) == manifest[b.release].digest = b.file

\* The button "Update Now", disabled while an update is under way.
UpdateNow ==
    /\ update = Idle /\ available # 0
    /\ update' = [at |-> "digest", release |-> available, blind |-> blind]
    /\ UNCHANGED <<clock, githubVars, serverVars, installed, available, blind, check>>

\* Mutant of Verified: the digest is computed but not compared.
VerifiedAnyhow(b) == manifest[b.release].digestAlgorithm \in {"sha-256", "sha256"}

\* _computeBundleDigest knows the algorithm and finds the recorded digest:
\* SubtleCrypto has no 'SHA384' or 'SHA512', which toUpperCase makes of the names.
Verified(b) == manifest[b.release].digestAlgorithm \in {"sha-256", "sha256"} /\ Recorded(b)

\* A fetch of the bundle has the recorded digest.  What the plug-in is told to
\* download is the update available now.
Verify ==
    /\ update.at = "digest"
    /\ LET hashed == Fetch(update.release)
       IN  /\ Verified(hashed)
           /\ update' = [at |-> "download", release |-> available, blind |-> blind,
                         hashed |-> hashed]
    /\ UNCHANGED <<clock, githubVars, serverVars, installed, available, blind, check>>

\* updater.download fetches once more; nothing hashes what it brings.
Download ==
    /\ update.at = "download"
    /\ update' = [at |-> "set", bundle |-> Fetch(update.release), blind |-> update.blind,
                  hashed |-> update.hashed]
    /\ UNCHANGED <<clock, githubVars, serverVars, installed, available, blind, check>>

\* A bundle cannot be fetched or set, or its digest is not the recorded one.
UpdateFails ==
    /\ update # Idle
    /\ update' = Idle
    /\ UNCHANGED <<clock, githubVars, serverVars, installed, available, blind, check>>

\* updater.set: the app restarts with the new bundle.
Install ==
    /\ update.at = "set"
    /\ installed' = update.bundle.release
    /\ available' = 0 /\ blind' = FALSE
    /\ check' = [c \in Checks |-> Idle]
    /\ update' = Idle
    /\ UNCHANGED <<clock, githubVars, serverVars>>

-----------------------------------------------------------------------------
Init ==
    /\ clock = 0
    /\ latest = 0
    /\ manifest = [r \in Releases |-> None]
    /\ file = [r \in Releases |-> "built"]
    /\ superseded = [r \in Releases |-> MaxClock + 1]
    /\ cache = 0 /\ cacheTime = 0
    /\ serving = [c \in Checks |-> Idle]
    /\ installed = 0 /\ available = 0 /\ blind = FALSE
    /\ check = [c \in Checks |-> Idle]
    /\ update = Idle

CheckStep(c) ==
    \/ StartCheck(c) \/ ReleaseFetched(c) \/ ManifestFetched(c) \/ ServerFetchFails(c)
    \/ EndpointUnreachable(c) \/ DirectRelease(c) \/ Conclude(c) \/ CheckFails(c)

Next ==
    \/ Publish \/ Tick
    \/ \E m \in Shapes : Upload(m)
    \/ \E r \in Releases : Rebuild(r)
    \/ \E c \in Checks : CheckStep(c)
    \/ UpdateNow \/ Verify \/ Download \/ UpdateFails \/ Install

Spec == Init /\ [][Next]_vars

-----------------------------------------------------------------------------
(* Properties *)

\* Every variable keeps its type.
TypeOK ==
    /\ clock \in 0..MaxClock
    /\ latest \in 0..Len(TagOf)
    /\ manifest \in [Releases -> Shapes \cup {None}]
    /\ file \in [Releases -> Files]
    /\ superseded \in [Releases -> 0..(MaxClock + 1)]
    /\ cache \in 0..Len(TagOf) /\ cacheTime \in 0..MaxClock
    /\ serving \in [Checks -> Serving]
    /\ installed \in 0..Len(TagOf) /\ available \in 0..Len(TagOf)
    /\ blind \in BOOLEAN
    /\ check \in [Checks -> Check]
    /\ update \in Update

\* What the server serves from its cache is valid and was the latest release
\* less than the cache's lifetime ago, also when requests overlap and the
\* earlier one overwrites what the later one cached ("stale manifests for up
\* to MOBILE_UPDATE_CACHE_TTL_MS").
ServedIsRecent ==
    CacheIsFresh =>
        /\ ValidSchema(manifest[cache]) /\ ValidHosts(manifest[cache])
        /\ ValidTags(manifest[cache], cache)
        /\ cache = latest \/ clock - superseded[cache] < CacheTtl

\* The app never replaces its bundle by one of the same or an older version,
\* however late the answers its checks are made of and whichever check set
\* availableUpdate last, unless the check that made the offer did not learn the
\* running version: then it compares with '0.0.0' (update-manager.js:63-72, 132).
OnlyForward ==
    [][Install /\ ~update.blind => Older(Running, Running')]_vars

\* Whatever is installed, its manifest recorded a digest; and it has that digest
\* if it is what was hashed.  It is something else where a check set another
\* availableUpdate while update() awaited the digest, or where the file at the
\* URL changed between the fetch that was hashed and the download.  So "verify
\* the bundle's bytes ... BEFORE handing it to updater.set()" is not what the
\* code does: Rebuild between Verify and Download refutes the second conjunct
\* without its condition (update-manager.js:143-155, 222-246).
VerifiedIfUnchanged ==
    [][Install => /\ manifest[installed'].digest # "none"
                  /\ update.bundle = update.hashed => Recorded(update.bundle)]_vars
=============================================================================
