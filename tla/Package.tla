------------------------------- MODULE Package -------------------------------
(***************************************************************************)
(* How stage 1 of bootstrap-prefix.sh gets one tool built: bootstrap_X     *)
(* tries its versions one after the other, bootstrap_gnu tries the archive *)
(* formats of a version, efetch tries the locations of an archive.  What a *)
(* run leaves in DISTDIR and in PORTAGE_TMPDIR is what the next run finds. *)
(* Gnu = FALSE is bootstrap_simple, which has one format per version and   *)
(* returns where bootstrap_gnu continues with the next.                    *)
(***************************************************************************)
EXTENDS Naturals

CONSTANTS
    NVersions,  \* bootstrap_X's fallbacks: bootstrap_gnu X 4.9 || ... X 4.5
    NFormats,   \* tar.xz tar.bz2 tar.gz tar
    NLocations, \* the mirrors, DISTFILES_G_O, DISTFILES_PFX, the given URL
    Usable,     \* formats whose decompressor the host has
    LocalMirror,\* GENTOO_MIRRORS names a local directory
    Gnu,        \* bootstrap_gnu, or bootstrap_simple
    MaxTorn,    \* bound on the copies and downloads that leave a partial file
    MaxFails,   \* bound on the other commands that fail
    MaxKills

Versions == 1..NVersions
Formats == 1..NFormats
Archives == Versions \X Formats

ASSUME PackageAssumption ==
    /\ NVersions \in Nat \ {0}
    /\ NFormats \in Nat \ {0}
    /\ NLocations \in Nat \ {0}
    /\ Usable \subseteq Formats
    /\ LocalMirror \in BOOLEAN
    /\ Gnu \in BOOLEAN
    /\ ~Gnu => NFormats = 1 /\ Usable = Formats
    /\ MaxTorn \in Nat /\ MaxFails \in Nat /\ MaxKills \in Nat

VARIABLES
    pc,         \* where the script is; "idle" between runs
    ver, fmt,   \* the version and the format being tried
    loc,        \* the location efetch tries next
    S,          \* the variable S of bootstrap_gnu is set
    dist,       \* DISTDIR: each archive is there not at all, in part, or whole
    src,        \* PORTAGE_TMPDIR: the sources of each version, likewise
    fresh,      \* versions whose sources this run has unpacked
    installed,  \* none, or how whole the sources of the installed tool were
    tornFiles, fails, kills

vars == <<pc, ver, fmt, loc, S, dist, src, fresh, installed, tornFiles, fails, kills>>

archive == <<ver, fmt>>

-----------------------------------------------------------------------------

\* bootstrap_X || bootstrap_X of an older version || ... || return 1
NextVersion ==
    /\ pc' = IF ver < NVersions THEN "format" ELSE "idle"
    /\ ver' = IF ver < NVersions THEN ver + 1 ELSE 1
    /\ fmt' = 1
    /\ S' = FALSE
    /\ loc' = 1

\* Mutant: bootstrap_gnu returns where it should continue.
NextFormatReturns == NextVersion

\* `continue` in bootstrap_gnu's loop, `return 1` in bootstrap_simple.
NextFormat ==
    IF Gnu
    THEN /\ pc' = "format" /\ fmt' = fmt + 1 /\ loc' = 1
         /\ UNCHANGED <<ver, S>>
    ELSE NextVersion

At(label) == pc' = label /\ UNCHANGED <<ver, fmt, loc, S>>

disk == <<dist, src, fresh, installed>>
faults == <<tornFiles, fails, kills>>

\* Stage 1 finds no guard file: bootstrap_X starts.
StartRun ==
    /\ pc = "idle" /\ installed = "none"
    /\ At("format")
    /\ fresh' = {}
    /\ UNCHANGED <<dist, src, installed, faults>>

\* type -P xz || continue
FormatSkipped ==
    /\ pc = "format" /\ fmt \in Formats \ Usable
    /\ NextFormat
    /\ UNCHANGED <<disk, faults>>

\* efetch: the file is in DISTDIR already, whatever state it is in.
FetchPresent ==
    /\ pc = "format" /\ fmt \in Usable
    /\ dist[archive] # "none"
    /\ At("unpack")
    /\ UNCHANGED <<disk, faults>>

\* A copy or a download that ends badly may leave part of the file behind.
Torn ==
    /\ tornFiles < MaxTorn
    /\ tornFiles' = tornFiles + 1
    /\ dist' = [dist EXCEPT ![archive] = "partial"]

\* cp from a local mirror, `&& return 0`; then the download manager.
FetchLocal ==
    /\ pc = "format" /\ fmt \in Usable
    /\ dist[archive] = "none"
    /\ LocalMirror
    /\ \/ dist' = [dist EXCEPT ![archive] = "whole"] /\ At("unpack") /\ UNCHANGED tornFiles
       \/ Torn /\ At("fetch")
    /\ UNCHANGED <<src, fresh, installed, fails, kills>>

\* Mutant: efetch does not look into DISTDIR.
FetchBeginMutant ==
    /\ pc = "format" /\ fmt \in Usable
    /\ At("fetch")
    /\ UNCHANGED <<disk, faults>>

FetchBegin ==
    /\ pc = "format" /\ fmt \in Usable
    /\ dist[archive] = "none"
    /\ At("fetch")
    /\ UNCHANGED <<disk, faults>>

\* One location is tried; `[[ -f file ]] && break` asks only that there is a file.
FetchTry ==
    /\ pc = "fetch" /\ loc <= NLocations
    /\ \/ /\ \/ dist' = [dist EXCEPT ![archive] = "whole"] /\ UNCHANGED tornFiles
             \/ dist[archive] = "partial" /\ UNCHANGED <<dist, tornFiles>>
             \/ Torn
          /\ At("unpack")
          /\ UNCHANGED fails
       \/ /\ dist[archive] = "none"
          /\ fails < MaxFails
          /\ fails' = fails + 1
          /\ pc' = pc /\ loc' = loc + 1
          /\ UNCHANGED <<ver, fmt, S, dist, tornFiles>>
    /\ UNCHANGED <<src, fresh, installed, kills>>

\* "downloading failed!"
FetchFails ==
    /\ pc = "fetch" /\ loc > NLocations
    /\ NextFormat
    /\ UNCHANGED <<disk, faults>>

\* Mutant: sources that are there already are not unpacked again.
UnpackMutant ==
    /\ pc = "unpack"
    /\ S' = TRUE
    /\ pc' = IF src[ver] = "none" THEN "tar" ELSE "sources"
    /\ UNCHANGED <<ver, fmt, loc, disk, faults>>

\* rm -rf S; mkdir -p S; cd S
Unpack ==
    /\ pc = "unpack"
    /\ src' = [src EXCEPT ![ver] = "none"]
    /\ S' = TRUE
    /\ pc' = "tar"
    /\ UNCHANGED <<ver, fmt, loc, dist, fresh, installed, faults>>

\* The decompressor and tar both succeed: break out of the loop.
TarDone ==
    /\ pc = "tar"
    /\ dist[archive] = "whole"
    /\ src' = [src EXCEPT ![ver] = "whole"]
    /\ fresh' = fresh \cup {ver}
    /\ At("sources")
    /\ UNCHANGED <<dist, installed, faults>>

\* One of them fails, having created some of the sources or none.
TarFails ==
    /\ pc = "tar"
    /\ \/ dist[archive] = "partial" /\ UNCHANGED fails
       \/ dist[archive] = "whole" /\ fails < MaxFails /\ fails' = fails + 1
    /\ \E q \in {"none", "partial"} : src' = [src EXCEPT ![ver] = q]
    /\ fresh' = fresh \cup {ver}
    /\ NextFormat
    /\ UNCHANGED <<dist, installed, tornFiles, kills>>

\* The loop of bootstrap_gnu ends without a break.
FormatsDone ==
    /\ pc = "format" /\ fmt > NFormats
    /\ At("sources")
    /\ UNCHANGED <<disk, faults>>

\* S="${S}"/${PN}-${PV}; [[ -d ${S} ]] || return 1
Sources ==
    /\ pc = "sources"
    /\ IF S /\ src[ver] # "none" THEN At("build") ELSE NextVersion
    /\ UNCHANGED <<disk, faults>>

\* econf, emake and emake install, the last of which makes the guard file.
Build ==
    /\ pc = "build"
    /\ installed' = src[ver]
    /\ src' = [src EXCEPT ![ver] = "none"]
    /\ pc' = "idle" /\ ver' = 1 /\ fmt' = 1 /\ loc' = 1 /\ S' = FALSE
    /\ UNCHANGED <<dist, fresh, faults>>

\* Sources that are not whole need no further misfortune to fail.
BuildFails ==
    /\ pc = "build"
    /\ \/ src[ver] = "partial" /\ UNCHANGED fails
       \/ fails < MaxFails /\ fails' = fails + 1
    /\ NextVersion
    /\ UNCHANGED <<disk, tornFiles, kills>>

\* The run is killed in the middle of a copy or download, of the removal of old
\* sources or the unpacking of new ones, or anywhere else.
Kill ==
    /\ pc # "idle"
    /\ kills < MaxKills
    /\ kills' = kills + 1
    /\ pc' = "idle" /\ ver' = 1 /\ fmt' = 1 /\ loc' = 1 /\ S' = FALSE
    /\ \/ /\ pc = "fetch" \/ (pc = "format" /\ LocalMirror /\ fmt \in Usable)
          /\ dist[archive] = "none"
          /\ dist' = [dist EXCEPT ![archive] = "partial"] /\ UNCHANGED src
       \/ /\ pc = "tar" \/ (pc = "unpack" /\ src[ver] # "none")
          /\ src' = [src EXCEPT ![ver] = "partial"] /\ UNCHANGED dist
       \/ UNCHANGED <<dist, src>>
    /\ UNCHANGED <<fresh, installed, tornFiles, fails>>

Init ==
    /\ pc = "idle" /\ ver = 1 /\ fmt = 1 /\ loc = 1 /\ S = FALSE
    /\ dist = [a \in Archives |-> "none"]
    /\ src = [v \in Versions |-> "none"]
    /\ fresh = {} /\ installed = "none"
    /\ tornFiles = 0 /\ fails = 0 /\ kills = 0

Step == \/ FormatSkipped \/ FetchPresent \/ FetchLocal \/ FetchBegin \/ FetchTry
        \/ FetchFails \/ Unpack \/ TarDone \/ TarFails \/ FormatsDone \/ Sources
        \/ Build \/ BuildFails

Next == StartRun \/ Step \/ Kill

Spec == Init /\ [][Next]_vars

\* The script runs on, and a user whose bootstrap failed runs it again.
FairSpec == Spec /\ WF_vars(Step) /\ WF_vars(StartRun)
-----------------------------------------------------------------------------

Quality == {"none", "partial", "whole"}

\* The variables hold what the comments on their declarations say.
TypeOK ==
    /\ pc \in {"idle", "format", "fetch", "unpack", "tar", "sources", "build"}
    /\ ver \in Versions
    /\ fmt \in 1..(NFormats + 1)
    /\ pc \in {"fetch", "unpack", "tar"} => fmt \in Usable
    /\ loc \in 1..(NLocations + 1)
    /\ S \in BOOLEAN
    /\ dist \in [Archives -> Quality]
    /\ src \in [Versions -> Quality]
    /\ fresh \subseteq Versions
    /\ installed \in Quality
    /\ tornFiles \in 0..MaxTorn /\ fails \in 0..MaxFails /\ kills \in 0..MaxKills

\* What is compiled was unpacked by this run, from an archive of this version:
\* never what a killed run left in PORTAGE_TMPDIR, though `[[ -d ${S} ]]` does
\* not ask who made the directory.
BuildsFresh == pc = "build" => ver \in fresh /\ src[ver] # "none"

\* "to not trigger refetch on repeated invocations of this script": a file
\* that is whole stays, whichever run, mirror or version comes by later.
KeepsWhole == [][\A a \in Archives : dist[a] = "whole" => dist'[a] = "whole"]_vars

\* bootstrap_simple installs nothing from sources that are not whole.
SimpleInstallsWhole == ~Gnu => installed # "partial"

\* A tool is built in the end, unless every archive of every version has been
\* torn: efetch trusts a torn file for ever, so each one costs a fallback.
ResumeHeals ==
    \/ <>(installed # "none")
    \/ <>(\A a \in Versions \X Usable : dist[a] = "partial")

\* "[[ ${PIPESTATUS[*]} == '0 0' ]] || continue", and in the end
\* "successfully bootstrapped".  The code does not keep this after one torn
\* download in the last format (known limits in the README); no run checks it.
BootstrappedWhole == installed # "partial"
=============================================================================
