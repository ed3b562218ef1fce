---------------------------- MODULE PackageProofs ----------------------------
(***************************************************************************)
(* Proofs about Package, for any number of versions, formats, locations    *)
(* and faults.  The inductive invariant adds to TypeOK what the value of S *)
(* and the place in the script say about the sources: Vouched.             *)
(***************************************************************************)
EXTENDS Package, TLAPS

\* S is set only while the sources of the current version are this run's, a
\* file is downloaded only while it is not whole, and bootstrap_simple comes to
\* its build only from an archive that was unpacked to the end.
Vouched ==
    /\ S /\ pc \in {"format", "fetch", "unpack", "sources"} => ver \in fresh
    /\ pc = "tar" => S
    /\ pc = "idle" => ~S
    /\ pc = "fetch" => dist[archive] # "whole"
    /\ ~Gnu => /\ fmt = 1
               /\ pc = "sources" => S /\ src[ver] = "whole"
               /\ pc = "build" => src[ver] = "whole"

Inv == TypeOK /\ Vouched /\ BuildsFresh /\ SimpleInstallsWhole

LEMMA InitInv == Init => Inv
  <1> SUFFICES ASSUME Init PROVE Inv
    OBVIOUS
  <1> USE PackageAssumption DEF Init
  <1>1. S \in BOOLEAN
    OBVIOUS
  <1>2. /\ dist \in [Archives -> Quality]
        /\ src \in [Versions -> Quality]
    BY DEF Quality
  <1>3. TypeOK
    BY <1>1, <1>2 DEF TypeOK, Versions, Quality
  <1>4. Vouched
    BY DEF Vouched
  <1>5. BuildsFresh /\ SimpleInstallsWhole
    BY DEF BuildsFresh, SimpleInstallsWhole
  <1> QED BY <1>3, <1>4, <1>5 DEF Inv

\* Every action of the script, and a kill, preserves each part.
LEMMA NextInv == Inv /\ [Next]_vars => Inv'
  <1> SUFFICES ASSUME Inv, [Next]_vars
               PROVE  Inv'
    OBVIOUS
  <1> USE PackageAssumption
      DEF Inv, TypeOK, Vouched, BuildsFresh, SimpleInstallsWhole, archive, Archives, Versions,
          Formats, Quality, At, disk, faults, NextVersion, NextFormat
  <1>1. CASE StartRun
    <2>1. S' \in BOOLEAN BY <1>1 DEF StartRun
    <2>2. TypeOK' BY <1>1, <2>1 DEF StartRun
    <2>3. Vouched'
      <3>1. S' /\ pc' \in {"format", "fetch", "unpack", "sources"} => ver' \in fresh'
        BY <1>1 DEF StartRun
      <3>2. /\ pc' = "tar" => S'
            /\ pc' = "idle" => ~S'
            /\ pc' = "fetch" => dist'[archive'] # "whole"
        BY <1>1 DEF StartRun
      <3>3. ~Gnu => /\ fmt' = 1
                    /\ pc' = "sources" => S' /\ src'[ver'] = "whole"
                    /\ pc' = "build" => src'[ver'] = "whole"
        BY <1>1 DEF StartRun
      <3> QED BY <3>1, <3>2, <3>3
    <2>4. BuildsFresh' /\ SimpleInstallsWhole' BY <1>1 DEF StartRun
    <2> QED BY <2>2, <2>3, <2>4
  <1>2. CASE FormatSkipped BY <1>2 DEF FormatSkipped
  <1>3. CASE FetchPresent BY <1>3 DEF FetchPresent
  <1>4. CASE FetchLocal
    <2>1. S' \in BOOLEAN BY <1>4 DEF FetchLocal, Torn
    <2>2. TypeOK'
      <3>1. archive \in Archives
        BY <1>4 DEF FetchLocal
      <3>2. dist' \in [Archives -> Quality] /\ src' \in [Versions -> Quality]
        BY <1>4, <3>1 DEF FetchLocal, Torn
      <3>3. /\ tornFiles' \in 0..MaxTorn /\ fails' \in 0..MaxFails /\ kills' \in 0..MaxKills
            /\ fresh' \subseteq Versions /\ installed' \in Quality
        BY <1>4 DEF FetchLocal, Torn
      <3>4. /\ pc' \in {"idle", "format", "fetch", "unpack", "tar", "sources", "build"}
            /\ ver' \in Versions /\ fmt' \in 1..(NFormats + 1) /\ loc' \in 1..(NLocations + 1)
            /\ pc' \in {"fetch", "unpack", "tar"} => fmt' \in Usable
        BY <1>4 DEF FetchLocal, Torn
      <3> QED BY <2>1, <3>2, <3>3, <3>4
    <2>3. Vouched'
      <3>1. S' /\ pc' \in {"format", "fetch", "unpack", "sources"} => ver' \in fresh'
        BY <1>4 DEF FetchLocal, Torn
      <3>2. /\ pc' = "tar" => S'
            /\ pc' = "idle" => ~S'
            /\ pc' = "fetch" => dist'[archive'] # "whole"
        BY <1>4 DEF FetchLocal, Torn
      <3>3. ~Gnu => /\ fmt' = 1
                    /\ pc' = "sources" => S' /\ src'[ver'] = "whole"
                    /\ pc' = "build" => src'[ver'] = "whole"
        BY <1>4 DEF FetchLocal, Torn
      <3> QED BY <3>1, <3>2, <3>3
    <2>4. BuildsFresh' /\ SimpleInstallsWhole' BY <1>4 DEF FetchLocal, Torn
    <2> QED BY <2>2, <2>3, <2>4
  <1>5. CASE FetchBegin BY <1>5 DEF FetchBegin
  <1>6. CASE FetchTry
    <2>1. S' \in BOOLEAN BY <1>6 DEF FetchTry, Torn
    <2>2. TypeOK'
      <3>1. archive \in Archives
        BY <1>6 DEF FetchTry
      <3>2. dist' \in [Archives -> Quality] /\ src' \in [Versions -> Quality]
        BY <1>6, <3>1 DEF FetchTry, Torn
      <3>3. /\ tornFiles' \in 0..MaxTorn /\ fails' \in 0..MaxFails /\ kills' \in 0..MaxKills
            /\ fresh' \subseteq Versions /\ installed' \in Quality
        BY <1>6 DEF FetchTry, Torn
      <3>4. /\ pc' \in {"idle", "format", "fetch", "unpack", "tar", "sources", "build"}
            /\ ver' \in Versions /\ fmt' \in 1..(NFormats + 1) /\ loc' \in 1..(NLocations + 1)
            /\ pc' \in {"fetch", "unpack", "tar"} => fmt' \in Usable
        BY <1>6 DEF FetchTry, Torn
      <3> QED BY <2>1, <3>2, <3>3, <3>4
    <2>3. Vouched' BY <1>6 DEF FetchTry, Torn
    <2>4. BuildsFresh' /\ SimpleInstallsWhole' BY <1>6 DEF FetchTry, Torn
    <2> QED BY <2>2, <2>3, <2>4
  <1>7. CASE FetchFails
    <2>1. S' \in BOOLEAN BY <1>7 DEF FetchFails
    <2>2. TypeOK' BY <1>7, <2>1 DEF FetchFails
    <2>3. Vouched' BY <1>7 DEF FetchFails
    <2>4. BuildsFresh' /\ SimpleInstallsWhole' BY <1>7 DEF FetchFails
    <2> QED BY <2>2, <2>3, <2>4
  <1>8. CASE Unpack BY <1>8 DEF Unpack
  <1>9. CASE TarDone
    <2>1. S' \in BOOLEAN BY <1>9 DEF TarDone
    <2>2. TypeOK' BY <1>9, <2>1 DEF TarDone
    <2>3. Vouched'
      <3>1. S' /\ pc' \in {"format", "fetch", "unpack", "sources"} => ver' \in fresh'
        BY <1>9 DEF TarDone
      <3>2. /\ pc' = "tar" => S'
            /\ pc' = "idle" => ~S'
            /\ pc' = "fetch" => dist'[archive'] # "whole"
        BY <1>9 DEF TarDone
      <3>3. ~Gnu => /\ fmt' = 1
                    /\ pc' = "sources" => S' /\ src'[ver'] = "whole"
                    /\ pc' = "build" => src'[ver'] = "whole"
        BY <1>9 DEF TarDone
      <3> QED BY <3>1, <3>2, <3>3
    <2>4. BuildsFresh' /\ SimpleInstallsWhole' BY <1>9 DEF TarDone
    <2> QED BY <2>2, <2>3, <2>4
  <1>10. CASE TarFails
    <2>1. S' \in BOOLEAN BY <1>10 DEF TarFails
    <2>2. TypeOK'
      <3>1. dist' \in [Archives -> Quality] /\ src' \in [Versions -> Quality]
        BY <1>10 DEF TarFails
      <3>2. /\ tornFiles' \in 0..MaxTorn /\ fails' \in 0..MaxFails /\ kills' \in 0..MaxKills
            /\ fresh' \subseteq Versions /\ installed' \in Quality
        BY <1>10 DEF TarFails
      <3>3. /\ pc' \in {"idle", "format", "fetch", "unpack", "tar", "sources", "build"}
            /\ ver' \in Versions /\ fmt' \in 1..(NFormats + 1) /\ loc' \in 1..(NLocations + 1)
            /\ pc' \in {"fetch", "unpack", "tar"} => fmt' \in Usable
        <4>1. CASE Gnu BY <1>10, <4>1 DEF TarFails
        <4>2. CASE ~Gnu BY <1>10, <4>2 DEF TarFails
        <4> QED BY <4>1, <4>2
      <3> QED BY <2>1, <3>1, <3>2, <3>3
    <2>3. Vouched' BY <1>10 DEF TarFails
    <2>4. BuildsFresh' /\ SimpleInstallsWhole' BY <1>10 DEF TarFails
    <2> QED BY <2>2, <2>3, <2>4
  <1>11. CASE FormatsDone BY <1>11 DEF FormatsDone
  <1>12. CASE Sources
    <2>1. S' \in BOOLEAN BY <1>12 DEF Sources
    <2>2. TypeOK' BY <1>12, <2>1 DEF Sources
    <2>3. Vouched' BY <1>12 DEF Sources
    <2>4. BuildsFresh' /\ SimpleInstallsWhole' BY <1>12 DEF Sources
    <2> QED BY <2>2, <2>3, <2>4
  <1>13. CASE Build
    <2>1. S' \in BOOLEAN BY <1>13 DEF Build
    <2>2. TypeOK' BY <1>13, <2>1 DEF Build
    <2>3. Vouched' BY <1>13 DEF Build
    <2>4. BuildsFresh' /\ SimpleInstallsWhole' BY <1>13 DEF Build
    <2> QED BY <2>2, <2>3, <2>4
  <1>14. CASE BuildFails
    <2>1. S' \in BOOLEAN BY <1>14 DEF BuildFails
    <2>2. TypeOK' BY <1>14, <2>1 DEF BuildFails
    <2>3. Vouched' BY <1>14 DEF BuildFails
    <2>4. BuildsFresh' /\ SimpleInstallsWhole' BY <1>14 DEF BuildFails
    <2> QED BY <2>2, <2>3, <2>4
  <1>15. CASE Kill
    <2>1. S' \in BOOLEAN BY <1>15 DEF Kill
    <2>2. TypeOK'
      <3>1. fmt \in Usable => archive \in Archives
        OBVIOUS
      <3>2. dist' \in [Archives -> Quality] /\ src' \in [Versions -> Quality]
        BY <1>15, <3>1 DEF Kill
      <3>3. /\ tornFiles' \in 0..MaxTorn /\ fails' \in 0..MaxFails /\ kills' \in 0..MaxKills
            /\ fresh' \subseteq Versions /\ installed' \in Quality
        BY <1>15 DEF Kill
      <3>4. /\ pc' \in {"idle", "format", "fetch", "unpack", "tar", "sources", "build"}
            /\ ver' \in Versions /\ fmt' \in 1..(NFormats + 1) /\ loc' \in 1..(NLocations + 1)
            /\ pc' \in {"fetch", "unpack", "tar"} => fmt' \in Usable
        BY <1>15 DEF Kill
      <3> QED BY <2>1, <3>2, <3>3, <3>4
    <2>3. Vouched' BY <1>15 DEF Kill
    <2>4. BuildsFresh' /\ SimpleInstallsWhole' BY <1>15 DEF Kill
    <2> QED BY <2>2, <2>3, <2>4
  <1>16. CASE UNCHANGED vars BY <1>16 DEF vars
  <1> QED
    BY <1>1, <1>2, <1>3, <1>4, <1>5, <1>6, <1>7, <1>8, <1>9, <1>10, <1>11, <1>12, <1>13,
       <1>14, <1>15, <1>16
    DEF Next, Step

\* Type correctness of Package.
THEOREM PackageTypes == Spec => []TypeOK
  <1>1. Inv => TypeOK
    BY DEF Inv
  <1> QED BY InitInv, NextInv, <1>1, PTL DEF Spec

\* bootstrap_gnu compiles nothing that a killed run left behind.
THEOREM SourcesAreFresh == Spec => []BuildsFresh
  <1>1. Inv => BuildsFresh
    BY DEF Inv
  <1> QED BY InitInv, NextInv, <1>1, PTL DEF Spec

\* bootstrap_simple installs nothing from sources that are not whole.
THEOREM SimpleIsWhole == Spec => []SimpleInstallsWhole
  <1>1. Inv => SimpleInstallsWhole
    BY DEF Inv
  <1> QED BY InitInv, NextInv, <1>1, PTL DEF Spec

\* No run fetches a whole file again or damages it.
THEOREM WholeFilesStay == Spec => KeepsWhole
  <1>1. Inv /\ [Next]_vars => [\A a \in Archives : dist[a] = "whole" => dist'[a] = "whole"]_vars
    <2> SUFFICES ASSUME Inv, Next, NEW a \in Archives, dist[a] = "whole"
                 PROVE  dist'[a] = "whole"
      OBVIOUS
    <2> USE DEF Inv, TypeOK, Vouched, archive, Archives, Versions, Formats, Quality, disk
    <2>1. CASE FetchLocal BY <2>1 DEF FetchLocal, Torn
    <2>2. CASE FetchTry BY <2>2 DEF FetchTry, Torn
    <2>3. CASE Kill BY <2>3 DEF Kill
    <2>4. CASE StartRun \/ FormatSkipped \/ FetchPresent \/ FetchBegin \/ FetchFails \/ Unpack
      BY <2>4 DEF StartRun, FormatSkipped, FetchPresent, FetchBegin, FetchFails, Unpack
    <2>5. CASE TarDone \/ TarFails \/ FormatsDone \/ Sources \/ Build \/ BuildFails
      BY <2>5 DEF TarDone, TarFails, FormatsDone, Sources, Build, BuildFails
    <2> QED BY <2>1, <2>2, <2>3, <2>4, <2>5 DEF Next, Step
  <1> QED BY InitInv, NextInv, <1>1, PTL DEF Spec, KeepsWhole
=============================================================================
