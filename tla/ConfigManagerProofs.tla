------------------------ MODULE ConfigManagerProofs ------------------------
(***************************************************************************)
(* Proofs about ConfigManager, for any addresses and documents, any limit  *)
(* of the whitelist, and any number of publications, crashes and calls.    *)
(***************************************************************************)
EXTENDS ConfigManager, TLAPS

-----------------------------------------------------------------------------
(* Types. *)

\* What TypeOK needs to be inductive: userWhitelistAdd knows what it adds.
AddsSomething == apiPc # "idle" => adding \in Addr
TypeInv == TypeOK /\ AddsSomething

LEMMA TypeInit == Init => TypeInv
  <1> SUFFICES ASSUME Init PROVE TypeInv
    OBVIOUS
  <1>1. dueAtWake \in BOOLEAN /\ configDue \in BOOLEAN /\ pendingTrigger \in BOOLEAN
        /\ initDone \in BOOLEAN /\ cacheWritten \in BOOLEAN
    BY DEF Init, ProcessStart
  <1> QED
    BY <1>1, LimitAssumption
    DEF Init, ProcessStart, TypeInv, TypeOK, AddsSomething, Documents, NoDocuments

LEMMA ConfigThreadType == TypeInv /\ ConfigThread => TypeInv'
  <1> SUFFICES ASSUME TypeInv, ConfigThread PROVE TypeInv'
    OBVIOUS
  <1> USE DocumentAssumption DEF docVars, claimVars, setVars, timerVars, envVars, diskVars, threadVars, apiVars,
              boundVars, TypeInv, TypeOK, AddsSomething, Documents, HasPeers
  <1>1. CASE readFiles
    BY <1>1 DEF readFiles
  <1>2. ASSUME NEW ok \in BOOLEAN, firstLicense(ok) PROVE TypeInv'
    BY <1>2 DEF firstLicense, fetchLicenseJson
  <1>3. CASE updateLicenseData
    BY <1>3 DEF updateLicenseData
  <1>4. CASE periodicThread
    BY <1>4 DEF periodicThread
  <1>5. ASSUME NEW ok \in BOOLEAN, nextLicense(ok) PROVE TypeInv'
    BY <1>5 DEF nextLicense, fetchLicenseJson
  <1>6. ASSUME NEW ok \in BOOLEAN, fetchGetConfig(ok) PROVE TypeInv'
    <2>1. pendingTrigger' \in BOOLEAN
      BY <1>6 DEF fetchGetConfig
    <2> QED
      BY <1>6, <2>1 DEF fetchGetConfig
  <1>7. CASE storeGetConfig
    BY <1>7 DEF storeGetConfig
  <1>8. CASE clearAllowedPeers
    BY <1>8 DEF clearAllowedPeers
  <1>9. CASE fillAllowedPeers
    BY <1>9 DEF fillAllowedPeers, ClaimHook
  <1>10. CASE updateHostsFile
    BY <1>10 DEF updateHostsFile
  <1>11. CASE resetConfigTimer
    <2>1. configDue' \in BOOLEAN
      BY <1>11 DEF resetConfigTimer
    <2> QED
      BY <1>11, <2>1 DEF resetConfigTimer
  <1>12. CASE beginWriteCache
    BY <1>12 DEF beginWriteCache
  <1>13. CASE endWriteCache
    BY <1>13 DEF endWriteCache
  <1>14. CASE failWriteCache
    <2>1. cacheWritten' \in BOOLEAN
      BY <1>14 DEF failWriteCache
    <2> QED
      BY <1>14, <2>1 DEF failWriteCache
  <1> QED
    BY <1>1, <1>2, <1>3, <1>4, <1>5, <1>6, <1>7, <1>8, <1>9, <1>10, <1>11, <1>12, <1>13, <1>14
    DEF ConfigThread

LEMMA ApiThreadType == TypeInv /\ ApiThread => TypeInv'
  <1> SUFFICES ASSUME TypeInv, ApiThread PROVE TypeInv'
    OBVIOUS
  <1> USE LimitAssumption DEF docVars, claimVars, setVars, timerVars, envVars, diskVars, threadVars, apiVars,
              boundVars, TypeInv, TypeOK, AddsSomething, Call
  <1>1. ASSUME NEW a \in Addr, userWhitelistAdd(a) PROVE TypeInv'
    BY <1>1 DEF userWhitelistAdd
  <1>2. ASSUME NEW a \in Addr, userWhitelistRm(a) PROVE TypeInv'
    BY <1>2 DEF userWhitelistRm
  <1>3. CASE beginWriteUserConfig
    BY <1>3 DEF beginWriteUserConfig
  <1>4. CASE endWriteUserConfig
    BY <1>4 DEF endWriteUserConfig
  <1>5. CASE failWriteUserConfig
    BY <1>5 DEF failWriteUserConfig
  <1> QED
    BY <1>1, <1>2, <1>3, <1>4, <1>5 DEF ApiThread

LEMMA TypeStep == TypeInv /\ [Next]_vars => TypeInv'
  <1> SUFFICES ASSUME TypeInv, [Next]_vars PROVE TypeInv'
    OBVIOUS
  <1> USE LimitAssumption DEF docVars, claimVars, setVars, timerVars, envVars, diskVars, threadVars, apiVars,
              boundVars, TypeInv, TypeOK, AddsSomething
  <1>1. CASE ConfigThread
    BY <1>1, ConfigThreadType
  <1>2. CASE ApiThread
    BY <1>2, ApiThreadType
  <1>3. CASE waitInit
    BY <1>3 DEF waitInit
  <1>4. CASE triggerGetConfig
    <2>1. dueAtWake' \in BOOLEAN
      BY <1>4 DEF triggerGetConfig
    <2> QED
      BY <1>4, <2>1 DEF triggerGetConfig, Call
  <1>5. CASE LicenseTimer
    BY <1>5 DEF LicenseTimer
  <1>6. CASE ConfigTimer
    BY <1>6 DEF ConfigTimer
  <1>7. ASSUME NEW l \in License, NEW c \in Config, Publish(l, c) PROVE TypeInv'
    BY <1>7 DEF Publish
  <1>8. CASE Crash
    <2>1. dueAtWake' \in BOOLEAN /\ configDue' \in BOOLEAN /\ pendingTrigger' \in BOOLEAN /\ initDone' \in BOOLEAN
      BY <1>8 DEF Crash
    <2> QED
      BY <1>8, <2>1 DEF Crash, NoDocuments, Documents
  <1>9. CASE UNCHANGED vars
    BY <1>9 DEF vars
  <1> QED
    BY <1>1, <1>2, <1>3, <1>4, <1>5, <1>6, <1>7, <1>8, <1>9 DEF Next

\* Every variable keeps its type through crashes at any moment; in particular a
\* file that was cut short never becomes a document in memory (readCache,
\* readUserConfig).
THEOREM TypeCorrect == Spec => []TypeOK
  <1>1. QED BY TypeInit, TypeStep, PTL DEF Spec, TypeInv

-----------------------------------------------------------------------------
(***************************************************************************)
(* The sets and the documents.  The properties speak of moments at which   *)
(* somebody may look; the inductive invariant says what holds in between:  *)
(* what allowedPeers is at every step of the config thread, which config   *)
(* it, the owner, the hook and the hosts file belong to, and that nothing  *)
(* of the kind exists before the files have been read.                     *)
(***************************************************************************)
NothingYet ==
    /\ pc \in {"read", "first_license", "apply_license"} =>
          appliedLicense = None /\ appliedConfig = None /\ allowedPeers = {}
    /\ pc = "read" => userWhitelist = {}
    /\ initDone => appliedLicense # None

Built ==
    allowedPeers = IF appliedConfig # None THEN ConfigPeers(appliedConfig)
                   ELSE IF appliedLicense # None THEN LicensePeers(appliedLicense) ELSE {}
BuiltOrEmpty ==
    /\ pc = "filling" /\ HasPeers(cacheJson.get_config) => allowedPeers = {}
    /\ pc = "filling" /\ ~HasPeers(cacheJson.get_config) => Built
    /\ pc # "filling" => Built

OwnerOfApplied ==
    /\ claimedBy = IF appliedConfig = None THEN None ELSE Owner(appliedConfig)
    /\ claimHook = "claimed" <=> claimedBy # None

OneOutcome ==
    appliedConfig # None /\ HasPeers(cacheJson.get_config) =>
        /\ pc \notin {"update", "filling"} => appliedConfig = cacheJson.get_config
        /\ pc \notin {"update", "filling", "hosts"} => hostsFile = ConfigPeers(cacheJson.get_config)

CacheUpToDate == pc = "wait" /\ cacheWritten => cacheFile = cacheJson

SetInv == TypeInv /\ NothingYet /\ BuiltOrEmpty /\ OwnerOfApplied /\ OneOutcome /\ CacheUpToDate

LEMMA SetInit == Init => SetInv
  BY TypeInit, DocumentAssumption
  DEF Init, ProcessStart, SetInv, NothingYet, BuiltOrEmpty, Built, OwnerOfApplied, OneOutcome,
      CacheUpToDate

LEMMA ConfigThreadKeeps == SetInv /\ ConfigThread => SetInv'
  <1> SUFFICES ASSUME SetInv, ConfigThread PROVE SetInv'
    OBVIOUS
  <1>0. TypeInv /\ TypeInv'
    BY ConfigThreadType DEF SetInv
  <1> USE <1>0, DocumentAssumption
      DEF docVars, claimVars, setVars, timerVars, envVars, diskVars, threadVars, apiVars, boundVars,
          SetInv, NothingYet, BuiltOrEmpty, Built, OwnerOfApplied, OneOutcome, CacheUpToDate
  <1>1. CASE readFiles
    BY <1>1 DEF readFiles
  <1>2. ASSUME NEW ok \in BOOLEAN, firstLicense(ok) PROVE SetInv'
    BY <1>2 DEF firstLicense
  <1>3. CASE updateLicenseData
    BY <1>3 DEF updateLicenseData
  <1>4. CASE periodicThread
    BY <1>4 DEF periodicThread
  <1>5. ASSUME NEW ok \in BOOLEAN, nextLicense(ok) PROVE SetInv'
    <2>1. cacheJson'.get_config = cacheJson.get_config
      BY <1>5 DEF nextLicense, fetchLicenseJson, TypeInv, TypeOK, Documents
    <2> QED
      BY <1>5, <2>1 DEF nextLicense
  <1>6. ASSUME NEW ok \in BOOLEAN, fetchGetConfig(ok) PROVE SetInv'
    BY <1>6 DEF fetchGetConfig
  <1>7. CASE storeGetConfig
    BY <1>7 DEF storeGetConfig
  <1>8. CASE clearAllowedPeers
    BY <1>8 DEF clearAllowedPeers
  <1>9. CASE fillAllowedPeers
    BY <1>9 DEF fillAllowedPeers, ClaimHook, HasPeers
  <1>10. CASE updateHostsFile
    BY <1>10 DEF updateHostsFile
  <1>11. CASE resetConfigTimer
    BY <1>11 DEF resetConfigTimer
  <1>12. CASE beginWriteCache
    BY <1>12 DEF beginWriteCache
  <1>13. CASE endWriteCache
    BY <1>13 DEF endWriteCache
  <1>14. CASE failWriteCache
    BY <1>14 DEF failWriteCache
  <1> QED
    BY <1>1, <1>2, <1>3, <1>4, <1>5, <1>6, <1>7, <1>8, <1>9, <1>10, <1>11, <1>12, <1>13, <1>14
    DEF ConfigThread

\* What SetInv reads of the state, apart from the types and the whitelist.
setInvVars == <<cacheFile, hostsFile, cacheWritten, pc, cacheJson, appliedLicense, allowedPeers,
                appliedConfig, claimVars, initDone>>

LEMMA SetFrame ==
  ASSUME SetInv, TypeInv', UNCHANGED setInvVars, pc = "read" => userWhitelist' = {}
  PROVE  SetInv'
  BY DEF SetInv, setInvVars, claimVars, NothingYet, BuiltOrEmpty, Built, OwnerOfApplied, OneOutcome,
         CacheUpToDate

LEMMA SetStep == SetInv /\ [Next]_vars => SetInv'
  <1> SUFFICES ASSUME SetInv, [Next]_vars PROVE SetInv'
    OBVIOUS
  <1>0. TypeInv'
    BY TypeStep DEF SetInv
  <1> USE <1>0 DEF docVars, setVars, timerVars, envVars, diskVars, threadVars, apiVars, boundVars
  <1>1. CASE ConfigThread
    BY <1>1, ConfigThreadKeeps
  <1>2. CASE ApiThread
    <2>1. UNCHANGED setInvVars
      BY <1>2 DEF ApiThread, userWhitelistAdd, userWhitelistRm, beginWriteUserConfig,
                  endWriteUserConfig, failWriteUserConfig, setInvVars
    <2>2. pc = "read" => userWhitelist' = {}
      BY <1>2 DEF ApiThread, userWhitelistAdd, userWhitelistRm, beginWriteUserConfig,
                  endWriteUserConfig, failWriteUserConfig, SetInv, NothingYet
    <2> QED
      BY <2>1, <2>2, SetFrame
  <1>3. CASE waitInit
    BY <1>3 DEF waitInit, claimVars, SetInv, NothingYet, BuiltOrEmpty, Built, OwnerOfApplied,
                OneOutcome, CacheUpToDate
  <1>4. CASE triggerGetConfig \/ LicenseTimer \/ ConfigTimer
             \/ (\E l \in License, c \in Config : Publish(l, c)) \/ UNCHANGED vars
    <2>1. UNCHANGED <<setInvVars, userWhitelist>>
      BY <1>4 DEF triggerGetConfig, LicenseTimer, ConfigTimer, Publish, vars, setInvVars
    <2> QED
      BY <2>1, SetFrame DEF SetInv, NothingYet
  <1>5. CASE Crash
    BY <1>5, DocumentAssumption
    DEF Crash, SetInv, NothingYet, BuiltOrEmpty, Built, OwnerOfApplied, OneOutcome, CacheUpToDate
  <1> QED
    BY <1>1, <1>2, <1>3, <1>4, <1>5 DEF Next

LEMMA SetInvariant == Spec => []SetInv
  <1>1. QED BY SetInit, SetStep, PTL DEF Spec

\* Whenever isPeerAllowed can look at allowedPeers it finds the peers of one config,
\* whole, or of the license: mutexFast covers the whole of updateGetConfigData.
THEOREM NeverHalfBuilt == Spec => []NoHalfBuiltSet
  <1>1. SetInv => NoHalfBuiltSet
    BY DEF SetInv, NothingYet, BuiltOrEmpty, Built, NoHalfBuiltSet, CanRead, fastLocked
  <1>2. QED BY <1>1, SetInvariant, PTL

\* When the config thread waits for its next round, cache file, memory, allowed
\* peers, hosts file, owner and hook tell of the same config, through crashes and
\* failed writes.
THEOREM ConsistentWhenIdle == Spec => []IdleConsistent
  <1>1. SetInv => IdleConsistent
    BY DEF SetInv, BuiltOrEmpty, Built, OwnerOfApplied, OneOutcome, CacheUpToDate, IdleConsistent
  <1>2. QED BY <1>1, SetInvariant, PTL

\* Only the user, or the end of the process, takes an address off the whitelist:
\* the files are read before the API can add to it (waitInit).
THEOREM WhitelistKept == Spec => WhitelistStays
  <1>1. SetInv /\ [Next]_vars =>
          [\A a \in userWhitelist : a \in userWhitelist' \/ Crash \/ userWhitelistRm(a)]_vars
    <2> SUFFICES ASSUME SetInv, Next, NEW a \in userWhitelist, a \notin userWhitelist'
                 PROVE  Crash \/ userWhitelistRm(a)
      OBVIOUS
    <2> USE DEF docVars, setVars, timerVars, envVars, diskVars, threadVars, apiVars, boundVars
    <2>1. CASE ConfigThread
      BY <2>1 DEF ConfigThread, readFiles, firstLicense, updateLicenseData, periodicThread, nextLicense,
                  fetchGetConfig, storeGetConfig, clearAllowedPeers, fillAllowedPeers,
                  updateHostsFile, resetConfigTimer, beginWriteCache, endWriteCache, failWriteCache,
                  SetInv, NothingYet
    <2>2. CASE ApiThread
      BY <2>2 DEF ApiThread, userWhitelistAdd, userWhitelistRm, beginWriteUserConfig,
                  endWriteUserConfig, failWriteUserConfig
    <2>3. CASE waitInit \/ triggerGetConfig \/ LicenseTimer \/ ConfigTimer
               \/ \E l \in License, c \in Config : Publish(l, c)
      BY <2>3 DEF waitInit, triggerGetConfig, LicenseTimer, ConfigTimer, Publish
    <2> QED
      BY <2>1, <2>2, <2>3 DEF Next
  <1>2. QED BY <1>1, SetInvariant, PTL DEF Spec, WhitelistStays
=============================================================================
