--------------------------- MODULE ConfigManager ---------------------------
(***************************************************************************)
(* core/husarnet/config_manager.cpp: the license, the configuration pulled *)
(* from the control plane, the user's whitelist, and what they decide:     *)
(* which peers are allowed and where the base servers are.                 *)
(*                                                                         *)
(* Three threads meet here: the config thread (periodicThread), the daemon *)
(* API (userWhitelistAdd, userWhitelistRm) and the main thread, which      *)
(* first waits in waitInit, then asks isPeerAllowed for every packet of a  *)
(* peer it has not just seen and passes on what the event bus orders       *)
(* (triggerGetConfig).  mutexSlow protects the JSON documents, mutexFast   *)
(* the sets.                                                               *)
(* A step of the model is what a thread does between two points where      *)
(* another thread can see a difference: a lock, an HTTP call, a write.     *)
(*                                                                         *)
(* The daemon may be killed at any moment; a file that was being written   *)
(* is then found truncated (writeFile is not atomic).                      *)
(***************************************************************************)
EXTENDS Naturals, FiniteSets

CONSTANTS
    Addr,                       \* Husarnet addresses of peers
    License,                    \* license documents
    Config,                     \* get_config documents
    LicensePeers(_),            \* the eb and api addresses of a license
    ConfigPeers(_),             \* the "peers" of a get_config document,
                                \*   None if it has no such array
    Owner(_),                   \* the owner in its claim_info, None if it is not claimed
    None,                       \* no document, no address, no owner
    Partial,                    \* what is left of a file whose writing was cut short
    USER_WHITELIST_SIZE_LIMIT,  \* config_manager.h
    MaxPublish,                 \* bound: documents published by the servers
    MaxCrash,                   \* bound: times the daemon is killed
    MaxCalls                    \* bound: whitelist changes and triggers

ASSUME DocumentAssumption ==
    /\ None \notin License \cup Config \cup {"claimed"} /\ Partial \notin License \cup Config
    /\ \A l \in License : LicensePeers(l) \subseteq Addr
    /\ \A c \in Config : ConfigPeers(c) \in (SUBSET Addr) \cup {None}
ASSUME LimitAssumption ==
    /\ USER_WHITELIST_SIZE_LIMIT \in Nat
    /\ MaxPublish \in Nat /\ MaxCrash \in Nat /\ MaxCalls \in Nat

VARIABLES
    tld, dashboard,     \* environment: the license and the config now published
    published,          \* environment: how much of MaxPublish has been used
    cacheFile,          \* disk: [license, get_config], or Partial
    configFile,         \* disk: the whitelist in config.json, or Partial, or None
    hostsFile,          \* disk: the peers the hosts file names
    pc,                 \* config thread: where it is
    response,           \* config thread: the answer fetchGetConfig got
    dueAtWake,          \* config thread: now >= nextGetConfigUpdate, for the now of this round
    cacheJson,          \* [license, get_config]
    userConfigJson,     \* the whitelist in the document, or None
    appliedLicense,     \* the license baseAddresses, apiAddresses, ebAddresses are from
    allowedPeers, userWhitelist,
    claimedBy,          \* None stands for the empty string
    claimHook,          \* the hook about the claim scheduled last
    licenseDue,         \* now >= nextLicenseDownload
    configDue,          \* now >= nextGetConfigUpdate
    initDone,           \* waitInit has returned: the main thread and the API run
    apiPc,              \* daemon API: "idle", or inside userWhitelistAdd after the insertion
    adding,             \* daemon API: the address userWhitelistAdd is called with
    lastAdd,            \* history: the last userWhitelistAdd that returned true
    cacheWritten,       \* history: the last writeCache could open its file
    appliedConfig,      \* history: the config allowedPeers was last built from
    pendingTrigger,     \* history: a trigger came and no pull has begun since
    crashes, calls      \* how much of the bounds has been used

docVars == <<cacheJson, userConfigJson>>
claimVars == <<claimedBy, claimHook>>
setVars == <<appliedLicense, allowedPeers, userWhitelist, appliedConfig, claimVars>>
timerVars == <<licenseDue, configDue, pendingTrigger>>
envVars == <<tld, dashboard, published>>
diskVars == <<cacheFile, configFile, hostsFile, cacheWritten>>
threadVars == <<pc, response, dueAtWake>>
apiVars == <<initDone, apiPc, adding, lastAdd>>
boundVars == <<crashes, calls>>
vars == <<envVars, diskVars, threadVars, docVars, setVars, timerVars, apiVars, boundVars>>

-----------------------------------------------------------------------------
NoDocuments == [license |-> None, get_config |-> None]
Documents == [license : License \cup {None}, get_config : Config \cup {None}]

\* mutexSlow and mutexFast are both held by the config thread from the moment
\* updateGetConfigData clears allowedPeers until it has written the hosts file.
fastLockedNever == FALSE       \* wrong on purpose: mutexFast is not taken
fastLocked == pc \in {"filling", "hosts"}
slowLocked == pc \in {"filling", "hosts", "writing"} \/ apiPc = "writing"

\* What a new process starts with.
ProcessStart ==
    /\ pc = "read" /\ response = None /\ dueAtWake = FALSE
    /\ cacheJson = NoDocuments /\ userConfigJson = None
    /\ appliedLicense = None /\ allowedPeers = {} /\ userWhitelist = {}
    /\ licenseDue = TRUE /\ configDue = FALSE /\ pendingTrigger = FALSE
    /\ initDone = FALSE /\ apiPc = "idle" /\ adding = None /\ lastAdd = None
    /\ appliedConfig = None /\ claimedBy = None /\ claimHook = None

Init ==
    /\ tld \in License /\ dashboard \in Config /\ published = 0
    /\ cacheFile = NoDocuments /\ hostsFile = {} /\ cacheWritten = FALSE
    /\ configFile \in {w \in SUBSET Addr : Cardinality(w) <= USER_WHITELIST_SIZE_LIMIT} \cup {None}
    /\ ProcessStart
    /\ crashes = 0 /\ calls = 0

-----------------------------------------------------------------------------
(* The config thread: start-up. *)

\* readCache, readUserConfig and updateUserConfigData.  A file that is missing
\* or does not parse leaves the documents as they are.
readFilesUnchecked ==           \* wrong on purpose: a cache that does not parse is stored
    /\ pc = "read"
    /\ cacheJson' = cacheFile
    /\ userConfigJson' = IF configFile = Partial THEN userConfigJson ELSE configFile
    /\ userWhitelist' = IF configFile \in {Partial, None} THEN userWhitelist ELSE configFile
    /\ pc' = "first_license"
    /\ UNCHANGED <<envVars, diskVars, response, dueAtWake, appliedLicense,
                   allowedPeers, appliedConfig, claimVars, timerVars, apiVars, boundVars>>
readFiles ==
    /\ pc = "read"
    /\ cacheJson' = IF cacheFile = Partial THEN cacheJson ELSE cacheFile
    /\ userConfigJson' = IF configFile = Partial THEN userConfigJson ELSE configFile
    /\ userWhitelist' = IF configFile \in {Partial, None} THEN userWhitelist ELSE configFile
    /\ pc' = "first_license"
    /\ UNCHANGED <<envVars, diskVars, response, dueAtWake, appliedLicense,
                   allowedPeers, appliedConfig, claimVars, timerVars, apiVars, boundVars>>

\* fetchLicenseJson: on success the document is stored and the timer is reset.
fetchLicenseJson(ok) ==
    /\ ~slowLocked
    /\ cacheJson' = IF ok THEN [cacheJson EXCEPT !.license = tld] ELSE cacheJson
    /\ licenseDue' = (licenseDue /\ ~ok)

firstLicense(ok) ==
    /\ pc = "first_license"
    /\ fetchLicenseJson(ok)
    /\ pc' = "apply_license"
    /\ UNCHANGED <<envVars, diskVars, response, dueAtWake, userConfigJson, setVars,
                   configDue, pendingTrigger, apiVars, boundVars>>

\* updateLicenseData: the addresses of the license are put to use, if there is one.
updateLicenseData ==
    /\ pc = "apply_license"
    /\ ~slowLocked /\ ~fastLocked
    /\ IF cacheJson.license = None
       THEN UNCHANGED <<appliedLicense, allowedPeers>>
       ELSE /\ appliedLicense' = cacheJson.license
            /\ allowedPeers' = allowedPeers \cup LicensePeers(cacheJson.license)
    /\ pc' = "write"
    /\ UNCHANGED <<envVars, diskVars, response, dueAtWake, docVars, userWhitelist,
                   appliedConfig, claimVars, timerVars, apiVars, boundVars>>

-----------------------------------------------------------------------------
(* The config thread: its loop. *)

\* The wait ends, after 800 ms or when notified; the license is looked at first.
periodicThread ==
    /\ pc = "wait"
    /\ licenseDue \/ configDue
    /\ pc' = IF licenseDue THEN "license" ELSE "pull"
    /\ dueAtWake' = configDue
    /\ UNCHANGED <<envVars, diskVars, response, docVars, setVars, timerVars, apiVars, boundVars>>

\* The license is downloaded again; it is stored, and that is all.
nextLicenseNotCached(ok) ==     \* wrong on purpose: shouldWriteCache is not set
    /\ pc = "license"
    /\ fetchLicenseJson(ok)
    /\ pc' = IF dueAtWake THEN "pull" ELSE "wait"
    /\ UNCHANGED <<envVars, diskVars, response, dueAtWake, userConfigJson, setVars,
                   configDue, pendingTrigger, apiVars, boundVars>>
nextLicense(ok) ==
    /\ pc = "license"
    /\ fetchLicenseJson(ok)
    /\ pc' = IF dueAtWake THEN "pull" ELSE "write"
    /\ UNCHANGED <<envVars, diskVars, response, dueAtWake, userConfigJson, setVars,
                   configDue, pendingTrigger, apiVars, boundVars>>

\* fetchGetConfig: the request is answered with what is published, or
\* fails; it travels over the Husarnet network, which runs once waitInit is over.
fetchGetConfig(ok) ==
    /\ pc = "pull"
    /\ ok => initDone
    /\ response' = IF ok THEN dashboard ELSE None
    /\ pc' = IF ok THEN "store" ELSE "write"
    /\ pendingTrigger' = FALSE
    /\ UNCHANGED <<envVars, diskVars, dueAtWake, docVars, setVars, licenseDue, configDue, apiVars,
                   boundVars>>

storeGetConfigOnly ==           \* wrong on purpose: stored, but not applied
    /\ pc = "store"
    /\ ~slowLocked
    /\ cacheJson' = [cacheJson EXCEPT !.get_config = response]
    /\ pc' = "reset_timer"
    /\ UNCHANGED <<envVars, diskVars, response, dueAtWake, userConfigJson, setVars,
                   timerVars, apiVars, boundVars>>
storeGetConfig ==
    /\ pc = "store"
    /\ ~slowLocked
    /\ cacheJson' = [cacheJson EXCEPT !.get_config = response]
    /\ pc' = "update"
    /\ UNCHANGED <<envVars, diskVars, response, dueAtWake, userConfigJson, setVars,
                   timerVars, apiVars, boundVars>>

\* updateGetConfigData takes both locks and clears the set ...
HasPeers(c) == c # None /\ ConfigPeers(c) # None
clearAllowedPeers ==
    /\ pc = "update"
    /\ ~slowLocked /\ ~fastLocked
    /\ allowedPeers' = IF HasPeers(cacheJson.get_config) THEN {} ELSE allowedPeers
    /\ pc' = "filling"
    /\ UNCHANGED <<envVars, diskVars, response, dueAtWake, docVars, appliedLicense, userWhitelist,
                   appliedConfig, claimVars, timerVars, apiVars, boundVars>>

\* ... unpacks the claim, scheduling a hook when an owner comes or goes (not
\* when one follows another), and fills the set ...
ClaimHook(before, after) ==
    IF before = None /\ after # None THEN "claimed"
    ELSE IF before # None /\ after = None THEN "unclaimed"
    ELSE claimHook
fillAllowedPeers ==
    /\ pc = "filling"
    /\ LET c == cacheJson.get_config IN
       IF HasPeers(c)
       THEN /\ allowedPeers' = allowedPeers \cup ConfigPeers(c)
            /\ claimedBy' = Owner(c)
            /\ claimHook' = ClaimHook(claimedBy, Owner(c))
            /\ appliedConfig' = c
       ELSE UNCHANGED <<allowedPeers, claimVars, appliedConfig>>
    /\ pc' = "hosts"
    /\ UNCHANGED <<envVars, diskVars, response, dueAtWake, docVars, appliedLicense,
                   userWhitelist, timerVars, apiVars, boundVars>>

\* ... and writes the hosts file, before the locks are released.
updateHostsFile ==
    /\ pc = "hosts"
    /\ hostsFile' = IF HasPeers(cacheJson.get_config) THEN ConfigPeers(cacheJson.get_config) ELSE {}
    /\ pc' = "reset_timer"
    /\ UNCHANGED <<envVars, cacheFile, configFile, cacheWritten, response, dueAtWake, docVars,
                   setVars, timerVars, apiVars, boundVars>>

\* The last line of fetchGetConfig: the next pull is ten minutes away.
resetConfigTimer ==
    /\ pc = "reset_timer"
    /\ configDue' = FALSE
    /\ pc' = "write"
    /\ UNCHANGED <<envVars, diskVars, response, dueAtWake, docVars, setVars,
                   licenseDue, pendingTrigger, apiVars, boundVars>>

\* writeCache: the file is truncated, then filled, under mutexSlow.
beginWriteCache ==
    /\ pc = "write"
    /\ ~slowLocked
    /\ cacheFile' = Partial
    /\ pc' = "writing"
    /\ UNCHANGED <<envVars, configFile, hostsFile, cacheWritten, response, dueAtWake, docVars,
                   setVars, timerVars, apiVars, boundVars>>
endWriteCache ==
    /\ pc = "writing"
    /\ cacheFile' = cacheJson
    /\ cacheWritten' = TRUE
    /\ pc' = "wait"
    /\ UNCHANGED <<envVars, configFile, hostsFile, response, dueAtWake, docVars, setVars,
                   timerVars, apiVars, boundVars>>
\* writeFile cannot open the file; nobody looks at what writeCache returns.
failWriteCache ==
    /\ pc = "write"
    /\ ~slowLocked
    /\ cacheWritten' = FALSE
    /\ pc' = "wait"
    /\ UNCHANGED <<envVars, cacheFile, configFile, hostsFile, response, dueAtWake, docVars,
                   setVars, timerVars, apiVars, boundVars>>

-----------------------------------------------------------------------------
(* The other threads. *)

\* waitInit: the main thread goes on once there are base addresses.
waitInit ==
    /\ ~initDone
    /\ appliedLicense # None
    /\ initDone' = TRUE
    /\ UNCHANGED <<envVars, diskVars, threadVars, docVars, setVars, timerVars, apiPc,
                   adding, lastAdd, boundVars>>

Call == calls < MaxCalls /\ calls' = calls + 1

\* userWhitelistAdd: the set under mutexFast, then writeUserConfig under mutexSlow.
userWhitelistAddEvicting(a) ==  \* wrong on purpose: a full list makes room
    /\ Call
    /\ initDone /\ apiPc = "idle"
    /\ ~fastLocked
    /\ a \notin userWhitelist
    /\ userWhitelist' = IF Cardinality(userWhitelist) < USER_WHITELIST_SIZE_LIMIT
                        THEN userWhitelist \cup {a} ELSE {a}
    /\ apiPc' = "flush" /\ adding' = a
    /\ UNCHANGED <<envVars, diskVars, threadVars, docVars, appliedLicense, allowedPeers,
                   appliedConfig, claimVars, timerVars, initDone, lastAdd, crashes>>
userWhitelistAdd(a) ==
    /\ Call
    /\ initDone /\ apiPc = "idle"
    /\ ~fastLocked
    /\ a \notin userWhitelist
    /\ Cardinality(userWhitelist) < USER_WHITELIST_SIZE_LIMIT
    /\ userWhitelist' = userWhitelist \cup {a}
    /\ apiPc' = "flush" /\ adding' = a
    /\ UNCHANGED <<envVars, diskVars, threadVars, docVars, appliedLicense, allowedPeers,
                   appliedConfig, claimVars, timerVars, initDone, lastAdd, crashes>>
beginWriteUserConfig ==
    /\ apiPc = "flush"
    /\ ~slowLocked
    /\ configFile' = Partial
    /\ apiPc' = "writing"
    /\ UNCHANGED <<envVars, cacheFile, hostsFile, cacheWritten, threadVars, docVars, setVars,
                   timerVars, initDone, adding, lastAdd, boundVars>>
endWriteUserConfig ==
    /\ apiPc = "writing"
    /\ configFile' = userConfigJson
    /\ apiPc' = "idle" /\ adding' = None
    /\ lastAdd' = [addr |-> adding, written |-> TRUE]
    /\ UNCHANGED <<envVars, cacheFile, hostsFile, cacheWritten, threadVars, docVars, setVars,
                   timerVars, initDone, boundVars>>
\* writeFile cannot open the file: logged, and userWhitelistAdd returns true all the same.
failWriteUserConfig ==
    /\ apiPc = "flush"
    /\ ~slowLocked
    /\ apiPc' = "idle" /\ adding' = None
    /\ lastAdd' = [addr |-> adding, written |-> FALSE]
    /\ UNCHANGED <<envVars, diskVars, threadVars, docVars, setVars, timerVars, initDone, boundVars>>

userWhitelistRm(a) ==
    /\ Call
    /\ initDone /\ apiPc = "idle"
    /\ ~fastLocked
    /\ a \in userWhitelist
    /\ userWhitelist' = userWhitelist \ {a}
    /\ lastAdd' = None
    /\ UNCHANGED <<envVars, diskVars, threadVars, docVars, appliedLicense, allowedPeers,
                   appliedConfig, claimVars, timerVars, initDone, apiPc, adding, crashes>>

\* triggerGetConfig, called for an event bus message on the main thread: no lock is taken.
triggerGetConfig ==
    /\ Call
    /\ initDone
    /\ configDue' = TRUE
    /\ dueAtWake' = FALSE        \* the new deadline is later than this round's now
    /\ pendingTrigger' = TRUE
    /\ UNCHANGED <<envVars, diskVars, pc, response, docVars, setVars, licenseDue, apiVars, crashes>>

\* isPeerAllowed reads the sets under mutexFast.
CanRead == initDone /\ ~fastLocked
isPeerAllowed(a) ==
    \/ appliedLicense # None /\ a \in LicensePeers(appliedLicense)
    \/ a \in userWhitelist
    \/ a \in allowedPeers

-----------------------------------------------------------------------------
(* Time, the servers, and the end of the process. *)

LicenseTimer ==
    /\ ~licenseDue
    /\ licenseDue' = TRUE
    /\ UNCHANGED <<envVars, diskVars, threadVars, docVars, setVars, configDue, pendingTrigger,
                   apiVars, boundVars>>
ConfigTimer ==
    /\ ~configDue
    /\ configDue' = TRUE
    /\ UNCHANGED <<envVars, diskVars, threadVars, docVars, setVars, licenseDue, pendingTrigger,
                   apiVars, boundVars>>

Publish(l, c) ==
    /\ published < MaxPublish
    /\ published' = published + 1
    /\ <<tld, dashboard>> # <<l, c>>
    /\ tld' = l /\ dashboard' = c
    /\ UNCHANGED <<diskVars, threadVars, docVars, setVars, timerVars, apiVars, boundVars>>

Crash ==
    /\ crashes < MaxCrash
    /\ crashes' = crashes + 1
    /\ pc' = "read" /\ response' = None /\ dueAtWake' = FALSE
    /\ cacheJson' = NoDocuments /\ userConfigJson' = None
    /\ appliedLicense' = None /\ allowedPeers' = {} /\ userWhitelist' = {}
    /\ licenseDue' = TRUE /\ configDue' = FALSE /\ pendingTrigger' = FALSE
    /\ initDone' = FALSE /\ apiPc' = "idle" /\ adding' = None /\ lastAdd' = None
    /\ appliedConfig' = None /\ claimedBy' = None /\ claimHook' = None
    /\ UNCHANGED <<envVars, diskVars, calls>>

ConfigThread ==
    \/ readFiles
    \/ \E ok \in BOOLEAN : firstLicense(ok)
    \/ updateLicenseData
    \/ periodicThread
    \/ \E ok \in BOOLEAN : nextLicense(ok)
    \/ \E ok \in BOOLEAN : fetchGetConfig(ok)
    \/ storeGetConfig
    \/ clearAllowedPeers \/ fillAllowedPeers \/ updateHostsFile
    \/ resetConfigTimer
    \/ beginWriteCache \/ endWriteCache \/ failWriteCache

ApiThread ==
    \/ \E a \in Addr : userWhitelistAdd(a) \/ userWhitelistRm(a)
    \/ beginWriteUserConfig \/ endWriteUserConfig \/ failWriteUserConfig

Next ==
    \/ ConfigThread \/ ApiThread \/ waitInit \/ triggerGetConfig
    \/ LicenseTimer \/ ConfigTimer
    \/ \E l \in License, c \in Config : Publish(l, c)
    \/ Crash

Spec == Init /\ [][Next]_vars

\* The threads run, time passes, and a server that is asked again and again
\* answers some day.
Fairness ==
    /\ WF_vars(ConfigThread) /\ WF_vars(waitInit)
    /\ WF_vars(beginWriteUserConfig \/ failWriteUserConfig) /\ WF_vars(endWriteUserConfig)
    /\ WF_vars(LicenseTimer) /\ WF_vars(ConfigTimer)
    /\ SF_vars(nextLicense(TRUE)) /\ SF_vars(fetchGetConfig(TRUE))
FairSpec == Spec /\ Fairness

-----------------------------------------------------------------------------
\* Every variable keeps the type its declaration comment gives it; in
\* particular a file that does not parse never becomes a document in memory.
TypeOK ==
    /\ tld \in License /\ dashboard \in Config /\ published \in 0..MaxPublish
    /\ cacheFile \in Documents \cup {Partial}
    /\ configFile \in (SUBSET Addr) \cup {None, Partial} /\ hostsFile \subseteq Addr
    /\ claimedBy \in {Owner(c) : c \in Config} \cup {None}
    /\ claimHook \in {"claimed", "unclaimed", None}
    /\ pc \in {"read", "first_license", "apply_license", "wait", "license", "pull", "store",
               "update", "filling", "hosts", "reset_timer", "write", "writing"}
    /\ response \in Config \cup {None} /\ dueAtWake \in BOOLEAN
    /\ cacheJson \in Documents
    /\ userConfigJson \in (SUBSET Addr) \cup {None}
    /\ appliedLicense \in License \cup {None} /\ appliedConfig \in Config \cup {None}
    /\ allowedPeers \subseteq Addr /\ userWhitelist \subseteq Addr
    /\ licenseDue \in BOOLEAN /\ configDue \in BOOLEAN /\ pendingTrigger \in BOOLEAN
    /\ initDone \in BOOLEAN /\ apiPc \in {"idle", "flush", "writing"}
    /\ adding \in Addr \cup {None}
    /\ lastAdd \in [addr : Addr, written : BOOLEAN] \cup {None}
    /\ cacheWritten \in BOOLEAN
    /\ crashes \in 0..MaxCrash /\ calls \in 0..MaxCalls

\* The main thread never sees a set of allowed peers that is being rebuilt:
\* whenever isPeerAllowed can look, it finds exactly the peers of one config,
\* or, before the first one, those of the license (mutexFast around
\* updateGetConfigData).
NoHalfBuiltSet ==
    CanRead => allowedPeers = IF appliedConfig = None THEN LicensePeers(appliedLicense)
                                                      ELSE ConfigPeers(appliedConfig)

\* Between two rounds of the config thread the outcome of the last pull is the
\* same everywhere: cache.json, if it could be opened, holds the documents in
\* memory and, unless the config is still the one read at start-up or has no
\* peers, the allowed peers, the hosts file, the owner and the hook scheduled
\* last all belong to it.
IdleConsistent ==
    pc = "wait" =>
        /\ cacheWritten => cacheFile = cacheJson
        /\ appliedConfig # None /\ HasPeers(cacheJson.get_config) =>
              /\ allowedPeers = ConfigPeers(cacheJson.get_config)
              /\ hostsFile = allowedPeers
              /\ claimedBy = Owner(cacheJson.get_config)
        /\ claimHook = "claimed" <=> claimedBy # None

\* What the user whitelists stays allowed until the user takes it off the list
\* or the daemon ends: no download, update or read of the files drops it.
WhitelistStays ==
    [][\A a \in userWhitelist : a \in userWhitelist' \/ Crash \/ userWhitelistRm(a)]_vars

\* Once a configuration is published for good and the daemon is connected, it
\* takes effect, whatever fails or is triggered in between.
ConfigTakesEffect ==
    \A c \in Config :
        HasPeers(c) /\ <>[](dashboard = c /\ initDone) => <>[](appliedConfig = c)

-----------------------------------------------------------------------------
(* What the comments of the code say, and the code does not do. *)

\* "Flush to disk" in userWhitelistAdd: after a successful write, the file
\* has the address that was added.
WhitelistFlushed ==
    lastAdd # None /\ lastAdd.written => configFile \notin {None, Partial} /\ lastAdd.addr \in configFile

\* "Trigger an async get_config pull" at triggerGetConfig: until a pull begins
\* after the trigger, one is due.
TriggerHonoured == pendingTrigger => configDue

\* "wait until license is downloaded and base addresses are known" in waitInit:
\* once a license has been downloaded the daemon comes up, unless it is killed.
LicenseTakesEffect == cacheJson.license # None ~> (initDone \/ cacheJson.license = None)
=============================================================================
