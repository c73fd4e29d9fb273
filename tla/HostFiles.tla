----------------------------- MODULE HostFiles -----------------------------
(***************************************************************************)
(* What the Linux daemon reads and writes on its host: its settings        *)
(* (config_env.cpp, the ini file and the environment of                    *)
(* ports/fat/port.cpp), its identity (identity.cpp), /etc/hosts and        *)
(* /etc/hostname, which it shares with other programs and rewrites step by *)
(* step through ports/linux/filesystem.cpp, and the hooks it starts for    *)
(* its owner (hooks_manager.cpp).                                          *)
(*                                                                         *)
(* The daemon may be killed between any two steps: also by the SIGIO it    *)
(* gets when another program opens a file it holds the lease of, by        *)
(* exit(1) on a file it cannot open for reading, or with the machine. Of   *)
(* its system calls some fail or, for a write, stop at the end of a line:  *)
(* writeFile does not notice. An editor changes lines of /etc/hosts. As    *)
(* the code assumes, it replaces the file in one step; the lease keeps it  *)
(* out, and it does not write into a file being written.                   *)
(*                                                                         *)
(* A line of a file is its kind ("managed" for the marker of Husarnet) and *)
(* the name it is about; an identity file is the address, the public and   *)
(* the private key of one identity. Files longer than the 32 KB buffer of  *)
(* transformLockFile are left out.                                         *)
(***************************************************************************)
EXTENDS Integers, Sequences, FiniteSets, SequencesExt

CONSTANTS
    UserLine,       \* what other programs write into /etc/hosts
    Peers,          \* sets of hostnames of peers a get_config can list
    ValidName,      \* the hostnames validateHostname accepts
    Hostname,       \* names the dashboard can give the device
    Settings,       \* the lines of defaults.ini, and HUSARNET_ENABLE_HOOKS in the environment
    Asserts,        \* TRUE: a build with assertions (nightly), FALSE: without (stable)
    MaxUpdates,     \* bound: get_configs applied
    MaxTroubles,    \* bound: edits, crashes and failing system calls, together
    MaxIdentities   \* bound: identities created

ASSUME NameAssumption == "husarnet-local" \notin ValidName /\ UserLine # {}
ASSUME PeersAssumption == \A names \in Peers : IsFiniteSet(names)
ASSUME SettingsAssumption ==        \* a value is never the word that stands for none
    \A s \in Settings : s.ini \in Seq(STRING \X (STRING \ {"unset"})) /\ s.environ \in Seq(STRING \ {"unset"})
ASSUME HostBounds == {MaxUpdates, MaxTroubles, MaxIdentities} \subseteq Nat

VARIABLES
    ini, environ,        \* environment: where the settings come from
    renames,             \* environment: renameat2 works (not on a file a container mounts)
    up,                  \* how far the daemon has started
    enableHooks,         \* ConfigEnv::getEnableHooks of this start
    identity,            \* myIdentity: an address and keys
    idFile,              \* disk: the fields of the "id" file
    disk,                \* disk: /etc/hosts and /etc/hostname
    tmp,                 \* disk: the file with the suffix .tmp
    pc, path,            \* the config thread's step of updateGetConfigData, and the file it transforms
    update,              \* the get_config being applied
    newContent,
    claimedBy,           \* the device has an owner
    hookTimers,
    wanted,              \* history: hooks about a change of owner that have not been started
    edited,              \* history: the file was edited after the daemon read it
    clean,               \* history: nothing has failed in the update last begun
    durable,             \* history: the identity wholly written to the disk
    updates, troubles, created

fileVars == <<disk, tmp, newContent>>
hookVars == <<hookTimers, wanted>>
startVars == <<up, enableHooks, identity, idFile, durable, created>>
envVars == <<ini, environ, renames>>
vars == <<envVars, startVars, fileVars, pc, path, update, claimedBy, hookVars,
          edited, clean, updates, troubles>>

-----------------------------------------------------------------------------
\* Settings: which value the ini file and the environment give one key.

Unset == "unset"

\* getEnvironmentDefaultsFromIniFile: a line <<"section", s>> opens a section,
\* <<"enable_hooks", v>> sets the key, others (comments, blank lines, lines
\* without "=", unknown keys) do nothing.
IniLine(read, line) ==
    CASE line[1] = "section" -> [read EXCEPT !.section = line[2]]
      [] line[1] = "enable_hooks" /\ read.section = "common" -> [read EXCEPT !.common = line[2]]
      [] line[1] = "enable_hooks" /\ read.section = "daemon" -> [read EXCEPT !.daemon = line[2]]
      [] OTHER -> read

IniRead(lines) ==
    LET after[i \in 0..Len(lines)] == IF i = 0 THEN [section |-> "other", common |-> Unset, daemon |-> Unset]
                                      ELSE IniLine(after[i - 1], lines[i])
    IN  after[Len(lines)]

\* wrong on purpose: [common] over [daemon]
IniDefaultCommon(lines) == LET r == IniRead(lines) IN IF r.common # Unset THEN r.common ELSE r.daemon

IniDefault(lines) == LET r == IniRead(lines) IN IF r.daemon # Unset THEN r.daemon ELSE r.common

\* getEnvironmentOverrides: spellings that differ in case are one key, and the last one counts.
Override(values) == IF values = <<>> THEN Unset ELSE Last(values)

strToBool(v) == v \in {"true", "1", "yes", "on"}

\* ConfigEnv::ConfigEnv and getEnableHooks, whose default is "false"
EnableHooks(lines, values) ==
    strToBool(IF Override(values) # Unset THEN Override(values) ELSE IniDefault(lines))

-----------------------------------------------------------------------------
\* Files

NoFile == <<<<"absent", "absent">>>>
Managed(n) == <<"managed", n>>
IsManaged(line) == line[1] = "managed"
IsUser(line) == line[1] = "user"

\* What updateGetConfigData asks for: the peers and this device
Entries(u) == u.names \cup {"husarnet-local"}
validateHostname(n) == n \in ValidName \cup Hostname \cup {"husarnet-local"}

ManagedLines(u) == LET ok == {n \in Entries(u) : validateHostname(n)}
                   IN  [i \in 1..Cardinality(ok) |-> Managed(SetToSeq(ok)[i])]

\* The lines of a file that are not in `dropped`, in their order
Without(content, dropped) ==
    LET upTo[i \in 0..Len(content)] == IF i = 0 THEN <<>>
                                       ELSE IF content[i] \in dropped THEN upTo[i - 1]
                                       ELSE Append(upTo[i - 1], content[i])
    IN  upTo[Len(content)]

\* The unmanaged lines as they are, then ours (updateHostsFileInternal); for
\* /etc/hostname just the new name.
Transformed(p, old, u) ==
    IF p = "hosts" THEN Without(old, {line \in ToSet(old) : IsManaged(line)}) \o ManagedLines(u)
    ELSE <<<<"user", u.hostname>>>>

Content(p) == IF disk[p] = NoFile THEN <<>> ELSE disk[p]

\* `written` overwrites the beginning of what is in the file.
Over(written, old) == written \o SubSeq(old, Len(written) + 1, Len(old))

Trouble == troubles < MaxTroubles /\ troubles' = troubles + 1
Fault == Trouble /\ clean' = FALSE
NoFault == UNCHANGED <<troubles, clean>>

Locked == pc \in {"lockRead", "lockWrite", "lockTruncate"}

-----------------------------------------------------------------------------
HostInit ==
    /\ \E s \in Settings : ini = s.ini /\ environ = s.environ
    /\ renames \in BOOLEAN
    /\ up = "down" /\ enableHooks = FALSE /\ identity = [address |-> 0, keys |-> 0] /\ idFile = <<>>
    /\ \E n \in ValidName : \E f \in {NoFile, <<Managed(n), <<"user", CHOOSE l \in UserLine : TRUE>>>>} :
          disk = [hosts |-> f, hostname |-> NoFile]
    /\ tmp = NoFile /\ newContent = <<>>
    /\ pc = "idle" /\ path = "hosts" /\ update = [names |-> {}, hostname |-> "", claimed |-> FALSE]
    /\ claimedBy = FALSE
    /\ hookTimers = [claimed |-> -1, unclaimed |-> -1] /\ wanted = {}
    /\ edited = FALSE /\ clean = TRUE /\ durable = 0
    /\ updates = 0 /\ troubles = 0 /\ created = 0

-----------------------------------------------------------------------------
\* Start: prepareHusarnet

\* new ConfigEnv(), new HooksManager(...) and its thread
startDaemon ==
    /\ up = "down"
    /\ enableHooks' = EnableHooks(ini, environ)
    /\ hookTimers' = [claimed |-> -1, unclaimed |-> -1]
    /\ up' = "identity"
    /\ NoFault
    /\ UNCHANGED <<envVars, identity, idFile, durable, created, fileVars, pc, path, update, claimedBy,
                   wanted, edited, updates>>

restVars == <<envVars, enableHooks, fileVars, pc, path, update, claimedBy, hookVars, edited, updates>>

\* deserialize: only the address decides whether it is valid.  Without its
\* keys a key is copied from a string that is too short: the assertion of
\* fstring fails, or the keys are what the memory held.
Deserialized(fields) == [address |-> fields[1], keys |-> IF Len(fields) = 3 THEN fields[3] ELSE 0]

identityRead ==
    /\ up = "identity" /\ idFile # <<>>
    /\ IF Asserts /\ Len(idFile) < 3
       THEN up' = "dead" /\ UNCHANGED identity
       ELSE up' = "running" /\ identity' = Deserialized(idFile)
    /\ NoFault /\ UNCHANGED <<restVars, idFile, durable, created>>

\* wrong on purpose: a start that does not look at the stored identity
identityCreateAlways ==
    /\ up = "identity"
    /\ created < MaxIdentities /\ created' = created + 1
    /\ identity' = [address |-> created + 1, keys |-> created + 1]
    /\ up' = "storing"
    /\ NoFault /\ UNCHANGED <<restVars, idFile, durable>>

identityCreate ==
    /\ up = "identity" /\ idFile = <<>>
    /\ created < MaxIdentities /\ created' = created + 1
    /\ identity' = [address |-> created + 1, keys |-> created + 1]
    /\ up' = "storing"
    /\ NoFault /\ UNCHANGED <<restVars, idFile, durable>>

\* writeStorage opens the file, which empties it (or fails: "will run with a
\* volatile one"), and writes the three fields.
identityOpen ==
    /\ up = "storing"
    /\ \/ NoFault /\ idFile' = <<>> /\ up' = "storingData"
       \/ Fault /\ up' = "running" /\ UNCHANGED idFile
    /\ UNCHANGED <<restVars, identity, durable, created>>

Serialized == <<identity.address, identity.keys, identity.keys>>

identityWrite ==
    /\ up = "storingData"
    /\ \/ NoFault /\ idFile' = Serialized /\ durable' = identity.address
       \/ Fault /\ idFile' \in Prefixes(Serialized) \ {Serialized} /\ UNCHANGED durable
    /\ up' = "running"
    /\ UNCHANGED <<restVars, identity, created>>

-----------------------------------------------------------------------------
\* The config thread: updateGetConfigData

stepVars == <<envVars, startVars, claimedBy, hookVars, updates>>

\* A new get_config; a claimed device whose hostname is to be synchronised
\* rewrites /etc/hostname first (setSelfHostname), if it differs.
updateGetConfigData ==
    /\ up = "running" /\ pc = "idle"
    /\ updates < MaxUpdates /\ updates' = updates + 1
    /\ \E names \in Peers, h \in Hostname \cup {""}, claimed \in BOOLEAN :
          /\ h # "" => claimed
          /\ update' = [names |-> names, hostname |-> h, claimed |-> claimed]
          /\ IF h # "" /\ validateHostname(h) /\ Content("hostname") # <<<<"user", h>>>>
             THEN pc' = "begin" /\ path' = "hostname"
             ELSE pc' = "claim" /\ UNCHANGED path
    /\ clean' = TRUE /\ edited' = FALSE
    /\ UNCHANGED <<envVars, startVars, fileVars, claimedBy, hookVars, troubles>>

\* wrong on purpose: a timer that is not running is not started
ScheduledAgain(h) == IF enableHooks /\ hookTimers[h] >= 0 THEN [hookTimers EXCEPT ![h] = 200] ELSE hookTimers

\* scheduleHook
Scheduled(h) == IF enableHooks THEN [hookTimers EXCEPT ![h] = 200] ELSE hookTimers

\* An owner who comes or goes is reported to a hook; then the hosts file.
claim ==
    /\ pc = "claim"
    /\ claimedBy' = update.claimed
    /\ LET h == IF update.claimed THEN "claimed" ELSE "unclaimed" IN
          IF update.claimed # claimedBy
          THEN hookTimers' = Scheduled(h) /\ wanted' = wanted \cup {h}
          ELSE UNCHANGED hookVars
    /\ pc' = "begin" /\ path' = "hosts"
    /\ NoFault
    /\ UNCHANGED <<envVars, startVars, fileVars, update, edited, updates>>

\* transformFile returns to updateGetConfigData; its variables are gone.
Done == /\ pc' = IF path = "hostname" THEN "claim" ELSE "idle"
        /\ newContent' = <<>> /\ edited' = FALSE

\* wrong on purpose: the generic transformFile of ports/fat, which writes in place
transformFileNaive ==
    /\ pc = "begin"
    /\ newContent' = Transformed(path, Content(path), update)
    /\ edited' = FALSE
    /\ disk' = [disk EXCEPT ![path] = <<>>] /\ pc' = "writeData"
    /\ NoFault /\ UNCHANGED <<stepVars, path, update, tmp>>

\* transformFile: a file that is not there is just written; otherwise its
\* content is read, and a temporary file written.
transformFile ==
    /\ pc = "begin"
    /\ newContent' = Transformed(path, Content(path), update)
    /\ edited' = FALSE
    /\ pc' = IF disk[path] = NoFile THEN "writeOpen" ELSE "tmpOpen"
    /\ NoFault /\ UNCHANGED <<stepVars, path, update, disk, tmp>>

tmpOpen ==
    /\ pc = "tmpOpen"
    /\ \/ NoFault /\ tmp' = <<>> /\ pc' = "tmpData"
       \/ Fault /\ pc' = "lock" /\ UNCHANGED tmp
    /\ UNCHANGED <<stepVars, path, update, edited, disk, newContent>>

\* A short write does not stop the transformation.
tmpData ==
    /\ pc = "tmpData" /\ pc' = "exchange"
    /\ \/ NoFault /\ tmp' = newContent
       \/ Fault /\ tmp' \in Prefixes(newContent)
    /\ UNCHANGED <<stepVars, path, update, edited, disk, newContent>>

\* renameat2(RENAME_EXCHANGE), then remove the old content
exchange ==
    /\ pc = "exchange"
    /\ \/ renames /\ disk' = [disk EXCEPT ![path] = tmp] /\ tmp' = disk[path] /\ pc' = "remove" /\ NoFault
       \/ ~renames /\ pc' = "lock" /\ NoFault /\ UNCHANGED <<disk, tmp>>
    /\ UNCHANGED <<stepVars, path, update, edited, newContent>>

remove ==
    /\ pc = "remove"
    /\ tmp' = NoFile /\ Done
    /\ NoFault /\ UNCHANGED <<stepVars, path, update, disk>>

\* transformLockFile: open and take the lease, which keeps other programs
\* from opening the file; read; write over it; truncate; release.
lock ==
    /\ pc = "lock"
    /\ \/ NoFault /\ pc' = "lockRead"
       \/ Fault /\ pc' = "read"
    /\ UNCHANGED <<stepVars, path, update, edited, fileVars>>

lockRead ==
    /\ pc = "lockRead"
    /\ \/ NoFault /\ newContent' = Transformed(path, disk[path], update) /\ pc' = "lockWrite"
       \/ Fault /\ pc' = "read" /\ UNCHANGED newContent
    /\ UNCHANGED <<stepVars, path, update, edited, disk, tmp>>

lockWrite ==
    /\ pc = "lockWrite"
    /\ \E written \in Prefixes(newContent) :
          /\ disk' = [disk EXCEPT ![path] = Over(written, disk[path])]
          /\ IF written = newContent THEN NoFault /\ pc' = "lockTruncate" ELSE Fault /\ pc' = "read"
    /\ UNCHANGED <<stepVars, path, update, edited, tmp, newContent>>

\* wrong on purpose: no ftruncate
lockTruncateMissing ==
    /\ pc = "lockTruncate" /\ Done /\ NoFault
    /\ UNCHANGED <<stepVars, path, update, disk, tmp>>

lockTruncate ==
    /\ pc = "lockTruncate"
    /\ \/ NoFault /\ disk' = [disk EXCEPT ![path] = SubSeq(disk[path], 1, Len(newContent))] /\ Done
       \/ Fault /\ pc' = "read" /\ UNCHANGED <<disk, newContent, edited>>
    /\ UNCHANGED <<stepVars, path, update, tmp>>

\* The fallback: read, and write in place.
read ==
    /\ pc = "read"
    /\ newContent' = Transformed(path, Content(path), update)
    /\ edited' = FALSE
    /\ pc' = "writeOpen"
    /\ NoFault /\ UNCHANGED <<stepVars, path, update, disk, tmp>>

writeOpen ==
    /\ pc = "writeOpen"
    /\ \/ /\ NoFault /\ disk' = [disk EXCEPT ![path] = <<>>] /\ pc' = "writeData"
          /\ UNCHANGED <<newContent, edited>>
       \/ Fault /\ Done /\ UNCHANGED disk
    /\ UNCHANGED <<stepVars, path, update, tmp>>

writeData ==
    /\ pc = "writeData"
    /\ \/ NoFault /\ disk' = [disk EXCEPT ![path] = newContent]
       \/ Fault /\ \E written \in Prefixes(newContent) : disk' = [disk EXCEPT ![path] = written]
    /\ Done
    /\ UNCHANGED <<stepVars, path, update, tmp>>

-----------------------------------------------------------------------------
\* The hooks thread: periodicThread, every HOOKS_PERIOD of 100 ms

Due == {h \in DOMAIN hookTimers : hookTimers[h] >= 0 /\ hookTimers[h] - 100 <= 0}

periodicThread ==
    /\ up \in {"identity", "storing", "storingData", "running"} /\ enableHooks
    /\ hookTimers' = [h \in DOMAIN hookTimers |->
                        IF hookTimers[h] < 0 \/ h \in Due THEN -1 ELSE hookTimers[h] - 100]
    /\ wanted' = wanted \ Due                    \* Port::runHook starts them
    /\ NoFault
    /\ UNCHANGED <<envVars, startVars, fileVars, pc, path, update, claimedBy, edited, updates>>

-----------------------------------------------------------------------------
\* The environment

editLine ==
    /\ Trouble
    /\ disk.hosts # NoFile
    /\ ~(path = "hosts" /\ (Locked \/ pc = "writeData"))
    /\ \E l \in UserLine :
          disk' = [disk EXCEPT !.hosts = IF <<"user", l>> \in ToSet(@)
                                         THEN Without(@, {<<"user", l>>})
                                         ELSE Append(@, <<"user", l>>)]
    /\ edited' = (pc \notin {"idle", "claim", "begin"})
    /\ UNCHANGED <<envVars, startVars, tmp, newContent, pc, path, update, claimedBy, hookVars,
                   clean, updates>>

crash ==
    /\ up \notin {"down", "dead"}
    /\ Fault
    /\ up' = "down" /\ pc' = "idle" /\ claimedBy' = FALSE
    /\ newContent' = <<>> /\ edited' = FALSE
    /\ hookTimers' = [claimed |-> -1, unclaimed |-> -1] /\ wanted' = {}
    /\ UNCHANGED <<envVars, enableHooks, identity, idFile, durable, created, disk, tmp, path,
                   update, updates>>

HostNext ==
    \/ startDaemon \/ identityRead \/ identityCreate \/ identityOpen \/ identityWrite
    \/ updateGetConfigData \/ claim
    \/ transformFile \/ tmpOpen \/ tmpData \/ exchange \/ remove
    \/ lock \/ lockRead \/ lockWrite \/ lockTruncate \/ read \/ writeOpen \/ writeData
    \/ periodicThread \/ editLine \/ crash

HostSpec == HostInit /\ [][HostNext]_vars /\ WF_vars(periodicThread)

-----------------------------------------------------------------------------
UserLines(content) == {line \in ToSet(content) : IsUser(line)}

\* A line another program wrote into /etc/hosts leaves it by a step of the
\* daemon, or by killing it, only when an edit fell between the reading and
\* the exchange, when a short temporary file is swapped in, or when both
\* methods meant for shared files failed and the file is emptied to be written
\* in place.  In particular the path through the lease never loses one,
\* whatever it writes over and wherever it stops.
UserLinesKept ==
    [][\/ UserLines(disk.hosts) \subseteq UserLines(disk'.hosts)
       \/ editLine
       \/ pc = "exchange" /\ (edited \/ tmp # newContent)
       \/ pc = "writeOpen"]_vars

\* The managed lines are those of update u, once each.
Repaired(content, u) ==
    LET ours == {i \in DOMAIN content : IsManaged(content[i])}
    IN  /\ {content[i] : i \in ours} = {Managed(n) : n \in {m \in Entries(u) : validateHostname(m)}}
        /\ \A i, j \in ours : content[i] = content[j] => i = j

\* When an update ends in which nothing failed, /etc/hosts names the peers of
\* that update and this device once each, and no other peer, whatever an
\* earlier update that failed or was killed had left in it or in the
\* temporary file.
HostsRepaired ==
    clean /\ up = "running" /\ pc = "idle" /\ updates > 0 =>
        Repaired(Content("hosts"), update)

\* The identity once stored wholly is the one of every later start, and is
\* never written again: a restart does not change the device's address.
IdentityKept ==
    durable # 0 => /\ idFile = <<durable, durable, durable>>
                   /\ up = "running" => identity = [address |-> durable, keys |-> durable]

\* Whether hooks run is what the last line about them in the strongest place
\* says: the environment, the [daemon] sections of defaults.ini, its [common]
\* sections; without any, they do not.
HooksAsConfigured ==
    LET In(s) == {i \in DOMAIN ini :
                    /\ ini[i][1] = "enable_hooks"
                    /\ \E j \in 1..(i - 1) :
                          /\ ini[j] = <<"section", s>>
                          /\ \A k \in (j + 1)..(i - 1) : ini[k][1] # "section"}
        LastOf(s) == ini[CHOOSE i \in In(s) : \A j \in In(s) : j <= i][2]
        on == \/ environ # <<>> /\ strToBool(environ[Len(environ)])
              \/ environ = <<>> /\ In("daemon") # {} /\ strToBool(LastOf("daemon"))
              \/ environ = <<>> /\ In("daemon") = {} /\ In("common") # {} /\ strToBool(LastOf("common"))
    IN  up \notin {"down", "dead"} => enableHooks = on

\* The hook about an owner who came or went is started, unless the daemon is
\* killed, however often it is scheduled again.
HooksTell ==
    \A h \in {"claimed", "unclaimed"} :
        (h \in wanted /\ enableHooks) ~> (h \notin wanted \/ up = "down")
=============================================================================
