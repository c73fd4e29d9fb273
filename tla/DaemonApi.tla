----------------------------- MODULE DaemonApi -----------------------------
(***************************************************************************)
(* The HTTP API of the daemon (core/husarnet/api_server/server.cpp), the   *)
(* start of the daemon around it (husarnet_manager.cpp) and the commands   *)
(* of the CLI that use it (cli/daemon_api.go, cli/daemon_wait.go,          *)
(* cli/requests).                                                          *)
(*                                                                         *)
(* The main thread starts the API thread and waits until it is ready.  The *)
(* API thread takes the token from its file, or makes one and writes it,   *)
(* and binds its port; the CLI sends what it read from that file with each *)
(* command.  A command adds to or removes from the whitelist, is forwarded *)
(* to the Dashboard API, or waits until the daemon reports something.      *)
(*                                                                         *)
(* The daemon may crash at any point, and the service manager or the CLI   *)
(* starts it again; its port may be taken, the file may not be writable    *)
(* and the answers of the Dashboard may be lost.                           *)
(***************************************************************************)
EXTENDS Naturals, FiniteSets

CONSTANTS
    Cli,               \* processes of the CLI
    Token,             \* what generateRandomString(32) can return
    Address,           \* addresses to whitelist
    Absent, Empty,     \* the token file: not there, of length 0
    UserWhitelistSize, \* capacity of userWhitelist
    MaxRetries,        \* attempts of forwardRequestToDashboardApi
    WaitTries,         \* attempts of waitAction
    MaxStarts,         \* bound: starts of the daemon
    MaxCommands,       \* bound: commands given
    MaxDiskFaults      \* bound: failed writes of the token file

ASSUME TokenAssumption == Absent # Empty /\ {Absent, Empty} \cap Token = {}
ASSUME LimitsAssumption ==
    {UserWhitelistSize, MaxRetries, WaitTries, MaxStarts, MaxCommands, MaxDiskFaults} \subseteq Nat

VARIABLES
    tokenFile, diskFaults,
    main,            \* the main thread
    api,             \* the API thread
    mutex, isReady,  \* of ApiServer; the holder of the mutex
    daemonApiToken,
    userWhitelist,
    starts,
    cli,             \* per CLI process: what it is at
    forwarding,      \* per CLI process: attempts left of its forwarded request
    effects,         \* history: how often the process's command took effect
    lostAnswers,     \* history: answers of the Dashboard to it that were lost
    commands

fileVars == <<tokenFile, diskFaults>>
threadVars == <<main, api, mutex, isReady, starts>>
stateVars == <<daemonApiToken, userWhitelist>>
cliVars == <<cli, forwarding, effects, lostAnswers, commands>>
vars == <<fileVars, threadVars, stateVars, cliVars>>

-----------------------------------------------------------------------------
Command == [op : {"add", "rm"}, address : Address] \cup [op : {"forward", "wait"}]

Idle == [at |-> "idle", outcome |-> "none"]
Ended(outcome) == [at |-> "idle", outcome |-> outcome]
Reading(cmd) == [at |-> "read", command |-> cmd]
Calling(cmd, secret) == [at |-> "call", command |-> cmd, secret |-> secret]
Sent(c) == [cli[c] EXCEPT !.at = "sent"]
Restarting(c) == [cli[c] EXCEPT !.at = "restart"]
\* waits is how many calls of waitDaemon are left, tries the attempts of this one.
Waiting(cmd, secret, waits, tries) ==
    [at |-> "wait", command |-> cmd, secret |-> secret, waits |-> waits, tries |-> tries]
TriedAgain(c) == [cli[c] EXCEPT !.tries = @ + 1]
Retrying(c) == [at |-> "retry", command |-> cli[c].command, secret |-> cli[c].secret]
Answered(answer) == [at |-> "answered", answer |-> answer]

Init ==
    /\ tokenFile \in {Absent, Empty} \cup Token /\ diskFaults = 0
    /\ main = "down" /\ api = "off" /\ mutex = "free" /\ isReady = FALSE /\ starts = 0
    /\ daemonApiToken = Empty /\ userWhitelist = {}
    /\ cli = [c \in Cli |-> Idle]
    /\ forwarding = [c \in Cli |-> 0]
    /\ effects = [c \in Cli |-> 0] /\ lostAnswers = [c \in Cli |-> 0]
    /\ commands = 0

-----------------------------------------------------------------------------
(***************************************************************************)
(* The main thread: runHusarnet from the start of the API thread on.       *)
(***************************************************************************)
runHusarnet ==
    /\ main = "down" /\ starts < MaxStarts
    /\ starts' = starts + 1
    /\ main' = "starting" /\ api' = "started"
    /\ mutex' = "free" /\ isReady' = FALSE
    /\ daemonApiToken' = Empty /\ userWhitelist' = {}
    /\ UNCHANGED <<fileVars, cliVars>>

\* The check of isReady and the wait are one step under the mutex.
waitStarted ==
    /\ main = "starting" /\ mutex = "free"
    /\ main' = IF isReady THEN "running" ELSE "waiting"
    /\ UNCHANGED <<fileVars, api, mutex, isReady, starts, stateVars, cliVars>>

\* A crash, or exit(1).  A request that the daemon had taken fails with it.
Stops ==
    /\ main' = "down" /\ api' = "off"
    /\ mutex' = "free" /\ isReady' = FALSE
    /\ daemonApiToken' = Empty /\ userWhitelist' = {}
    /\ cli' = [c \in Cli |-> IF cli[c].at = "sent" THEN Ended("failed") ELSE cli[c]]
    /\ forwarding' = [c \in Cli |-> 0]
    /\ UNCHANGED <<starts, effects, lostAnswers, commands>>

crash == main # "down" /\ Stops /\ UNCHANGED fileVars

-----------------------------------------------------------------------------
(***************************************************************************)
(* The API thread: runThread.                                              *)
(***************************************************************************)
lockMutex ==
    /\ api = "started" /\ mutex = "free"
    /\ mutex' = "api" /\ api' = "token"
    /\ UNCHANGED <<fileVars, main, isReady, starts, stateVars, cliVars>>

\* getOrCreateDaemonApiToken.  Opening the file to write it empties it first.
NeedsTokenAbsent == tokenFile = Absent  \* wrong on purpose: an empty file is a token
NeedsToken == tokenFile \in {Absent, Empty}

getDaemonApiToken ==
    /\ api = "token" /\ ~NeedsToken
    /\ daemonApiToken' = tokenFile
    /\ api' = "bind"
    /\ UNCHANGED <<fileVars, main, mutex, isReady, starts, userWhitelist, cliVars>>

createDaemonApiToken ==
    /\ api = "token" /\ NeedsToken
    /\ daemonApiToken' \in Token
    /\ api' = "write"
    /\ tokenFile' = Empty
    /\ UNCHANGED <<diskFaults, main, mutex, isReady, starts, userWhitelist, cliVars>>

writeDaemonApiToken ==
    /\ api = "write"
    /\ api' = "bind"
    /\ tokenFile' = daemonApiToken
    /\ UNCHANGED <<diskFaults, main, mutex, isReady, starts, stateVars, cliVars>>

\* The write fails: the daemon goes on with a token that only it knows.
writeDaemonApiTokenFails ==
    /\ api = "write" /\ diskFaults < MaxDiskFaults
    /\ diskFaults' = diskFaults + 1
    /\ api' = "bind"
    /\ UNCHANGED <<tokenFile, main, mutex, isReady, starts, stateVars, cliVars>>

bindFails == api = "bind" /\ Stops /\ UNCHANGED fileVars

bindToPort ==
    /\ api = "bind"
    /\ isReady' = TRUE /\ mutex' = "free"
    /\ api' = "notify"
    /\ UNCHANGED <<fileVars, main, starts, stateVars, cliVars>>

listenUnnotified ==  \* wrong on purpose: the main thread is not notified
    /\ api = "notify"
    /\ api' = "listening"
    /\ UNCHANGED <<fileVars, main, mutex, isReady, starts, stateVars, cliVars>>
listen ==
    /\ api = "notify"
    /\ api' = "listening"
    /\ main' = IF main = "waiting" THEN "starting" ELSE main
    /\ UNCHANGED <<fileVars, mutex, isReady, starts, stateVars, cliVars>>

Bound == api \in {"notify", "listening"}

-----------------------------------------------------------------------------
(***************************************************************************)
(* The handlers of the API, each in a thread of the server's pool.         *)
(***************************************************************************)
validateSecret(c) == cli[c].secret = daemonApiToken

Takes(c, op) == api = "listening" /\ cli[c].at = "sent" /\ cli[c].command.op = op

Answer(c, answer) == cli' = [cli EXCEPT ![c] = Answered(answer)]
TakesEffect(c) == effects' = [effects EXCEPT ![c] = @ + 1]

refuse(c) ==
    /\ api = "listening" /\ cli[c].at = "sent" /\ ~validateSecret(c)
    /\ Answer(c, "invalid")
    /\ UNCHANGED <<fileVars, threadVars, stateVars, forwarding, effects, lostAnswers, commands>>

WhitelistFull == Cardinality(userWhitelist) >= UserWhitelistSize

whitelistAdd(c) ==
    /\ Takes(c, "add") /\ validateSecret(c)
    /\ IF cli[c].command.address \in userWhitelist \/ WhitelistFull
       THEN Answer(c, "error") /\ UNCHANGED <<userWhitelist, effects>>
       ELSE /\ userWhitelist' = userWhitelist \cup {cli[c].command.address}
            /\ Answer(c, "success") /\ TakesEffect(c)
    /\ UNCHANGED <<fileVars, threadVars, daemonApiToken, forwarding, lostAnswers, commands>>

whitelistRm(c) ==
    /\ Takes(c, "rm") /\ validateSecret(c)
    /\ IF cli[c].command.address \notin userWhitelist
       THEN Answer(c, "error") /\ UNCHANGED <<userWhitelist, effects>>
       ELSE /\ userWhitelist' = userWhitelist \ {cli[c].command.address}
            /\ Answer(c, "success") /\ TakesEffect(c)
    /\ UNCHANGED <<fileVars, threadVars, daemonApiToken, forwarding, lostAnswers, commands>>

(***************************************************************************)
(* forwardRequestToDashboardApi: without an address of the Dashboard API   *)
(* an error; else up to MaxRetries attempts, of any method.                *)
(***************************************************************************)
forwardStart(c) ==
    /\ Takes(c, "forward") /\ validateSecret(c) /\ forwarding[c] = 0
    /\ \/ Answer(c, "error") /\ UNCHANGED forwarding
       \/ forwarding' = [forwarding EXCEPT ![c] = MaxRetries] /\ UNCHANGED cli
    /\ UNCHANGED <<fileVars, threadVars, stateVars, effects, lostAnswers, commands>>

Attempts(c) == Takes(c, "forward") /\ forwarding[c] > 0

forwardAnsweredRetried(c) ==  \* wrong on purpose: an answer does not end the attempts
    /\ Attempts(c)
    /\ TakesEffect(c)
    /\ forwarding' = [forwarding EXCEPT ![c] = @ - 1]
    /\ IF forwarding[c] = 1 THEN Answer(c, "success") ELSE UNCHANGED cli
    /\ UNCHANGED <<fileVars, threadVars, stateVars, lostAnswers, commands>>
forwardAnswered(c) ==
    /\ Attempts(c)
    /\ TakesEffect(c)
    /\ Answer(c, "success")
    /\ forwarding' = [forwarding EXCEPT ![c] = 0]
    /\ UNCHANGED <<fileVars, threadVars, stateVars, lostAnswers, commands>>

\* The attempt fails, before the Dashboard has acted on it or after; the last one
\* is answered with 503.
forwardFails(c) ==
    /\ Attempts(c)
    /\ \/ UNCHANGED <<effects, lostAnswers>>
       \/ TakesEffect(c) /\ lostAnswers' = [lostAnswers EXCEPT ![c] = @ + 1]
    /\ forwarding' = [forwarding EXCEPT ![c] = @ - 1]
    /\ IF forwarding[c] = 1 THEN Answer(c, "error") ELSE UNCHANGED cli
    /\ UNCHANGED <<fileVars, threadVars, stateVars, commands>>

-----------------------------------------------------------------------------
(***************************************************************************)
(* The CLI.                                                                *)
(***************************************************************************)
OnlyCli == UNCHANGED <<fileVars, threadVars, stateVars, forwarding, effects, lostAnswers, commands>>

command(c, cmd) ==
    /\ cli[c].at = "idle" /\ commands < MaxCommands
    /\ commands' = commands + 1
    /\ cli' = [cli EXCEPT ![c] = IF cmd.op = "wait" THEN Waiting(cmd, Empty, 1, 0) ELSE Reading(cmd)]
    /\ effects' = [effects EXCEPT ![c] = 0] /\ lostAnswers' = [lostAnswers EXCEPT ![c] = 0]
    /\ UNCHANGED <<fileVars, threadVars, stateVars, forwarding>>

\* addDaemonApiSecret, before the request and never again.
addDaemonApiSecret(c) ==
    /\ cli[c].at = "read"
    /\ cli' = [cli EXCEPT ![c] = IF tokenFile = Absent THEN Ended("failed")
                                 ELSE Calling(cli[c].command, tokenFile)]
    /\ OnlyCli

\* A first request that is refused has the daemon restarted, when it is one of
\* callDaemonPost and the user agrees; a second one ends the command.
Refused(c) ==
    \/ cli[c].at = "call" /\ cli[c].command.op # "forward" /\ cli' = [cli EXCEPT ![c] = Restarting(c)]
    \/ cli' = [cli EXCEPT ![c] = Ended("failed")]

callDaemon(c) ==
    /\ cli[c].at \in {"call", "retry"}
    /\ IF Bound THEN cli' = [cli EXCEPT ![c] = Sent(c)] ELSE Refused(c)
    /\ OnlyCli

\* restartService, successful or not: a daemon that runs is stopped first.
restartService(c) ==
    /\ cli[c].at = "restart"
    /\ IF main = "down" THEN UNCHANGED <<main, api, mutex, isReady, starts, stateVars>>
       ELSE /\ main' = "down" /\ api' = "off" /\ mutex' = "free" /\ isReady' = FALSE
            /\ daemonApiToken' = Empty /\ userWhitelist' = {}
            /\ UNCHANGED starts
    /\ forwarding' = [d \in Cli |-> 0]
    /\ cli' = [d \in Cli |-> CASE d = c -> Waiting(cli[c].command, cli[c].secret, 2, 0)
                               [] cli[d].at = "sent" -> Ended("failed")
                               [] OTHER -> cli[d]]
    /\ UNCHANGED <<fileVars, effects, lostAnswers, commands>>

\* One turn of waitAction: the status is what is waited for, or the attempt counts
\* and after WaitTries of them the wait is over.  waitDaemon wants any status, and
\* its failure is not looked at; the wait commands want more of it.
WaitOver(c) ==
    IF cli[c].waits = 2 THEN Waiting(cli[c].command, cli[c].secret, 1, 0) ELSE Retrying(c)

waitTurnPatient(c, ok) ==  \* wrong on purpose: attempts are not counted
    /\ cli[c].at = "wait"
    /\ ok => api = "listening"
    /\ cli' = [cli EXCEPT ![c] =
         IF ~ok THEN cli[c] ELSE IF cli[c].command.op = "wait" THEN Ended("success") ELSE WaitOver(c)]
    /\ OnlyCli
waitTurn(c, ok) ==
    /\ cli[c].at = "wait"
    /\ ok => api = "listening"
    /\ ~ok /\ Bound => api = "listening" /\ cli[c].command.op = "wait"
    /\ cli' = [cli EXCEPT ![c] =
         IF ~ok /\ cli[c].tries < WaitTries THEN TriedAgain(c)
         ELSE IF cli[c].command.op # "wait" THEN WaitOver(c)
         ELSE Ended(IF ok THEN "success" ELSE "failed")]
    /\ OnlyCli

readResponse(c) ==
    /\ cli[c].at = "answered"
    /\ cli' = [cli EXCEPT ![c] = Ended(IF cli[c].answer = "success" THEN "success" ELSE "failed")]
    /\ OnlyCli

-----------------------------------------------------------------------------
ApiThread ==
    \/ lockMutex \/ getDaemonApiToken \/ createDaemonApiToken
    \/ writeDaemonApiToken \/ writeDaemonApiTokenFails
    \/ bindToPort \/ bindFails \/ listen

Handlers(c) ==
    \/ refuse(c) \/ whitelistAdd(c) \/ whitelistRm(c)
    \/ forwardStart(c) \/ forwardAnswered(c) \/ forwardFails(c)

CliSteps(c) ==
    \/ addDaemonApiSecret(c) \/ callDaemon(c) \/ restartService(c) \/ readResponse(c)
    \/ \E ok \in BOOLEAN : waitTurn(c, ok)

Next ==
    \/ runHusarnet \/ waitStarted \/ crash
    \/ ApiThread
    \/ \E c \in Cli : Handlers(c) \/ CliSteps(c) \/ \E cmd \in Command : command(c, cmd)

Spec == Init /\ [][Next]_vars

\* Every thread and every process that can go on does; the service manager starts
\* the daemon again (Restart=always).
Fairness ==
    /\ WF_vars(runHusarnet) /\ WF_vars(waitStarted) /\ WF_vars(ApiThread)
    /\ \A c \in Cli : WF_vars(Handlers(c)) /\ WF_vars(CliSteps(c))
FairSpec == Spec /\ Fairness

-----------------------------------------------------------------------------
\* Once its port is bound the daemon has a token, never the empty string (which any
\* request could carry), and unless a write of the file has failed the file holds
\* that token: whoever may read the file is let in, also after a crash between the
\* truncation of the file and the write.
TokenShared ==
    Bound => /\ daemonApiToken \in Token
             /\ diskFaults = 0 => tokenFile = daemonApiToken

\* A command that the CLI reports as done took effect; one on the whitelist took
\* effect at most once although the CLI repeats it after a restart of the daemon,
\* and a forwarded one more often only for answers of the Dashboard that were lost.
Effects ==
    \A c \in Cli :
        /\ cli[c].at = "answered" /\ cli[c].answer = "success" => effects[c] > 0
        /\ effects[c] <= 1 + lostAnswers[c]

\* The main thread learns that the API is ready, whichever of the two takes the
\* mutex first.
StartNoticed == api = "listening" ~> main \in {"running", "down"}

\* Every command comes to an end, even if the daemon never comes up.
CommandsEnd == \A c \in Cli : cli[c].at # "idle" ~> cli[c].at = "idle"
=============================================================================
