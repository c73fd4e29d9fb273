--------------------------- MODULE DaemonApiProofs ---------------------------
(***************************************************************************)
(* What DaemonApi guarantees for any number of CLI processes, commands,    *)
(* crashes and restarts, and Esp32Port for any number of join calls,       *)
(* buffers and packets.                                                    *)
(***************************************************************************)
EXTENDS MCDaemonApi, Sequences, FiniteSetTheorems, TLAPS

USE TokenAssumption, LimitsAssumption

-----------------------------------------------------------------------------
(***************************************************************************)
(* The token.  Between the truncation of the file and the write, and after *)
(* a crash there, the file is empty and never taken for a token.           *)
(***************************************************************************)
TokenInv ==
    /\ tokenFile \in {Absent, Empty} \cup Token /\ diskFaults \in Nat
    /\ api \in {"write", "bind", "notify", "listening"} => daemonApiToken \in Token
    /\ api \in {"bind", "notify", "listening"} => (diskFaults = 0 => tokenFile = daemonApiToken)

LEMMA TokenKept == Init /\ [][Next]_vars => []TokenInv
<1>1. Init => TokenInv
  BY DEF Init, TokenInv
<1>2. TokenInv /\ [Next]_vars => TokenInv'
  <2> SUFFICES ASSUME TokenInv, [Next]_vars PROVE TokenInv'
    OBVIOUS
  <2> USE DEF TokenInv
  <2>1. CASE runHusarnet \/ crash \/ bindFails
    BY <2>1 DEF runHusarnet, crash, bindFails, Stops, fileVars
  <2>2. CASE waitStarted
    BY <2>2 DEF waitStarted, fileVars, stateVars
  <2>3. CASE lockMutex
    BY <2>3 DEF lockMutex, fileVars, stateVars
  <2>4. CASE getDaemonApiToken
    BY <2>4 DEF getDaemonApiToken, NeedsToken, fileVars
  <2>5. CASE createDaemonApiToken
    BY <2>5 DEF createDaemonApiToken
  <2>6. CASE writeDaemonApiToken
    BY <2>6 DEF writeDaemonApiToken, stateVars
  <2>7. CASE writeDaemonApiTokenFails
    BY <2>7 DEF writeDaemonApiTokenFails, stateVars
  <2>8. CASE bindToPort \/ listen
    BY <2>8 DEF bindToPort, listen, fileVars, stateVars
  <2>9. CASE \E c \in Cli : Handlers(c) \/ CliSteps(c) \/ \E cmd \in Command : command(c, cmd)
    <3>1. UNCHANGED fileVars
      BY <2>9 DEF Handlers, CliSteps, command, refuse, whitelistAdd, whitelistRm, forwardStart,
                  forwardAnswered, forwardFails, addDaemonApiSecret, callDaemon, restartService,
                  readResponse, waitTurn, OnlyCli
    <3>2. api' = "off" \/ UNCHANGED <<api, daemonApiToken>>
      BY <2>9 DEF Handlers, CliSteps, command, refuse, whitelistAdd, whitelistRm, forwardStart,
                  forwardAnswered, forwardFails, addDaemonApiSecret, callDaemon, restartService,
                  readResponse, waitTurn, OnlyCli, threadVars, stateVars
    <3> QED BY <3>1, <3>2 DEF fileVars
  <2>10. CASE UNCHANGED vars
    BY <2>10 DEF vars, fileVars, threadVars, stateVars
  <2> QED BY <2>1, <2>2, <2>3, <2>4, <2>5, <2>6, <2>7, <2>8, <2>9, <2>10 DEF Next, ApiThread
<1> QED BY <1>1, <1>2, PTL

\* Whoever may read the token file is let in once the port is bound, whatever
\* crashes and restarts came before, unless a write of the file failed; and the
\* token is never the empty string (getOrCreateDaemonApiToken).
THEOREM TokenIsShared == Spec => []TokenShared
<1>1. TokenInv => TokenShared
  BY DEF TokenInv, TokenShared, Bound
<1> QED BY <1>1, TokenKept, PTL DEF Spec

-----------------------------------------------------------------------------
(***************************************************************************)
(* The commands.  A command that has not been answered took effect exactly *)
(* as often as an answer of the Dashboard to it was lost.                  *)
(***************************************************************************)
Secrets == {Absent, Empty} \cup Token
AtIdle == [at : {"idle"}, outcome : {"none", "failed", "success"}]
AtRead == [at : {"read"}, command : Command]
AtCall == [at : {"call", "sent", "restart", "retry"}, command : Command, secret : Secrets]
AtWait == [at : {"wait"}, command : Command, secret : Secrets, waits : Nat, tries : Nat]
AtAnswer == [at : {"answered"}, answer : {"invalid", "error", "success"}]
CliState == AtIdle \cup AtRead \cup AtCall \cup AtWait \cup AtAnswer

CountInv(c) ==
    /\ effects[c] \in Nat /\ lostAnswers[c] \in Nat
    /\ effects[c] <= 1 + lostAnswers[c]
    /\ cli[c].at \notin {"idle", "answered"} => effects[c] = lostAnswers[c]
    /\ cli[c].at = "answered" /\ cli[c].answer = "success" => effects[c] > 0

CliInv ==
    /\ cli \in [Cli -> CliState] /\ tokenFile \in Secrets
    /\ effects \in [Cli -> Nat] /\ lostAnswers \in [Cli -> Nat]
    /\ \A c \in Cli : CountInv(c)

\* Which record a process has, by the place it is at.
LEMMA CliStates ==
    ASSUME NEW s \in CliState
    PROVE  /\ s.at = "read" => s \in AtRead
           /\ s.at \in {"call", "sent", "restart", "retry"} => s \in AtCall
           /\ s.at = "wait" => s \in AtWait
           /\ s.at \in {"idle", "read", "call", "sent", "restart", "retry", "wait", "answered"}
BY DEF CliState, AtIdle, AtRead, AtCall, AtWait, AtAnswer

LEMMA NewStates ==
    /\ \A o \in {"none", "failed", "success"} : Ended(o) \in CliState /\ Ended(o).at = "idle"
    /\ \A a \in {"invalid", "error", "success"} :
          Answered(a) \in CliState /\ Answered(a).at = "answered" /\ Answered(a).answer = a
    /\ \A cmd \in Command : Reading(cmd) \in CliState /\ Reading(cmd).at = "read"
    /\ \A cmd \in Command, s \in Secrets :
          Calling(cmd, s) \in CliState /\ Calling(cmd, s).at = "call"
    /\ \A cmd \in Command, s \in Secrets, w \in Nat, n \in Nat :
          Waiting(cmd, s, w, n) \in CliState /\ Waiting(cmd, s, w, n).at = "wait"
<1>1. \A o \in {"none", "failed", "success"} : Ended(o) \in CliState /\ Ended(o).at = "idle"
  BY DEF Ended, CliState, AtIdle
<1>2. \A a \in {"invalid", "error", "success"} :
        Answered(a) \in CliState /\ Answered(a).at = "answered" /\ Answered(a).answer = a
  BY DEF Answered, CliState, AtAnswer
<1>3. \A cmd \in Command : Reading(cmd) \in CliState /\ Reading(cmd).at = "read"
  BY DEF Reading, CliState, AtRead
<1>4. \A cmd \in Command, s \in Secrets :
        Calling(cmd, s) \in CliState /\ Calling(cmd, s).at = "call"
  BY DEF Calling, CliState, AtCall
<1>5. \A cmd \in Command, s \in Secrets, w \in Nat, n \in Nat :
        Waiting(cmd, s, w, n) \in CliState /\ Waiting(cmd, s, w, n).at = "wait"
  BY DEF Waiting, CliState, AtWait
<1> QED BY <1>1, <1>2, <1>3, <1>4, <1>5

\* A step of one process that does not count anything.
LEMMA OneMoves ==
    ASSUME CliInv, NEW c \in Cli, NEW s \in CliState, cli' = [cli EXCEPT ![c] = s],
           tokenFile' \in Secrets, UNCHANGED <<effects, lostAnswers>>,
           s.at \notin {"idle", "answered"} => cli[c].at \notin {"idle", "answered"},
           s.at = "answered" => s.answer # "success"
    PROVE  CliInv'
<1>1. cli' \in [Cli -> CliState] /\ cli'[c] = s /\ \A d \in Cli : d # c => cli'[d] = cli[d]
  BY DEF CliInv
<1>2. \A d \in Cli : CountInv(d)'
  BY <1>1 DEF CliInv, CountInv
<1> QED BY <1>1, <1>2 DEF CliInv

\* The daemon stops: what it had taken fails.
LEMMA SomeFail ==
    ASSUME CliInv, NEW S \in SUBSET Cli, NEW keeps \in [Cli -> CliState],
           cli' = [d \in Cli |-> IF d \in S THEN Ended("failed") ELSE keeps[d]],
           \A d \in Cli \ S :
               \/ keeps[d] = cli[d]
               \/ /\ keeps[d].at \notin {"idle", "answered"}
                  /\ cli[d].at \notin {"idle", "answered"},
           UNCHANGED <<effects, lostAnswers>>, tokenFile' \in Secrets
    PROVE  CliInv'
<1>1. cli' \in [Cli -> CliState]
  BY NewStates
<1>2. \A d \in Cli : CountInv(d)'
  <2> TAKE d \in Cli
  <2>1. CountInv(d) /\ UNCHANGED <<effects[d], lostAnswers[d]>>
    BY DEF CliInv
  <2>2. CASE d \in S
    <3>1. cli'[d].at = "idle"
      BY <2>2, NewStates
    <3> QED BY <2>1, <3>1 DEF CountInv
  <2>3. CASE d \notin S
    <3>1. cli'[d] = keeps[d]
      BY <2>3
    <3> QED BY <2>1, <2>3, <3>1 DEF CountInv
  <2> QED BY <2>2, <2>3
<1> QED BY <1>1, <1>2 DEF CliInv

LEMMA StopKeeps ==
    ASSUME CliInv, Stops, tokenFile' \in Secrets
    PROVE  CliInv'
<1> DEFINE S == {c \in Cli : cli[c].at = "sent"}
<1>1. cli' = [d \in Cli |-> IF d \in S THEN Ended("failed") ELSE cli[d]]
  BY DEF Stops
<1>2. S \in SUBSET Cli /\ cli \in [Cli -> CliState] /\ UNCHANGED <<effects, lostAnswers>>
  BY DEF Stops, CliInv
<1> HIDE DEF S
<1> QED BY <1>1, <1>2, SomeFail

\* A command is given.
LEMMA CommandKeeps ==
    ASSUME CliInv, NEW c \in Cli, NEW cmd \in Command, command(c, cmd)
    PROVE  CliInv'
<1> DEFINE s == IF cmd.op = "wait" THEN Waiting(cmd, Empty, 1, 0) ELSE Reading(cmd)
<1>1. s \in CliState /\ s.at \in {"wait", "read"}
  BY NewStates DEF Secrets
<1>2. /\ cli' = [cli EXCEPT ![c] = s] /\ UNCHANGED tokenFile
      /\ effects' = [effects EXCEPT ![c] = 0] /\ lostAnswers' = [lostAnswers EXCEPT ![c] = 0]
  BY DEF command, fileVars
<1> HIDE DEF s
<1>3. cli' \in [Cli -> CliState] /\ cli'[c] = s /\ \A d \in Cli : d # c => cli'[d] = cli[d]
  BY <1>1, <1>2 DEF CliInv
<1>4. /\ effects' \in [Cli -> Nat] /\ lostAnswers' \in [Cli -> Nat]
      /\ effects'[c] = 0 /\ lostAnswers'[c] = 0
      /\ \A d \in Cli : d # c => effects'[d] = effects[d] /\ lostAnswers'[d] = lostAnswers[d]
  BY <1>2 DEF CliInv
<1>5. \A d \in Cli : CountInv(d)'
  BY <1>1, <1>3, <1>4 DEF CliInv, CountInv
<1> QED BY <1>2, <1>3, <1>4, <1>5 DEF CliInv

\* A request is answered, and took effect if the answer says so.
LEMMA AnswerKeeps ==
    ASSUME CliInv, NEW c \in Cli, NEW a \in {"invalid", "error", "success"}, Answer(c, a),
           cli[c].at = "sent", tokenFile' \in Secrets,
           \/ a # "success" /\ UNCHANGED <<effects, lostAnswers>>
           \/ TakesEffect(c) /\ UNCHANGED lostAnswers
           \/ a # "success" /\ TakesEffect(c) /\ lostAnswers' = [lostAnswers EXCEPT ![c] = @ + 1]
    PROVE  CliInv'
<1>1. Answered(a) \in CliState /\ Answered(a).at = "answered" /\ Answered(a).answer = a
  BY NewStates
<1>2. /\ cli' \in [Cli -> CliState] /\ cli'[c] = Answered(a)
      /\ \A d \in Cli : d # c => cli'[d] = cli[d]
  BY <1>1 DEF Answer, CliInv
<1>3. effects[c] = lostAnswers[c] /\ effects[c] \in Nat /\ lostAnswers[c] \in Nat
  BY DEF CliInv, CountInv
<1>4. /\ effects' \in [Cli -> Nat] /\ lostAnswers' \in [Cli -> Nat]
      /\ \A d \in Cli : d # c => effects'[d] = effects[d] /\ lostAnswers'[d] = lostAnswers[d]
  BY DEF CliInv, TakesEffect
<1>5. \/ a # "success" /\ effects'[c] = effects[c] /\ lostAnswers'[c] = lostAnswers[c]
      \/ effects'[c] = effects[c] + 1 /\ lostAnswers'[c] = lostAnswers[c]
      \/ a # "success" /\ effects'[c] = effects[c] + 1 /\ lostAnswers'[c] = lostAnswers[c] + 1
  BY DEF CliInv, TakesEffect
<1>6. CountInv(c)'
  <2>1. /\ effects'[c] \in Nat /\ lostAnswers'[c] \in Nat /\ effects'[c] <= 1 + lostAnswers'[c]
        /\ a = "success" => effects'[c] > 0
    BY <1>3, <1>5
  <2> QED BY <1>1, <1>2, <2>1 DEF CountInv
<1>7. \A d \in Cli : CountInv(d)'
  BY <1>2, <1>4, <1>6 DEF CliInv, CountInv
<1> QED BY <1>2, <1>4, <1>7 DEF CliInv

LEMMA HandlersKeep ==
    ASSUME CliInv, NEW c \in Cli, Handlers(c)
    PROVE  CliInv'
<1>1. cli[c].at = "sent" /\ UNCHANGED fileVars
  BY DEF Handlers, refuse, whitelistAdd, whitelistRm, forwardStart, forwardAnswered,
         forwardFails, Attempts, Takes
<1>2. tokenFile' \in Secrets
  BY <1>1 DEF CliInv, fileVars
<1>3. CASE refuse(c)
  BY <1>1, <1>2, <1>3, AnswerKeeps DEF refuse
<1>4. CASE whitelistAdd(c) \/ whitelistRm(c)
  <2>1. \/ Answer(c, "error") /\ UNCHANGED <<effects, lostAnswers>>
        \/ Answer(c, "success") /\ TakesEffect(c) /\ UNCHANGED lostAnswers
    BY <1>4 DEF whitelistAdd, whitelistRm
  <2> QED BY <1>1, <1>2, <2>1, AnswerKeeps
<1>5. CASE forwardStart(c)
  <2>1. CASE Answer(c, "error")
    BY <1>1, <1>2, <1>5, <2>1, AnswerKeeps DEF forwardStart
  <2>2. CASE UNCHANGED cli
    BY <1>2, <1>5, <2>2 DEF forwardStart, CliInv, CountInv
  <2> QED BY <1>5, <2>1, <2>2 DEF forwardStart
<1>6. CASE forwardAnswered(c)
  BY <1>1, <1>2, <1>6, AnswerKeeps DEF forwardAnswered
<1>7. CASE forwardFails(c)
  <2>1. \/ UNCHANGED <<effects, lostAnswers>>
        \/ TakesEffect(c) /\ lostAnswers' = [lostAnswers EXCEPT ![c] = @ + 1]
    BY <1>7 DEF forwardFails
  <2>2. CASE Answer(c, "error")
    BY <1>1, <1>2, <2>1, <2>2, AnswerKeeps
  <2>3. CASE UNCHANGED cli
    <3>1. /\ effects' \in [Cli -> Nat] /\ lostAnswers' \in [Cli -> Nat]
          /\ \A d \in Cli : d # c => effects'[d] = effects[d] /\ lostAnswers'[d] = lostAnswers[d]
      BY <2>1 DEF CliInv, TakesEffect
    <3>2. effects[c] = lostAnswers[c] /\ effects[c] \in Nat
      BY <1>1 DEF CliInv, CountInv
    <3>3. effects'[c] = lostAnswers'[c]
      BY <2>1, <3>2 DEF CliInv, TakesEffect
    <3>4. CountInv(c)'
      BY <1>1, <2>3, <3>1, <3>3 DEF CountInv
    <3>5. \A d \in Cli : CountInv(d)'
      BY <2>3, <3>1, <3>4 DEF CliInv, CountInv
    <3> QED BY <1>2, <2>3, <3>1, <3>5 DEF CliInv
  <2> QED BY <1>7, <2>2, <2>3 DEF forwardFails
<1> QED BY <1>3, <1>4, <1>5, <1>6, <1>7 DEF Handlers

LEMMA CliStepsKeep ==
    ASSUME CliInv, NEW c \in Cli, CliSteps(c)
    PROVE  CliInv'
<1>1. cli \in [Cli -> CliState] /\ cli[c] \in CliState /\ tokenFile \in Secrets
  BY DEF CliInv
<1>2. tokenFile' \in Secrets /\ UNCHANGED <<effects, lostAnswers>>
  BY DEF CliInv, CliSteps, addDaemonApiSecret, callDaemon, restartService, readResponse, waitTurn,
         OnlyCli, fileVars
<1>3. Ended("failed") \in CliState /\ Ended("failed").at = "idle"
      /\ Ended("success") \in CliState /\ Ended("success").at = "idle"
  BY NewStates
<1>4. CASE addDaemonApiSecret(c)
  <2>1. cli[c].at = "read" /\ cli[c].command \in Command
    BY <1>1, <1>4, CliStates DEF addDaemonApiSecret, AtRead
  <2>2. Calling(cli[c].command, tokenFile) \in CliState
        /\ Calling(cli[c].command, tokenFile).at = "call"
    BY <1>1, <2>1, NewStates
  <2>3. \/ cli' = [cli EXCEPT ![c] = Ended("failed")]
        \/ cli' = [cli EXCEPT ![c] = Calling(cli[c].command, tokenFile)]
    BY <1>4 DEF addDaemonApiSecret
  <2> QED BY <1>2, <1>3, <2>1, <2>2, <2>3, OneMoves
<1>5. CASE callDaemon(c)
  <2>1. cli[c].at \in {"call", "retry"} /\ cli[c] \in AtCall
    BY <1>1, <1>5, CliStates DEF callDaemon
  <2>2. /\ Sent(c) \in AtCall /\ Sent(c).at = "sent"
        /\ Restarting(c) \in AtCall /\ Restarting(c).at = "restart"
    BY <2>1 DEF Sent, Restarting, AtCall
  <2>3. Sent(c) \in CliState /\ Restarting(c) \in CliState
    BY <2>2 DEF CliState
  <2>4. \/ cli' = [cli EXCEPT ![c] = Sent(c)]
        \/ cli' = [cli EXCEPT ![c] = Restarting(c)]
        \/ cli' = [cli EXCEPT ![c] = Ended("failed")]
    BY <1>5 DEF callDaemon, Refused
  <2> QED BY <1>2, <1>3, <2>1, <2>2, <2>3, <2>4, OneMoves
<1>6. CASE restartService(c)
  <2> DEFINE w == Waiting(cli[c].command, cli[c].secret, 2, 0)
             S == {d \in Cli : d # c /\ cli[d].at = "sent"}
             keeps == [cli EXCEPT ![c] = w]
  <2>1. cli[c].at = "restart" /\ cli[c].command \in Command /\ cli[c].secret \in Secrets
    BY <1>1, <1>6, CliStates DEF restartService, AtCall
  <2>2. w \in CliState /\ w.at = "wait"
    BY <2>1, NewStates
  <2>3. cli' = [d \in Cli |-> CASE d = c -> w
                                [] cli[d].at = "sent" -> Ended("failed")
                                [] OTHER -> cli[d]]
    BY <1>6 DEF restartService
  <2> HIDE DEF w
  <2>4. keeps \in [Cli -> CliState] /\ keeps[c] = w /\ \A d \in Cli : d # c => keeps[d] = cli[d]
    BY <1>1, <2>2
  <2>5. \A d \in Cli : cli'[d] = IF d \in S THEN Ended("failed") ELSE keeps[d]
    <3> TAKE d \in Cli
    <3>1. CASE d = c
      <4>1. cli[d].at # "sent"
        BY <2>1, <3>1
      <4>2. cli'[d] = w
        BY <2>3, <3>1, <4>1
      <4> QED BY <2>4, <3>1, <4>2
    <3>2. CASE d # c
      BY <2>3, <2>4, <3>2
    <3> QED BY <3>1, <3>2
  <2>6. cli' = [d \in Cli |-> IF d \in S THEN Ended("failed") ELSE keeps[d]]
    BY <2>3, <2>5
  <2>7. S \in SUBSET Cli
    OBVIOUS
  <2>8. \A d \in Cli \ S :
           \/ keeps[d] = cli[d]
           \/ /\ keeps[d].at \notin {"idle", "answered"}
              /\ cli[d].at \notin {"idle", "answered"}
    BY <2>1, <2>2, <2>4
  <2> HIDE DEF S, keeps
  <2> QED BY <1>2, <2>4, <2>6, <2>7, <2>8, SomeFail
<1>7. CASE readResponse(c)
  <2>1. \/ cli' = [cli EXCEPT ![c] = Ended("failed")]
        \/ cli' = [cli EXCEPT ![c] = Ended("success")]
    BY <1>7 DEF readResponse
  <2> QED BY <1>2, <1>3, <2>1, OneMoves
<1>8. ASSUME NEW ok \in BOOLEAN, waitTurn(c, ok) PROVE CliInv'
  <2> DEFINE again == TriedAgain(c)
             next == Waiting(cli[c].command, cli[c].secret, 1, 0)
             call == Retrying(c)
  <2>1. cli[c].at = "wait" /\ cli[c] \in AtWait
    BY <1>1, <1>8, CliStates DEF waitTurn
  <2>2. again \in AtWait /\ again.at = "wait"
    BY <2>1 DEF TriedAgain, AtWait
  <2>3. again \in CliState /\ again.at = "wait"
    BY <2>2 DEF CliState
  <2>4. next \in CliState /\ next.at = "wait"
    BY <2>1, NewStates DEF AtWait
  <2>5. call \in AtCall /\ call.at = "retry"
    BY <2>1 DEF Retrying, AtWait, AtCall
  <2>6. call \in CliState
    BY <2>5 DEF CliState
  <2>7. \/ cli' = [cli EXCEPT ![c] = again] \/ cli' = [cli EXCEPT ![c] = next]
        \/ cli' = [cli EXCEPT ![c] = call]
        \/ cli' = [cli EXCEPT ![c] = Ended("success")] \/ cli' = [cli EXCEPT ![c] = Ended("failed")]
    <3>1. CASE ~ok /\ cli[c].tries < WaitTries
      <4>1. cli' = [cli EXCEPT ![c] = again]
        BY <1>8, <3>1 DEF waitTurn
      <4> HIDE DEF again, next, call
      <4> QED BY <4>1
    <3>2. CASE ~(~ok /\ cli[c].tries < WaitTries) /\ cli[c].command.op # "wait"
      <4>1. cli' = [cli EXCEPT ![c] = WaitOver(c)]
        BY <1>8, <3>2 DEF waitTurn
      <4> QED BY <4>1 DEF WaitOver
    <3>3. CASE ~(~ok /\ cli[c].tries < WaitTries) /\ cli[c].command.op = "wait"
      BY <1>8, <3>3 DEF waitTurn
    <3> QED BY <3>1, <3>2, <3>3
  <2> HIDE DEF again, next, call
  <2> QED BY <1>2, <1>3, <2>1, <2>3, <2>4, <2>5, <2>6, <2>7, OneMoves
<1> QED BY <1>4, <1>5, <1>6, <1>7, <1>8 DEF CliSteps

LEMMA CliKept == Init /\ [][Next]_vars => []CliInv
<1>1. Init => CliInv
  <2> SUFFICES ASSUME Init PROVE CliInv
    OBVIOUS
  <2>1. Idle \in CliState /\ Idle.at = "idle"
    BY DEF Idle, CliState, AtIdle
  <2> QED BY <2>1 DEF Init, CliInv, CountInv, Secrets
<1>2. TokenInv /\ CliInv /\ [Next]_vars /\ TokenInv' => CliInv'
  <2> SUFFICES ASSUME TokenInv, CliInv, [Next]_vars, TokenInv' PROVE CliInv'
    OBVIOUS
  <2>1. tokenFile' \in Secrets
    BY DEF TokenInv, Secrets
  <2>2. CASE crash \/ bindFails
    BY <2>1, <2>2, StopKeeps DEF crash, bindFails
  <2>3. CASE \E c \in Cli : Handlers(c) \/ CliSteps(c) \/ \E cmd \in Command : command(c, cmd)
    BY <2>3, HandlersKeep, CliStepsKeep, CommandKeeps
  <2>4. CASE UNCHANGED cliVars
    BY <2>1, <2>4 DEF cliVars, CliInv, CountInv
  <2>5. CASE runHusarnet \/ waitStarted \/ ApiThread \/ UNCHANGED vars
    <3>1. UNCHANGED cliVars \/ bindFails
      BY <2>5 DEF runHusarnet, waitStarted, ApiThread, lockMutex, getDaemonApiToken,
                  createDaemonApiToken, writeDaemonApiToken, writeDaemonApiTokenFails, bindToPort,
                  listen, vars
    <3> QED BY <2>2, <2>4, <3>1
  <2> QED BY <2>2, <2>3, <2>5 DEF Next
<1> QED BY <1>1, <1>2, TokenKept, PTL

\* A command that is reported as done took effect, and none took effect more
\* than once but for answers of the Dashboard that were lost, through any number
\* of crashes, restarts and repeated requests (callDaemonPost,
\* forwardRequestToDashboardApi).
THEOREM EffectsCounted == Spec => []Effects
<1>1. CliInv => Effects
  BY DEF CliInv, CountInv, Effects
<1> QED BY <1>1, CliKept, PTL DEF Spec

-----------------------------------------------------------------------------
(***************************************************************************)
(* Joining on an ESP32.  The semaphore is given once, when the Husarnet    *)
(* task is ready, so that it and the one task it lets pass account for the *)
(* one claim there may be.                                                 *)
(***************************************************************************)
PortSpec == Esp!PortInit /\ [][Esp!PortNext]_chip

Places == {"prepare", "waitInit", "start", "idle", "process"}
Claiming == {j \in Join : join[j] = "claim"}

ClaimInv ==
    /\ join \in [Join -> {"none", "check", "start", "wait", "claim", "ended"}]
    /\ claims \in {0, 1}
    /\ notifyReadySemaphore = "given" => Esp!Running /\ claims = 0 /\ Claiming = {}
    /\ ~Esp!Running => claims = 0 /\ Claiming = {}
    /\ Claiming # {} => claims = 0 /\ notifyReadySemaphore # "given"
    /\ \A i, j \in Claiming : i = j

\* The task in husarnet_netif_output names a buffer, and so does the Husarnet task
\* while it processes a packet, and only then.
TunTypes ==
    /\ tunTapMsgQueue \in Seq(Buffer)
    /\ lwip \in [at : {"idle", "output", "ref"}, buffer : Buffer \cup {"none"}]
    /\ lwip.at # "idle" => lwip.buffer \in Buffer
    /\ manager \in [at : Places, buffer : Buffer \cup {"none"}]
    /\ manager.at = "process" <=> manager.buffer # "none"
    /\ refs \in [Buffer -> Int] /\ holds \subseteq Buffer

PortInv == ClaimInv /\ TunTypes /\ BuffersCounted

LEMMA JoinKeeps ==
    ASSUME ClaimInv, NEW j \in Join, Esp!JoinTask(j)
    PROVE  ClaimInv'
<1> USE DEF ClaimInv, Claiming
<1>1. CASE UNCHANGED <<manager, notifyReadySemaphore, claims, join>>
  BY <1>1 DEF Esp!Running
<1>2. CASE Esp!joinCalled(j) \/ Esp!joinTooEarly(j)
  <2>1. \/ UNCHANGED <<manager, notifyReadySemaphore, claims, join>>
        \/ /\ join' = [join EXCEPT ![j] = "check"] /\ join[j] = "none"
           /\ UNCHANGED <<manager, notifyReadySemaphore, claims>>
    BY <1>2 DEF Esp!joinCalled, Esp!joinTooEarly, Esp!Abort, Esp!clientVars, Esp!Goes, Esp!OnlyJoin
  <2>2. CASE join' = [join EXCEPT ![j] = "check"] /\ UNCHANGED <<manager, notifyReadySemaphore, claims>>
    <3>1. Claiming' \subseteq Claiming
      BY <2>2
    <3> QED BY <2>2, <3>1 DEF Esp!Running
  <2> QED BY <1>1, <2>1, <2>2
<1>3. CASE Esp!joinChecks(j) \/ Esp!joinStarts(j)
  <2>1. /\ \E to \in {"ended", "start", "wait"} : join' = [join EXCEPT ![j] = to]
        /\ UNCHANGED <<manager, notifyReadySemaphore, claims>>
    BY <1>3 DEF Esp!joinChecks, Esp!joinStarts, Esp!Goes, Esp!OnlyJoin
  <2>2. Claiming' \subseteq Claiming
    BY <2>1
  <2> QED BY <2>1, <2>2 DEF Esp!Running
<1>4. CASE Esp!joinWaits(j)
  <2>1. /\ notifyReadySemaphore = "given" /\ notifyReadySemaphore' = "taken"
        /\ join' = [join EXCEPT ![j] = "claim"] /\ UNCHANGED <<manager, claims>>
    BY <1>4 DEF Esp!joinWaits, Esp!Goes, Esp!OnlyJoin
  <2>2. Claiming = {} /\ claims = 0 /\ Esp!Running
    BY <2>1
  <2>3. Claiming' = {j}
    BY <2>1, <2>2
  <2>4. Esp!Running'
    BY <2>1, <2>2 DEF Esp!Running
  <2>5. join' \in [Join -> {"none", "check", "start", "wait", "claim", "ended"}]
    BY <2>1
  <2> HIDE DEF Claiming
  <2> QED BY <2>1, <2>2, <2>3, <2>4, <2>5
<1>5. CASE Esp!joinClaims(j)
  <2>1. /\ claims' \in {claims, claims + 1} /\ join[j] = "claim" /\ join' = [join EXCEPT ![j] = "ended"]
        /\ UNCHANGED <<manager, notifyReadySemaphore>>
    BY <1>5 DEF Esp!joinClaims, Esp!Goes
  <2>2. j \in Claiming
    BY <2>1
  <2>3. claims = 0 /\ notifyReadySemaphore # "given" /\ Claiming = {j} /\ Esp!Running
    BY <2>2
  <2>4. Claiming' = {}
    BY <2>1, <2>3
  <2>5. claims' \in {0, 1} /\ Esp!Running'
    BY <2>1, <2>3 DEF Esp!Running
  <2>6. join' \in [Join -> {"none", "check", "start", "wait", "claim", "ended"}]
    BY <2>1
  <2> HIDE DEF Claiming
  <2> QED BY <2>1, <2>3, <2>4, <2>5, <2>6
<1> QED BY <1>2, <1>3, <1>4, <1>5 DEF Esp!JoinTask

LEMMA OthersKeepClaim ==
    ASSUME ClaimInv, TunTypes, Esp!PortNext, ~\E j \in Join : Esp!JoinTask(j)
    PROVE  ClaimInv'
<1> USE DEF ClaimInv, Claiming, TunTypes, Places
<1>1. CASE Esp!init \/ Esp!startTun
  <2>1. ~Esp!Running /\ ~Esp!Running' /\ UNCHANGED <<join, claims>> /\ notifyReadySemaphore' # "given"
    BY <1>1 DEF Esp!init, Esp!startTun, Esp!Running, Esp!clientVars
  <2> QED BY <2>1
<1>2. CASE Esp!notifyReady
  <2>1. ~Esp!Running /\ Esp!Running' /\ UNCHANGED <<join, claims>>
    BY <1>2 DEF Esp!notifyReady, Esp!Running, Esp!Idle
  <2> QED BY <2>1
<1>3. CASE Esp!initFails
  BY <1>3 DEF Esp!initFails, Esp!Abort, Esp!clientVars, Esp!Running
<1>4. CASE \/ Esp!xQueueReceive \/ Esp!pbuf_free \/ Esp!husarnet_netif_output \/ Esp!pbuf_ref
           \/ \E b \in Buffer : Esp!lwip_hook_ip6_route(b) \/ Esp!LwipFrees(b)
  <2>1. UNCHANGED <<notifyReadySemaphore, join, claims>>
    BY <1>4 DEF Esp!xQueueReceive, Esp!pbuf_free, Esp!husarnet_netif_output, Esp!pbuf_ref,
                Esp!lwip_hook_ip6_route, Esp!LwipFrees, Esp!clientVars
  <2>2. Esp!Running' <=> Esp!Running
    BY <1>4 DEF Esp!xQueueReceive, Esp!pbuf_free, Esp!husarnet_netif_output, Esp!pbuf_ref,
                Esp!lwip_hook_ip6_route, Esp!LwipFrees, Esp!Running, Esp!Idle
  <2> QED BY <2>1, <2>2
<1> QED BY <1>1, <1>2, <1>3, <1>4 DEF Esp!PortNext

LEMMA TunKept ==
    ASSUME TunTypes, Esp!PortNext
    PROVE  TunTypes'
<1> USE TunAssumption DEF TunTypes, Places
<1>1. CASE Esp!init \/ Esp!startTun
  BY <1>1 DEF Esp!init, Esp!startTun, Esp!tunVars
<1>2. CASE Esp!notifyReady
  BY <1>2 DEF Esp!notifyReady, Esp!tunVars, Esp!Idle, Esp!None
<1>3. CASE Esp!initFails
  BY <1>3 DEF Esp!initFails, Esp!Abort, Esp!tunVars
<1>4. CASE Esp!xQueueReceive
  <2>1. Head(tunTapMsgQueue) \in Buffer /\ Tail(tunTapMsgQueue) \in Seq(Buffer)
    BY <1>4 DEF Esp!xQueueReceive
  <2> QED BY <1>4, <2>1 DEF Esp!xQueueReceive
<1>5. CASE Esp!pbuf_free
  <2>1. manager.buffer \in Buffer
    BY <1>5 DEF Esp!pbuf_free
  <2>2. refs' \in [Buffer -> Int]
    BY <1>5, <2>1 DEF Esp!pbuf_free
  <2> QED BY <1>5, <2>2 DEF Esp!pbuf_free, Esp!Idle, Esp!None
<1>6. CASE Esp!husarnet_netif_output
  <2>1. lwip.buffer \in Buffer
    BY <1>6 DEF Esp!husarnet_netif_output
  <2>2. tunTapMsgQueue' \in Seq(Buffer)
    <3>1. tunTapMsgQueue' \in {tunTapMsgQueue, Append(tunTapMsgQueue, lwip.buffer)}
      BY <1>6 DEF Esp!husarnet_netif_output, Esp!Refused, Esp!RefusedByQueue
    <3>2. Append(tunTapMsgQueue, lwip.buffer) \in Seq(Buffer)
      BY <2>1
    <3> QED BY <3>1, <3>2
  <2>3. lwip' = Esp!Idle \/ lwip' = [lwip EXCEPT !.at = "ref"]
    BY <1>6 DEF Esp!husarnet_netif_output, Esp!Refused, Esp!RefusedByQueue
  <2>4. lwip' \in [at : {"idle", "output", "ref"}, buffer : Buffer \cup {"none"}]
        /\ (lwip'.at # "idle" => lwip'.buffer \in Buffer)
    BY <2>1, <2>3 DEF Esp!Idle, Esp!None
  <2> QED BY <1>6, <2>2, <2>4 DEF Esp!husarnet_netif_output
<1>7. CASE Esp!pbuf_ref
  BY <1>7 DEF Esp!pbuf_ref, Esp!Idle, Esp!None
<1>8. CASE \E b \in Buffer : Esp!lwip_hook_ip6_route(b) \/ Esp!LwipFrees(b)
  <2> PICK b \in Buffer : Esp!lwip_hook_ip6_route(b) \/ Esp!LwipFrees(b)
    BY <1>8
  <2>1. CASE Esp!lwip_hook_ip6_route(b)
    BY <2>1 DEF Esp!lwip_hook_ip6_route
  <2>2. CASE Esp!LwipFrees(b)
    BY <2>2 DEF Esp!LwipFrees
  <2> QED BY <2>1, <2>2
<1>9. CASE \E j \in Join : Esp!JoinTask(j)
  <2>1. UNCHANGED <<manager, lwip, tunTapMsgQueue, refs, holds>>
    BY <1>9 DEF Esp!JoinTask, Esp!joinCalled, Esp!joinChecks, Esp!joinStarts, Esp!joinWaits,
                Esp!joinTooEarly, Esp!joinClaims, Esp!OnlyJoin, Esp!Abort, Esp!tunVars
  <2> QED BY <2>1
<1> QED BY <1>1, <1>2, <1>3, <1>4, <1>5, <1>6, <1>7, <1>8, <1>9 DEF Esp!PortNext

-----------------------------------------------------------------------------
(***************************************************************************)
(* How often a value is in a sequence, and what Append and Tail do to it.  *)
(***************************************************************************)
At(q, b) == {i \in 1..Len(q) : q[i] = b}

LEMMA AtFinite ==
    ASSUME NEW S, NEW q \in Seq(S), NEW b
    PROVE  IsFiniteSet(At(q, b)) /\ Cardinality(At(q, b)) \in Nat
<1>1. IsFiniteSet(1..Len(q))
  BY FS_Interval
<1>2. IsFiniteSet(At(q, b))
  BY <1>1, FS_Subset DEF At
<1> QED BY <1>2, FS_CardinalityType

LEMMA CountAppend ==
    ASSUME NEW S, NEW q \in Seq(S), NEW e \in S, NEW b
    PROVE  Cardinality(At(Append(q, e), b)) = Cardinality(At(q, b)) + (IF e = b THEN 1 ELSE 0)
<1> DEFINE n == Len(q) + 1
<1>1. n \notin At(q, b)
  BY DEF At
<1>2. At(Append(q, e), b) = IF e = b THEN At(q, b) \cup {n} ELSE At(q, b)
  BY DEF At
<1>3. IsFiniteSet(At(q, b)) /\ Cardinality(At(q, b)) \in Nat
  BY AtFinite
<1>4. Cardinality(At(q, b) \cup {n}) = Cardinality(At(q, b)) + 1
  BY <1>1, <1>3, FS_AddElement
<1> HIDE DEF n
<1> QED BY <1>2, <1>3, <1>4

LEMMA CountTail ==
    ASSUME NEW S, NEW q \in Seq(S), q # <<>>, NEW b
    PROVE  Cardinality(At(q, b)) = Cardinality(At(Tail(q), b)) + (IF Head(q) = b THEN 1 ELSE 0)
<1> DEFINE U == At(q, b) \ {1}
<1> DEFINE T == At(Tail(q), b)
<1> DEFINE f == [i \in U |-> i - 1]
<1>1. IsFiniteSet(At(q, b)) /\ Cardinality(At(q, b)) \in Nat
  BY AtFinite
<1>2. IsFiniteSet(U) /\ Cardinality(U) = IF 1 \in At(q, b) THEN Cardinality(At(q, b)) - 1 ELSE Cardinality(At(q, b))
  BY <1>1, FS_RemoveElement
<1>3. 1 \in At(q, b) <=> Head(q) = b
  BY DEF At
<1>4. /\ Len(Tail(q)) = Len(q) - 1 /\ Len(q) \in Nat
      /\ \A i \in 1..Len(Tail(q)) : Tail(q)[i] = q[i + 1]
  BY SMT
<1>5. \A i \in U : i - 1 \in T
  BY <1>4 DEF At
<1>6. \A t \in T : t + 1 \in U /\ t \in Nat
  BY <1>4 DEF At
<1>7. U \subseteq Nat
  BY DEF At
<1>8. Cardinality(T) = Cardinality(U)
  <2> HIDE DEF U, T
  <2>1. f \in [U -> T]
    BY <1>5
  <2>2. f \in Injection(U, T)
    BY <2>1, <1>7 DEF Injection, IsInjective
  <2>3. f \in Surjection(U, T)
    <3>1. \A t \in T : f[t + 1] = t
      BY <1>6
    <3> QED BY <2>1, <1>6, <3>1 DEF Surjection
  <2>4. ExistsBijection(U, T)
    BY <2>2, <2>3 DEF ExistsBijection, Bijection
  <2> QED BY <1>2, <2>4, FS_Bijection
<1> HIDE DEF U, T
<1>9. Cardinality(At(q, b)) = Cardinality(T) + (IF Head(q) = b THEN 1 ELSE 0)
  BY <1>1, <1>2, <1>3, <1>8
<1> QED BY <1>9 DEF T

-----------------------------------------------------------------------------
(***************************************************************************)
(* The references to a buffer, and those who will free it.                 *)
(***************************************************************************)
InQueue(b) == Cardinality(At(tunTapMsgQueue, b))
Pending(b) == IF lwip.at = "ref" /\ lwip.buffer = b THEN 1 ELSE 0
Processed(b) == IF manager.buffer = b THEN 1 ELSE 0
Held(b) == IF b \in holds THEN 1 ELSE 0
Balanced(b) == refs[b] + Pending(b) = InQueue(b) + Processed(b) + Held(b)

LEMMA CountedIsBalanced == TunTypes => (BuffersCounted <=> \A b \in Buffer : Balanced(b))
<1> SUFFICES ASSUME TunTypes PROVE BuffersCounted <=> \A b \in Buffer : Balanced(b)
  OBVIOUS
<1>1. \A b \in Buffer : lwip = [at |-> "ref", buffer |-> b] <=> lwip.at = "ref" /\ lwip.buffer = b
  BY DEF TunTypes
<1>2. \A b \in Buffer : Esp!Queued(b) = InQueue(b)
  BY DEF Esp!Queued, InQueue, At, Cardinality, Esp!Cardinality
<1> QED BY <1>1, <1>2 DEF BuffersCounted, Esp!BuffersCounted, Balanced, Pending, Processed, Held

LEMMA BalanceKept ==
    ASSUME TunTypes, TunTypes', Esp!PortNext, NEW b \in Buffer, Balanced(b)
    PROVE  Balanced(b)'
<1>1. InQueue(b) \in Nat /\ InQueue(b)' \in Nat
  <2>1. tunTapMsgQueue \in Seq(Buffer) /\ tunTapMsgQueue' \in Seq(Buffer)
    BY DEF TunTypes
  <2>2. Cardinality(At(tunTapMsgQueue, b)) \in Nat /\ Cardinality(At(tunTapMsgQueue', b)) \in Nat
    BY <2>1, AtFinite
  <2> QED BY <2>2 DEF InQueue
<1>2. refs[b] \in Int /\ refs'[b] \in Int
  BY DEF TunTypes
<1> USE TunAssumption
<1>3. CASE UNCHANGED <<lwip, tunTapMsgQueue, refs, holds>> /\ manager'.buffer = manager.buffer
  BY <1>3 DEF Balanced, InQueue, Pending, Processed, Held
<1>4. CASE Esp!init \/ Esp!startTun \/ Esp!notifyReady \/ Esp!initFails
  <2>1. UNCHANGED <<lwip, tunTapMsgQueue, refs, holds>>
    BY <1>4 DEF Esp!init, Esp!startTun, Esp!notifyReady, Esp!initFails, Esp!Abort, Esp!tunVars
  <2>2. manager'.buffer = manager.buffer
    BY <1>4 DEF Esp!init, Esp!startTun, Esp!notifyReady, Esp!initFails, Esp!Abort, Esp!Idle, Esp!None, TunTypes
  <2> QED BY <2>1, <2>2, <1>3
<1>5. CASE \E j \in Join : Esp!JoinTask(j)
  <2>1. UNCHANGED <<manager, lwip, tunTapMsgQueue, refs, holds>>
    BY <1>5 DEF Esp!JoinTask, Esp!joinCalled, Esp!joinChecks, Esp!joinStarts, Esp!joinWaits,
                Esp!joinTooEarly, Esp!joinClaims, Esp!OnlyJoin, Esp!Abort, Esp!tunVars
  <2> QED BY <2>1, <1>3
<1>6. CASE Esp!xQueueReceive
  <2>1. /\ manager.buffer = "none" /\ manager'.buffer = Head(tunTapMsgQueue)
        /\ tunTapMsgQueue # <<>> /\ tunTapMsgQueue' = Tail(tunTapMsgQueue)
        /\ UNCHANGED <<lwip, refs, holds>>
    BY <1>6 DEF Esp!xQueueReceive, Esp!Idle, Esp!None
  <2>2. Processed(b) = 0 /\ Processed(b)' = (IF Head(tunTapMsgQueue) = b THEN 1 ELSE 0)
    BY <2>1 DEF Processed
  <2>3. tunTapMsgQueue \in Seq(Buffer)
    BY DEF TunTypes
  <2>4. InQueue(b) = InQueue(b)' + (IF Head(tunTapMsgQueue) = b THEN 1 ELSE 0)
    BY <2>1, <2>3, CountTail DEF InQueue
  <2>5. Pending(b)' = Pending(b) /\ Held(b)' = Held(b) /\ refs'[b] = refs[b]
    BY <2>1 DEF Pending, Held
  <2> QED BY <1>1, <1>2, <2>2, <2>4, <2>5 DEF Balanced
<1>7. CASE Esp!pbuf_free
  <2>1. /\ manager.buffer \in Buffer /\ refs' = [refs EXCEPT ![manager.buffer] = @ - 1]
        /\ manager'.buffer = "none" /\ UNCHANGED <<lwip, tunTapMsgQueue, holds>>
    BY <1>7 DEF Esp!pbuf_free, Esp!Idle, Esp!None, TunTypes
  <2>2. refs'[b] = refs[b] - Processed(b) /\ Processed(b)' = 0
    BY <2>1, <1>2 DEF Processed, TunTypes
  <2>3. Pending(b)' = Pending(b) /\ Held(b)' = Held(b) /\ InQueue(b)' = InQueue(b)
    BY <2>1 DEF Pending, Held, InQueue
  <2>4. Processed(b) \in Nat /\ Pending(b) \in Nat /\ Held(b) \in Nat
    BY DEF Processed, Pending, Held
  <2> QED BY <1>1, <1>2, <2>2, <2>3, <2>4 DEF Balanced
<1>8. CASE Esp!husarnet_netif_output
  <2>1. UNCHANGED <<manager, refs, holds>> /\ lwip.at = "output" /\ lwip.buffer \in Buffer
    BY <1>8 DEF Esp!husarnet_netif_output, TunTypes
  <2>2. Pending(b) = 0 /\ Processed(b)' = Processed(b) /\ Held(b)' = Held(b) /\ refs'[b] = refs[b]
    BY <2>1 DEF Pending, Processed, Held
  <2>3. Processed(b) \in Nat /\ Held(b) \in Nat
    BY DEF Processed, Held
  <2>4. \/ lwip' = Esp!Idle /\ tunTapMsgQueue' = tunTapMsgQueue
        \/ tunTapMsgQueue' = Append(tunTapMsgQueue, lwip.buffer) /\ lwip' = [lwip EXCEPT !.at = "ref"]
    BY <1>8 DEF Esp!husarnet_netif_output, Esp!Refused, Esp!RefusedByQueue
  <2>5. CASE lwip' = Esp!Idle /\ tunTapMsgQueue' = tunTapMsgQueue
    <3>1. Pending(b)' = 0 /\ InQueue(b)' = InQueue(b)
      BY <2>5 DEF Pending, InQueue, Esp!Idle
    <3> QED BY <1>1, <1>2, <2>2, <2>3, <3>1 DEF Balanced
  <2>6. CASE tunTapMsgQueue' = Append(tunTapMsgQueue, lwip.buffer) /\ lwip' = [lwip EXCEPT !.at = "ref"]
    <3>1. Pending(b)' = (IF lwip.buffer = b THEN 1 ELSE 0)
      BY <2>6 DEF Pending, TunTypes
    <3>2. InQueue(b)' = InQueue(b) + (IF lwip.buffer = b THEN 1 ELSE 0)
      BY <2>1, <2>6, CountAppend DEF InQueue, TunTypes
    <3> QED BY <1>1, <1>2, <2>2, <2>3, <3>1, <3>2 DEF Balanced
  <2> QED BY <2>4, <2>5, <2>6
<1>9. CASE Esp!pbuf_ref
  <2>1. /\ lwip.at = "ref" /\ lwip.buffer \in Buffer /\ lwip' = Esp!Idle
        /\ refs' = [refs EXCEPT ![lwip.buffer] = @ + 1] /\ UNCHANGED <<manager, tunTapMsgQueue, holds>>
    BY <1>9 DEF Esp!pbuf_ref, TunTypes
  <2>2. refs'[b] = refs[b] + Pending(b) /\ Pending(b)' = 0
    BY <2>1, <1>2 DEF Pending, TunTypes, Esp!Idle
  <2>3. Processed(b)' = Processed(b) /\ Held(b)' = Held(b) /\ InQueue(b)' = InQueue(b)
    BY <2>1 DEF Processed, Held, InQueue
  <2>4. Processed(b) \in Nat /\ Pending(b) \in Nat /\ Held(b) \in Nat
    BY DEF Processed, Pending, Held
  <2> QED BY <1>1, <1>2, <2>2, <2>3, <2>4 DEF Balanced
<1>10. CASE \E x \in Buffer : Esp!lwip_hook_ip6_route(x) \/ Esp!LwipFrees(x)
  <2> PICK x \in Buffer : Esp!lwip_hook_ip6_route(x) \/ Esp!LwipFrees(x)
    BY <1>10
  <2>1. lwip = Esp!Idle /\ UNCHANGED <<manager, tunTapMsgQueue>>
    BY DEF Esp!lwip_hook_ip6_route, Esp!LwipFrees
  <2>2. lwip'.at # "ref"
    BY <2>1 DEF Esp!lwip_hook_ip6_route, Esp!LwipFrees, Esp!Idle
  <2>3. Pending(b) = 0 /\ Pending(b)' = 0
    BY <2>1, <2>2 DEF Pending, Esp!Idle
  <2>4. Processed(b)' = Processed(b) /\ InQueue(b)' = InQueue(b)
    BY <2>1 DEF Processed, InQueue
  <2>5. refs'[b] - refs[b] = Held(b)' - Held(b)
    <3>1. CASE Esp!lwip_hook_ip6_route(x)
      BY <3>1, <1>2 DEF Esp!lwip_hook_ip6_route, Esp!Unused, Held, TunTypes
    <3>2. CASE Esp!LwipFrees(x)
      BY <3>2, <1>2 DEF Esp!LwipFrees, Held, TunTypes
    <3> QED BY <3>1, <3>2
  <2>6. Processed(b) \in Nat /\ Held(b) \in Nat /\ Held(b)' \in Nat
    BY DEF Processed, Held
  <2>7. refs[b] = InQueue(b) + Processed(b) + Held(b)
    BY <1>2, <2>3 DEF Balanced
  <2>8. refs'[b] = InQueue(b)' + Processed(b)' + Held(b)'
    BY <1>1, <1>2, <2>4, <2>5, <2>6, <2>7
  <2> QED BY <1>2, <2>3, <2>8 DEF Balanced
<1> QED BY <1>4, <1>5, <1>6, <1>7, <1>8, <1>9, <1>10 DEF Esp!PortNext

LEMMA PortKeeps == PortSpec => []PortInv
<1>1. Esp!PortInit => PortInv
  <2> SUFFICES ASSUME Esp!PortInit PROVE PortInv
    OBVIOUS
  <2>1. ClaimInv
    BY DEF Esp!PortInit, ClaimInv, Claiming
  <2>2. TunTypes
    BY DEF Esp!PortInit, TunTypes, Places, Esp!Idle, Esp!None
  <2>3. \A b \in Buffer : At(tunTapMsgQueue, b) = {}
    BY DEF Esp!PortInit, At
  <2>4. \A b \in Buffer : InQueue(b) = 0
    BY <2>3, FS_EmptySet DEF InQueue
  <2>5. \A b \in Buffer : Balanced(b)
    BY <2>4, TunAssumption DEF Esp!PortInit, Balanced, Pending, Processed, Held, Esp!Idle, Esp!None
  <2>6. BuffersCounted
    BY <2>2, <2>5, CountedIsBalanced
  <2> QED BY <2>1, <2>2, <2>6 DEF PortInv
<1>2. PortInv /\ [Esp!PortNext]_chip => PortInv'
  <2> SUFFICES ASSUME PortInv, [Esp!PortNext]_chip PROVE PortInv'
    OBVIOUS
  <2>1. CASE Esp!PortNext
    <3>1. ClaimInv'
      BY <2>1, JoinKeeps, OthersKeepClaim DEF PortInv
    <3>2. TunTypes'
      BY <2>1, TunKept DEF PortInv
    <3>3. \A b \in Buffer : Balanced(b)
      BY CountedIsBalanced DEF PortInv
    <3>4. \A b \in Buffer : Balanced(b)'
      BY <2>1, <3>2, <3>3, BalanceKept DEF PortInv
    <3>5. (TunTypes => (BuffersCounted <=> \A b \in Buffer : Balanced(b)))'
      BY CountedIsBalanced, PTL
    <3> QED BY <3>1, <3>2, <3>4, <3>5 DEF PortInv
  <2>2. CASE UNCHANGED chip
    BY <2>2 DEF PortInv, chip, ClaimInv, Claiming, TunTypes, BuffersCounted, Esp!BuffersCounted,
                Esp!Queued, Esp!Running
  <2> QED BY <2>1, <2>2
<1> QED BY <1>1, <1>2, PTL DEF PortSpec

\* However many programs call join() and however their tasks interleave, the device
\* is claimed once at most, and only over a network stack that runs.
THEOREM OnlyOneClaim == PortSpec => []OneClaim
<1>1. PortInv => OneClaim
  BY DEF PortInv, ClaimInv, Claiming, OneClaim, Esp!OneClaim
<1> QED BY <1>1, PortKeeps, PTL

\* For any number of buffers and packets and any queue: the counter of a buffer and
\* those who will free it agree, apart from the reference still to be added.
THEOREM BuffersAreCounted == PortSpec => []BuffersCounted
<1>1. PortInv => BuffersCounted
  BY DEF PortInv
<1> QED BY <1>1, PortKeeps, PTL
=============================================================================
