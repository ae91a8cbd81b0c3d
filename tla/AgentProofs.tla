----------------------------- MODULE AgentProofs -----------------------------
(***************************************************************************)
(* Proofs about Agent, the heartbeat loop and the command queue in one     *)
(* process.  A step of the composition is a step of AgentLoop or leaves it *)
(* alone, so that the composition implements AgentLoop and what            *)
(* AgentLoopProofs says of the loop holds here.  Turns says whose turn it  *)
(* is.  Of the queue the same does not hold literally: a heartbeat that    *)
(* ends the process, and a poll of a control plane that has nothing, are   *)
(* no steps of ActionQueue.  They find no command in the agent (Turns),    *)
(* and keep the invariants of ActionQueueProofs.                           *)
(***************************************************************************)
EXTENDS Agent, AgentLoopProofs

WorkP == INSTANCE ActionQueueProofs WITH lastExit <- workExit

\* The poll works only when the loop has come to it, and ends with the loop.
Turns ==
  /\ pc = "down" <=> phase = "down"
  /\ pc # "poll" => phase \in {"idle", "down"}
  /\ cur # None => phase \in {"extend", "run", "busy", "report"}
  /\ offer # None => phase = "claim" /\ endpoint = Home

AgentInv == IInv /\ RevokePending /\ Turns

-----------------------------------------------------------------------------
(* The loop in the composition.                                            *)

LEMMA LoopSteps == [AgentNext]_agentVars => [Next]_vars
<1> SUFFICES ASSUME [AgentNext]_agentVars PROVE [Next]_vars
  OBVIOUS
<1>1. CASE HeartbeatStep \/ TurnEnds
  BY <1>1 DEF HeartbeatStep, TurnEnds, Next, Agent
<1>2. CASE PollStep \/ WorkFails
  BY <1>2 DEF PollStep, WorkFails
<1>3. CASE PanicEnds \/ KillEnds \/ RestartsBoth
  BY <1>3 DEF PanicEnds, KillEnds, RestartsBoth, Next, Environment
<1>4. CASE HomeClaims \/ HomeTakes \/ LeaseEnds \/ ResultLost \/ OrphanEnds \/ WorkTick
  BY <1>4 DEF HomeClaims, HomeTakes, LeaseEnds, ResultLost, OrphanEnds, WorkTick
<1>5. CASE HomeStep
  BY <1>5 DEF HomeStep, Next, Environment
<1>6. CASE UNCHANGED agentVars
  BY <1>6 DEF agentVars
<1> QED
  BY <1>1, <1>2, <1>3, <1>4, <1>5, <1>6 DEF AgentNext, Progress

\* Polling for commands takes nothing away from the loop: whatever it does in
\* the composition it does alone (main calls the two halves in turn and hands
\* nothing from the one to the other but the endpoint).
THEOREM LoopIsKept == AgentSpec => Spec
<1>1. AgentInit => Init
  BY DEF AgentInit
<1> QED BY <1>1, LoopSteps, PTL DEF AgentSpec, Spec

-----------------------------------------------------------------------------
(* Whose turn it is.                                                       *)

\* A step of the heartbeat is taken before the poll, and comes to it or ends
\* the process.
LEMMA HeartbeatTurn ==
  ASSUME SendHeartbeat \/ Beat \/ Apply
  PROVE  pc \notin {"poll", "down"}
<1>1. CASE SendHeartbeat
  BY <1>1 DEF SendHeartbeat
<1>2. CASE Beat
  BY <1>2 DEF Beat, HeartbeatOk, HeartbeatFails, GraceExpires, SendFallback,
     FallbackDone
<1>3. CASE Apply
  BY <1>3 DEF Apply, SetupApply, SetupFails, ApplyRevoke, SkipReEnroll,
     ReEnrollFails, AcceptReEnroll, WriteTmp, SyncTmp, RenameTmp, ReEnrollDone,
     RewriteFails, RevokeExits, ApplyDone, Applying, BatchDone
<1> QED BY <1>1, <1>2, <1>3

LEMMA NextTurns == Turns /\ [AgentNext]_agentVars => Turns'
<1> SUFFICES ASSUME Turns, [AgentNext]_agentVars PROVE Turns'
  OBVIOUS
<1>1. CASE HeartbeatStep
  <2>1. pc \notin {"poll", "down"} /\ phase = "idle"
    BY <1>1, HeartbeatTurn DEF HeartbeatStep, Turns
  <2>2. CASE pc' = "down"
    BY <1>1, <2>2 DEF HeartbeatStep, Work!ProcessEnds, Turns
  <2>3. CASE pc' # "down"
    BY <1>1, <2>1, <2>3 DEF HeartbeatStep, workVars, Turns
  <2> QED BY <2>2, <2>3
<1>2. CASE PollStep
  <2>1. pc = "poll" /\ pc' = "poll"
    BY <1>2 DEF PollStep, vars
  <2>2. CASE Work!SendClaim \/ Claiming
    BY <2>1, <2>2 DEF Claiming, Work!SendClaim, Work!NothingClaimed,
       Work!wireVars, Turns
  <2>3. CASE Work!GotClaim \/ Work!SkipExtend \/ Work!ExtendLease
    BY <2>1, <2>3 DEF Work!GotClaim, Work!SkipExtend, Work!ExtendLease,
       Work!wireVars, Turns
  <2>4. CASE Work!Refuse \/ Work!Execute
    BY <2>1, <2>4 DEF Work!Refuse, Work!Execute, Work!wireVars, Turns
  <2>5. CASE Work!Executed
    BY <2>1, <2>5 DEF Work!Executed, Work!wireVars, Turns
  <2>6. CASE Work!PostResult
    BY <2>1, <2>6 DEF Work!PostResult, Turns
  <2> QED BY <1>2, <2>2, <2>3, <2>4, <2>5, <2>6 DEF PollStep
<1>3. CASE TurnEnds
  BY <1>3 DEF TurnEnds, Poll, Work!Tick, Work!wireVars, Turns
<1>4. CASE WorkFails
  BY <1>4 DEF WorkFails, vars, bootVars, Work!ClaimFails, Work!ExtendFails,
     Work!wireVars, Turns
<1>5. CASE PanicEnds \/ KillEnds
  <2>1. pc' = "down"
    BY <1>5 DEF PanicEnds, KillEnds, Crash, PowerLoss, Exits, ProcessEnds
  <2>2. phase' = "down" /\ cur' = None /\ offer' = None
    BY <1>5 DEF PanicEnds, KillEnds, Work!Panic, Work!Kill, Work!ProcessEnds
  <2> QED BY <2>1, <2>2 DEF Turns
<1>6. CASE RestartsBoth
  BY <1>6 DEF RestartsBoth, Restart, Work!Restart, Work!wireVars, Turns
<1>7. CASE HomeClaims \/ HomeTakes \/ LeaseEnds \/ ResultLost
  BY <1>7 DEF HomeClaims, HomeTakes, LeaseEnds, ResultLost, vars, bootVars,
     Work!CpClaims, Work!CpTakes, Work!CpExpires, Work!LoseResult, Work!agentVars, Work!wireVars,
     Turns
<1>8. CASE WorkTick \/ OrphanEnds
  BY <1>8 DEF WorkTick, OrphanEnds, vars, bootVars, Work!Tick, Work!OrphanEnds,
     Work!agentVars, Work!wireVars, Turns
<1>9. CASE HomeStep
  BY <1>9 DEF HomeStep, workVars, bootVars, CpAnswers, WriteBack, Tick, Turns
<1>10. CASE UNCHANGED agentVars
  BY <1>10 DEF agentVars, vars, workVars, bootVars, Turns
<1> QED
  BY <1>1, <1>2, <1>3, <1>4, <1>5, <1>6, <1>7, <1>8, <1>9, <1>10
  DEF AgentNext, Progress

-----------------------------------------------------------------------------
(* The properties.                                                         *)

LEMMA Inductive == AgentSpec => []AgentInv
<1>1. AgentInit => AgentInv
  <2>1. ASSUME AgentInit PROVE RevokePending /\ Turns
    BY <2>1 DEF AgentInit, Init, Work!Init, RevokePending, Turns
  <2> QED BY <2>1, InitIInv DEF AgentInit, AgentInv
<1>2. AgentInv /\ [AgentNext]_agentVars => AgentInv'
  BY LoopSteps, NextIInv, NextRevokePending, NextTurns DEF AgentInv
<1> QED BY <1>1, <1>2, PTL DEF AgentSpec

\* Once a revoke has verified, the process claims and executes nothing more,
\* whatever else its batch holds: it is still in its heartbeat, and ends there
\* (ExitRevoked comes back before poll_one_node_action is called).
THEOREM RevokedWorksNoMore == AgentSpec => []RevokedDoesNoWork
<1>1. AgentInv => RevokedDoesNoWork
  BY DEF AgentInv, RevokePending, Turns, Rewriting, RevokedDoesNoWork
<1> QED BY <1>1, Inductive, PTL

\* An expired grace window, a revoke and a directive that cannot be applied end
\* the process only between two commands (both halves run in one task).
THEOREM CommandsAreFinished == AgentSpec => ExitsBetweenCommands
<1> DEFINE Between ==
      pc' = "down" /\ lastExit' \in {"grace", "revoked", "applyError"} =>
        cur = None /\ offer = None
<1>1. AgentInv /\ [AgentNext]_agentVars => [Between]_agentVars
  <2> SUFFICES ASSUME AgentInv, AgentNext PROVE Between
    OBVIOUS
  <2>1. CASE pc # "poll"
    BY <2>1 DEF AgentInv, Turns
  <2>2. CASE PanicEnds \/ KillEnds
    BY <2>2 DEF PanicEnds, KillEnds, Crash, PowerLoss, Exits, ProcessEnds
  <2>3. CASE pc = "poll" /\ ~(PanicEnds \/ KillEnds)
    <3>1. ~HeartbeatStep /\ ~RestartsBoth
      BY <2>3, HeartbeatTurn DEF HeartbeatStep, RestartsBoth, Restart
    <3>2. pc' # "down"
      BY <2>3, <3>1 DEF AgentNext, Progress, PollStep, TurnEnds, Poll, WorkFails,
         HomeClaims, HomeTakes, LeaseEnds, ResultLost, OrphanEnds, WorkTick, HomeStep,
         CpAnswers, WriteBack, Tick, vars
    <3> QED BY <3>2
  <2> QED BY <2>1, <2>2, <2>3
<1> QED BY <1>1, Inductive, PTL DEF AgentSpec, ExitsBetweenCommands

-----------------------------------------------------------------------------
(* The queue in the composition.                                           *)

LEMMA QueueConstants == WorkP!QueueAssumption /\ WorkP!QueueSentinel
<1>1. WorkP!QueueAssumption
  BY WorkAssumption DEF WorkP!QueueAssumption, IsFiniteSet, WorkP!IsFiniteSet
<1>2. WorkP!QueueSentinel
  BY WorkSentinel DEF WorkP!QueueSentinel, WorkP!Claim, Work!Claim
<1> QED BY <1>1, <1>2

\* The process is between two commands, and the queue hears nothing of the step.
Between ==
  /\ phase \in {"idle", "claim"} /\ cur = None /\ offer = None
  /\ phase' \in {"sleep", "down"} /\ cur' = None /\ offer' = None
  /\ workExit' \in {workExit, "killed"}
  /\ effect' \in {effect, "none"} /\ elapsed' \in {elapsed, 0}
  /\ UNCHANGED <<status, attempt, lease, wire, faults, runs, achieved, orphans>>

LEMMA WorkSteps ==
  ASSUME Turns, [AgentNext]_agentVars
  PROVE  [WorkP!Next]_(WorkP!vars) \/ Between
<1>1. CASE HeartbeatStep
  <2>1. pc \notin {"poll", "down"} /\ phase = "idle" /\ cur = None /\ offer = None
    BY <1>1, HeartbeatTurn DEF HeartbeatStep, Turns
  <2>2. CASE pc' = "down"
    BY <1>1, <2>1, <2>2 DEF HeartbeatStep, Work!ProcessEnds, Work!queueVars, Between
  <2>3. CASE pc' # "down"
    BY <1>1, <2>3 DEF HeartbeatStep, workVars, WorkP!vars, WorkP!agentVars, WorkP!queueVars,
       WorkP!wireVars, WorkP!histVars
  <2> QED BY <2>2, <2>3
<1>2. CASE PollStep
  <2>1. CASE Claiming /\ endpoint # Home
    BY <2>1 DEF Claiming, Turns, Between
  <2>2. CASE Claiming /\ endpoint = Home
    BY <2>2 DEF Claiming, Work!NothingClaimed, WorkP!NothingClaimed, Work!Claimable,
       WorkP!Claimable, Work!queueVars, WorkP!queueVars, Work!wireVars, WorkP!wireVars,
       Work!histVars, WorkP!histVars, WorkP!Next, WorkP!Agent
  <2>3. CASE Work!SendClaim \/ Work!GotClaim \/ Work!SkipExtend \/ Work!ExtendLease
    BY <2>3 DEF Work!SendClaim, WorkP!SendClaim, Work!GotClaim, WorkP!GotClaim,
       Work!SkipExtend, WorkP!SkipExtend, Work!ExtendLease, WorkP!ExtendLease,
       Work!LeaseExtended, WorkP!LeaseExtended, Work!HandoffKind, WorkP!HandoffKind,
       Work!queueVars, WorkP!queueVars, Work!wireVars, WorkP!wireVars,
       Work!histVars, WorkP!histVars, WorkP!Next, WorkP!Agent
  <2>4. CASE Work!Refuse \/ Work!Execute \/ Work!Executed
    BY <2>4 DEF Work!Refuse, WorkP!Refuse, Work!Execute, WorkP!Execute,
       Work!Executed, WorkP!Executed, Work!Refused, WorkP!Refused, Work!Blocking, WorkP!Blocking,
       Work!InlineKind, WorkP!InlineKind, Work!HandoffKind, WorkP!HandoffKind,
       Work!GenericKind, WorkP!GenericKind,
       Work!queueVars, WorkP!queueVars, Work!wireVars, WorkP!wireVars,
       Work!histVars, WorkP!histVars, WorkP!Next, WorkP!Agent
  <2>5. CASE Work!PostResult
    BY <2>5 DEF Work!PostResult, WorkP!PostResult, Work!ClipPanics, WorkP!ClipPanics,
       Work!ClippedOnMain, WorkP!ClippedOnMain, Work!ReportsSuccess, WorkP!ReportsSuccess,
       Work!SoftKind, WorkP!SoftKind, Work!Blocking, WorkP!Blocking,
       Work!HandoffKind, WorkP!HandoffKind, Work!GenericKind, WorkP!GenericKind,
       Work!queueVars, WorkP!queueVars, Work!histVars, WorkP!histVars, WorkP!Next, WorkP!Agent
  <2> QED BY <1>2, <2>1, <2>2, <2>3, <2>4, <2>5 DEF PollStep
<1>3. CASE TurnEnds \/ WorkTick
  BY <1>3 DEF TurnEnds, WorkTick, Work!Tick, WorkP!Tick, Work!Fault, WorkP!Fault,
     Work!wireVars, WorkP!wireVars, Work!histVars, WorkP!histVars, WorkP!Next
<1>4. CASE WorkFails
  BY <1>4 DEF WorkFails, Work!ClaimFails, WorkP!ClaimFails, Work!ExtendFails, WorkP!ExtendFails,
     Work!LeaseExtended, WorkP!LeaseExtended, Work!HandoffKind, WorkP!HandoffKind,
     Work!Fault, WorkP!Fault, Work!queueVars, WorkP!queueVars, Work!wireVars, WorkP!wireVars,
     Work!histVars, WorkP!histVars, WorkP!Next, WorkP!Faulty
<1>5. CASE PanicEnds
  BY <1>5 DEF PanicEnds, Work!Panic, WorkP!Panic, Work!ProcessEnds, WorkP!ProcessEnds,
     Work!ClipPanics, WorkP!ClipPanics, Work!ClippedOnMain, WorkP!ClippedOnMain,
     Work!Blocking, WorkP!Blocking, Work!HandoffKind, WorkP!HandoffKind,
     Work!GenericKind, WorkP!GenericKind, Work!queueVars, WorkP!queueVars, WorkP!Next, WorkP!Agent
<1>6. CASE KillEnds
  BY <1>6 DEF KillEnds, Work!Kill, WorkP!Kill, Work!ProcessEnds, WorkP!ProcessEnds,
     Work!Fault, WorkP!Fault, Work!queueVars, WorkP!queueVars, WorkP!Next, WorkP!Faulty
<1>7. CASE RestartsBoth
  BY <1>7 DEF RestartsBoth, Work!Restart, WorkP!Restart, Work!queueVars, WorkP!queueVars,
     Work!wireVars, WorkP!wireVars, Work!histVars, WorkP!histVars, WorkP!Next
<1>8. CASE HomeClaims \/ HomeTakes \/ LeaseEnds \/ ResultLost
  BY <1>8 DEF HomeClaims, HomeTakes, LeaseEnds, ResultLost, Work!CpClaims, WorkP!CpClaims,
     Work!CpTakes, WorkP!CpTakes, Work!CpExpires, WorkP!CpExpires, Work!LoseResult,
     WorkP!LoseResult, Work!Claimable, WorkP!Claimable, Work!Fault, WorkP!Fault,
     Work!agentVars, WorkP!agentVars, Work!queueVars, WorkP!queueVars, Work!wireVars,
     WorkP!wireVars, Work!histVars, WorkP!histVars, WorkP!Next, WorkP!Queue, WorkP!Faulty
<1>9. CASE OrphanEnds
  BY <1>9 DEF OrphanEnds, Work!OrphanEnds, WorkP!OrphanEnds, Work!agentVars, WorkP!agentVars,
     Work!queueVars, WorkP!queueVars, Work!wireVars, WorkP!wireVars, WorkP!Next
<1>10. CASE HomeStep \/ UNCHANGED agentVars
  BY <1>10 DEF HomeStep, agentVars, workVars, WorkP!vars, WorkP!agentVars, WorkP!queueVars,
     WorkP!wireVars, WorkP!histVars
<1> QED
  BY <1>1, <1>2, <1>3, <1>4, <1>5, <1>6, <1>7, <1>8, <1>9, <1>10 DEF AgentNext, Progress

\* What is kept between two commands: no claim, no result and no lease changes.
LEMMA BetweenKeeps ==
  ASSUME WorkP!IInv, WorkP!Held, Between
  PROVE  WorkP!IInv' /\ WorkP!Held'
<1> USE DEF WorkP!IInv, Between
<1>1. WorkP!TypeOK'
  BY DEF WorkP!TypeOK
<1>2. WorkP!Single'
  BY DEF WorkP!Single, WorkP!Current, WorkP!Open
<1>3. WorkP!Earned'
  BY DEF WorkP!Earned, WorkP!SuccessIsEarned, WorkP!Trusted
<1>4. WorkP!Held'
  BY DEF WorkP!Held, WorkP!HeldOffer, WorkP!HeldCur, WorkP!HeldCmd, WorkP!Healthy, WorkP!Covered
<1> QED BY <1>1, <1>2, <1>3, <1>4

LEMMA WorkInvariance == AgentSpec => [](WorkP!IInv /\ WorkP!Held)
<1>1. AgentInit => WorkP!IInv /\ WorkP!Held
  <2>1. AgentInit => WorkP!Init
    BY DEF AgentInit, Work!Init, WorkP!Init
  <2> QED BY <2>1, QueueConstants, WorkP!InitIInv, WorkP!InitHeld
<1>2. ASSUME AgentInv, WorkP!IInv, WorkP!Held, [AgentNext]_agentVars
      PROVE  WorkP!IInv' /\ WorkP!Held'
  <2>1. [WorkP!Next]_(WorkP!vars) \/ Between
    BY <1>2, WorkSteps DEF AgentInv
  <2>2. CASE [WorkP!Next]_(WorkP!vars)
    <3>1. WorkP!TypeOK' /\ WorkP!Single' /\ WorkP!Earned'
      BY <1>2, <2>2, QueueConstants, WorkP!NextTypeOK, WorkP!NextSingle, WorkP!NextEarned
      DEF WorkP!IInv
    <3>2. WorkP!Held'
      BY <1>2, <2>2, QueueConstants, WorkP!NextHeld
    <3> QED BY <3>1, <3>2 DEF WorkP!IInv
  <2>3. CASE Between
    BY <1>2, <2>3, BetweenKeeps
  <2> QED BY <2>1, <2>2, <2>3
<1> QED BY <1>1, <1>2, Inductive, PTL DEF AgentSpec

\* A success is earned by an execution of that very attempt also where the
\* process ends for reasons of its heartbeat, or the agent moves to another
\* control plane and leaves results behind (run_claimed_action, report.rs).
THEOREM SuccessesStayEarned == AgentSpec => []Work!SuccessIsEarned
<1>1. WorkP!IInv => Work!SuccessIsEarned
  BY DEF WorkP!IInv, WorkP!Earned, WorkP!SuccessIsEarned, Work!SuccessIsEarned, WorkP!Trusted,
     Work!Trusted, WorkP!SoftKind, Work!SoftKind
<1> QED BY <1>1, WorkInvariance, PTL

\* Without a lost message or a kill a command whose execution fits its lease is
\* executed once, whatever directives the heartbeats bring: the process ends
\* between two commands, and what it leaves behind is settled, never half done.
THEOREM NothingIsRepeated == AgentSpec => []ExitsRepeatNothing
<1>1. WorkP!IInv /\ WorkP!Held => ExitsRepeatNothing
  <2> SUFFICES ASSUME WorkP!IInv, WorkP!Held, faults = 0, NEW c \in Cmd, WorkP!Healthy(c)
               PROVE  runs[c] <= 1
    BY DEF ExitsRepeatNothing, Work!NoFaultNoRepeat, WorkP!Healthy, Work!Healthy, WorkP!Covered,
       Work!Covered, WorkP!HandoffKind, Work!HandoffKind
  <2>1. runs[c] <= attempt[c] /\ attempt[c] <= 1
    BY DEF WorkP!Held, WorkP!HeldCmd
  <2>2. runs[c] \in Nat /\ attempt[c] \in 0..MaxAttempt /\ MaxAttempt \in Nat
    BY WorkAssumption DEF WorkP!IInv, WorkP!TypeOK
  <2> QED BY <2>1, <2>2
<1> QED BY <1>1, WorkInvariance, PTL

-----------------------------------------------------------------------------
(* The promise of the queue.                                               *)

LEMMA SamePromise ==
  /\ WorkP!Promise!Init <=> Work!Promise!Init
  /\ [WorkP!Promise!Next]_(WorkP!Promise!vars) <=> [Work!Promise!Next]_(Work!Promise!vars)
<1>1. WorkP!Trusted = Work!Trusted
  BY DEF WorkP!Trusted, Work!Trusted, WorkP!SoftKind, Work!SoftKind
<1>2. WorkP!Promise!Init <=> Work!Promise!Init
  BY DEF WorkP!Promise!Init, Work!Promise!Init
<1>3. WorkP!Promise!Next <=> Work!Promise!Next
  BY <1>1 DEF WorkP!Promise!Next, Work!Promise!Next, WorkP!Promise!Achieve, Work!Promise!Achieve,
     WorkP!Promise!Settle, Work!Promise!Settle, WorkP!Promise!LeaveBehind,
     Work!Promise!LeaveBehind, WorkP!Promise!LeftEnds, Work!Promise!LeftEnds, WorkP!Claim,
     Work!Claim
<1>4. UNCHANGED WorkP!Promise!vars <=> UNCHANGED Work!Promise!vars
  BY DEF WorkP!Promise!vars, Work!Promise!vars
<1> QED BY <1>2, <1>3, <1>4

\* The agent as a whole implements CommandPromise: a command is settled once,
\* and nothing is begun for it on the host afterwards, though heartbeats end and
\* move the process that works on it (main runs both halves in one task).  Only
\* what a kill before the settlement left behind can still take effect.
THEOREM AgentKeepsPromise == AgentSpec => Work!KeepsPromise
<1>1. AgentInit => Work!Promise!Init
  BY SamePromise, QueueConstants, WorkP!PromiseInit DEF AgentInit, Work!Init, WorkP!Init
<1>2. ASSUME AgentInv, WorkP!IInv, [AgentNext]_agentVars
      PROVE  [Work!Promise!Next]_(Work!Promise!vars)
  <2>1. [WorkP!Next]_(WorkP!vars) \/ Between
    BY <1>2, WorkSteps DEF AgentInv
  <2>2. CASE [WorkP!Next]_(WorkP!vars)
    BY <1>2, <2>2, QueueConstants, SamePromise, WorkP!PromiseNext
  <2>3. CASE Between
    BY <2>3 DEF Between, Work!Promise!vars
  <2> QED BY <2>1, <2>2, <2>3
<1> QED BY <1>1, <1>2, Inductive, WorkInvariance, PTL
        DEF AgentSpec, Work!KeepsPromise, Work!Promise!Spec
=============================================================================
