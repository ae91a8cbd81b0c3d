-------------------------------- MODULE Agent --------------------------------
(***************************************************************************)
(* The process as a whole: main calls run_heartbeat_step (AgentLoop), then *)
(* poll_one_node_action (ActionQueue), then sleeps, all in one task.  What *)
(* ends the one ends the other, and what holds up the one holds up the     *)
(* other.                                                                  *)
(*                                                                         *)
(* The commands are queued at one control plane, Home; the others have     *)
(* nothing for this node.                                                  *)
(***************************************************************************)
EXTENDS AgentLoop, FiniteSets

CONSTANTS
  Home,
  Cmd, KindOf, Malformed, Unclippable, MaxRun, Lease, Extension, MaxAttempt, MaxFault

ASSUME HomeAssumption == Home \in CP

VARIABLES
  phase, cur, effect, elapsed, workExit,
  status, attempt, lease, offer, wire, faults, runs, achieved, orphans

Work == INSTANCE ActionQueue WITH lastExit <- workExit

\* What ActionQueue assumes of its constants.
ASSUME WorkAssumption ==
  /\ IsFiniteSet(Cmd)
  /\ Malformed \subseteq Cmd
  /\ Unclippable \subseteq Cmd
  /\ MaxRun \in [Cmd -> Nat]
  /\ Lease \in Nat \ {0}
  /\ Extension \in Nat \ {0}
  /\ MaxAttempt \in Nat
  /\ MaxFault \in Nat

ASSUME WorkSentinel == None \notin Work!Claim

workVars ==
  <<phase, cur, effect, elapsed, workExit, status, attempt, lease, offer, wire, faults,
    runs, achieved, orphans>>
agentVars == <<vars, workVars>>

AgentInit == Init /\ Work!Init

-----------------------------------------------------------------------------

\* run_heartbeat_step.  Where it ends the process, the poll ends with it.
HeartbeatStep ==
  /\ SendHeartbeat \/ Beat \/ Apply
  /\ IF pc' = "down"
     THEN Work!ProcessEnds("killed") /\ UNCHANGED <<orphans, faults>>
     ELSE UNCHANGED workVars

\* A claim is put to the control plane the heartbeats go to.
Claiming ==
  IF endpoint = Home THEN Work!NothingClaimed
  ELSE /\ phase = "claim"
       /\ phase' = "sleep"
       /\ UNCHANGED <<cur, effect, elapsed, workExit, status, attempt, lease, offer, wire,
                      runs, achieved, orphans, faults>>

\* poll_one_node_action, up to the sleep.
PollStep ==
  /\ pc = "poll"
  /\ \/ Work!SendClaim \/ Claiming \/ Work!GotClaim
     \/ Work!SkipExtend \/ Work!ExtendLease
     \/ Work!Refuse \/ Work!Execute \/ Work!Executed \/ Work!PostResult
  /\ UNCHANGED vars

\* Variant of TurnEnds: the poll is a task of its own, and the loop goes on.
TurnEndsAtOnce == Poll /\ (IF phase = "sleep" THEN Work!Tick ELSE UNCHANGED workVars)

\* The sleep is over and the loop begins anew.
TurnEnds == phase = "sleep" /\ Work!Tick /\ Poll

WorkFails ==
  /\ Work!ClaimFails \/ Work!ExtendFails
  /\ UNCHANGED vars

\* A panic of the poll, a kill and a power loss end both.
PanicEnds == Work!Panic /\ Crash
KillEnds  == Work!Kill /\ (Crash \/ PowerLoss)

RestartsBoth == Restart /\ Work!Restart

-----------------------------------------------------------------------------

HomeClaims == Work!CpClaims /\ endpoint = Home /\ UNCHANGED vars
HomeTakes  == Work!CpTakes /\ UNCHANGED vars
LeaseEnds  == Work!CpExpires /\ UNCHANGED vars
ResultLost == Work!LoseResult /\ UNCHANGED vars
OrphanEnds == Work!OrphanEnds /\ UNCHANGED vars
\* Time passes while a command runs or the process is down.
WorkTick   == phase # "sleep" /\ Work!Tick /\ UNCHANGED vars

HomeStep ==
  /\ CpAnswers \/ WriteBack \/ Tick
  /\ UNCHANGED workVars

Progress == HeartbeatStep \/ PollStep \/ TurnEnds

AgentNext ==
  \/ Progress \/ WorkFails \/ PanicEnds \/ KillEnds \/ RestartsBoth
  \/ HomeClaims \/ HomeTakes \/ LeaseEnds \/ ResultLost
  \/ OrphanEnds \/ WorkTick \/ HomeStep

AgentSpec == AgentInit /\ [][AgentNext]_agentVars

\* The process runs and is restarted, an exchange ends, an action ends within
\* its time, and the queue claims, takes results and ends leases.
AgentFairSpec ==
  /\ AgentSpec
  /\ WF_agentVars(Progress) /\ WF_agentVars(RestartsBoth) /\ WF_agentVars(PanicEnds)
  /\ WF_agentVars(HomeClaims) /\ WF_agentVars(HomeTakes)
  /\ WF_agentVars(LeaseEnds) /\ WF_agentVars(WorkTick)

-----------------------------------------------------------------------------
(* Properties.                                                             *)

\* Once a revoke verified, this process neither asks for a command nor works on
\* one, whatever else the batch of the revoke holds (ExitRevoked comes back
\* before poll_one_node_action is called).
RevokedDoesNoWork == revoked => phase \in {"idle", "down"} /\ cur = None

\* Only a panic, a kill or a power loss ends the process with a command claimed
\* and not reported: an expired grace window, a directive that cannot be applied
\* and a revoke wait until the command has been reported (one task runs both).
ExitsBetweenCommands ==
  [][pc' = "down" /\ lastExit' \in {"grace", "revoked", "applyError"} =>
       cur = None /\ offer = None]_agentVars

\* Without a lost message or a kill a command whose execution fits its lease is
\* executed once, though grace windows, revokes and directives that cannot be
\* applied end the process, and re-enrolls move it to another control plane and
\* back (a command left behind by a process that exits would be leased again).
ExitsRepeatNothing == Work!NoFaultNoRepeat

\* As long as the agent stays with Home and no answer to a heartbeat carries a
\* directive any more, every command is settled in the end, though not one
\* heartbeat may get through (main polls whatever the heartbeat came to).  A
\* directive that cannot be applied ends the process before the poll each time
\* it is sent; without that premise the commands may wait for ever.
CommandsServed ==
  <>[](endpoint = Home /\ (hb # None => hb.directives = << >>) /\ batch = << >>)
    => \A c \in Cmd : Work!Healthy(c) => <>(status[c] \in {"ok", "failed"})
=============================================================================
