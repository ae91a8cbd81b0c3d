------------------------------ MODULE AgentLoop ------------------------------
(***************************************************************************)
(* The heartbeat loop of the parton agent: run_heartbeat_step, the signed  *)
(* directives it applies, the rewrite of parton.env, the grace window      *)
(* after a re-enroll, and the supervisor that restarts the process.        *)
(*                                                                         *)
(* Three copies of the enrollment live side by side and are the subject of *)
(* the module: the process environment (procEnv), fixed when the process   *)
(* starts; the running configuration (endpoint), refreshed from procEnv;   *)
(* and parton.env (envFile), which a re-enroll directive rewrites.         *)
(*                                                                         *)
(* The control planes, the network, the disk and the supervisor are        *)
(* external: a control plane may answer any report with any of Responses,  *)
(* answers may be lost, the process may die at any step, and the machine   *)
(* may lose power.  Action execution between two heartbeats is one step    *)
(* (Poll).  Left out: the x-parton-token header, the node and cell ids     *)
(* (a rewrite keeps them), telemetry content, and logging.                 *)
(***************************************************************************)
EXTENDS Naturals, Sequences

CONSTANTS
  CP,           \* control planes, named by their heartbeat URL
  DefaultCP,    \* the endpoint used when PARTON_HEARTBEAT_URL is unset
  Key,          \* authority verify keys, as texts
  UsableKey,    \* the keys that are set and parse as Ed25519 keys
  Token,        \* enrollment tokens
  Directive,    \* the directives in circulation
  Responses,    \* the directive lists a heartbeat response can carry
  InitialEnv,   \* the contents parton.env can have at first start
  None,         \* no value
  Torn,         \* the content of a file whose data never reached the disk
  GraceWindow,  \* PARTON_DIRECTIVE_GRACE_SECS, in clock ticks
  MaxTime       \* bound on the clock that validity windows are read against

Optional(S) == S \cup {None}

\* One complete content of parton.env.  Its endpoint may be missing.
EnvConf == [endpoint : Optional(CP), enroll : Token, vkey : Key]

\* signer: the key the signature verifies under, over this node's id; opens:
\* the token ciphertext decodes and unseals with this node's box key.  A
\* revoke uses neither env, nor window, nor opens.
DirectiveType ==
  [kind : {"ReEnroll", "Revoke"}, signer : Key, opens : BOOLEAN,
   env : [endpoint : CP, enroll : Token, vkey : Key],
   notBefore : Nat, notAfter : Nat]

\* PendingReenrollGrace, with the time left instead of the deadline.
Grace == [prev : CP, left : 0..GraceWindow]

\* A report on its way and, once it is answered, the directives of the answer.
Exchange ==
  [to : CP, enroll : Optional(Token), applied : Optional(Token), failed : BOOLEAN,
   answered : BOOLEAN, directives : Responses]

\* parton.env.tmp, and whether its data is known to be on the disk.
TmpFile == [env : EnvConf, synced : BOOLEAN]

ASSUME ConstantsAssumption ==
  /\ DefaultCP \in CP
  /\ UsableKey \subseteq Key
  /\ Directive \subseteq DirectiveType
  /\ Responses \subseteq Seq(Directive)
  /\ << >> \in Responses
  /\ InitialEnv \subseteq EnvConf
  /\ GraceWindow \in Nat \ {0}
  /\ MaxTime \in Nat
ASSUME SentinelAssumption ==
  /\ None \notin CP
  /\ None \notin Token
  /\ None \notin Grace
  /\ None \notin Exchange
  /\ None \notin TmpFile
  /\ Torn \notin EnvConf

VARIABLES
  pc,                       \* where the process stands in the loop
  procEnv,                  \* the process environment
  endpoint,                 \* config.endpoint
  pendingToken,             \* pending_applied_token
  pendingFail,              \* pending_apply_failed is Some
  pendingGrace,             \* pending_grace
  enrollmentAcknowledged,   \* enrollment_acknowledged
  hb,                       \* the heartbeat exchange in flight, or None
  batch,                    \* the directives of the response still to apply
  out,                      \* DirectiveApplyOutcome under construction
  tmp,                      \* parton.env.tmp while a rewrite is under way
  envFile,                  \* parton.env as a reader sees it
  disk,                     \* what parton.env can hold after a power loss
  now,                      \* the wall clock
  lastExit,                 \* why the previous process ended
  accepted,                 \* history: who took a report from this process
  acks,                     \* history: <<cp, token>> for each ack received
  rewritten,                \* history: tokens ever renamed into parton.env
  keysHeld,                 \* history: verify keys of all processes so far
  revoked,                  \* history: this process verified a revoke
  sinceOk                   \* history: ticks since the last good heartbeat

loopVars  == <<pendingToken, pendingFail, pendingGrace, enrollmentAcknowledged>>
bootVars  == <<procEnv, endpoint, keysHeld>>
fileVars  == <<tmp, envFile, disk, rewritten>>
applyVars == <<batch, out, revoked>>
netVars   == <<hb, accepted, acks>>
clockVars == <<now, sinceOk>>
vars == <<pc, lastExit, loopVars, bootVars, fileVars, applyVars, netVars, clockVars>>

NoOutcome == [token |-> None, revoke |-> FALSE, prev |-> None]

\* Variant of EndpointOf: the default is forgotten.
EndpointNoDefault(env) == env.endpoint

\* from_env: the endpoint a process with environment env talks to.
EndpointOf(env) == IF env.endpoint = None THEN DefaultCP ELSE env.endpoint

-----------------------------------------------------------------------------
(* Process life cycle.                                                     *)

Init ==
  /\ envFile \in InitialEnv
  /\ procEnv = envFile
  /\ endpoint = EndpointOf(envFile)
  /\ keysHeld = {envFile.vkey}
  /\ disk = {envFile}
  /\ pc = "top"
  /\ pendingToken = None /\ pendingFail = FALSE /\ pendingGrace = None
  /\ enrollmentAcknowledged = FALSE
  /\ hb = None /\ batch = << >> /\ out = NoOutcome /\ tmp = None
  /\ now = 0 /\ sinceOk = 0
  /\ lastExit = "none" /\ revoked = FALSE
  /\ accepted = {} /\ acks = {} /\ rewritten = {}

\* Everything the process holds in memory is gone; parton.env stays.
ProcessEnds(reason) ==
  /\ pc' = "down"
  /\ lastExit' = reason
  /\ pendingToken' = None /\ pendingFail' = FALSE /\ pendingGrace' = None
  /\ enrollmentAcknowledged' = FALSE
  /\ hb' = None /\ batch' = << >> /\ out' = NoOutcome /\ tmp' = None
  /\ UNCHANGED <<bootVars, rewritten, revoked, accepted, acks, clockVars>>

Exits(reason) == ProcessEnds(reason) /\ UNCHANGED <<envFile, disk>>

\* Killed, panicked, or the report could not be built.
Crash == pc # "down" /\ Exits("crash")

\* The machine loses power: the file is whatever had reached the disk.
PowerLoss ==
  /\ ProcessEnds("crash")
  /\ envFile' \in disk
  /\ disk' = {envFile'}

\* The file system writes back what parton.env now holds.
WriteBack ==
  /\ disk # {envFile}
  /\ disk' = {envFile}
  /\ UNCHANGED <<pc, lastExit, loopVars, bootVars, tmp, envFile, rewritten,
                 applyVars, netVars, clockVars>>

\* The supervisor starts a process from the environment file.
Restart ==
  /\ pc = "down"
  /\ envFile # Torn
  /\ pc' = "top"
  /\ procEnv' = envFile
  /\ endpoint' = EndpointOf(envFile)
  /\ keysHeld' = keysHeld \cup {envFile.vkey}
  /\ revoked' = FALSE
  /\ accepted' = {}
  /\ UNCHANGED <<lastExit, loopVars, fileVars, batch, out, hb, acks, clockVars>>

\* Time passes for the validity windows, the grace window and the history.
Tick ==
  /\ \/ now < MaxTime
     \/ sinceOk < GraceWindow
     \/ pendingGrace # None /\ pendingGrace.left > 0
  /\ now' = IF now < MaxTime THEN now + 1 ELSE now
  /\ sinceOk' = IF sinceOk < GraceWindow THEN sinceOk + 1 ELSE sinceOk
  /\ pendingGrace' = IF pendingGrace # None /\ pendingGrace.left > 0
                     THEN [pendingGrace EXCEPT !.left = @ - 1]
                     ELSE pendingGrace
  /\ UNCHANGED <<pc, lastExit, pendingToken, pendingFail, enrollmentAcknowledged,
                 bootVars, fileVars, applyVars, netVars>>

-----------------------------------------------------------------------------
(* The heartbeat exchange.                                                 *)

\* The token comes from the process environment, at every report.
Report(to, suppress, token, failed) ==
  [to |-> to, enroll |-> IF suppress THEN None ELSE procEnv.enroll,
   applied |-> token, failed |-> failed, answered |-> FALSE, directives |-> << >>]

\* Both stamps are taken out of their slots before the report is sent.
SendHeartbeat ==
  /\ pc = "top"
  /\ hb' = Report(endpoint, enrollmentAcknowledged, pendingToken, pendingFail)
  /\ pendingToken' = None
  /\ pendingFail' = FALSE
  /\ pc' = "beat"
  /\ lastExit' = "none"
  /\ UNCHANGED <<pendingGrace, enrollmentAcknowledged, bootVars, fileVars,
                 applyVars, accepted, acks, clockVars>>

\* A control plane takes the report and answers it.
CpAnswers ==
  /\ hb # None
  /\ ~hb.answered
  /\ \E ds \in Responses :
        hb' = [hb EXCEPT !.answered = TRUE, !.directives = ds]
  /\ accepted' = accepted \cup {hb.to}
  /\ acks' = IF hb.applied = None THEN acks ELSE acks \cup {<<hb.to, hb.applied>>}
  /\ UNCHANGED <<pc, lastExit, loopVars, bootVars, fileVars, applyVars, clockVars>>

\* Variant of GraceAfterOk: a success does not close the grace window.
GraceKept == pendingGrace

\* A success closes the grace window.
GraceAfterOk == None

\* A success status; a body that cannot be read or parsed carries nothing.
HeartbeatOk ==
  /\ pc = "beat"
  /\ hb.answered
  /\ \E ds \in {hb.directives, << >>} :
        /\ batch' = ds
        /\ pc' = IF ds = << >> THEN "poll" ELSE "setup"
  /\ enrollmentAcknowledged' = TRUE
  /\ pendingGrace' = GraceAfterOk
  /\ hb' = None
  /\ sinceOk' = 0
  /\ UNCHANGED <<lastExit, pendingToken, pendingFail, bootVars, fileVars,
                 out, revoked, accepted, acks, now>>

\* Variant of HeartbeatFails: a failed send also counts as acknowledged.
FailureAcknowledges ==
  /\ pc = "beat"
  /\ pendingGrace = None
  /\ pc' = "poll"
  /\ hb' = None
  /\ enrollmentAcknowledged' = TRUE
  /\ UNCHANGED <<lastExit, pendingToken, pendingFail, pendingGrace, bootVars, fileVars,
                 applyVars, accepted, acks, clockVars>>

\* Variant of HeartbeatFails: the loop goes on without the poll.
FailureSkipsPoll ==
  /\ pc = "beat"
  /\ pendingGrace = None
  /\ pc' = "top"
  /\ hb' = None
  /\ UNCHANGED <<lastExit, loopVars, bootVars, fileVars, applyVars, accepted, acks,
                 clockVars>>

\* No connection, no answer, or a refusal, outside any grace window.
HeartbeatFails ==
  /\ pc = "beat"
  /\ pendingGrace = None
  /\ pc' = "poll"
  /\ hb' = None
  /\ UNCHANGED <<lastExit, loopVars, bootVars, fileVars, applyVars, accepted, acks,
                 clockVars>>

\* Variant of GraceExpires: the loop goes on after the deadline.
GraceExpiryIgnored ==
  /\ pc = "beat"
  /\ pendingGrace # None
  /\ pendingGrace.left = 0
  /\ pc' = "poll"
  /\ hb' = None
  /\ UNCHANGED <<lastExit, loopVars, bootVars, fileVars, applyVars, accepted, acks,
                 clockVars>>

\* The same, once the grace window has elapsed.
GraceExpires ==
  /\ pc = "beat"
  /\ pendingGrace # None
  /\ pendingGrace.left = 0
  /\ Exits("grace")

\* The same, within the grace window: one report to the previous endpoint.
SendFallback ==
  /\ pc = "beat"
  /\ pendingGrace # None
  /\ pendingGrace.left > 0
  /\ hb' = Report(pendingGrace.prev, FALSE, None, TRUE)
  /\ pc' = "fallback"
  /\ UNCHANGED <<lastExit, loopVars, bootVars, fileVars, applyVars, accepted, acks,
                 clockVars>>

\* Answered or not, the directives of the answer are not looked at.
FallbackDone ==
  /\ pc = "fallback"
  /\ pendingFail' = TRUE
  /\ hb' = None
  /\ pc' = "poll"
  /\ UNCHANGED <<lastExit, pendingToken, pendingGrace, enrollmentAcknowledged,
                 bootVars, fileVars, applyVars, accepted, acks, clockVars>>

\* poll_one_node_action and the sleep.
Poll ==
  /\ pc = "poll"
  /\ pc' = "top"
  /\ UNCHANGED <<lastExit, loopVars, bootVars, fileVars, applyVars, netVars, clockVars>>

-----------------------------------------------------------------------------
(* apply_directives.  procEnv.vkey verifies the whole batch.               *)

InWindow(d) == now \in d.notBefore..d.notAfter
Verified(d) == d.signer = procEnv.vkey

\* The verify key and the identity file are read once for the batch.
SetupApply ==
  /\ pc = "setup"
  /\ procEnv.vkey \in UsableKey
  /\ pc' = "apply"
  /\ UNCHANGED <<lastExit, loopVars, bootVars, fileVars, applyVars, netVars, clockVars>>

\* No usable key, or the identity file cannot be read.
SetupFails == pc = "setup" /\ Exits("applyError")

\* The directive at the head of the batch is next.
Applying(kind) == pc = "apply" /\ batch # << >> /\ Head(batch).kind = kind

ApplyRevoke ==
  /\ Applying("Revoke")
  /\ LET ok == Verified(Head(batch)) IN
       /\ out' = [out EXCEPT !.revoke = @ \/ ok]
       /\ revoked' = (revoked \/ ok)
  /\ batch' = Tail(batch)
  /\ UNCHANGED <<pc, lastExit, loopVars, bootVars, fileVars, netVars, clockVars>>

\* Outside the window, or opened but not signed by the trusted authority.
SkipReEnroll ==
  /\ Applying("ReEnroll")
  /\ \/ ~InWindow(Head(batch))
     \/ Head(batch).opens /\ ~Verified(Head(batch))
  /\ batch' = Tail(batch)
  /\ UNCHANGED <<pc, lastExit, loopVars, bootVars, fileVars, out, revoked, netVars,
                 clockVars>>

\* The ciphertext does not open, or parton.env cannot be read.
ReEnrollFails ==
  /\ Applying("ReEnroll")
  /\ InWindow(Head(batch))
  /\ Head(batch).opens => Verified(Head(batch))
  /\ Exits("applyError")

\* prev_endpoint is read from the file about to be replaced.
AcceptReEnroll ==
  /\ Applying("ReEnroll")
  /\ InWindow(Head(batch)) /\ Head(batch).opens /\ Verified(Head(batch))
  /\ out' = [out EXCEPT !.prev = envFile.endpoint]
  /\ pc' = "write"
  /\ UNCHANGED <<lastExit, loopVars, bootVars, fileVars, batch, revoked, netVars,
                 clockVars>>

WriteTmp ==
  /\ pc = "write"
  /\ tmp' = [env |-> Head(batch).env, synced |-> FALSE]
  /\ pc' = "sync"
  /\ UNCHANGED <<lastExit, loopVars, bootVars, envFile, disk, rewritten, applyVars,
                 netVars, clockVars>>

\* Variant of SyncTmp: the temporary file is renamed without fsync.
SyncSkipped ==
  /\ pc = "sync"
  /\ pc' = "rename"
  /\ UNCHANGED <<lastExit, loopVars, bootVars, fileVars, applyVars, netVars, clockVars>>

SyncTmp ==
  /\ pc = "sync"
  /\ tmp' = [tmp EXCEPT !.synced = TRUE]
  /\ pc' = "rename"
  /\ UNCHANGED <<lastExit, loopVars, bootVars, envFile, disk, rewritten, applyVars,
                 netVars, clockVars>>

\* The directory is not synced: the old content may come back.
RenameTmp ==
  /\ pc = "rename"
  /\ envFile' = tmp.env
  /\ disk' = disk \cup {IF tmp.synced THEN tmp.env ELSE Torn}
  /\ rewritten' = rewritten \cup {tmp.env.enroll}
  /\ tmp' = None
  /\ pc' = "chmod"
  /\ UNCHANGED <<lastExit, loopVars, bootVars, applyVars, netVars, clockVars>>

ReEnrollDone ==
  /\ pc = "chmod"
  /\ out' = [out EXCEPT !.token = Head(batch).env.enroll]
  /\ batch' = Tail(batch)
  /\ pc' = "apply"
  /\ UNCHANGED <<lastExit, loopVars, bootVars, fileVars, revoked, netVars, clockVars>>

\* Variant of RewriteFails: the error is dropped and the token kept.
RewriteErrorDropped ==
  /\ pc \in {"write", "sync", "rename"}
  /\ out' = [out EXCEPT !.token = Head(batch).env.enroll]
  /\ batch' = Tail(batch)
  /\ tmp' = None
  /\ pc' = "apply"
  /\ UNCHANGED <<lastExit, loopVars, bootVars, envFile, disk, rewritten, revoked,
                 netVars, clockVars>>

\* An I/O error at any step of the rewrite, the chmod after the rename included.
RewriteFails == pc \in {"write", "sync", "rename", "chmod"} /\ Exits("applyError")

BatchDone == pc = "apply" /\ batch = << >>

\* Variant of MustExit: a re-enroll in the batch takes precedence.
MustExitTokenFirst == out.revoke /\ out.token = None

MustExit == out.revoke

RevokeExits == BatchDone /\ MustExit /\ Exits("revoked")

\* The rest of process_successful_heartbeat.  from_env reads the process
\* environment, which the rewrite of the file did not touch.
ApplyDone ==
  /\ BatchDone
  /\ ~MustExit
  /\ IF out.token = None
     THEN UNCHANGED <<loopVars, endpoint>>
     ELSE /\ pendingGrace' = IF pendingGrace = None /\ out.prev # None
                             THEN [prev |-> out.prev, left |-> GraceWindow]
                             ELSE pendingGrace
          /\ pendingToken' = out.token
          /\ endpoint' = EndpointOf(procEnv)
          /\ enrollmentAcknowledged' = FALSE
          /\ UNCHANGED pendingFail
  /\ out' = NoOutcome
  /\ pc' = "poll"
  /\ UNCHANGED <<lastExit, procEnv, keysHeld, fileVars, batch, revoked, netVars,
                 clockVars>>

-----------------------------------------------------------------------------
(* The specification.                                                      *)

Apply ==
  \/ SetupApply \/ SetupFails
  \/ ApplyRevoke \/ SkipReEnroll \/ ReEnrollFails \/ AcceptReEnroll
  \/ WriteTmp \/ SyncTmp \/ RenameTmp \/ ReEnrollDone \/ RewriteFails
  \/ RevokeExits \/ ApplyDone

Beat ==
  HeartbeatOk \/ HeartbeatFails \/ GraceExpires \/ SendFallback \/ FallbackDone

Agent == SendHeartbeat \/ Beat \/ Apply \/ Poll

Environment == CpAnswers \/ Crash \/ PowerLoss \/ WriteBack \/ Restart \/ Tick

Next == Agent \/ Environment

Spec == Init /\ [][Next]_vars

\* Where the process waits for somebody else: send_heartbeat_inner sets no
\* timeout, and neither does the execution of a command.
Waiting == pc \in {"beat", "fallback", "poll"}

\* A process that waits for nobody steps, and time passes.  Nothing makes an
\* exchange or a poll end; crashes, power loss and restarts are free.
FairSpec == Spec /\ WF_vars(SendHeartbeat \/ Apply) /\ WF_vars(Tick)

-----------------------------------------------------------------------------
(* Properties.                                                             *)

\* Every variable keeps its type in every state of the loop.
TypeOK ==
  /\ pc \in {"top", "beat", "setup", "apply", "write", "sync", "rename", "chmod",
             "fallback", "poll", "down"}
  /\ procEnv \in EnvConf
  /\ endpoint \in CP
  /\ pendingToken \in Optional(Token)
  /\ pendingFail \in BOOLEAN
  /\ pendingGrace \in Optional(Grace)
  /\ enrollmentAcknowledged \in BOOLEAN
  /\ hb \in Optional(Exchange)
  /\ batch \in Seq(Directive)
  /\ out \in [token : Optional(Token), revoke : BOOLEAN, prev : Optional(CP)]
  /\ tmp \in Optional(TmpFile)
  /\ envFile \in EnvConf
  /\ disk \subseteq EnvConf
  /\ now \in 0..MaxTime
  /\ sinceOk \in 0..GraceWindow
  /\ lastExit \in {"none", "crash", "grace", "revoked", "applyError"}
  /\ revoked \in BOOLEAN
  /\ accepted \subseteq CP
  /\ acks \subseteq CP \X Token
  /\ rewritten \subseteq Token
  /\ keysHeld \subseteq Key

\* The contents parton.env may have: as installed, or as ordered by a
\* re-enroll that opened and verified under a key some process had trusted.
Authentic ==
  InitialEnv \cup {d.env : d \in {e \in Directive :
                     e.kind = "ReEnroll" /\ e.opens /\ e.signer \in keysHeld}}

\* parton.env is one complete authentic content, whatever step a crash, an
\* I/O error or a power loss interrupts (apply_reenroll_env_unix: temp file,
\* fsync, rename).
EnvFileAuthentic == {envFile} \cup disk \subseteq Authentic

\* No control plane is told of an applied directive whose token had not been
\* put in parton.env (apply_reenroll_directive sets the token last).
AckImpliesRewritten == \A a \in acks : a[2] \in rewritten

\* The process gives up for the grace window only if no heartbeat has
\* succeeded for the length of the window (handle_heartbeat_error, and the
\* reset of pending_grace in run_heartbeat_step).
GraceExitJustified ==
  pc = "down" /\ lastExit = "grace" => sinceOk = GraceWindow

\* Once a revoke verified, this process finishes the batch and exits: it
\* sends no report and polls for no action again, whatever else the batch
\* holds (process_successful_heartbeat).
RevokedIsSilent ==
  revoked => pc \in {"apply", "write", "sync", "rename", "chmod", "down"}

\* A report omits the enrollment token only if its receiver has taken a
\* report from this process (enrollment_acknowledged; the fallback report
\* never omits it).
TokenOmittedOnlyWhenKnown ==
  hb # None /\ hb.enroll = None => hb.to \in accepted

\* If every exchange and every poll ends, a grace window does not stay open for
\* ever: a heartbeat succeeds or the process ends (run_heartbeat_step and
\* handle_heartbeat_error).  Without that premise it does: the deadline is read
\* only once an exchange has failed, and a control plane that takes the report
\* and never answers keeps the process waiting.
GraceResolves == []<>~Waiting => ((pendingGrace # None) ~> (pendingGrace = None))

-----------------------------------------------------------------------------
(* What the documentation says and the code does not do.                   *)

\* The token of an applied directive is reported to the new control plane
\* (the doc of DirectiveApplyOutcome.next_applied_directive_token).
AckGoesToNewCP ==
  hb # None /\ hb.applied # None =>
    \E d \in Directive : d.env.enroll = hb.applied /\ d.env.endpoint = hb.to

\* Every exchange and every poll ends, and heartbeats keep getting through.
ReachableSpec ==
  /\ Spec
  /\ WF_vars(Agent) /\ WF_vars(Tick)
  /\ SF_vars(CpAnswers) /\ SF_vars(HeartbeatOk)

\* An applied re-enroll is reported to a control plane unless the process
\* ends first (the doc of NodeHeartbeatReport.applied_directive_token).
AppliedTokenIsReported ==
  \A t \in Token :
    (pendingToken = t) ~> (pc = "down" \/ \E cp \in CP : <<cp, t>> \in acks)
=============================================================================
