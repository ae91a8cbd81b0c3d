--------------------------- MODULE AgentLoopProofs ---------------------------
(***************************************************************************)
(* Proofs about AgentLoop, for every value of its constants.  They rest on *)
(* one inductive invariant, IInv: the types, and Stage, what the position  *)
(* of the process says of the exchange, of the directive being applied and *)
(* of the temporary file.                                                  *)
(***************************************************************************)
EXTENDS AgentLoop, TLAPS

Rewriting == {"write", "sync", "rename", "chmod"}

\* d passed the checks of apply_reenroll_directive in this process.
Accepted(d) == d.kind = "ReEnroll" /\ d.opens /\ Verified(d)

\* What pc says of the rest of the state.
Stage ==
  /\ pc \in {"beat", "fallback"} <=> hb # None
  /\ pc \in Rewriting => batch # << >> /\ Accepted(Head(batch))
  /\ pc = "sync" => tmp # None /\ tmp.env = Head(batch).env
  /\ pc = "rename" => tmp = [env |-> Head(batch).env, synced |-> TRUE]
  /\ pc = "chmod" => Head(batch).env.enroll \in rewritten
  /\ procEnv.vkey \in keysHeld

IInv == TypeOK /\ Stage

-----------------------------------------------------------------------------
(* Typing of the helpers.                                                  *)

LEMMA EndpointOfType == ASSUME NEW e \in EnvConf PROVE EndpointOf(e) \in CP
BY ConstantsAssumption DEF EndpointOf, EnvConf, Optional

\* A report is a well-formed exchange, and not the absent one.
LEMMA ReportType ==
  ASSUME TypeOK, NEW to \in CP, NEW s \in BOOLEAN, NEW t \in Optional(Token),
         NEW f \in BOOLEAN
  PROVE  Report(to, s, t, f) \in Exchange /\ Report(to, s, t, f) # None
<1>1. procEnv.enroll \in Token
  BY DEF TypeOK, EnvConf
<1>2. << >> \in Responses
  BY ConstantsAssumption
<1>3. Report(to, s, t, f) \in Exchange
  BY <1>1, <1>2 DEF Report, Exchange, Optional
<1> QED BY <1>3, SentinelAssumption

\* The head of a batch is a directive, whose env is a content of parton.env.
LEMMA HeadType ==
  ASSUME TypeOK, batch # << >>
  PROVE  /\ Head(batch) \in Directive /\ Tail(batch) \in Seq(Directive)
         /\ Head(batch).env \in EnvConf /\ Head(batch).env.enroll \in Token
<1>1. Head(batch) \in Directive /\ Tail(batch) \in Seq(Directive)
  BY DEF TypeOK
<1>2. Head(batch) \in DirectiveType
  BY <1>1, ConstantsAssumption
<1>3. Head(batch).env \in [endpoint : CP, enroll : Token, vkey : Key]
  BY <1>2 DEF DirectiveType
<1> QED BY <1>1, <1>3 DEF EnvConf, Optional

\* Whatever ends the process, the invariant survives if the file does.
LEMMA ProcessEndsIInv ==
  ASSUME IInv, envFile' \in EnvConf, disk' \subseteq EnvConf,
         NEW r \in {"crash", "grace", "revoked", "applyError"}, ProcessEnds(r)
  PROVE  IInv'
<1> USE DEF IInv
<1>1. TypeOK'
  <2>1. /\ pc' = "down" /\ lastExit' = r /\ pendingToken' = None /\ hb' = None
        /\ pendingFail' = FALSE /\ pendingGrace' = None /\ tmp' = None
        /\ enrollmentAcknowledged' = FALSE /\ batch' = << >>
    BY DEF ProcessEnds
  <2>2. /\ UNCHANGED <<procEnv, endpoint, keysHeld, rewritten, revoked>>
        /\ UNCHANGED <<accepted, acks, now, sinceOk>>
    BY DEF ProcessEnds, bootVars, clockVars
  <2>3. out' \in [token : Optional(Token), revoke : BOOLEAN, prev :
     Optional(CP)]
    BY DEF ProcessEnds, NoOutcome, Optional
  <2>4. << >> \in Seq(Directive)
    OBVIOUS
  <2>5. disk' \subseteq EnvConf /\ envFile' \in EnvConf
    OBVIOUS
  <2> QED BY <2>1, <2>2, <2>3, <2>4, <2>5 DEF TypeOK, Optional
<1>2. Stage'
  BY DEF ProcessEnds, bootVars, Stage, Rewriting
<1> QED BY <1>1, <1>2

LEMMA ExitsIInv ==
  ASSUME IInv, NEW r \in {"crash", "grace", "revoked", "applyError"}, Exits(r)
  PROVE  IInv'
<1>1. envFile' \in EnvConf /\ disk' \subseteq EnvConf
  BY DEF Exits, IInv, TypeOK
<1> QED BY <1>1, ProcessEndsIInv DEF Exits

-----------------------------------------------------------------------------
(* IInv is inductive.                                                      *)

LEMMA InitIInv == Init => IInv
<1> SUFFICES ASSUME Init PROVE IInv
  OBVIOUS
<1> USE ConstantsAssumption
<1>1. TypeOK
  <2>1. envFile \in EnvConf /\ procEnv \in EnvConf /\ disk \subseteq EnvConf
    BY DEF Init
  <2>2. keysHeld \subseteq Key /\ endpoint \in CP
    BY <2>1, EndpointOfType DEF Init, EnvConf
  <2>3. now \in 0..MaxTime /\ sinceOk \in 0..GraceWindow
    BY DEF Init
  <2>4. out \in [token : Optional(Token), revoke : BOOLEAN, prev : Optional(CP)]
    BY DEF Init, NoOutcome, Optional
  <2> QED
    BY <2>1, <2>2, <2>3, <2>4 DEF Init, TypeOK, Optional
<1>2. Stage
  BY DEF Init, Stage, Rewriting
<1> QED BY <1>1, <1>2 DEF IInv

LEMMA NextIInv == IInv /\ [Next]_vars => IInv'
<1> SUFFICES ASSUME IInv, [Next]_vars PROVE IInv'
  OBVIOUS
<1> USE DEF IInv
<1>1. CASE SendHeartbeat
  <2>1. hb' \in Exchange /\ hb' # None
    BY <1>1, ReportType DEF SendHeartbeat, TypeOK
  <2>2. TypeOK'
    BY <1>1, <2>1 DEF SendHeartbeat, TypeOK, Optional, loopVars, bootVars,
       fileVars, applyVars, netVars, clockVars
  <2>3. Stage'
    BY <1>1, <2>1 DEF SendHeartbeat, bootVars, Stage, Rewriting
  <2> QED BY <2>2, <2>3
<1>2. CASE HeartbeatOk
  <2>1. hb \in Exchange /\ pc = "beat"
    BY <1>2 DEF HeartbeatOk, TypeOK, Stage, Optional
  <2>2. hb.directives \in Seq(Directive)
    BY <2>1, ConstantsAssumption DEF Exchange
  <2>3. batch' \in Seq(Directive) /\ pc' \in {"poll", "setup"}
    <3>1. << >> \in Seq(Directive)
      OBVIOUS
    <3>2. PICK ds \in {hb.directives, << >>} :
            batch' = ds /\ pc' = IF ds = << >> THEN "poll" ELSE "setup"
      BY <1>2 DEF HeartbeatOk
    <3> QED BY <2>2, <3>1, <3>2
  <2>4. sinceOk' \in 0..GraceWindow
    BY <1>2, ConstantsAssumption DEF HeartbeatOk
  <2>5. /\ enrollmentAcknowledged' = TRUE /\ pendingGrace' = None /\ hb' = None
        /\ UNCHANGED <<lastExit, pendingToken, pendingFail, procEnv, endpoint,
           keysHeld>>
        /\ UNCHANGED <<tmp, envFile, disk, rewritten, out, revoked, accepted,
           acks, now>>
    BY <1>2 DEF HeartbeatOk, GraceAfterOk, bootVars, fileVars
  <2>6. TypeOK'
    BY <2>3, <2>4, <2>5 DEF TypeOK, Optional
  <2>7. Stage'
    BY <2>3, <2>5 DEF Stage, Rewriting
  <2> QED BY <2>6, <2>7
<1>3. CASE HeartbeatFails
  BY <1>3 DEF HeartbeatFails, loopVars, bootVars, fileVars, applyVars, netVars,
     clockVars,
     TypeOK, Stage, Rewriting, Accepted, Verified, Optional
<1>4. CASE GraceExpires
  BY <1>4, ExitsIInv DEF GraceExpires
<1>5. CASE SendFallback
  <2>1. pendingGrace.prev \in CP
    BY <1>5 DEF SendFallback, TypeOK, Optional, Grace
  <2>2. hb' \in Exchange /\ hb' # None
    BY <1>5, <2>1, ReportType DEF SendFallback, Optional
  <2>3. TypeOK'
    BY <1>5, <2>2 DEF SendFallback, TypeOK, Optional, loopVars, bootVars,
       fileVars, applyVars, netVars, clockVars
  <2>4. Stage'
    BY <1>5, <2>2 DEF SendFallback, loopVars, bootVars, fileVars, applyVars,
       netVars, clockVars, Stage, Rewriting
  <2> QED BY <2>3, <2>4
<1>6. CASE FallbackDone
  BY <1>6 DEF FallbackDone, loopVars, bootVars, fileVars, applyVars, netVars,
     clockVars,
     TypeOK, Stage, Rewriting, Accepted, Verified, Optional
<1>7. CASE SetupApply
  BY <1>7 DEF SetupApply, loopVars, bootVars, fileVars, applyVars, netVars,
     clockVars,
     TypeOK, Stage, Rewriting, Accepted, Verified, Optional
<1>8. CASE SetupFails
  BY <1>8, ExitsIInv DEF SetupFails
<1>9. CASE ApplyRevoke
  <2>1. pc = "apply" /\ batch # << >>
    BY <1>9 DEF ApplyRevoke, Applying
  <2>2. Tail(batch) \in Seq(Directive)
    BY <2>1, HeadType
  <2>3. revoked' \in BOOLEAN
    BY <1>9 DEF ApplyRevoke, TypeOK, Verified
  <2>4. out' \in [token : Optional(Token), revoke : BOOLEAN, prev :
     Optional(CP)]
    BY <1>9 DEF ApplyRevoke, TypeOK, Verified
  <2>5. TypeOK'
    BY <1>9, <2>2, <2>3, <2>4 DEF ApplyRevoke, TypeOK, loopVars, bootVars,
       fileVars, applyVars, netVars, clockVars
  <2>6. Stage'
    BY <1>9, <2>1 DEF ApplyRevoke, Stage, Rewriting, loopVars, bootVars,
       fileVars, applyVars, netVars, clockVars
  <2> QED BY <2>5, <2>6
<1>10. CASE SkipReEnroll
  <2>1. pc = "apply" /\ batch # << >>
    BY <1>10 DEF SkipReEnroll, Applying
  <2>2. Tail(batch) \in Seq(Directive)
    BY <2>1, HeadType
  <2>3. TypeOK'
    BY <1>10, <2>2 DEF SkipReEnroll, TypeOK, loopVars, bootVars, fileVars,
       applyVars, netVars, clockVars
  <2>4. Stage'
    BY <1>10, <2>1 DEF SkipReEnroll, Stage, Rewriting, loopVars, bootVars,
       fileVars, applyVars, netVars, clockVars
  <2> QED BY <2>3, <2>4
<1>11. CASE ReEnrollFails
  BY <1>11, ExitsIInv DEF ReEnrollFails
<1>12. CASE AcceptReEnroll
  <2>1. envFile.endpoint \in Optional(CP)
    BY DEF TypeOK, EnvConf
  <2>2. out' \in [token : Optional(Token), revoke : BOOLEAN, prev :
     Optional(CP)]
    BY <1>12, <2>1 DEF AcceptReEnroll, TypeOK
  <2>3. TypeOK'
    BY <1>12, <2>2 DEF AcceptReEnroll, TypeOK, loopVars, bootVars, fileVars,
       applyVars, netVars, clockVars
  <2>4. batch # << >> /\ Accepted(Head(batch))
    BY <1>12 DEF AcceptReEnroll, Applying, Accepted
  <2>5. Stage'
    BY <1>12, <2>4 DEF AcceptReEnroll, Applying, Accepted, Verified, Stage,
       loopVars, bootVars, fileVars, applyVars, netVars, clockVars
  <2> QED BY <2>3, <2>5
<1>13. CASE WriteTmp
  <2>1. batch # << >> /\ Head(batch).env \in EnvConf
    BY <1>13, HeadType DEF WriteTmp, Stage, Rewriting
  <2>2. tmp' \in TmpFile
    BY <1>13, <2>1 DEF WriteTmp, TmpFile
  <2>3. tmp' # None
    BY <2>2, SentinelAssumption
  <2>4. TypeOK'
    BY <1>13, <2>2 DEF WriteTmp, TypeOK, Optional, loopVars, bootVars,
       fileVars, applyVars, netVars, clockVars
  <2>5. Stage'
    BY <1>13, <2>3 DEF WriteTmp, Stage, Rewriting, Accepted, Verified,
       loopVars, bootVars, fileVars, applyVars, netVars, clockVars
  <2> QED BY <2>4, <2>5
<1>14. CASE SyncTmp
  <2>1. tmp \in TmpFile /\ tmp.env = Head(batch).env
    BY <1>14 DEF SyncTmp, TypeOK, Stage, Optional
  <2>2. tmp' = [env |-> Head(batch).env, synced |-> TRUE]
    BY <1>14, <2>1 DEF SyncTmp, TmpFile
  <2>3. tmp' \in TmpFile
    BY <2>1, <2>2 DEF TmpFile
  <2>4. TypeOK'
    BY <1>14, <2>3 DEF SyncTmp, TypeOK, Optional, loopVars, bootVars, fileVars,
       applyVars, netVars, clockVars
  <2>5. Stage'
    BY <1>14, <2>2 DEF SyncTmp, Stage, Rewriting, Accepted, Verified, loopVars,
       bootVars, fileVars, applyVars, netVars, clockVars
  <2> QED BY <2>4, <2>5
<1>15. CASE RenameTmp
  <2>1. batch # << >> /\ tmp.env = Head(batch).env /\ tmp.synced
    BY <1>15 DEF RenameTmp, Stage, Rewriting
  <2>2. Head(batch).env \in EnvConf /\ Head(batch).env.enroll \in Token
    BY <2>1, HeadType
  <2>3. /\ envFile' = Head(batch).env /\ disk' = disk \cup {Head(batch).env}
        /\ rewritten' = rewritten \cup {Head(batch).env.enroll}
    BY <1>15, <2>1 DEF RenameTmp
  <2>4. TypeOK'
    BY <1>15, <2>2, <2>3 DEF RenameTmp, TypeOK, Optional, loopVars, bootVars,
       fileVars, applyVars, netVars, clockVars
  <2>5. Stage'
    BY <1>15, <2>3 DEF RenameTmp, Stage, Rewriting, Accepted, Verified,
       loopVars, bootVars, fileVars, applyVars, netVars, clockVars
  <2> QED BY <2>4, <2>5
<1>16. CASE ReEnrollDone
  <2>1. /\ Head(batch).env.enroll \in Token
        /\ Tail(batch) \in Seq(Directive)
    BY <1>16, HeadType DEF ReEnrollDone, Stage, Rewriting
  <2>2. out' \in [token : Optional(Token), revoke : BOOLEAN, prev :
     Optional(CP)]
    BY <1>16, <2>1 DEF ReEnrollDone, TypeOK, Optional
  <2>3. TypeOK'
    BY <1>16, <2>1, <2>2 DEF ReEnrollDone, TypeOK, loopVars, bootVars,
       fileVars, applyVars, netVars, clockVars
  <2>4. Stage'
    BY <1>16 DEF ReEnrollDone, Stage, Rewriting, loopVars, bootVars, fileVars,
       applyVars, netVars, clockVars
  <2> QED BY <2>3, <2>4
<1>17. CASE RewriteFails
  BY <1>17, ExitsIInv DEF RewriteFails
<1>18. CASE RevokeExits
  BY <1>18, ExitsIInv DEF RevokeExits
<1>19. CASE ApplyDone
  <2>1. pc = "apply" /\ pc' = "poll" /\ out' = NoOutcome
    BY <1>19 DEF ApplyDone, BatchDone
  <2>2. endpoint' \in CP
    BY <1>19, EndpointOfType DEF ApplyDone, TypeOK
  <2>3. pendingToken' \in Optional(Token)
    BY <1>19 DEF ApplyDone, loopVars, TypeOK
  <2>4. pendingFail' \in BOOLEAN /\ enrollmentAcknowledged' \in BOOLEAN
    BY <1>19 DEF ApplyDone, loopVars, TypeOK
  <2>5. pendingGrace' \in Optional(Grace)
    <3>1. ASSUME out.prev # None
          PROVE  [prev |-> out.prev, left |-> GraceWindow] \in Grace
      BY <3>1, ConstantsAssumption DEF TypeOK, Optional, Grace
    <3> QED BY <1>19, <3>1 DEF ApplyDone, loopVars, TypeOK, Optional
  <2>6. /\ UNCHANGED <<lastExit, procEnv, keysHeld, batch, revoked>>
        /\ UNCHANGED <<tmp, envFile, disk, rewritten, hb, accepted, acks, now,
           sinceOk>>
    BY <1>19 DEF ApplyDone, fileVars, netVars, clockVars
  <2>7. out' \in [token : Optional(Token), revoke : BOOLEAN, prev :
     Optional(CP)]
    BY <2>1 DEF NoOutcome, Optional
  <2>8. TypeOK'
    BY <2>1, <2>2, <2>3, <2>4, <2>5, <2>6, <2>7 DEF TypeOK
  <2>9. Stage'
    BY <2>1, <2>6 DEF Stage, Rewriting
  <2> QED BY <2>8, <2>9
<1>20. CASE Poll
  BY <1>20 DEF Poll, loopVars, bootVars, fileVars, applyVars, netVars,
     clockVars,
     TypeOK, Stage, Rewriting, Accepted, Verified, Optional
<1>21. CASE CpAnswers
  <2>1. hb \in Exchange
    BY <1>21 DEF CpAnswers, TypeOK, Optional
  <2>2. hb' \in Exchange /\ hb' # None
    BY <1>21, <2>1, SentinelAssumption DEF CpAnswers, Exchange
  <2>3. accepted' \subseteq CP
    BY <1>21, <2>1 DEF CpAnswers, TypeOK, Exchange
  <2>4. acks' \subseteq CP \X Token
    BY <1>21, <2>1 DEF CpAnswers, TypeOK, Exchange, Optional
  <2>5. TypeOK'
    BY <1>21, <2>2, <2>3, <2>4 DEF CpAnswers, TypeOK, Optional, loopVars,
       bootVars, fileVars, applyVars, netVars, clockVars
  <2>6. Stage'
    BY <1>21, <2>2 DEF CpAnswers, Stage, Rewriting, Accepted, Verified,
       loopVars, bootVars, fileVars, applyVars, netVars, clockVars
  <2> QED BY <2>5, <2>6
<1>22. CASE Crash
  BY <1>22, ExitsIInv DEF Crash
<1>23. CASE PowerLoss
  BY <1>23, ProcessEndsIInv DEF PowerLoss, TypeOK
<1>24. CASE WriteBack
  BY <1>24 DEF WriteBack, loopVars, bootVars, fileVars, applyVars, netVars,
     clockVars,
     TypeOK, Stage, Rewriting, Accepted, Verified, Optional
<1>25. CASE Restart
  <2>1. envFile \in EnvConf /\ envFile.vkey \in Key
    BY DEF TypeOK, EnvConf
  <2>2. endpoint' \in CP /\ keysHeld' \subseteq Key /\ procEnv' \in EnvConf
    BY <1>25, <2>1, EndpointOfType DEF Restart, TypeOK
  <2>3. TypeOK'
    BY <1>25, <2>2 DEF Restart, TypeOK, loopVars, bootVars, fileVars,
       applyVars, netVars, clockVars
  <2>4. Stage'
    BY <1>25 DEF Restart, Stage, Rewriting, loopVars, bootVars, fileVars,
       applyVars, netVars, clockVars
  <2> QED BY <2>3, <2>4
<1>26. CASE Tick
  <2>1. now' \in 0..MaxTime /\ sinceOk' \in 0..GraceWindow
    BY <1>26, ConstantsAssumption DEF Tick, TypeOK
  <2>2. pendingGrace' \in Optional(Grace)
    BY <1>26, ConstantsAssumption DEF Tick, TypeOK, Optional, Grace
  <2>3. TypeOK'
    BY <1>26, <2>1, <2>2 DEF Tick, TypeOK, loopVars, bootVars, fileVars,
       applyVars, netVars, clockVars
  <2>4. Stage'
    BY <1>26 DEF Tick, Stage, Rewriting, Accepted, Verified, loopVars,
       bootVars, fileVars, applyVars, netVars, clockVars
  <2> QED BY <2>3, <2>4
<1>27. CASE UNCHANGED vars
  BY <1>27 DEF vars, loopVars, bootVars, fileVars, applyVars, netVars,
     clockVars,
     TypeOK, Stage, Rewriting, Accepted, Verified, Optional
<1> QED
  BY <1>1, <1>2, <1>3, <1>4, <1>5, <1>6, <1>7, <1>8, <1>9, <1>10, <1>11,
     <1>12, <1>13, <1>14, <1>15, <1>16, <1>17, <1>18, <1>19, <1>20, <1>21,
     <1>22, <1>23, <1>24, <1>25, <1>26, <1>27
  DEF Next, Agent, Beat, Apply, Environment

\* Every variable keeps its type, whatever the control planes answer and
\* wherever the process is killed.
THEOREM TypeCorrect == Spec => []TypeOK
<1>1. IInv => TypeOK
  BY DEF IInv
<1> QED BY InitIInv, NextIInv, <1>1, PTL DEF Spec

-----------------------------------------------------------------------------
(* parton.env.                                                             *)
LEMMA NextAuthentic == IInv /\ EnvFileAuthentic /\ [Next]_vars => EnvFileAuthentic'
<1> SUFFICES ASSUME IInv /\ EnvFileAuthentic, [Next]_vars PROVE EnvFileAuthentic'
  OBVIOUS
<1>1. CASE RenameTmp
  <2>1. batch # << >> /\ Accepted(Head(batch)) /\ procEnv.vkey \in keysHeld
    BY <1>1 DEF RenameTmp, IInv, Stage, Rewriting
  <2>2. tmp.env = Head(batch).env /\ tmp.synced
    BY <1>1 DEF RenameTmp, IInv, Stage
  <2>3. Head(batch) \in Directive
    BY <2>1, HeadType DEF IInv
  <2>4. Head(batch).env \in Authentic
    BY <2>1, <2>3 DEF Accepted, Verified, Authentic
  <2>5. {envFile'} \cup disk' \subseteq Authentic
    BY <1>1, <2>2, <2>4 DEF RenameTmp, EnvFileAuthentic
  <2>6. UNCHANGED keysHeld
    BY <1>1 DEF RenameTmp, bootVars
  <2> QED BY <2>5, <2>6 DEF EnvFileAuthentic, Authentic
<1>2. CASE PowerLoss
  BY <1>2 DEF PowerLoss, ProcessEnds, bootVars, EnvFileAuthentic, Authentic
<1>3. CASE WriteBack
  BY <1>3 DEF WriteBack, bootVars, EnvFileAuthentic, Authentic
<1>4. CASE Restart
  BY <1>4 DEF Restart, fileVars, EnvFileAuthentic, Authentic
<1>5. CASE GraceExpires \/ SetupFails \/ ReEnrollFails \/ RewriteFails \/
   RevokeExits \/ Crash
  BY <1>5 DEF GraceExpires, SetupFails, ReEnrollFails, RewriteFails,
     RevokeExits, Crash, Exits, ProcessEnds, loopVars, bootVars, fileVars,
     applyVars, netVars, clockVars, EnvFileAuthentic, Authentic
<1>6. CASE SendHeartbeat \/ HeartbeatOk \/ HeartbeatFails \/ SendFallback \/
   FallbackDone \/ SetupApply \/ ApplyRevoke \/ SkipReEnroll \/ AcceptReEnroll
   \/ WriteTmp \/ SyncTmp \/ ReEnrollDone \/ ApplyDone \/ Poll \/ CpAnswers \/
   Tick
  BY <1>6 DEF SendHeartbeat, HeartbeatOk, HeartbeatFails, SendFallback,
     FallbackDone, SetupApply, ApplyRevoke, SkipReEnroll, AcceptReEnroll,
     WriteTmp, SyncTmp, ReEnrollDone, ApplyDone, Poll, CpAnswers, Tick,
     loopVars, bootVars, fileVars, applyVars, netVars, clockVars,
     EnvFileAuthentic, Authentic
<1>7. CASE UNCHANGED vars
  BY <1>7 DEF vars, loopVars, bootVars, fileVars, applyVars, netVars,
     clockVars, EnvFileAuthentic, Authentic
<1> QED
  BY <1>1, <1>2, <1>3, <1>4, <1>5, <1>6, <1>7 DEF Next, Agent, Beat, Apply,
     Environment

\* However a crash, an I/O error or a power loss interrupts the rewrite, what
\* parton.env holds, or would hold after a power loss, is one complete content:
\* as installed, or as ordered by a re-enroll directive that opened and whose
\* signature verified under a key some process of this agent had trusted.
THEOREM EnvFileIsAuthentic == Spec => []EnvFileAuthentic
<1>1. Init => EnvFileAuthentic
  BY DEF Init, EnvFileAuthentic, Authentic
<1> QED BY <1>1, InitIInv, NextIInv, NextAuthentic, PTL DEF Spec

-----------------------------------------------------------------------------
(* The applied-directive token.                                            *)

\* Wherever the token of an applied directive is held, it is in parton.env's
\* history.
TokensRewritten ==
  /\ {pendingToken, out.token} \subseteq Optional(rewritten)
  /\ hb # None => hb.applied \in Optional(rewritten)
  /\ AckImpliesRewritten
LEMMA NextTokensRewritten == IInv /\ TokensRewritten /\ [Next]_vars => TokensRewritten'
<1> SUFFICES ASSUME IInv /\ TokensRewritten, [Next]_vars PROVE TokensRewritten'
  OBVIOUS
<1>1. CASE SendHeartbeat
  BY <1>1 DEF SendHeartbeat, Report, fileVars, applyVars, TokensRewritten,
     AckImpliesRewritten, Optional
<1>2. CASE SendFallback
  BY <1>2 DEF SendFallback, Report, loopVars, fileVars, applyVars, TokensRewritten,
     AckImpliesRewritten, Optional
<1>3. CASE CpAnswers
  <2>1. hb \in Exchange /\ hb'.applied = hb.applied
    BY <1>3 DEF CpAnswers, IInv, TypeOK, Optional, Exchange
  <2>2. \A x \in acks' : x \in acks \/ (x = <<hb.to, hb.applied>> /\ hb.applied # None)
    BY <1>3 DEF CpAnswers
  <2> QED
    BY <1>3, <2>1, <2>2 DEF CpAnswers, loopVars, fileVars, applyVars,
       TokensRewritten, AckImpliesRewritten, Optional
<1>4. CASE RenameTmp
  BY <1>4 DEF RenameTmp, loopVars, applyVars, netVars, TokensRewritten,
     AckImpliesRewritten, Optional
<1>5. CASE ReEnrollDone
  <2>1. out'.token = Head(batch).env.enroll
    BY <1>5 DEF ReEnrollDone, IInv, TypeOK
  <2>2. Head(batch).env.enroll \in rewritten
    BY <1>5 DEF ReEnrollDone, IInv, Stage
  <2> QED
    BY <1>5, <2>1, <2>2 DEF ReEnrollDone, loopVars, fileVars, netVars,
       TokensRewritten, AckImpliesRewritten, Optional
<1>6. CASE PowerLoss
  BY <1>6 DEF PowerLoss, ProcessEnds, NoOutcome, TokensRewritten,
     AckImpliesRewritten, Optional
<1>7. CASE ApplyRevoke \/ AcceptReEnroll
  <2>1. out'.token = out.token
    BY <1>7 DEF ApplyRevoke, AcceptReEnroll, IInv, TypeOK
  <2> QED
    BY <1>7, <2>1 DEF ApplyRevoke, AcceptReEnroll, loopVars, fileVars, netVars,
       TokensRewritten, AckImpliesRewritten
<1>8. CASE GraceExpires \/ SetupFails \/ ReEnrollFails \/ RewriteFails \/
   RevokeExits \/ Crash
  BY <1>8 DEF GraceExpires, SetupFails, ReEnrollFails, RewriteFails,
     RevokeExits, Crash, Exits, ProcessEnds, loopVars, bootVars, fileVars,
     applyVars, netVars, clockVars, NoOutcome, TokensRewritten,
     AckImpliesRewritten, Optional
<1>9. CASE HeartbeatOk \/ HeartbeatFails \/ FallbackDone \/ SetupApply \/
   SkipReEnroll \/ WriteTmp \/ SyncTmp \/ ApplyDone \/ Poll \/ WriteBack \/
   Restart \/ Tick
  BY <1>9 DEF HeartbeatOk, HeartbeatFails, FallbackDone, SetupApply,
     SkipReEnroll, WriteTmp, SyncTmp, ApplyDone, Poll, WriteBack, Restart,
     Tick, loopVars, bootVars, fileVars, applyVars, netVars, clockVars,
     NoOutcome, TokensRewritten, AckImpliesRewritten, Optional
<1>10. CASE UNCHANGED vars
  BY <1>10 DEF vars, loopVars, bootVars, fileVars, applyVars, netVars,
     clockVars, NoOutcome, TokensRewritten, AckImpliesRewritten, Optional
<1> QED
  BY <1>1, <1>2, <1>3, <1>4, <1>5, <1>6, <1>7, <1>8, <1>9, <1>10 DEF Next,
     Agent, Beat, Apply, Environment

\* No control plane is ever told that a directive was applied whose token had
\* not been renamed into parton.env.
THEOREM AcksAreRewritten == Spec => []AckImpliesRewritten
<1>1. Init => TokensRewritten
  BY DEF Init, NoOutcome, TokensRewritten, AckImpliesRewritten, Optional
<1>2. TokensRewritten => AckImpliesRewritten
  BY DEF TokensRewritten
<1> QED BY <1>1, <1>2, InitIInv, NextIInv, NextTokensRewritten, PTL DEF Spec

-----------------------------------------------------------------------------
(* The grace window.                                                       *)

\* What is left of the grace window and the time since the last success make
\* up the whole window at least.
GraceAccounted ==
  /\ pendingGrace # None => pendingGrace.left + sinceOk >= GraceWindow
  /\ GraceExitJustified
LEMMA NextGraceAccounted == IInv /\ GraceAccounted /\ [Next]_vars => GraceAccounted'
<1> SUFFICES ASSUME IInv /\ GraceAccounted, [Next]_vars PROVE GraceAccounted'
  OBVIOUS
<1>1. CASE GraceExpires
  <2>1. pendingGrace # None /\ pendingGrace.left = 0
    BY <1>1 DEF GraceExpires
  <2>2. sinceOk \in 0..GraceWindow /\ GraceWindow \in Nat
    BY ConstantsAssumption DEF IInv, TypeOK
  <2>3. sinceOk = GraceWindow
    BY <2>1, <2>2 DEF GraceAccounted
  <2> QED
    BY <1>1, <2>3 DEF GraceExpires, Exits, ProcessEnds, clockVars,
       GraceAccounted, GraceExitJustified
<1>2. CASE PowerLoss
  BY <1>2 DEF PowerLoss, ProcessEnds, GraceAccounted, GraceExitJustified
<1>3. CASE ApplyDone
  <2>1. sinceOk' = sinceOk /\ sinceOk \in Nat /\ GraceWindow \in Nat
    BY <1>3, ConstantsAssumption DEF ApplyDone, clockVars, IInv, TypeOK
  <2>2. \/ pendingGrace' = pendingGrace
        \/ pendingGrace' = [prev |-> out.prev, left |-> GraceWindow]
    BY <1>3 DEF ApplyDone, loopVars
  <2>3. pendingGrace' # None => pendingGrace'.left + sinceOk' >= GraceWindow
    BY <2>1, <2>2 DEF GraceAccounted
  <2>4. pc' = "poll"
    BY <1>3 DEF ApplyDone
  <2> QED BY <2>3, <2>4 DEF GraceAccounted, GraceExitJustified
<1>4. CASE Tick
  <2>1. sinceOk \in 0..GraceWindow /\ GraceWindow \in Nat
    BY ConstantsAssumption DEF IInv, TypeOK
  <2>2. pendingGrace # None => pendingGrace \in Grace /\ pendingGrace.left \in 0..GraceWindow
    BY DEF IInv, TypeOK, Optional, Grace
  <2>3. sinceOk' = IF sinceOk < GraceWindow THEN sinceOk + 1 ELSE sinceOk
    BY <1>4 DEF Tick
  <2>4. CASE pendingGrace # None /\ pendingGrace.left > 0
    <3>1. pendingGrace' = [pendingGrace EXCEPT !.left = @ - 1]
      BY <1>4, <2>4 DEF Tick
    <3>2. pendingGrace'.left = pendingGrace.left - 1
      BY <2>2, <2>4, <3>1 DEF Grace
    <3>3. pendingGrace'.left + sinceOk' >= GraceWindow
      BY <2>1, <2>2, <2>3, <2>4, <3>2 DEF GraceAccounted
    <3> QED BY <1>4, <2>1, <2>3, <3>3 DEF Tick, GraceAccounted, GraceExitJustified
  <2>5. CASE ~(pendingGrace # None /\ pendingGrace.left > 0)
    <3>1. pendingGrace' = pendingGrace
      BY <1>4, <2>5 DEF Tick
    <3> QED
      BY <1>4, <2>1, <2>2, <2>3, <2>5, <3>1
      DEF Tick, GraceAccounted, GraceExitJustified
  <2> QED BY <2>4, <2>5
<1>5. CASE HeartbeatOk
  <2>1. pendingGrace' = None
    BY <1>5 DEF HeartbeatOk, GraceAfterOk
  <2>2. pc' # "down"
    BY <1>5 DEF HeartbeatOk
  <2> QED BY <2>1, <2>2 DEF GraceAccounted, GraceExitJustified
<1>6. CASE SetupFails \/ ReEnrollFails \/ RewriteFails \/ RevokeExits \/ Crash
  BY <1>6 DEF SetupFails, ReEnrollFails, RewriteFails, RevokeExits, Crash,
     Exits, ProcessEnds, loopVars, bootVars, fileVars, applyVars, netVars,
     clockVars, GraceAccounted, GraceExitJustified
<1>7. CASE SendHeartbeat \/ HeartbeatFails \/ SendFallback \/ FallbackDone \/
   SetupApply \/ ApplyRevoke \/ SkipReEnroll \/ AcceptReEnroll \/ WriteTmp \/
   SyncTmp \/ RenameTmp \/ ReEnrollDone \/ Poll \/ CpAnswers \/ WriteBack \/
   Restart
  BY <1>7 DEF SendHeartbeat, HeartbeatFails, SendFallback, FallbackDone,
     SetupApply, ApplyRevoke, SkipReEnroll, AcceptReEnroll, WriteTmp, SyncTmp,
     RenameTmp, ReEnrollDone, Poll, CpAnswers, WriteBack, Restart, loopVars,
     bootVars, fileVars, applyVars, netVars, clockVars, GraceAccounted,
     GraceExitJustified
<1>8. CASE UNCHANGED vars
  BY <1>8 DEF vars, loopVars, bootVars, fileVars, applyVars, netVars,
     clockVars, GraceAccounted, GraceExitJustified
<1> QED
  BY <1>1, <1>2, <1>3, <1>4, <1>5, <1>6, <1>7, <1>8 DEF Next, Agent, Beat,
     Apply, Environment

\* The process ends for the grace window only when no heartbeat has succeeded
\* for the whole length of the window: a success always closes it.
THEOREM GraceExitsAreJustified == Spec => []GraceExitJustified
<1>1. Init => GraceAccounted
  BY DEF Init, GraceAccounted, GraceExitJustified
<1>2. GraceAccounted => GraceExitJustified
  BY DEF GraceAccounted
<1> QED BY <1>1, <1>2, InitIInv, NextIInv, NextGraceAccounted, PTL DEF Spec

-----------------------------------------------------------------------------
(* Revocation.                                                             *)

\* A verified revoke is kept in the outcome of the batch until the exit.
RevokePending ==
  revoked => pc = "down" \/ (pc \in Rewriting \cup {"apply"} /\ out.revoke)
LEMMA NextRevokePending == IInv /\ RevokePending /\ [Next]_vars => RevokePending'
<1> SUFFICES ASSUME IInv /\ RevokePending, [Next]_vars PROVE RevokePending'
  OBVIOUS
<1>1. CASE PowerLoss
  BY <1>1 DEF PowerLoss, ProcessEnds, RevokePending
<1>2. CASE ApplyRevoke
  <2>1. pc = "apply" /\ pc' = "apply"
    BY <1>2 DEF ApplyRevoke, Applying
  <2>2. revoked' => out'.revoke
    BY <1>2, <2>1 DEF ApplyRevoke, Verified, RevokePending, Rewriting, IInv, TypeOK
  <2> QED BY <2>1, <2>2 DEF RevokePending
<1>3. CASE AcceptReEnroll \/ ReEnrollDone
  <2>1. out'.revoke = out.revoke /\ UNCHANGED revoked
    BY <1>3 DEF AcceptReEnroll, ReEnrollDone, IInv, TypeOK
  <2>2. pc' \in Rewriting \cup {"apply"}
    BY <1>3 DEF AcceptReEnroll, ReEnrollDone, Rewriting
  <2>3. pc # "down"
    BY <1>3 DEF AcceptReEnroll, ReEnrollDone, Applying
  <2> QED BY <2>1, <2>2, <2>3 DEF RevokePending
<1>4. CASE ApplyDone
  BY <1>4 DEF ApplyDone, BatchDone, MustExit, RevokePending, Rewriting
<1>5. CASE Restart
  BY <1>5 DEF Restart, RevokePending
<1>6. CASE GraceExpires \/ SetupFails \/ ReEnrollFails \/ RewriteFails \/
   RevokeExits \/ Crash
  BY <1>6 DEF GraceExpires, SetupFails, ReEnrollFails, RewriteFails,
     RevokeExits, Crash, Exits, ProcessEnds, loopVars, bootVars, fileVars,
     applyVars, netVars, clockVars, Applying, RevokePending, Rewriting
<1>7. CASE SendHeartbeat \/ HeartbeatOk \/ HeartbeatFails \/ SendFallback \/
   FallbackDone \/ SetupApply \/ SkipReEnroll \/ WriteTmp \/ SyncTmp \/
   RenameTmp \/ Poll \/ CpAnswers \/ WriteBack \/ Tick
  BY <1>7 DEF SendHeartbeat, HeartbeatOk, HeartbeatFails, SendFallback,
     FallbackDone, SetupApply, SkipReEnroll, WriteTmp, SyncTmp, RenameTmp,
     Poll, CpAnswers, WriteBack, Tick, loopVars, bootVars, fileVars, applyVars,
     netVars, clockVars, Applying, RevokePending, Rewriting
<1>8. CASE UNCHANGED vars
  BY <1>8 DEF vars, loopVars, bootVars, fileVars, applyVars, netVars,
     clockVars, Applying, RevokePending, Rewriting
<1> QED
  BY <1>1, <1>2, <1>3, <1>4, <1>5, <1>6, <1>7, <1>8 DEF Next, Agent, Beat,
     Apply, Environment

\* Once a revoke has verified, whatever else its batch holds, the process sends
\* no report and polls for no action: it finishes the batch and exits.
THEOREM RevokedStaysSilent == Spec => []RevokedIsSilent
<1>1. Init => RevokePending
  BY DEF Init, RevokePending
<1>2. RevokePending => RevokedIsSilent
  BY DEF RevokePending, RevokedIsSilent, Rewriting
<1> QED BY <1>1, <1>2, InitIInv, NextIInv, NextRevokePending, PTL DEF Spec

-----------------------------------------------------------------------------
(* The enrollment token.                                                   *)

\* An answered exchange has a receiver who took it, and an acknowledged
\* enrollment is one at the configured endpoint.
Acknowledged ==
  /\ hb # None /\ hb.answered => hb.to \in accepted
  /\ pc = "beat" => hb.to = endpoint
  /\ enrollmentAcknowledged => endpoint \in accepted /\ pc # "down"
  /\ TokenOmittedOnlyWhenKnown
LEMMA NextAcknowledged == IInv /\ Acknowledged /\ [Next]_vars => Acknowledged'
<1> SUFFICES ASSUME IInv /\ Acknowledged, [Next]_vars PROVE Acknowledged'
  OBVIOUS
<1>1. CASE SendHeartbeat
  <2>1. procEnv.enroll # None
    BY SentinelAssumption DEF IInv, TypeOK, EnvConf
  <2> QED
    BY <1>1, <2>1 DEF SendHeartbeat, Report, bootVars, Acknowledged,
       TokenOmittedOnlyWhenKnown
<1>2. CASE SendFallback
  <2>1. procEnv.enroll # None
    BY SentinelAssumption DEF IInv, TypeOK, EnvConf
  <2> QED
    BY <1>2, <2>1 DEF SendFallback, Report, loopVars, bootVars, Acknowledged,
       TokenOmittedOnlyWhenKnown
<1>3. CASE HeartbeatOk
  BY <1>3 DEF HeartbeatOk, bootVars, IInv, Stage, Acknowledged,
     TokenOmittedOnlyWhenKnown
<1>4. CASE CpAnswers
  <2>1. /\ hb \in Exchange /\ hb # None
        /\ hb'.to = hb.to /\ hb'.enroll = hb.enroll
    BY <1>4 DEF CpAnswers, IInv, TypeOK, Optional, Exchange
  <2> QED
    BY <1>4, <2>1 DEF CpAnswers, loopVars, bootVars, Acknowledged,
       TokenOmittedOnlyWhenKnown
<1>5. CASE PowerLoss
  BY <1>5 DEF PowerLoss, ProcessEnds, Acknowledged, TokenOmittedOnlyWhenKnown
<1>6. CASE Restart
  BY <1>6 DEF Restart, loopVars, IInv, Stage, Acknowledged,
     TokenOmittedOnlyWhenKnown
<1>7. CASE GraceExpires \/ SetupFails \/ ReEnrollFails \/ RewriteFails \/
   RevokeExits \/ Crash
  BY <1>7 DEF GraceExpires, SetupFails, ReEnrollFails, RewriteFails,
     RevokeExits, Crash, Exits, ProcessEnds, loopVars, bootVars, fileVars,
     applyVars, netVars, clockVars, Applying, BatchDone, IInv, Stage,
     Acknowledged, TokenOmittedOnlyWhenKnown
<1>8. CASE HeartbeatFails \/ FallbackDone \/ SetupApply \/ ApplyRevoke \/
   SkipReEnroll \/ AcceptReEnroll \/ WriteTmp \/ SyncTmp \/ RenameTmp \/
   ReEnrollDone \/ ApplyDone \/ Poll \/ WriteBack \/ Tick
  BY <1>8 DEF HeartbeatFails, FallbackDone, SetupApply, ApplyRevoke,
     SkipReEnroll, AcceptReEnroll, WriteTmp, SyncTmp, RenameTmp, ReEnrollDone,
     ApplyDone, Poll, WriteBack, Tick, loopVars, bootVars, fileVars, applyVars,
     netVars, clockVars, Applying, BatchDone, IInv, Stage, Acknowledged,
     TokenOmittedOnlyWhenKnown
<1>9. CASE UNCHANGED vars
  BY <1>9 DEF vars, loopVars, bootVars, fileVars, applyVars, netVars,
     clockVars, Applying, BatchDone, IInv, Stage, Acknowledged,
     TokenOmittedOnlyWhenKnown
<1> QED
  BY <1>1, <1>2, <1>3, <1>4, <1>5, <1>6, <1>7, <1>8, <1>9 DEF Next, Agent,
     Beat, Apply, Environment

\* A report omits the enrollment token only when its receiver has taken a
\* report from this very process.
THEOREM TokenOmissionIsSafe == Spec => []TokenOmittedOnlyWhenKnown
<1>1. Init => Acknowledged
  BY DEF Init, Acknowledged, TokenOmittedOnlyWhenKnown
<1>2. Acknowledged => TokenOmittedOnlyWhenKnown
  BY DEF Acknowledged
<1> QED BY <1>1, <1>2, InitIInv, NextIInv, NextAcknowledged, PTL DEF Spec
=============================================================================
