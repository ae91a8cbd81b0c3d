-------------------------- MODULE ActionQueueProofs --------------------------
(***************************************************************************)
(* Proofs about ActionQueue, for any commands, leases and bounds: the      *)
(* types; that the command being executed is at its current attempt and    *)
(* not settled (Single), from which the refinement of CommandPromise       *)
(* follows; that successes are earned; and, from the leases (Held), that   *)
(* without a fault no command is executed twice.                           *)
(***************************************************************************)
EXTENDS ActionQueue, TLAPS

Open(c) == status[c] \in {"pending", "leased"}

\* Claim k is of the current attempt of an unsettled command, and no result of
\* that attempt is on its way.
Current(k) ==
  /\ k.attempt = attempt[k.cmd] /\ Open(k.cmd)
  /\ \A r \in wire : r.cmd = k.cmd => r.attempt < k.attempt

\* One claim at a time, reported once.
Single ==
  /\ offer # None => phase = "claim" /\ Current(offer)
  /\ cur # None => Current(cur)
  /\ \A r \in wire : r.attempt <= attempt[r.cmd]

\* Successes are earned on their way, too.
Earned ==
  /\ \A r \in wire : r.success /\ r.cmd \in Trusted =>
       [cmd |-> r.cmd, attempt |-> r.attempt] \in achieved
  /\ phase = "report" /\ effect = "ok" => cur \in achieved
  /\ SuccessIsEarned

IInv == TypeOK /\ Single /\ Earned

\* The ticks between the claim of a command and the end of its lease.
Cap(c) == Lease + (IF LeaseExtended(KindOf[c]) THEN Extension ELSE 0)

\* The lease of a healthy command lasts until its result has arrived.
HeldCmd(c) ==
  /\ runs[c] <= attempt[c] /\ attempt[c] <= 1
  /\ status[c] = "pending" => attempt[c] = 0
  /\ status[c] = "leased" =>
       /\ lease[c] > 0
       /\ \/ offer # None /\ offer.cmd = c
          \/ cur # None /\ cur.cmd = c
          \/ \E r \in wire : r.cmd = c /\ r.attempt = attempt[c]

HeldOffer ==
  offer # None /\ Healthy(offer.cmd) =>
    runs[offer.cmd] < attempt[offer.cmd] /\ lease[offer.cmd] = Lease

HeldCur ==
  cur # None /\ Healthy(cur.cmd) =>
    /\ phase \in {"extend", "run"} => runs[cur.cmd] < attempt[cur.cmd]
    /\ phase = "extend" => lease[cur.cmd] = Lease
    /\ phase = "run" => lease[cur.cmd] = Cap(cur.cmd)
    /\ phase = "busy" => /\ lease[cur.cmd] + elapsed = Cap(cur.cmd)
                         /\ elapsed <= MaxRun[cur.cmd]

Held ==
  faults = 0 => (\A c \in Cmd : Healthy(c) => HeldCmd(c)) /\ HeldOffer /\ HeldCur

-----------------------------------------------------------------------------
(* The types.                                                              *)

LEMMA InitTypeOK == Init => TypeOK
BY QueueAssumption DEF Init, TypeOK

LEMMA CurType ==
  ASSUME TypeOK, cur # None
  PROVE  /\ cur.cmd \in Cmd /\ cur.attempt \in 1..MaxAttempt
         /\ cur = [cmd |-> cur.cmd, attempt |-> cur.attempt]
BY DEF TypeOK, Claim

LEMMA OfferType ==
  ASSUME TypeOK, offer # None
  PROVE  offer \in Claim /\ offer.cmd \in Cmd /\ offer.attempt \in 1..MaxAttempt
BY DEF TypeOK, Claim

LEMMA FaultType == ASSUME TypeOK, Fault PROVE faults' \in 0..MaxFault /\ faults' # 0
BY QueueAssumption DEF Fault, TypeOK

LEMMA EndsTypeOK ==
  ASSUME TypeOK, NEW r \in {"killed", "panic"}, ProcessEnds(r),
         orphans' \in {orphans, orphans \cup {cur}}, cur # None \/ orphans' = orphans,
         faults' \in 0..MaxFault
  PROVE  TypeOK'
BY CurType DEF ProcessEnds, TypeOK, Claim, queueVars

LEMMA NextTypeOK == TypeOK /\ [Next]_vars => TypeOK'
<1> SUFFICES ASSUME TypeOK, [Next]_vars PROVE TypeOK'
  OBVIOUS
<1> USE QueueAssumption, QueueSentinel
<1>1. CASE SendClaim
  BY <1>1 DEF SendClaim, TypeOK, queueVars, wireVars, histVars
<1>2. CASE NothingClaimed
  BY <1>2 DEF NothingClaimed, TypeOK, queueVars, wireVars, histVars
<1>3. CASE GotClaim
  BY <1>3, OfferType DEF GotClaim, TypeOK, queueVars, histVars
<1>4. CASE SkipExtend
  BY <1>4 DEF SkipExtend, TypeOK, queueVars, wireVars, histVars
<1>5. CASE ExtendLease
  <2>1. lease' \in [Cmd -> Nat]
    BY <1>5, CurType DEF ExtendLease, TypeOK
  <2> QED BY <1>5, <2>1 DEF ExtendLease, TypeOK, wireVars, histVars
<1>6. CASE Refuse
  BY <1>6 DEF Refuse, TypeOK, queueVars, wireVars, histVars
<1>7. CASE Execute
  <2>1. runs' \in [Cmd -> Nat]
    BY <1>7, CurType DEF Execute, TypeOK
  <2> QED BY <1>7, <2>1 DEF Execute, TypeOK, queueVars, wireVars
<1>8. CASE Executed
  <2>1. achieved' \subseteq Claim
    BY <1>8, CurType DEF Executed, TypeOK, Claim
  <2> QED BY <1>8, <2>1 DEF Executed, TypeOK, queueVars, wireVars
<1>9. CASE PostResult
  <2>1. cur # None /\ ReportsSuccess(KindOf[cur.cmd]) \in BOOLEAN
    BY <1>9 DEF PostResult, TypeOK, ReportsSuccess
  <2>2. wire' \subseteq Result
    BY <1>9, <2>1, CurType DEF PostResult, TypeOK, Result
  <2> QED BY <1>9, <2>2 DEF PostResult, TypeOK, queueVars, histVars
<1>10. CASE Panic
  BY <1>10, EndsTypeOK DEF Panic, TypeOK
<1>11. CASE CpClaims
  <2>1. PICK c \in Cmd :
          /\ Claimable(c)
          /\ status' = [status EXCEPT ![c] = "leased"]
          /\ attempt' = [attempt EXCEPT ![c] = @ + 1]
          /\ lease' = [lease EXCEPT ![c] = Lease]
          /\ offer' = [cmd |-> c, attempt |-> attempt[c] + 1]
    BY <1>11 DEF CpClaims
  <2>2. attempt[c] + 1 \in 1..MaxAttempt
    BY <2>1 DEF Claimable, TypeOK
  <2>3. /\ offer' \in Claim /\ attempt' \in [Cmd -> 0..MaxAttempt]
        /\ status' \in [Cmd -> {"pending", "leased", "ok", "failed"}]
        /\ lease' \in [Cmd -> Nat]
    BY <2>1, <2>2 DEF TypeOK, Claim
  <2> QED BY <1>11, <2>3 DEF CpClaims, TypeOK, agentVars, histVars
<1>12. CASE CpTakes
  <2>1. PICK r \in wire :
          /\ wire' = wire \ {r}
          /\ \/ /\ status' = [status EXCEPT ![r.cmd] = IF r.success THEN "ok" ELSE "failed"]
                /\ lease' = [lease EXCEPT ![r.cmd] = 0]
             \/ UNCHANGED <<status, lease>>
    BY <1>12 DEF CpTakes
  <2>2. r.cmd \in Cmd
    BY DEF TypeOK, Result
  <2>3. /\ status' \in [Cmd -> {"pending", "leased", "ok", "failed"}]
        /\ lease' \in [Cmd -> Nat]
    BY <2>1, <2>2 DEF TypeOK
  <2> QED BY <1>12, <2>1, <2>3 DEF CpTakes, TypeOK, agentVars, histVars
<1>13. CASE CpExpires
  BY <1>13 DEF CpExpires, TypeOK, agentVars, wireVars, histVars
<1>14. CASE ClaimFails
  BY <1>14, FaultType DEF ClaimFails, TypeOK, queueVars, histVars
<1>15. CASE ExtendFails
  BY <1>15, FaultType DEF ExtendFails, TypeOK, queueVars, wireVars, histVars
<1>16. CASE LoseResult
  BY <1>16, FaultType DEF LoseResult, TypeOK, agentVars, queueVars, histVars
<1>17. CASE Kill
  <2>1. cur # None \/ orphans' = orphans
    BY <1>17 DEF Kill, TypeOK
  <2> QED BY <1>17, <2>1, FaultType, EndsTypeOK DEF Kill
<1>18. CASE Tick
  <2>1. lease' \in [Cmd -> Nat] /\ elapsed' \in Nat
    BY <1>18 DEF Tick, TypeOK
  <2>2. faults' \in 0..MaxFault
    BY <1>18, FaultType DEF Tick, TypeOK
  <2> QED BY <1>18, <2>1, <2>2 DEF Tick, TypeOK, wireVars, histVars
<1>19. CASE Restart
  BY <1>19 DEF Restart, TypeOK, queueVars, wireVars, histVars
<1>20. CASE OrphanEnds
  <2>1. achieved' \subseteq Claim /\ orphans' \subseteq Claim
    BY <1>20 DEF OrphanEnds, TypeOK
  <2> QED BY <1>20, <2>1 DEF OrphanEnds, TypeOK, agentVars, queueVars, wireVars
<1>21. CASE UNCHANGED vars
  BY <1>21 DEF vars, agentVars, queueVars, wireVars, histVars, TypeOK
<1> QED
  BY <1>1, <1>2, <1>3, <1>4, <1>5, <1>6, <1>7, <1>8, <1>9, <1>10, <1>11, <1>12, <1>13,
     <1>14, <1>15, <1>16, <1>17, <1>18, <1>19, <1>20, <1>21 DEF Next, Agent, Queue, Faulty

\* The agent, the queue and the messages between them keep their types, for any
\* number of commands, any leases and any number of faults.
THEOREM TypeCorrect == Spec => []TypeOK
<1>1. Init => TypeOK
  BY InitTypeOK
<1>2. TypeOK /\ [Next]_vars => TypeOK'
  BY NextTypeOK
<1> QED BY <1>1, <1>2, PTL DEF Spec

-----------------------------------------------------------------------------
(* One claim at a time.                                                    *)

LEMMA NextSingle == TypeOK /\ Single /\ [Next]_vars => Single'
<1> SUFFICES ASSUME TypeOK, Single, [Next]_vars PROVE Single'
  OBVIOUS
<1> USE DEF Single
<1>1. CASE GotClaim
  BY <1>1 DEF GotClaim, queueVars, Current, Open
<1>2. CASE PostResult
  <2>1. cur # None /\ offer = None /\ UNCHANGED <<offer, attempt>> /\ cur' = None
    BY <1>2 DEF PostResult, queueVars, TypeOK
  <2>2. \A r \in wire' : r \in wire \/ (r.cmd = cur.cmd /\ r.attempt = cur.attempt)
    BY <1>2 DEF PostResult
  <2>3. cur.attempt = attempt[cur.cmd]
    BY <2>1 DEF Current
  <2>4. cur.attempt \in Nat
    BY <2>1, CurType
  <2>5. \A r \in wire' : r.attempt <= attempt'[r.cmd]
    BY <2>1, <2>2, <2>3, <2>4
  <2> QED BY <2>1, <2>5
<1>3. CASE CpClaims
  <2>1. PICK c \in Cmd :
          /\ Claimable(c)
          /\ status' = [status EXCEPT ![c] = "leased"]
          /\ attempt' = [attempt EXCEPT ![c] = @ + 1]
          /\ offer' = [cmd |-> c, attempt |-> attempt[c] + 1]
    BY <1>3 DEF CpClaims
  <2>2. /\ phase = "claim" /\ phase' = phase /\ wire' = wire /\ cur' = cur
        /\ attempt \in [Cmd -> Nat]
    BY <1>3 DEF CpClaims, agentVars, TypeOK
  <2>3. cur' = None
    BY <2>2 DEF TypeOK
  <2>4. \A r \in wire : r.cmd \in Cmd /\ r.attempt \in Nat /\ r.attempt <= attempt[r.cmd]
    BY DEF TypeOK, Result
  <2>5. attempt'[c] = attempt[c] + 1 /\ \A d \in Cmd \ {c} : attempt'[d] = attempt[d]
    BY <2>1, <2>2
  <2>6. \A r \in wire' : r.attempt <= attempt'[r.cmd]
    BY <2>2, <2>4, <2>5
  <2>7. Current(offer)'
    <3>1. offer'.cmd = c /\ offer'.attempt = attempt'[c] /\ status'[c] = "leased"
      BY <2>1, <2>5 DEF TypeOK
    <3>2. \A r \in wire' : r.cmd = c => r.attempt < attempt[c] + 1
      BY <2>2, <2>4
    <3> QED BY <2>5, <3>1, <3>2 DEF Current, Open
  <2> QED BY <2>2, <2>3, <2>6, <2>7
<1>4. CASE CpTakes
  <2>1. PICK r \in wire :
          /\ wire' = wire \ {r}
          /\ \/ /\ r.attempt = attempt[r.cmd]
                /\ status' = [status EXCEPT ![r.cmd] = IF r.success THEN "ok" ELSE "failed"]
             \/ UNCHANGED status
    BY <1>4 DEF CpTakes
  <2>2. UNCHANGED <<phase, cur, attempt, offer>>
    BY <1>4 DEF CpTakes, agentVars
  <2>3. ASSUME NEW k \in Claim, Current(k)
        PROVE  /\ k.attempt = attempt'[k.cmd] /\ status'[k.cmd] \in {"pending", "leased"}
               /\ \A m \in wire' : m.cmd = k.cmd => m.attempt < k.attempt
    <3>1. status'[k.cmd] = status[k.cmd]
      <4>1. CASE r.cmd = k.cmd
        <5>1. r.attempt # attempt[r.cmd]
          BY <2>3, <4>1 DEF Current, TypeOK, Claim, Result
        <5> QED BY <2>1, <5>1
      <4>2. CASE r.cmd # k.cmd
        BY <2>1, <4>2 DEF TypeOK, Claim
      <4> QED BY <4>1, <4>2
    <3> QED BY <2>1, <2>2, <2>3, <3>1 DEF Current, Open
  <2>4. (offer # None => offer \in Claim) /\ (cur # None => cur \in Claim)
    BY DEF TypeOK
  <2> QED BY <2>1, <2>2, <2>3, <2>4 DEF Current, Open
<1>5. CASE CpExpires
  <2>1. /\ UNCHANGED <<phase, cur, attempt, offer, wire>>
        /\ \A c \in Cmd : Open(c) => Open(c)'
    BY <1>5 DEF CpExpires, agentVars, wireVars, Open, TypeOK
  <2>2. (offer # None => offer.cmd \in Cmd) /\ (cur # None => cur.cmd \in Cmd)
    BY DEF TypeOK, Claim
  <2> QED BY <2>1, <2>2 DEF Current
<1>6. CASE LoseResult
  BY <1>6 DEF LoseResult, agentVars, queueVars, Current, Open
<1>7. CASE Panic \/ Kill
  BY <1>7 DEF Panic, Kill, ProcessEnds, queueVars
<1>8. CASE ClaimFails
  BY <1>8 DEF ClaimFails, queueVars, Current, Open, TypeOK
<1>9. CASE \/ SendClaim \/ NothingClaimed \/ SkipExtend \/ ExtendLease \/ ExtendFails
           \/ Refuse \/ Execute \/ Executed \/ Restart
  <2>1. /\ UNCHANGED <<status, attempt, offer, wire, cur>>
        /\ phase' = "claim" \/ (phase = "claim" /\ offer = None) \/ phase # "claim"
    BY <1>9 DEF SendClaim, NothingClaimed, SkipExtend, ExtendLease, ExtendFails, Refuse,
       Execute, Executed, Restart, queueVars, wireVars
  <2> QED BY <2>1 DEF Current, Open
<1>10. CASE Tick \/ OrphanEnds
  BY <1>10 DEF Tick, OrphanEnds, agentVars, queueVars, wireVars, Current, Open
<1>11. CASE UNCHANGED vars
  BY <1>11 DEF vars, agentVars, queueVars, wireVars, Current, Open
<1> QED
  BY <1>1, <1>2, <1>3, <1>4, <1>5, <1>6, <1>7, <1>8, <1>9, <1>10, <1>11
     DEF Next, Agent, Queue, Faulty

-----------------------------------------------------------------------------
(* Success is earned.                                                      *)

LEMMA NextEarned == IInv /\ [Next]_vars => Earned'
<1> SUFFICES ASSUME TypeOK, Single, Earned, [Next]_vars PROVE Earned'
  BY DEF IInv
<1> USE DEF Earned, SuccessIsEarned
<1>t. Trusted \subseteq Cmd
  BY DEF Trusted
<1>1. CASE Executed
  BY <1>1 DEF Executed, queueVars, wireVars, Trusted
<1>2. CASE PostResult
  <2>1. /\ cur # None /\ UNCHANGED <<status, attempt, achieved>> /\ phase' = "sleep"
        /\ wire' = wire \cup {[cmd |-> cur.cmd, attempt |-> cur.attempt,
                               success |-> ReportsSuccess(KindOf[cur.cmd])]}
    BY <1>2 DEF PostResult, queueVars, histVars, TypeOK
  <2>2. ASSUME cur.cmd \in Trusted, ReportsSuccess(KindOf[cur.cmd])
        PROVE  [cmd |-> cur.cmd, attempt |-> cur.attempt] \in achieved
    <3>1. effect = "ok" /\ phase = "report"
      BY <1>2, <2>2 DEF ReportsSuccess, Trusted, PostResult
    <3> QED BY <2>1, <3>1, CurType
  <2>3. \A r \in wire' : r.success /\ r.cmd \in Trusted =>
          [cmd |-> r.cmd, attempt |-> r.attempt] \in achieved'
    BY <2>1, <2>2
  <2> QED BY <2>1, <2>3 DEF Trusted
<1>3. CASE CpClaims
  <2>1. PICK c \in Cmd :
          /\ Claimable(c)
          /\ status' = [status EXCEPT ![c] = "leased"]
          /\ attempt' = [attempt EXCEPT ![c] = @ + 1]
    BY <1>3 DEF CpClaims
  <2>2. UNCHANGED <<phase, effect, cur, wire, achieved>>
    BY <1>3 DEF CpClaims, agentVars, histVars
  <2>3. \A d \in Cmd : status'[d] = "ok" => status[d] = "ok" /\ attempt'[d] = attempt[d]
    BY <2>1 DEF TypeOK
  <2> QED BY <1>t, <2>2, <2>3 DEF Trusted
<1>4. CASE CpTakes
  <2>1. PICK r \in wire :
          /\ wire' = wire \ {r}
          /\ \/ /\ r.attempt = attempt[r.cmd]
                /\ status' = [status EXCEPT ![r.cmd] = IF r.success THEN "ok" ELSE "failed"]
             \/ UNCHANGED status
    BY <1>4 DEF CpTakes
  <2>2. UNCHANGED <<phase, effect, cur, attempt, achieved>>
    BY <1>4 DEF CpTakes, agentVars, histVars
  <2>3. ASSUME NEW d \in Trusted, status'[d] = "ok"
        PROVE  [cmd |-> d, attempt |-> attempt[d]] \in achieved
    <3>1. CASE status[d] = "ok"
      BY <2>3, <3>1
    <3>2. CASE status[d] # "ok"
      <4>1. r.cmd = d /\ r.success /\ r.attempt = attempt[d]
        BY <2>1, <2>3, <3>2, <1>t DEF TypeOK
      <4> QED BY <2>3, <4>1
    <3> QED BY <3>1, <3>2
  <2> QED BY <2>1, <2>2, <2>3 DEF Trusted
<1>5. CASE CpExpires
  <2>1. \A d \in Cmd : status'[d] = "ok" => status[d] = "ok"
    BY <1>5 DEF CpExpires, TypeOK
  <2> QED BY <1>5, <1>t, <2>1 DEF CpExpires, agentVars, wireVars, histVars, Trusted
<1>6. CASE LoseResult
  BY <1>6 DEF LoseResult, agentVars, queueVars, histVars, Trusted
<1>7. CASE Panic \/ Kill \/ OrphanEnds
  <2>1. /\ phase' = "down" \/ UNCHANGED <<phase, effect, cur>>
        /\ UNCHANGED <<status, attempt, wire>>
        /\ achieved \subseteq achieved'
    BY <1>7 DEF Panic, Kill, ProcessEnds, OrphanEnds, agentVars, queueVars, wireVars
  <2> QED BY <2>1 DEF Trusted
<1>8. CASE \/ SendClaim \/ NothingClaimed \/ GotClaim \/ ClaimFails \/ SkipExtend
           \/ ExtendLease \/ ExtendFails \/ Refuse \/ Execute \/ Restart \/ Tick
  <2>1. /\ UNCHANGED <<status, attempt, wire, achieved>>
        /\ phase' # "report" \/ effect' = "refused" \/ UNCHANGED <<phase, effect, cur>>
    BY <1>8 DEF SendClaim, NothingClaimed, GotClaim, ClaimFails, SkipExtend, ExtendLease,
       ExtendFails, Refuse, Execute, Restart, Tick, queueVars, wireVars, histVars
  <2> QED BY <2>1 DEF Trusted
<1>9. CASE UNCHANGED vars
  BY <1>9 DEF vars, agentVars, queueVars, wireVars, histVars, Trusted
<1> QED
  BY <1>1, <1>2, <1>3, <1>4, <1>5, <1>6, <1>7, <1>8, <1>9
     DEF Next, Agent, Queue, Faulty

LEMMA InitIInv == Init => IInv
<1> SUFFICES ASSUME Init PROVE IInv
  OBVIOUS
<1>1. Single /\ Earned
  BY DEF Init, Single, Earned, SuccessIsEarned, Trusted
<1> QED BY <1>1, InitTypeOK DEF IInv

THEOREM Invariance == Spec => []IInv
<1>1. Init => IInv
  BY InitIInv
<1>2. IInv /\ [Next]_vars => IInv'
  BY NextTypeOK, NextSingle, NextEarned DEF IInv
<1> QED BY <1>1, <1>2, PTL DEF Spec

\* A command whose failures are reported as such is settled as a success only
\* if the execution of that very attempt succeeded (run_claimed_action).
THEOREM SuccessesAreEarned == Spec => []SuccessIsEarned
<1>1. IInv => SuccessIsEarned
  BY DEF IInv, Earned
<1> QED BY <1>1, Invariance, PTL

-----------------------------------------------------------------------------
(* The queue implements CommandPromise.                                    *)

verdict == [c \in Cmd |-> IF status[c] \in {"ok", "failed"} THEN status[c] ELSE "open"]
achievedCmd == {c \in Cmd : \E a \in achieved : a.cmd = c}

LEMMA PromiseInit == Init => Promise!Init
BY DEF Init, Promise!Init

\* What leaves the verdicts, the achievements and the executions left behind
\* alone is a stutter.
LEMMA PromiseStutter ==
  ASSUME achieved' = achieved, orphans' = orphans,
         \A c \in Cmd : status'[c] = status[c] \/ (Open(c) /\ Open(c)')
  PROVE  UNCHANGED Promise!vars
<1>1. verdict' = verdict
  BY DEF verdict, Open
<1>2. achievedCmd' = achievedCmd
  BY DEF achievedCmd
<1> QED BY <1>1, <1>2 DEF Promise!vars, verdict, achievedCmd

\* An execution that succeeds is of a command that is not settled.
LEMMA PromiseAchieve ==
  ASSUME IInv, cur # None, achieved' = achieved \cup {cur}, status' = status,
         orphans' = orphans
  PROVE  Promise!Next
<1>1. cur.cmd \in Cmd /\ Open(cur.cmd)
  BY CurType DEF IInv, Single, Current
<1>2. verdict' = verdict /\ verdict[cur.cmd] = "open"
  BY <1>1 DEF verdict, Open
<1>3. achievedCmd' = achievedCmd \cup {cur.cmd}
  BY <1>1 DEF achievedCmd
<1>4. PICK c \in Cmd : c = cur.cmd
  BY <1>1
<1>5. Promise!Achieve(c)
  BY <1>2, <1>3, <1>4 DEF Promise!Achieve, verdict, achievedCmd
<1> QED BY <1>5 DEF Promise!Next

LEMMA PromiseNext == IInv /\ [Next]_vars => [Promise!Next]_(Promise!vars)
<1> SUFFICES ASSUME IInv, [Next]_vars PROVE Promise!Next \/ UNCHANGED Promise!vars
  OBVIOUS
<1>1. CASE Executed
  <2>1. status' = status /\ orphans' = orphans /\ cur # None
    BY <1>1 DEF Executed, queueVars, IInv, TypeOK
  <2>2. achieved' = achieved \/ achieved' = achieved \cup {cur}
    BY <1>1 DEF Executed
  <2> QED BY <2>1, <2>2, PromiseStutter, PromiseAchieve
<1>2. CASE Kill
  <2>1. status' = status /\ achieved' = achieved
    BY <1>2 DEF Kill, ProcessEnds, queueVars
  <2>2. CASE orphans' = orphans
    BY <2>1, <2>2, PromiseStutter
  <2>3. CASE phase = "busy" /\ orphans' = orphans \cup {cur}
    <3>1. cur # None /\ cur \in Claim
      BY <2>3 DEF IInv, TypeOK
    <3>2. cur.cmd \in Cmd /\ Open(cur.cmd)
      BY <3>1, CurType DEF IInv, Single, Current
    <3>3. verdict' = verdict /\ verdict[cur.cmd] = "open" /\ achievedCmd' = achievedCmd
      BY <2>1, <3>2 DEF verdict, achievedCmd, Open
    <3>4. Promise!LeaveBehind(cur)
      BY <2>3, <3>3 DEF Promise!LeaveBehind, verdict, achievedCmd
    <3> QED BY <3>1, <3>4 DEF Promise!Next
  <2> QED BY <1>2, <2>2, <2>3 DEF Kill
<1>3. CASE CpTakes
  <2>1. PICK r \in wire :
          \/ /\ r.attempt = attempt[r.cmd] /\ status[r.cmd] \in {"leased", "pending"}
             /\ status' = [status EXCEPT ![r.cmd] = IF r.success THEN "ok" ELSE "failed"]
          \/ UNCHANGED status
    BY <1>3 DEF CpTakes
  <2>2. achieved' = achieved /\ orphans' = orphans
    BY <1>3 DEF CpTakes, histVars
  <2>3. CASE UNCHANGED status
    BY <2>2, <2>3, PromiseStutter
  <2>4. CASE status' # status
    <3> DEFINE v == IF r.success THEN "ok" ELSE "failed"
    <3>1. r.cmd \in Cmd /\ r.attempt = attempt[r.cmd] /\ status[r.cmd] \in {"leased", "pending"}
      BY <2>1, <2>4 DEF IInv, TypeOK, Result
    <3>2. /\ status' = [status EXCEPT ![r.cmd] = v]
          /\ status \in [Cmd -> {"pending", "leased", "ok", "failed"}]
      BY <2>1, <2>4 DEF IInv, TypeOK
    <3>3. verdict' = [verdict EXCEPT ![r.cmd] = v] /\ verdict[r.cmd] = "open"
      BY <3>1, <3>2 DEF verdict
    <3>4. achievedCmd' = achievedCmd
      BY <2>2 DEF achievedCmd
    <3>5. v = "ok" /\ r.cmd \in Trusted => r.cmd \in achievedCmd
      BY <3>1 DEF IInv, Earned, achievedCmd
    <3>6. PICK c \in Cmd : c = r.cmd
      BY <3>1
    <3>7. CASE v = "ok"
      <4>1. Promise!Settle(c, "ok")
        BY <2>2, <3>3, <3>4, <3>5, <3>6, <3>7 DEF Promise!Settle, verdict, achievedCmd
      <4> QED BY <4>1 DEF Promise!Next
    <3>8. CASE v = "failed"
      <4>1. Promise!Settle(c, "failed")
        BY <2>2, <3>3, <3>4, <3>6, <3>8 DEF Promise!Settle, verdict, achievedCmd
      <4> QED BY <4>1 DEF Promise!Next
    <3> QED BY <3>7, <3>8
  <2> QED BY <2>3, <2>4
<1>4. CASE CpClaims
  <2>1. /\ achieved' = achieved /\ orphans' = orphans
        /\ \A c \in Cmd : status'[c] = status[c] \/ (Open(c) /\ Open(c)')
    BY <1>4 DEF CpClaims, histVars, Claimable, Open, IInv, TypeOK
  <2> QED BY <2>1, PromiseStutter
<1>5. CASE CpExpires
  <2>1. /\ achieved' = achieved /\ orphans' = orphans
        /\ \A c \in Cmd : status'[c] = status[c] \/ (Open(c) /\ Open(c)')
    BY <1>5 DEF CpExpires, histVars, Open, IInv, TypeOK
  <2> QED BY <2>1, PromiseStutter
<1>6. CASE \/ SendClaim \/ NothingClaimed \/ GotClaim \/ ClaimFails \/ SkipExtend
           \/ ExtendLease \/ ExtendFails \/ Refuse \/ Execute \/ PostResult \/ Panic
           \/ LoseResult \/ Tick \/ Restart
  <2>1. status' = status /\ achieved' = achieved /\ orphans' = orphans
    BY <1>6 DEF SendClaim, NothingClaimed, GotClaim, ClaimFails, SkipExtend, ExtendLease,
       ExtendFails, Refuse, Execute, PostResult, Panic, ProcessEnds, LoseResult, Tick,
       Restart, queueVars, histVars
  <2> QED BY <2>1, PromiseStutter
<1>7. CASE OrphanEnds
  <2>1. PICK o \in orphans :
          orphans' = orphans \ {o} /\ achieved' \in {achieved, achieved \cup {o}}
    BY <1>7 DEF OrphanEnds
  <2>2. o \in Claim /\ o.cmd \in Cmd
    BY DEF IInv, TypeOK, Claim
  <2>3. verdict' = verdict
    BY <1>7 DEF OrphanEnds, queueVars, verdict
  <2>4. achievedCmd' \in {achievedCmd, achievedCmd \cup {o.cmd}}
    BY <2>1, <2>2 DEF achievedCmd
  <2>5. Promise!LeftEnds(o)
    BY <2>1, <2>3, <2>4 DEF Promise!LeftEnds, verdict, achievedCmd
  <2> QED BY <2>2, <2>5 DEF Promise!Next
<1>8. CASE UNCHANGED vars
  BY <1>8, PromiseStutter DEF vars, queueVars, histVars
<1> QED
  BY <1>1, <1>2, <1>3, <1>4, <1>5, <1>6, <1>7, <1>8 DEF Next, Agent, Queue, Faulty

\* The queue and its agent implement CommandPromise: a command is settled once,
\* as a success only after one of its executions succeeded, and nothing is begun
\* for it on the host afterwards; what can still take effect then is the command
\* an agent left behind when it was killed before the settlement
\* (poll_one_node_action, run_claimed_action).
THEOREM PromiseKept == Spec => KeepsPromise
<1>1. Init => Promise!Init
  BY PromiseInit
<1>2. IInv /\ [Next]_vars => [Promise!Next]_(Promise!vars)
  BY PromiseNext
<1> QED BY <1>1, <1>2, Invariance, PTL DEF Spec, KeepsPromise, Promise!Spec

-----------------------------------------------------------------------------
(* Without a fault nothing is executed twice.                              *)

LEMMA CapType ==
  ASSUME NEW c \in Cmd
  PROVE  /\ Cap(c) \in Nat /\ Cap(c) > 0
         /\ Healthy(c) => MaxRun[c] < Cap(c) /\ c \notin Unclippable
         /\ ~LeaseExtended(KindOf[c]) => Cap(c) = Lease
         /\ LeaseExtended(KindOf[c]) => Cap(c) = Lease + Extension
<1>1. KindOf[c] \in {"deploy"} \cup HandoffKind \cup {"handoff_bundle_import"}
        <=> LeaseExtended(KindOf[c])
  BY DEF LeaseExtended
<1> QED BY <1>1, QueueAssumption DEF Cap, Healthy, Covered

\* The part of the invariant about the commands survives when nothing but the
\* claim under way changes hands.
LEMMA HeldCmdKept ==
  ASSUME NEW c \in Cmd, HeldCmd(c), UNCHANGED <<status, attempt, lease, runs, wire>>,
         (offer # None /\ offer.cmd = c) \/ (cur # None /\ cur.cmd = c) =>
           (offer' # None /\ offer'.cmd = c) \/ (cur' # None /\ cur'.cmd = c)
  PROVE  HeldCmd(c)'
BY DEF HeldCmd

LEMMA NextHeld == IInv /\ Held /\ [Next]_vars => Held'
<1> SUFFICES ASSUME IInv, Held, [Next]_vars, faults' = 0
             PROVE  (\A c \in Cmd : Healthy(c) => HeldCmd(c)') /\ HeldOffer' /\ HeldCur'
  BY DEF Held, Healthy, Covered
<1> USE QueueAssumption
<1>t. TypeOK /\ Single
  BY DEF IInv
<1>0. ~Fault
  BY <1>t, FaultType
<1>h. ASSUME faults = 0
      PROVE (\A c \in Cmd : Healthy(c) => HeldCmd(c)) /\ HeldOffer /\ HeldCur
  BY <1>h DEF Held
<1>1. CASE \/ SendClaim \/ NothingClaimed \/ Refuse \/ Executed \/ Restart
  <2>1. /\ UNCHANGED <<status, attempt, lease, runs, wire, offer, cur, faults>>
        /\ phase' \notin {"extend", "run", "busy"}
    BY <1>1 DEF SendClaim, NothingClaimed, Refuse, Executed, Restart, queueVars, wireVars,
       histVars
  <2> QED BY <2>1, <1>h, HeldCmdKept DEF HeldOffer, HeldCur
<1>2. CASE GotClaim
  <2>1. /\ UNCHANGED <<status, attempt, lease, runs, wire, faults>>
        /\ phase' = "extend" /\ cur' = offer /\ offer # None /\ offer' = None /\ cur = None
    BY <1>2, <1>t DEF GotClaim, queueVars, histVars, TypeOK
  <2> QED BY <2>1, <1>h, HeldCmdKept DEF HeldOffer, HeldCur
<1>3. CASE SkipExtend
  <2>1. /\ UNCHANGED <<status, attempt, lease, runs, wire, offer, cur, faults>>
        /\ phase = "extend" /\ phase' = "run" /\ ~LeaseExtended(KindOf[cur.cmd])
    BY <1>3 DEF SkipExtend, queueVars, wireVars, histVars
  <2>2. cur # None /\ cur.cmd \in Cmd
    BY <2>1, <1>t, CurType DEF TypeOK
  <2>3. Cap(cur.cmd) = Lease
    BY <2>1, <2>2, CapType
  <2> QED BY <2>1, <2>3, <1>h, HeldCmdKept DEF HeldOffer, HeldCur, Cap
<1>4. CASE ExtendLease
  <2>1. /\ UNCHANGED <<status, attempt, runs, wire, offer, cur, faults>>
        /\ lease' = [lease EXCEPT ![cur.cmd] = @ + Extension]
        /\ phase = "extend" /\ phase' = "run" /\ LeaseExtended(KindOf[cur.cmd])
    BY <1>4 DEF ExtendLease, wireVars, histVars
  <2>2. cur # None /\ cur.cmd \in Cmd /\ offer = None
    BY <2>1, <1>t, CurType DEF TypeOK, Single
  <2>3. Cap(cur.cmd) = Lease + Extension
    BY <2>1, <2>2, CapType
  <2>4. /\ lease \in [Cmd -> Nat]
        /\ lease'[cur.cmd] = lease[cur.cmd] + Extension
        /\ \A c \in Cmd : lease'[c] >= lease[c]
    BY <2>1, <2>2, <1>t DEF TypeOK
  <2>5. \A c \in Cmd : Healthy(c) => HeldCmd(c)'
    BY <2>1, <2>4, <1>h DEF HeldCmd
  <2>6. HeldCur'
    BY <2>1, <2>3, <2>4, <1>h DEF HeldCur, Cap
  <2> QED BY <2>1, <2>2, <2>5, <2>6 DEF HeldOffer
<1>5. CASE Execute
  <2>1. /\ UNCHANGED <<status, attempt, lease, wire, offer, cur, faults>>
        /\ runs' = [runs EXCEPT ![cur.cmd] = @ + 1]
        /\ phase = "run" /\ phase' = "busy" /\ elapsed' = 0
    BY <1>5 DEF Execute, queueVars, wireVars
  <2>2. cur # None /\ cur.cmd \in Cmd /\ offer = None
    BY <2>1, <1>t, CurType DEF TypeOK, Single
  <2>3. /\ runs'[cur.cmd] = runs[cur.cmd] + 1
        /\ \A c \in Cmd : c # cur.cmd => runs'[c] = runs[c]
        /\ runs \in [Cmd -> Nat] /\ attempt \in [Cmd -> Nat] /\ lease \in [Cmd -> Nat]
    BY <2>1, <2>2, <1>t DEF TypeOK
  <2>4. \A c \in Cmd : Healthy(c) => HeldCmd(c)'
    BY <2>1, <2>2, <2>3, <1>h DEF HeldCmd, HeldCur
  <2>5. HeldCur'
    BY <2>1, <2>2, <2>3, <1>h DEF HeldCur, Cap
  <2> QED BY <2>1, <2>2, <2>4, <2>5 DEF HeldOffer
<1>6. CASE PostResult
  <2>1. /\ UNCHANGED <<status, attempt, lease, runs, offer, faults>>
        /\ phase = "report" /\ cur' = None
        /\ wire' = wire \cup {[cmd |-> cur.cmd, attempt |-> cur.attempt,
                               success |-> ReportsSuccess(KindOf[cur.cmd])]}
    BY <1>6 DEF PostResult, queueVars, histVars
  <2>2. cur # None /\ cur.attempt = attempt[cur.cmd] /\ offer = None
    BY <2>1, <1>t DEF TypeOK, Single, Current
  <2>3. \E r \in wire' : r.cmd = cur.cmd /\ r.attempt = attempt[cur.cmd]
    <3> DEFINE r == [cmd |-> cur.cmd, attempt |-> cur.attempt,
                     success |-> ReportsSuccess(KindOf[cur.cmd])]
    <3>1. r \in wire'
      BY <2>1
    <3>2. r.cmd = cur.cmd /\ r.attempt = attempt[cur.cmd]
      BY <2>2
    <3> QED BY <3>1, <3>2
  <2>4. \A c \in Cmd : Healthy(c) => HeldCmd(c)'
    BY <2>1, <2>2, <2>3, <1>h DEF HeldCmd
  <2> QED BY <2>1, <2>2, <2>4 DEF HeldOffer, HeldCur
<1>7. CASE Panic
  <2>1. /\ UNCHANGED <<status, attempt, lease, runs, wire, faults>>
        /\ cur' = None /\ offer' = None /\ phase = "report" /\ cur.cmd \in Unclippable
    BY <1>7 DEF Panic, ProcessEnds, queueVars, ClipPanics
  <2>2. cur # None /\ cur.cmd \in Cmd /\ offer = None
    BY <2>1, <1>t, CurType DEF TypeOK, Single
  <2>3. ~Healthy(cur.cmd)
    BY <2>1, <2>2, CapType
  <2>4. \A c \in Cmd : Healthy(c) => c # cur.cmd
    BY <2>3
  <2>5. \A c \in Cmd : Healthy(c) => HeldCmd(c)'
    BY <2>1, <2>2, <2>4, <1>h, HeldCmdKept
  <2> QED BY <2>1, <2>5 DEF HeldOffer, HeldCur
<1>8. CASE CpClaims
  <2>1. PICK c \in Cmd :
          /\ Claimable(c)
          /\ status' = [status EXCEPT ![c] = "leased"]
          /\ attempt' = [attempt EXCEPT ![c] = @ + 1]
          /\ lease' = [lease EXCEPT ![c] = Lease]
          /\ offer' = [cmd |-> c, attempt |-> attempt[c] + 1]
    BY <1>8 DEF CpClaims
  <2>2. /\ UNCHANGED <<phase, cur, wire, runs, faults>> /\ offer = None /\ phase = "claim"
    BY <1>8 DEF CpClaims, agentVars, histVars
  <2>3. cur = None /\ offer' # None
    BY <2>1, <2>2, <1>t, NextTypeOK, QueueSentinel DEF TypeOK, Claim
  <2>4. /\ status'[c] = "leased" /\ attempt'[c] = attempt[c] + 1 /\ lease'[c] = Lease
        /\ attempt \in [Cmd -> Nat] /\ runs \in [Cmd -> Nat] /\ status[c] = "pending"
        /\ \A d \in Cmd : d # c =>
             status'[d] = status[d] /\ attempt'[d] = attempt[d] /\ lease'[d] = lease[d]
    BY <2>1, <1>t DEF TypeOK, Claimable
  <2>5. Healthy(c) => runs[c] = 0 /\ attempt[c] = 0
    BY <2>2, <2>4, <1>h DEF HeldCmd
  <2>6. Healthy(c) => HeldCmd(c)'
    BY <2>1, <2>2, <2>3, <2>4, <2>5 DEF HeldCmd
  <2>7. \A d \in Cmd : d # c /\ Healthy(d) => HeldCmd(d)'
    BY <2>2, <2>3, <2>4, <1>h DEF HeldCmd
  <2>8. HeldOffer'
    BY <2>1, <2>2, <2>4, <2>5 DEF HeldOffer
  <2> QED BY <2>2, <2>3, <2>6, <2>7, <2>8 DEF HeldCur
<1>9. CASE CpTakes
  <2>1. PICK r \in wire :
          /\ wire' = wire \ {r}
          /\ \/ /\ r.attempt = attempt[r.cmd]
                /\ status[r.cmd] \in {"leased", "pending"}
                /\ status' = [status EXCEPT ![r.cmd] = IF r.success THEN "ok" ELSE "failed"]
                /\ lease' = [lease EXCEPT ![r.cmd] = 0]
             \/ /\ r.attempt # attempt[r.cmd] \/ status[r.cmd] = "pending"
                /\ UNCHANGED <<status, lease>>
    BY <1>9 DEF CpTakes
  <2>2. UNCHANGED <<phase, cur, elapsed, attempt, offer, runs, faults>>
    BY <1>9 DEF CpTakes, agentVars, histVars
  <2>3. r.cmd \in Cmd /\ r.attempt \in Nat /\ r.attempt <= attempt[r.cmd]
    BY <1>t DEF TypeOK, Result, Single
  <2>4. CASE /\ UNCHANGED <<status, lease>>
             /\ (r.attempt # attempt[r.cmd] \/ status[r.cmd] = "pending")
    <3>1. \A c \in Cmd : Healthy(c) => HeldCmd(c)'
      BY <2>1, <2>2, <2>4, <1>h DEF HeldCmd
    <3> QED BY <2>2, <2>4, <3>1, <1>h DEF HeldOffer, HeldCur, Cap
  <2>5. CASE /\ r.attempt = attempt[r.cmd]
             /\ status' = [status EXCEPT ![r.cmd] = IF r.success THEN "ok" ELSE "failed"]
             /\ lease' = [lease EXCEPT ![r.cmd] = 0]
    <3>1. /\ status'[r.cmd] \in {"ok", "failed"}
          /\ \A c \in Cmd : c # r.cmd => status'[c] = status[c] /\ lease'[c] = lease[c]
      BY <2>3, <2>5, <1>t DEF TypeOK
    <3>2. \A c \in Cmd : Healthy(c) => HeldCmd(c)'
      BY <2>1, <2>2, <3>1, <1>h DEF HeldCmd
    <3>3. (offer # None => offer.cmd \in Cmd /\ offer.cmd # r.cmd)
      BY <2>5, <1>t, OfferType DEF Single, Current
    <3>4. (cur # None => cur.cmd \in Cmd /\ cur.cmd # r.cmd)
      BY <2>5, <1>t, CurType DEF Single, Current
    <3>5. HeldOffer' /\ HeldCur'
      BY <2>2, <3>1, <3>3, <3>4, <1>h DEF HeldOffer, HeldCur, Cap
    <3> QED BY <3>2, <3>5
  <2> QED BY <2>1, <2>4, <2>5
<1>10. CASE CpExpires
  <2>1. PICK c \in Cmd :
          status[c] = "leased" /\ lease[c] = 0 /\ status' = [status EXCEPT ![c] = "pending"]
    BY <1>10 DEF CpExpires
  <2>2. UNCHANGED <<phase, cur, elapsed, attempt, lease, offer, wire, runs, faults>>
    BY <1>10 DEF CpExpires, agentVars, wireVars, histVars
  <2>3. ~Healthy(c)
    BY <2>1, <2>2, <1>h DEF HeldCmd
  <2>4. \A d \in Cmd : Healthy(d) => status'[d] = status[d]
    BY <2>1, <2>3, <1>t DEF TypeOK
  <2>5. \A d \in Cmd : Healthy(d) => HeldCmd(d)'
    BY <2>2, <2>4, <1>h DEF HeldCmd
  <2> QED BY <2>2, <2>5, <1>h DEF HeldOffer, HeldCur, Cap
<1>11. CASE ClaimFails \/ ExtendFails \/ LoseResult \/ Kill
  BY <1>11, <1>0 DEF ClaimFails, ExtendFails, LoseResult, Kill
<1>12. CASE Tick
  <2>1. wire = {} /\ UNCHANGED faults
    BY <1>12, <1>0 DEF Tick
  <2>2. /\ UNCHANGED <<cur, status, attempt, offer, wire, runs>>
        /\ phase \in {"sleep", "down"} \/ (phase = "busy" /\ elapsed < MaxRun[cur.cmd])
        /\ lease' = [c \in Cmd |-> IF lease[c] > 0 THEN lease[c] - 1 ELSE 0]
        /\ phase = "busy" => elapsed' = elapsed + 1 /\ phase' = "busy"
        /\ phase # "busy" => phase' \in {"idle", "down"}
    BY <1>12 DEF Tick, wireVars, histVars
  <2>3. offer = None /\ (cur # None <=> phase = "busy") /\ lease \in [Cmd -> Nat] /\ elapsed \in Nat
    BY <2>2, <1>t DEF TypeOK, Single
  <2>4. \A c \in Cmd : Healthy(c) /\ status[c] = "leased" => cur # None /\ cur.cmd = c
    BY <2>1, <2>3, <1>h DEF HeldCmd
  <2>5. ASSUME cur # None, Healthy(cur.cmd)
        PROVE  /\ lease'[cur.cmd] > 0 /\ lease'[cur.cmd] + elapsed' = Cap(cur.cmd)
               /\ elapsed' <= MaxRun[cur.cmd] /\ phase' = "busy"
    <3>1. /\ cur.cmd \in Cmd /\ phase = "busy" /\ elapsed < MaxRun[cur.cmd]
          /\ MaxRun[cur.cmd] \in Nat /\ Cap(cur.cmd) \in Nat /\ MaxRun[cur.cmd] < Cap(cur.cmd)
      BY <2>2, <2>3, <2>5, <1>t, CurType, CapType
    <3>2. lease[cur.cmd] + elapsed = Cap(cur.cmd) /\ lease[cur.cmd] \in Nat
      BY <2>1, <2>3, <2>5, <3>1, <1>h DEF HeldCur
    <3>3. lease[cur.cmd] > 1 /\ lease'[cur.cmd] = lease[cur.cmd] - 1
      BY <2>2, <2>3, <3>1, <3>2
    <3> QED BY <2>2, <2>3, <3>1, <3>2, <3>3
  <2>6. \A c \in Cmd : Healthy(c) => HeldCmd(c)'
    BY <2>1, <2>2, <2>4, <2>5, <1>h DEF HeldCmd
  <2>7. HeldCur'
    BY <2>2, <2>5 DEF HeldCur, Cap
  <2> QED BY <2>2, <2>3, <2>6, <2>7 DEF HeldOffer
<1>13. CASE OrphanEnds \/ UNCHANGED vars
  BY <1>13, <1>h DEF OrphanEnds, vars, agentVars, queueVars, wireVars, histVars, HeldCmd,
     HeldOffer, HeldCur, Cap
<1> QED
  BY <1>1, <1>2, <1>3, <1>4, <1>5, <1>6, <1>7, <1>8, <1>9, <1>10, <1>11, <1>12, <1>13
     DEF Next, Agent, Queue, Faulty

LEMMA InitHeld == Init => Held
BY QueueAssumption DEF Init, Held, HeldCmd, HeldOffer, HeldCur

\* Without a fault a command whose execution fits its lease is executed once:
\* maybe_extend_lease extends the lease before the execution starts, and one poll
\* runs one command to its report.
THEOREM NoRepeats == Spec => []NoFaultNoRepeat
<1>1. Init => Held
  BY InitHeld
<1>2. IInv /\ Held /\ [Next]_vars => Held'
  BY NextHeld
<1>3. IInv /\ Held => NoFaultNoRepeat
  BY DEF IInv, TypeOK, Held, HeldCmd, NoFaultNoRepeat
<1> QED BY <1>1, <1>2, <1>3, Invariance, PTL DEF Spec
=============================================================================
