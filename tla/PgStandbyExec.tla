---------------------------- MODULE PgStandbyExec ----------------------------
(***************************************************************************)
(* Postgres: pg_standby_bootstrap, pg_standby_follow and pg_promote, as    *)
(* the docker commands they run against one data directory.                *)
(*                                                                         *)
(* The directory, the server and the helper containers are external.  A    *)
(* helper whose docker client was killed goes on at the daemon: until it   *)
(* ends it may interfere with the next execution.                          *)
(***************************************************************************)
EXTENDS ExecFrame

\* own: a primary's data.  standby: with recovery configuration for the server
\* "of"; promoting: the same, its promotion under way.  rewound: a former
\* primary set back by pg_rewind, without recovery configuration.  empty,
\* partial: cleared; half cleared, half copied or half rewound.  mixed: two
\* writers at once.
PgKind == {"own", "standby", "promoting", "rewound", "empty", "partial", "mixed"}
PgComplete == {"own", "standby", "promoting", "rewound"}
PgData == [kind : PgKind, of : Text \cup {None}]
PgHelper == [cmd : {"clear", "copy", "torncopy", "rewind"}, of : Text]

VARIABLES
  pgdata,     \* what PGDATA holds
  pgUp,       \* the container runs
  pgStray,    \* a helper left behind by a killed agent, or None
  rewindTook  \* history: pg_rewind succeeded in this execution

pgVars == <<pgdata, pgUp, pgStray, rewindTook>>

Pg(kind) == [kind |-> kind, of |-> None]
PgOf(kind, s) == [kind |-> kind, of |-> s]

PgInit ==
  /\ pgdata \in {Pg("own")}
                  \cup {PgOf("standby", h) : h \in Text \cap {p.primary_host : p \in Params}}
  /\ pgUp \in BOOLEAN
  /\ pgStray = None /\ rewindTook = FALSE

\* The server the execution names.
Host == goal.primary_host

InStandby(s) == template \in PgStandby /\ step = s

\* The helper goes on by itself once the agent is gone.
LeavesStray(cmd) == pgStray' = [cmd |-> cmd, of |-> Host] /\ Dies /\ Fault

-----------------------------------------------------------------------------
(* docker stop, and what follows whether or not it worked.                 *)

AfterStop == IF template = "pg_standby_bootstrap" THEN "clear" ELSE "rewind"

\* Variant of PgStop: follow leaves the stop to pg_rewind.
PgStopBootstrapOnly ==
  /\ InStandby("stop")
  /\ Proceed(AfterStop)
  /\ pgUp' = (pgUp /\ template = "pg_standby_follow")
  /\ dirty' = (pgStray # None)
  /\ rewindTook' = FALSE
  /\ NoFault
  /\ Keep /\ UNCHANGED <<pgdata, pgStray>>

\* A promotion under way does not survive the stop.
PgStop ==
  /\ InStandby("stop")
  /\ Proceed(AfterStop)
  /\ \/ /\ pgUp' = FALSE
        /\ pgdata' = IF pgdata.kind = "promoting" THEN PgOf("standby", pgdata.of) ELSE pgdata
        /\ dirty' = (pgStray # None)
        /\ NoFault
     \/ /\ dirty' = (pgUp \/ pgStray # None)
        /\ Fault
        /\ UNCHANGED <<pgdata, pgUp>>
  /\ rewindTook' = FALSE
  /\ Keep /\ UNCHANGED pgStray

\* pg_rewind needs a former primary, cleanly stopped; on a standby that has not
\* diverged it finds nothing to do.  Any failure leads to the full copy.
PgRewind ==
  /\ InStandby("rewind")
  /\ \/ /\ ~pgUp /\ pgdata.kind \in {"own", "rewound"}
        /\ pgdata' = PgOf("rewound", Host) /\ rewindTook' = TRUE
        /\ Proceed("start") /\ NoFault /\ UNCHANGED pgStray
     \/ /\ ~pgUp /\ pgdata.kind = "standby"
        /\ rewindTook' = TRUE
        /\ Proceed("start") /\ NoFault /\ UNCHANGED <<pgdata, pgStray>>
     \/ Proceed("clear") /\ NoFault /\ UNCHANGED <<pgdata, pgStray, rewindTook>>
     \/ /\ Fault
        /\ pgdata' = IF pgUp THEN pgdata ELSE Pg("partial")
        /\ Proceed("clear") /\ UNCHANGED <<pgStray, rewindTook>>
     \/ pgStray = None /\ LeavesStray("rewind") /\ UNCHANGED <<pgdata, rewindTook>>
  /\ Keep /\ UNCHANGED <<pgUp, dirty>>

-----------------------------------------------------------------------------
(* The full copy.                                                          *)

\* What a clearing leaves: files come back while somebody else writes.
Cleared ==
  CASE pgUp -> {Pg("empty"), Pg("mixed")}
    [] ~pgUp /\ pgStray # None /\ pgStray.cmd \in {"copy", "torncopy"} -> {Pg("empty"), Pg("partial")}
    [] OTHER -> {Pg("empty")}

\* A copy that is cleared away under its hands will not be complete.
StrayCleared ==
  IF pgStray # None /\ pgStray.cmd = "copy" THEN [pgStray EXCEPT !.cmd = "torncopy"] ELSE pgStray

PgClear ==
  /\ InStandby("clear")
  /\ \/ /\ pgdata' \in Cleared
        /\ pgStray' = StrayCleared
        /\ Proceed("backup") /\ NoFault
     \/ /\ pgdata' \in {pgdata, IF pgUp THEN Pg("mixed") ELSE Pg("partial")}
        /\ pgStray' = StrayCleared
        /\ Done("failed") /\ Fault
     \/ pgStray = None /\ LeavesStray("clear") /\ UNCHANGED pgdata
  /\ Keep /\ UNCHANGED <<pgUp, rewindTook, dirty>>

\* pg_basebackup refuses a directory that is not empty.
PgBackup ==
  /\ InStandby("backup")
  /\ IF pgdata.kind = "empty"
     THEN pgdata' = Pg("partial") /\ Proceed("copying")
     ELSE Done("failed") /\ UNCHANGED pgdata
  /\ NoFault
  /\ Keep /\ UNCHANGED <<pgUp, pgStray, rewindTook, dirty>>

\* Variant of PgCopyEnds: the container is started whatever became of the copy.
PgCopyEndsUnchecked ==
  /\ InStandby("copying")
  /\ \/ /\ pgdata' = PgOf("standby", Host)
        /\ NoFault
     \/ /\ pgdata' = Pg("partial")
        /\ Fault
  /\ Proceed("start")
  /\ Keep /\ UNCHANGED <<pgUp, pgStray, rewindTook, dirty>>

\* A copy that fails cleans up behind itself if it still can.
PgCopyEnds ==
  /\ InStandby("copying")
  /\ \/ /\ pgdata' = IF pgdata.kind = "partial" /\ ~pgUp /\ pgStray = None
                     THEN PgOf("standby", Host) ELSE Pg("mixed")
        /\ Proceed("start") /\ NoFault /\ UNCHANGED pgStray
     \/ /\ pgdata' \in {Pg("empty"), Pg("partial")}
        /\ Done("failed") /\ Fault /\ UNCHANGED pgStray
     \/ pgStray = None /\ LeavesStray("copy") /\ UNCHANGED pgdata
  /\ Keep /\ UNCHANGED <<pgUp, rewindTook, dirty>>

\* docker start succeeds also when the server in the container will not run.
PgStart ==
  /\ InStandby("start")
  /\ \/ /\ pgUp' = (pgUp \/ pgdata.kind \in PgComplete)
        /\ Done(classify_promote_outcome(template, TRUE, {})) /\ NoFault
     \/ pgUp' \in {pgUp, pgUp \/ pgdata.kind \in PgComplete} /\ Breaks
  /\ Keep /\ UNCHANGED <<pgdata, pgStray, rewindTook, dirty>>

-----------------------------------------------------------------------------
(* pg_promote, and what goes on without the agent.                         *)

\* A promotion that takes too long is reported as false with exit status 0.
\* What a primary says depends on the server: the text the code looks for, or
\* another one.
PgPromote ==
  /\ template = "pg_promote" /\ step = "exec"
  /\ \/ /\ pgUp /\ pgdata.kind \in {"standby", "promoting"}
        /\ pgdata' \in {Pg("own"), PgOf("promoting", pgdata.of)}
        /\ \/ Done(classify_promote_outcome(template, TRUE, {})) /\ NoFault
           \/ Breaks
     \/ /\ pgUp /\ pgdata.kind \in {"own", "rewound"}
        /\ \E said \in {{"not in recovery"}, {}} :
             Done(classify_promote_outcome(template, FALSE, said))
        /\ NoFault /\ UNCHANGED pgdata
     \/ /\ ~pgUp \/ pgdata.kind \notin PgComplete
        /\ Done(classify_promote_outcome(template, FALSE, {}))
        /\ NoFault /\ UNCHANGED pgdata
     \/ Breaks /\ UNCHANGED pgdata
  /\ Keep /\ UNCHANGED <<pgUp, pgStray, rewindTook, dirty>>

PgPromotionCompletes ==
  /\ pgUp /\ pgdata.kind = "promoting"
  /\ pgdata' = Pg("own")
  /\ UNCHANGED <<frameVars, pgUp, pgStray, rewindTook>>

\* What the stray helper did, seen when it ends.
StrayResult ==
  LET busy == pgUp \/ step \in {"copying", "start"} IN
  CASE pgStray.cmd = "clear" ->
         IF busy THEN Pg("mixed") ELSE Pg("empty")
    [] pgStray.cmd = "copy" ->
         IF ~busy /\ pgdata.kind = "partial" THEN PgOf("standby", pgStray.of) ELSE Pg("mixed")
    [] pgStray.cmd = "torncopy" ->
         IF ~busy /\ pgdata.kind \in {"empty", "partial"} THEN Pg("partial") ELSE Pg("mixed")
    [] OTHER ->
         IF ~busy /\ pgdata.kind = "own" THEN PgOf("rewound", pgStray.of) ELSE Pg("mixed")

PgStrayEnds ==
  /\ pgStray # None
  /\ pgdata' \in {pgdata, StrayResult}
  /\ pgStray' = None
  /\ UNCHANGED <<frameVars, pgUp, rewindTook>>

PgAgent ==
  PgStop \/ PgRewind \/ PgClear \/ PgBackup \/ PgCopyEnds \/ PgStart \/ PgPromote

PgNext == PgAgent \/ PgPromotionCompletes \/ PgStrayEnds

-----------------------------------------------------------------------------
(* Properties.                                                             *)

PgTypeOK ==
  /\ pgdata \in PgData
  /\ pgUp \in BOOLEAN
  /\ pgStray \in PgHelper \cup {None}
  /\ rewindTook \in BOOLEAN

\* Neither did docker stop fail on a running server, nor was a helper of a
\* killed execution still at work.
Undisturbed == ~dirty /\ pgStray = None

\* A bootstrap answered as a success leaves a running standby of the server it
\* named, and so does a follow that came to the full copy.  Where pg_rewind
\* succeeded, the follow leaves what FollowIsStandby is about: running, set back
\* to the server it named or the standby it was (run_standby_bootstrap,
\* run_standby_follow).
StandbyAnswerTrue ==
  Answered /\ reply = "ok" /\ template \in PgStandby /\ Undisturbed =>
    /\ pgUp
    /\ IF rewindTook
       THEN pgdata = PgOf("rewound", Host) \/ pgdata.kind = "standby"
       ELSE pgdata = PgOf("standby", Host)

\* The data directory is rewound, cleared or copied into only while no server
\* runs on it, with the same exceptions (the stop whose result is ignored).
RunningNotWiped ==
  InStandby("rewind") \/ InStandby("clear") \/ InStandby("backup") \/ InStandby("copying")
    => ~pgUp \/ dirty

-----------------------------------------------------------------------------
(* What the documentation says and the code does not do.                   *)

\* pg_standby_follow ends with the server started as a standby of the new
\* primary (the doc of TemplatedExecId::PgStandbyFollow): no standby.signal and
\* no primary_conninfo are written when pg_rewind succeeds.
FollowIsStandby ==
  Answered /\ reply = "ok" /\ template = "pg_standby_follow" /\ Undisturbed =>
    pgdata = PgOf("standby", Host)
=============================================================================
