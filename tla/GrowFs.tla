-------------------------------- MODULE GrowFs --------------------------------
(***************************************************************************)
(* grow_fs: a mounted filesystem is grown to a volume that the cloud has   *)
(* enlarged.  The volume, its partition and the tools are external.        *)
(***************************************************************************)
EXTENDS ExecFrame

CONSTANT MaxVolume  \* bound: the largest size of the volume

ASSUME GrowAssumption == MaxVolume \in Nat \ {0}

VARIABLES
  mount,   \* what findmnt says: the source and the filesystem
  volume, partition, filesystem,  \* sizes
  asked    \* history: the size of the volume when the execution began

growVars == <<mount, volume, partition, filesystem, asked>>

\* partition: a name try_growpart takes apart as it should; misnamed: a
\* partition under another name; disk: no partition, whatever is tried.
Source == {"partition", "misnamed", "disk"}
GrowFsKind == {"ext", "xfs"}

GrowInit ==
  /\ mount \in [source : Source, fstype : GrowFsKind \cup {"other"}]
  /\ volume = 1 /\ partition = 1 /\ filesystem = 1 /\ asked = 0

AtGrow(s) == template = "grow_fs" /\ step = s

-----------------------------------------------------------------------------

\* The path is checked, then findmnt.  An Err of any step is an answer here.
AcceptGrow ==
  /\ engine = "host" /\ step = "idle"
  /\ template' = "grow_fs"
  /\ goal' = None
  /\ asked' = volume
  /\ faulted' = FALSE /\ dirty' = FALSE
  /\ \/ step' = "growpart" /\ reply' = "none" /\ mount.fstype \in GrowFsKind
     \/ Done("failed")
  /\ UNCHANGED <<engine, faults, mount, volume, partition, filesystem>>

\* Variant of try_growpart: a partition named like nvme0n1p1 is not taken apart.
try_growpart_digits ==
  /\ AtGrow("growpart")
  /\ Proceed("resize")
  /\ NoFault /\ UNCHANGED dirty
  /\ Keep /\ UNCHANGED <<mount, volume, partition, filesystem, asked>>

\* The result is not looked at.
try_growpart ==
  /\ AtGrow("growpart")
  /\ Proceed("resize")
  /\ \/ mount.source # "misnamed" /\ partition' = volume /\ NoFault /\ UNCHANGED dirty
     \/ mount.source = "misnamed" /\ dirty' = TRUE /\ NoFault /\ UNCHANGED partition
     \/ dirty' = TRUE /\ Fault /\ UNCHANGED partition
  /\ Keep /\ UNCHANGED <<mount, volume, filesystem, asked>>

\* Variant of Resize: the tool is told the size of the volume.
ResizeToVolume ==
  /\ AtGrow("resize")
  /\ filesystem' = volume /\ Done("ok") /\ NoFault
  /\ Keep /\ UNCHANGED <<dirty, mount, volume, partition, asked>>

\* resize2fs or xfs_growfs.  The text of an error is cut at byte 200, which
\* panics inside a character.
Resize ==
  /\ AtGrow("resize")
  /\ \/ filesystem' = partition /\ Done("ok") /\ NoFault
     \/ filesystem' \in {filesystem, partition} /\ Fails
  /\ Keep /\ UNCHANGED <<dirty, mount, volume, partition, asked>>

ExpandVolume ==
  /\ engine = "host"
  /\ volume < MaxVolume
  /\ volume' = volume + 1
  /\ partition' = IF mount.source = "disk" THEN volume + 1 ELSE partition
  /\ UNCHANGED <<frameVars, mount, filesystem, asked>>

GrowNext == AcceptGrow \/ try_growpart \/ Resize \/ ExpandVolume

-----------------------------------------------------------------------------

GrowTypeOK ==
  /\ mount \in [source : Source, fstype : GrowFsKind \cup {"other"}]
  /\ filesystem \in 1..volume /\ partition \in filesystem..volume
  /\ volume \in 1..MaxVolume /\ asked \in 0..volume

\* A filesystem answered as grown, or as already grown, covers the volume as it
\* was when the action began, whatever the cloud does meanwhile, unless growpart
\* failed or took the wrong name apart (grow_filesystem; its result is ignored).
GrowAnswerTrue ==
  Answered /\ reply = "ok" /\ template = "grow_fs" /\ ~dirty => filesystem >= asked
=============================================================================
