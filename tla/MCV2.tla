-------------------------------- MODULE MCV2 --------------------------------
(* Instances of the tasks of version 2 beside the store for TLC. *)
EXTENDS V2Tasks

CONSTANTS b, c, a

OwnerOf == (b :> a) @@ (c :> a)
UploadsOf == (b :> 2) @@ (c :> 0)

\* A name with two versions, one whose latest is a delete marker, one without
\* versions, and one more in c.
ContentsOf ==
  (b :> {<<1, 0, 2>>, <<1, 2, 2>>, <<1, 3, 1>>, <<2, 0, -1>>, <<2, 1, -1>>, <<2, 2, 3>>, <<3, 0, 1>>})
    @@ (c :> {<<1, 0, 1>>})

ChangesOf ==
  { [bucket |-> b, add |-> {<<4, 0, 1>>}, remove |-> {}],
    [bucket |-> b, add |-> {<<1, 0, 1>>}, remove |-> {<<1, 0, 2>>, <<1, 2, 2>>}],
    [bucket |-> b, add |-> {<<1, 0, -1>>, <<1, 1, -1>>}, remove |-> {<<1, 0, 2>>}],
    [bucket |-> c, add |-> {}, remove |-> {<<1, 0, 1>>}] }

HistoryOf == << <<1, 2>>, <<3, 5>>, <<5, 4>>, <<7, 6>> >>

\* What version 2 has of the resource when the migration begins, and the master
\* snapshot of its node.
Begins ==
  { << <<>>, -1 >>, << <<>>, 4 >>,
    << <<"snapshot", 6>> :> 1, 6 >>,
    << (<<"snapshot", 4>> :> 1) @@ (<<"snapshot", 6>> :> 3) @@ (<<"checkpoint", 8>> :> 1), 6 >>,
    << (<<"checkpoint", 8>> :> 1) @@ (<<"correction", 8>> :> 2), -1 >> }

\* Which of the components a behaviour belongs to; the other ones stay as they
\* begin.
VARIABLE scene

allV2 == <<storage, disk, migration, reindexVars>>

MCInit ==
  /\ scene \in {"storage", "disk", "migrate", "reindex"}
  /\ StorageInit
  /\ DiskInit /\ (scene # "disk" => usage = 0 /\ metricsOn)
  /\ MigrateInit
  /\ \E begin \in (IF scene = "migrate" THEN Begins ELSE {<< <<>>, -1 >>}) :
       series = begin[1] /\ master = begin[2]
  /\ Begun
  /\ ReindexV2Init /\ metadata = ContentsOf /\ MetadataKept

MCNext ==
  /\ UNCHANGED scene
  /\ \/ scene = "storage" /\ StorageNext /\ UNCHANGED <<disk, migration, reindexVars>>
     \/ scene = "disk" /\ DiskNext /\ UNCHANGED <<storage, migration, reindexVars>>
     \/ scene = "migrate" /\ MigrateNext /\ UNCHANGED <<storage, disk, reindexVars>>
     \/ scene = "reindex" /\ ReindexV2Next /\ UNCHANGED <<storage, disk, migration>>

mcvars == <<allV2, scene>>

OnDisk(action) == scene = "disk" /\ action /\ UNCHANGED <<storage, migration, reindexVars, scene>>

MCSpec ==
  /\ MCInit /\ [][MCNext]_mcvars
  /\ WF_mcvars(OnDisk(Expiring)) /\ WF_mcvars(OnDisk(CheckHardLimit)) /\ WF_mcvars(OnDisk(Pass))

\* What is said of the disk.
OldRecordsGone == scene = "disk" => ExpiredGone
DiskUpdatesFollow == scene = "disk" => UpdatesFollow
=============================================================================
