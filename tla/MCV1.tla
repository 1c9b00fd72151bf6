-------------------------------- MODULE MCV1 --------------------------------
(* Instances of version 1 for TLC. *)
EXTENDS V1Reindex

CONSTANTS b, c, a

Metric(action, new, old, bytes, objects) ==
  [action |-> action, bucket |-> b, account |-> a,
   new |-> new, old |-> old, bytes |-> bytes, objects |-> objects]

AllMetrics ==
  { Metric("putObject", 2, Nil, Nil, Nil), Metric("putObject", 1, 2, Nil, Nil),
    Metric("getObject", 2, Nil, Nil, Nil), Metric("deleteObject", Nil, Nil, 2, 1),
    Metric("uploadPart", 1, Nil, Nil, Nil),
    Metric("completeMultipartUpload", Nil, Nil, Nil, Nil),
    Metric("completeMultipartUpload", Nil, 2, Nil, Nil),
    Metric("putDeleteMarkerObject", Nil, Nil, 2, Nil),
    Metric("deleteBucket", Nil, Nil, Nil, Nil) }

\* Of two pushes, the second is of one of these: enough to follow any first one
\* by one that moves up, moves down, or expires its keys.
SecondMetrics ==
  { Metric("putObject", 1, 2, Nil, Nil), Metric("putDeleteMarkerObject", Nil, Nil, 2, Nil),
    Metric("deleteBucket", Nil, Nil, Nil, Nil) }

OwnerOf == (b :> a) @@ (c :> a)
ChangesOf == {<<b, <<1, 1>>>>, <<c, <<1, 1>>>>}
UploadsOf == (b :> 1) @@ (c :> 0)

\* Where several faults meet, every push is of this metric, which Redis counts in
\* one transaction.
ReplayedMetric == Metric("getObject", 2, Nil, Nil, Nil)

\* Which of the three instances a behaviour belongs to: clients that push every
\* kind of metric, with a job of the replay and one fault; two jobs and up to
\* MaxFaults faults, in one period and with metrics of one kind; or the reindex
\* beside a client, with one fault.
VARIABLE scene

Wrong(r) == generateStateKey(r, "storageUtilized") :> {<<0, 3>>}
              @@ generateCounter(r, "storageUtilizedCounter") :> 3

MCInit ==
  /\ ReindexInit
  /\ \/ /\ scene \in {"clients", "replays"}
        /\ Init
        /\ contents = [x \in Buckets |-> {}] /\ exists = {}
     \/ /\ scene = "reindex"
        /\ now = 0 /\ faults = 0 /\ list = <<>> /\ lock = FALSE /\ replay = [j \in Jobs |-> NoReplay]
        /\ push = [i \in Ids |-> NewPush] /\ log = [i \in Ids |-> <<>>]
        /\ doubts = {} /\ muddled = FALSE /\ dying = {}
        /\ db = Wrong(b) @@ Wrong(c) @@ Wrong(a)
        /\ exists = {b}
        /\ contents = (b :> {<<1, 1>>, <<2, 1>>, <<2, 2>>}) @@ (c :> {})

MCNext ==
  /\ UNCHANGED scene
  /\ \/ scene = "clients" /\ ClientNext /\ UNCHANGED reindexing
        /\ push'[2].metric \in SecondMetrics \cup {Nil}
        /\ replay'[2] = NoReplay
     \/ scene = "replays" /\ ClientNext /\ UNCHANGED reindexing
        /\ \A i \in Ids : push'[i].metric \in {ReplayedMetric, Nil}
        /\ now' = 0
     \/ scene = "reindex" /\ ReindexNext /\ push'[2] = NewPush
  /\ scene # "replays" => faults' <= 1

mcvars == <<allvars, scene>>

\* The fairness of each instance, an action of which is enabled only in it.
MCSpec ==
  /\ MCInit /\ [][MCNext]_mcvars
  /\ WF_mcvars(scene # "reindex" /\ ClientSteps /\ UNCHANGED <<reindexing, scene>>)
  /\ WF_mcvars(scene = "reindex" /\ Working /\ UNCHANGED scene)
  /\ WF_mcvars(scene = "reindex" /\ (\E i \in Ids : Proceed(i)) /\ UNCHANGED <<reindexing, scene>>)

\* What is said of one of the instances.
ClientsReplayed == scene # "reindex" => Replayed
ReindexHealed == scene = "reindex" => Healed
=============================================================================
