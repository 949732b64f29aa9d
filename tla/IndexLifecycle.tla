---------------------------- MODULE IndexLifecycle ----------------------------
(***************************************************************************)
(* An index directory from the builder that fills it to the object that     *)
(* opens it: IvfBuilder::Build and WriteIndex (src/index/ivf_builder.cpp),  *)
(* IvfIndex::Open (src/index/ivf_index.cpp), Segment::Open                  *)
(* (src/storage/segment.cpp).  data.dat is DataFile's; of the other files   *)
(* the directory keeps which build wrote them and how much the kernel has.  *)
(*                                                                         *)
(* The process may die between any two steps, a write may fail, noticed or  *)
(* not, the directory may hold what an earlier build left, and a failed     *)
(* Open may be tried again.                                                 *)
(***************************************************************************)
EXTENDS DataFile

CONSTANTS
  PadMultiple,  \* dimensions that are no power of two are padded to this (64)
  Metrics,      \* config.metric
  MaxBuilds,    \* bound: builds into the directory
  MaxTries      \* bound: times Open of one object gets as far as the segment

VARIABLES
  configs,  \* the configuration of each build that was started
  dat_build, \* the build data.dat is of
  stage,    \* where WriteIndex of the last build is
  dir,      \* the files besides data.dat
  index     \* an IvfIndex object

lifecycleVars == <<datVars, configs, dat_build, stage, dir, index>>

Files == {"rotation", "rotated_centroids", "centroids", "clu", "meta", "sidecar"}
Missing == [build |-> 0, size |-> 0, table |-> << >>]
Current == Len(configs)

(* Build pads the vectors it clusters and encodes; data.dat keeps them as   *)
(* they came.                                                               *)
EffectiveDim(dim) == IF IsPowerOf2(dim) THEN dim ELSE RoundUpToMultiple(dim, PadMultiple)

(* Sizes as far as Open can tell them apart. *)
FullSize(f, b) ==
  IF f \in {"centroids", "rotated_centroids"} THEN EffectiveDim(configs[b].dim) ELSE 1
Whole(f) == dir[f].build > 0 /\ dir[f].size = FullSize(f, dir[f].build)
-----------------------------------------------------------------------------
(* Seeded fault: the metadata are written before the clusters. *)
NextStageMetaFirst ==
  [rotation |-> "rotated_centroids", rotated_centroids |-> "centroids",
   centroids |-> "open_data", open_data |-> "records", records |-> "meta",
   meta |-> "clu", clu |-> "sidecar", sidecar |-> "done"]

(* The order of WriteIndex. *)
NextStage ==
  [rotation |-> "rotated_centroids", rotated_centroids |-> "centroids",
   centroids |-> "open_data", open_data |-> "records", records |-> "clu",
   clu |-> "meta", meta |-> "sidecar", sidecar |-> "done"]

Working == stage \in DOMAIN NextStage

Build(dim, metric) ==
  /\ ~Working
  /\ Current < MaxBuilds
  /\ configs' = Append(configs, [dim |-> dim, metric |-> metric])
  /\ stage' = "rotation"
  /\ UNCHANGED <<datVars, dat_build, dir, index>>

(* An ofstream truncates the file, is checked after the write and closed by *)
(* its destructor, which tells nobody when the tail could not be written.   *)
WriteFile(f) ==
  /\ stage = f
  /\ \E size \in (FullSize(f, Current) - 1)..FullSize(f, Current) :
       /\ dir' = [dir EXCEPT ![f] = [build |-> Current, size |-> size, table |-> << >>]]
       /\ stage' \in {NextStage[f]}
                       \cup (IF size < FullSize(f, Current) THEN {"stopped"} ELSE {})
  /\ UNCHANGED <<datVars, configs, dat_build, index>>

WriteRotation == WriteFile("rotation")
WriteRotatedCentroids == WriteFile("rotated_centroids")
WriteCentroids == WriteFile("centroids")
WriteSegmentMeta == WriteFile("meta")
WriteBuildMetadata == WriteFile("sidecar")

(* Seeded fault: data.dat gets the vectors Build padded. *)
OpenDataEffective ==
  /\ stage = "open_data"
  /\ DatOpen(EffectiveDim(configs[Current].dim))
  /\ dat_build' = Current
  /\ stage' = NextStage[stage]
  /\ UNCHANGED <<configs, dir, index>>

OpenData ==
  /\ stage = "open_data"
  /\ DatOpen(configs[Current].dim)
  /\ dat_build' = Current
  /\ stage' = NextStage[stage]
  /\ UNCHANGED <<configs, dir, index>>

AddRecord ==
  /\ stage = "records"
  /\ \E payload \in Payloads :
       \/ WriteRecord(payload) /\ UNCHANGED stage
       \/ WriteRecordFails(payload) /\ stage' = "stopped"
  /\ UNCHANGED <<configs, dat_build, dir, index>>

FinishData ==
  /\ stage = "records" /\ Len(issued) = MaxRecords
  /\ DatFinalize
  /\ stage' = NextStage[stage]
  /\ UNCHANGED <<configs, dat_build, dir, index>>

(* The clusters with their addresses.  ClusterStore has the writer: its     *)
(* Finalize returns OK for a complete file only.                            *)
WriteClusters ==
  /\ stage = "clu"
  /\ \E size \in 0..1 :
       /\ dir' = [dir EXCEPT !["clu"] =
                   [build |-> Current, size |-> size,
                    table |-> EncodeRawTableV2(issued, DataPage)]]
       /\ stage' = IF size = 1 THEN NextStage[stage] ELSE "stopped"
  /\ UNCHANGED <<datVars, configs, dat_build, index>>

(* The process dies, or a file cannot be created. *)
Stop ==
  /\ Working
  /\ stage' = "stopped"
  /\ IF stage = "records" THEN DatAbandon ELSE UNCHANGED datVars
  /\ UNCHANGED <<configs, dat_build, dir, index>>
-----------------------------------------------------------------------------
(* IvfIndex::Open.  Each part takes the object as the parts before it left  *)
(* it; `failed` is where a file cannot be opened now although it is there,  *)
(* or "headless" when an unfinished cluster.clu has no head yet.            *)
Closed == [build |-> 0]
FreshIndex ==
  [ok |-> TRUE, open |-> FALSE, meta |-> 0, dim |-> 0, logical_dim |-> 0,
   metric |-> "l2", centroids |-> 0, normalized |-> 0, rotation |-> 0,
   rotated_centroids |-> 0, schemas |-> << >>, clu |-> Closed, dat |-> Closed]

Failed(i) == [i EXCEPT !.ok = FALSE]
CanOpen(f, failed) == dir[f].build > 0 /\ f # failed

(* The metric and the dimension of data.dat are in the sidecar alone.  If   *)
(* it is missing the metric stays what the object had.                      *)
SidecarMetric(i, failed) ==
  IF ~CanOpen("sidecar", failed) THEN i.metric
  ELSE IF Whole("sidecar") THEN configs[dir["sidecar"].build].metric
  ELSE "l2"
SidecarDim(failed, dim) ==
  IF CanOpen("sidecar", failed) /\ Whole("sidecar")
  THEN configs[dir["sidecar"].build].dim ELSE dim

OpenMeta(i, failed) ==
  IF ~CanOpen("meta", failed) \/ ~Whole("meta") THEN Failed(i)
  ELSE LET dim == EffectiveDim(configs[dir["meta"].build].dim)
       IN  [i EXCEPT !.meta = dir["meta"].build, !.dim = dim,
                     !.metric = SidecarMetric(i, failed),
                     !.logical_dim = SidecarDim(failed, dim)]

(* Only a file that is too short is noticed. *)
OpenCentroids(i, failed) ==
  IF ~CanOpen("centroids", failed) \/ dir["centroids"].size < i.dim THEN Failed(i)
  ELSE [i EXCEPT !.centroids = dir["centroids"].build,
                 !.normalized = IF i.metric = "cosine" THEN dir["centroids"].build
                                ELSE i.normalized]

OpenRotation(i, failed) ==
  IF ~CanOpen("rotation", failed) \/ ~Whole("rotation") THEN Failed(i)
  ELSE IF EffectiveDim(configs[dir["rotation"].build].dim) # i.dim THEN Failed(i)
  ELSE [i EXCEPT !.rotation = dir["rotation"].build]

OpenRotatedCentroids(i, failed) ==
  IF ~CanOpen("rotated_centroids", failed) \/ dir["rotated_centroids"].size < i.dim
  THEN Failed(i)
  ELSE [i EXCEPT !.rotated_centroids = dir["rotated_centroids"].build]

(* The schemas are appended to what the object has.  The cluster reader is  *)
(* opened first and refuses to be opened twice; when data.dat then fails it *)
(* stays open.  An unfinished cluster.clu opens if its head is there.       *)
OpenSegment(i, failed) ==
  LET s == [i EXCEPT !.schemas = @ \o Schemas]
      c == [s EXCEPT !.clu = dir["clu"]]
  IN  IF s.clu # Closed \/ ~CanOpen("clu", failed) THEN Failed(s)
      ELSE IF dir["clu"].size = 0 /\ failed = "headless" THEN Failed(s)
      ELSE IF dat_build = 0 \/ failed = "data" THEN Failed(c)
      ELSE [c EXCEPT !.dat = [build |-> dat_build, dim |-> i.logical_dim,
                              schemas |-> s.schemas],
                     !.open = TRUE]

OpenResult(object, failed) ==
  LET then(i, next) == IF i.ok THEN next ELSE i
      i1 == OpenMeta([object EXCEPT !.ok = TRUE], failed)
      i2 == then(i1, OpenCentroids(i1, failed))
      i3 == then(i2, OpenRotation(i2, failed))
      i4 == then(i3, OpenRotatedCentroids(i3, failed))
  IN  then(i4, OpenSegment(i4, failed))

Open(failed) ==
  /\ ~index.open
  /\ Len(index.schemas) < MaxTries * Len(Schemas)
  /\ index' = OpenResult(index, failed)
  /\ UNCHANGED <<datVars, configs, dat_build, stage, dir>>

(* The object is destroyed and another one constructed. *)
Discard ==
  /\ index # FreshIndex
  /\ index' = FreshIndex
  /\ UNCHANGED <<datVars, configs, dat_build, stage, dir>>
-----------------------------------------------------------------------------
ASSUME LifecycleAssumption == PadMultiple \in Nat \ {0} /\ MaxBuilds \in Nat

Init ==
  /\ DatInit
  /\ configs = << >>
  /\ dat_build = 0
  /\ stage = "idle"
  /\ dir = [f \in Files |-> Missing]
  /\ index = FreshIndex

Next ==
  \/ \E dim \in RawDims, metric \in Metrics : Build(dim, metric)
  \/ WriteRotation \/ WriteRotatedCentroids \/ WriteCentroids
  \/ OpenData \/ AddRecord \/ FinishData \/ WriteClusters
  \/ WriteSegmentMeta \/ WriteBuildMetadata
  \/ Stop
  \/ \E failed \in {"none", "headless", "clu", "data"} : Open(failed)
  \/ Discard

Spec == Init /\ [][Next]_lifecycleVars
-----------------------------------------------------------------------------
AllOf(i, b) ==
  /\ {i.meta, i.centroids, i.rotation, i.rotated_centroids, i.clu.build, i.dat.build}
       = {b}
  /\ i.metric = "cosine" => i.normalized = b

(* An index that opens is that of one build and is whole, whenever the      *)
(* builder stopped: segment.meta comes after all it speaks of, and what a   *)
(* destructor failed to write is missed by Open.  For a directory that held *)
(* no index before; of what a rebuild overwrites nothing is claimed.  Only  *)
(* data.dat may be short.                                                   *)
OpenedIsOneBuild ==
  index.open /\ Current = 1 =>
    /\ AllOf(index, 1)
    /\ \A f \in Files \ {"sidecar"} : Whole(f)
    /\ Len(issued) = MaxRecords

(* The object reads data.dat the way it was written. *)
ReaderMatches(i) == i.dat.dim = raw_dim /\ i.dat.schemas = Schemas

OwnRecord(i, r, addr) ==
  ReadRecord(addr, i.dat.dim, i.dat.schemas)
    = {[ok |-> TRUE, vec |-> OwnVector(r), columns |-> OwnColumns(r)]}
OwnVectorRead(i, r, addr) ==
  ReadVector(addr, i.dat.dim) = [ok |-> TRUE, vec |-> OwnVector(r)]

(* The address a cluster has for a record leads to that record, its vector  *)
(* and every column of its payload, or to an error when data.dat lost its   *)
(* tail: never to other bytes.  From the offsets WriteRecord counts over    *)
(* the table of cluster.clu to the parser of the reader.                    *)
RecordIsOwnOrError ==
  index.open /\ index.clu.build = dat_build /\ stage \notin {"open_data", "records"}
    /\ ReaderMatches(index)
  => \A r \in 1..Len(issued) :
       LET addr == Decode(index.clu.table).entries[r]
       IN  /\ \/ OwnRecord(index, r, addr)
              \/ ReadRecord(addr, index.dat.dim, index.dat.schemas) = {ReadError}
           /\ \/ OwnVectorRead(index, r, addr)
              \/ ReadVector(addr, index.dat.dim) = ReadError

(* A build that returned OK and lost nothing on the way opens, whatever an  *)
(* earlier build left in the directory, and serves every record.            *)
FinishedBuildOpens ==
  stage = "done" /\ (\A f \in Files : Whole(f)) /\ persisted = Len(stream) =>
    LET i == OpenResult(FreshIndex, "headless")
    IN  /\ i.open
        /\ AllOf(i, Current) /\ i.metric = configs[Current].metric
        /\ ReaderMatches(i)
        /\ \A r \in 1..MaxRecords :
             LET addr == Decode(i.clu.table).entries[r]
             IN  OwnRecord(i, r, addr) /\ OwnVectorRead(i, r, addr)

(* data_file_reader.h:45 requires of Open that dimension and schemas "must  *)
(* match writer".  They do not after a crash before build_metadata.json,    *)
(* which alone has the dimension, nor when Open is retried on an object     *)
(* that kept the schemas of the first try.                                  *)
DataReaderMatchesWriter == index.open /\ Current = 1 => ReaderMatches(index)
=============================================================================
