------------------------------- MODULE Shards -------------------------------
(***************************************************************************)
(* The shard files: src/scripts/make_shards.py deals the rows of the CSV   *)
(* out to one file per node, and a team node (loadShardPayload of          *)
(* src/team_node/team_node.cpp, _load_shard_payload of                     *)
(* src/python_server/server.py) reads its own when it starts, perhaps      *)
(* while make_shards.py runs or after it was killed.                       *)
(*                                                                         *)
(* A file is told by the run that wrote it and its length: the bytes of a  *)
(* run's records for that node up to there.  Of a row, Records says        *)
(* whether it can be converted.                                            *)
(***************************************************************************)
EXTENDS Records, Integers, FiniteSets, SequencesExt

CONSTANTS
    Names,         \* NODES, a sequence
    Leader,        \* has a file and does not read it
    Dirs,
    Roots,         \* the directories in which a node looks, in order
    Jobs,          \* directory, CSV and --limit of a run
    RecordSize,
    NoFile, Down, Sample,
    MaxRuns        \* bound of the model: runs of make_shards.py

Nodes == ToSet(Names)

ASSUME ShardsAssumption ==
    /\ Names \in Seq(Nodes) /\ IsInjective(Names) /\ Names # <<>>
    /\ Leader \in Nodes
    /\ Roots \in [Nodes \ {Leader} -> Seq(Dirs)]
    /\ Jobs \subseteq [dir : Dirs, rows : Seq(Rows), limit : Nat]
    /\ RecordSize \in Nat \ {0}
    /\ NoFile \notin [run : Nat, bytes : Nat]
    /\ MaxRuns \in Nat

VARIABLES
    jobs,          \* the runs so far
    stage,         \* of the last run
    at,            \* the file or the row it has come to
    counts,        \* records written, into the buffers
    disk,          \* the files
    payload        \* of the running nodes

vars == <<jobs, stage, at, counts, disk, payload>>

Data(r, b) == [run |-> r, bytes |-> b]

Run == Len(jobs)
Job == jobs[Run]

(* The rows of a job that come under its limit.                            *)
Used(job) ==
    IF job.limit = 0 \/ Len(job.rows) < job.limit THEN Len(job.rows) ELSE job.limit

MaxBytes(r) == RecordSize * Used(jobs[r])

(* No file outgrows its run; what a node serves of a run is not empty.     *)
TypeOK ==
    /\ jobs \in Seq(Jobs)
    /\ stage \in {"none", "open", "write", "close", "abort", "done", "failed"}
    /\ at \in Nat
    /\ counts \in [Nodes -> Nat]
    /\ disk \in [Dirs -> [Nodes -> {NoFile} \cup
                    UNION {{Data(r, b) : b \in 0 .. MaxBytes(r)} : r \in DOMAIN jobs}]]
    /\ payload \in [Nodes \ {Leader} -> {Down, Sample} \cup
                    UNION {{Data(r, b) : b \in 1 .. MaxBytes(r)} : r \in DOMAIN jobs}]

Init ==
    /\ jobs = <<>> /\ stage = "none" /\ at = 0
    /\ counts = [n \in Nodes |-> 0]
    /\ disk = [d \in Dirs |-> [n \in Nodes |-> NoFile]]
    /\ payload = [n \in Nodes \ {Leader} |-> Down]

-----------------------------------------------------------------------------
(* make_shards.py, one run at a time.                                      *)
Begin(job) ==
    /\ stage \in {"none", "done", "failed"} /\ Run < MaxRuns
    /\ jobs' = Append(jobs, job)
    /\ stage' = "open" /\ at' = 0
    /\ counts' = [n \in Nodes |-> 0]
    /\ UNCHANGED <<disk, payload>>

(* open(paths[n], "wb") empties what is there, file after file.            *)
Open ==
    /\ stage = "open"
    /\ disk' = [disk EXCEPT ![Job.dir][Names[at + 1]] = Data(Run, 0)]
    /\ IF at + 1 = Len(Names) THEN stage' = "write" /\ at' = 0
                              ELSE stage' = stage /\ at' = at + 1
    /\ UNCHANGED <<jobs, counts, payload>>

(* The row the loop has come to cannot be converted.                       *)
AtBadRow == at < Used(Job) /\ ~Packs(Job.rows[at + 1])

Deal(idx) == Names[(idx % Len(Names)) + 1]

WriteRow ==
    /\ stage = "write" /\ at < Used(Job) /\ ~AtBadRow
    /\ counts' = [counts EXCEPT ![Deal(at)] = @ + 1]
    /\ at' = at + 1
    /\ UNCHANGED <<jobs, stage, disk, payload>>

(* The end of the rows or the limit leads to the finally clause, and so    *)
(* does an exception, which goes on after it.                              *)
StopReading ==
    /\ stage = "write" /\ (at = Used(Job) \/ AtBadRow)
    /\ stage' = IF at = Used(Job) THEN "close" ELSE "abort"
    /\ at' = 0
    /\ UNCHANGED <<jobs, counts, disk, payload>>

Written(n) == RecordSize * counts[n]

(* Faulty: what is in the buffer is lost.                                  *)
CloseUnflushed ==
    /\ stage \in {"close", "abort"}
    /\ IF at + 1 = Len(Names)
       THEN stage' = (IF stage = "close" THEN "done" ELSE "failed") /\ at' = 0
       ELSE stage' = stage /\ at' = at + 1
    /\ UNCHANGED <<jobs, counts, disk, payload>>

Close ==
    /\ stage \in {"close", "abort"}
    /\ LET n == Names[at + 1]
       IN  disk' = [disk EXCEPT ![Job.dir][n] = Data(Run, Written(n))]
    /\ IF at + 1 = Len(Names)
       THEN stage' = (IF stage = "close" THEN "done" ELSE "failed") /\ at' = 0
       ELSE stage' = stage /\ at' = at + 1
    /\ UNCHANGED <<jobs, counts, payload>>

(* A buffer that runs full goes to the disk, and a reader may see any part *)
(* of that write.                                                          *)
Flush(n) ==
    /\ stage \in {"write", "close", "abort"}
    /\ \E b \in disk[Job.dir][n].bytes + 1 .. Written(n) :
           disk' = [disk EXCEPT ![Job.dir][n].bytes = b]
    /\ UNCHANGED <<jobs, stage, at, counts, payload>>

Kill ==
    /\ stage \in {"open", "write", "close", "abort"}
    /\ stage' = "failed" /\ at' = 0
    /\ UNCHANGED <<jobs, counts, disk, payload>>

-----------------------------------------------------------------------------
(* The directories of n that have a file for it.                           *)
Found(n) == {k \in DOMAIN Roots[n] : disk[Roots[n][k]][n] # NoFile}

(* Faulty: the directories are searched from the last.                     *)
LastFile(n) == IF Found(n) = {} THEN NoFile ELSE disk[Roots[n][Max(Found(n))]][n]

(* The first file found is read, whatever is in it.                        *)
FirstFile(n) == IF Found(n) = {} THEN NoFile ELSE disk[Roots[n][Min(Found(n))]][n]

(* Faulty: a part of a record is kept.                                     *)
Untrimmed(b) == b

Trimmed(b) == RecordSize * (b \div RecordSize)

(* Faulty: a shard without records is served.                              *)
ReadEmpty(n) ==
    LET file == FirstFile(n)
    IN  IF file = NoFile THEN Sample ELSE Data(file.run, Trimmed(file.bytes))

(* Sample data where there is no whole record.                             *)
Read(n) ==
    LET file == FirstFile(n)
    IN  IF file = NoFile THEN Sample
        ELSE IF Trimmed(file.bytes) = 0 THEN Sample
        ELSE Data(file.run, Trimmed(file.bytes))

Load(n) ==
    /\ payload[n] = Down
    /\ payload' = [payload EXCEPT ![n] = Read(n)]
    /\ UNCHANGED <<jobs, stage, at, counts, disk>>

(* The node's process ends.                                                *)
Stop(n) ==
    /\ payload[n] # Down
    /\ payload' = [payload EXCEPT ![n] = Down]
    /\ UNCHANGED <<jobs, stage, at, counts, disk>>

Next ==
    \/ \E job \in Jobs : Begin(job)
    \/ Open \/ WriteRow \/ StopReading \/ Close \/ Kill
    \/ \E n \in Nodes : Flush(n)
    \/ \E n \in Nodes \ {Leader} : Load(n) \/ Stop(n)

Spec == Init /\ [][Next]_vars

-----------------------------------------------------------------------------
Place(n) == SelectInSeq(Names, LAMBDA m : m = n)

(* How many rows of a run are for n: every Len(Names)-th, from its place.  *)
Share(job, n) ==
    Cardinality({idx \in 0 .. Used(job) - 1 :
                    \E k \in 0 .. idx : idx = k * Len(Names) + Place(n) - 1})

IsData(x) == x \notin {Down, Sample, NoFile}

(* Whenever a node starts, while files are emptied, written or were left   *)
(* by a run that failed, it serves whole records of its own rows, or       *)
(* sample data.                                                            *)
ServesOwnRows ==
    \A n \in Nodes \ {Leader} : IsData(payload[n]) =>
        /\ payload[n].bytes % RecordSize = 0
        /\ payload[n].bytes <= RecordSize * Share(jobs[payload[n].run], n)

(* One bad cell does not cost the other rows: an exception ends the        *)
(* writing only at a key that is no 32-bit number or a coordinate that is  *)
(* no float, and never for a cell that is missing, in whatever column.     *)
StopsForCause ==
    stage = "abort" =>
        \E k \in 1 .. Used(Job) :
            \/ Job.rows[k]["key"] \in {"huge", "other"}
            \/ "huge" \in {Job.rows[k]["latitude"], Job.rows[k]["longitude"]}

(* A run that ends well leaves each row it used in one file, and files of  *)
(* almost equal length.                                                    *)
AllRowsOnDisk ==
    stage = "done" =>
        LET len(n) == disk[Job.dir][n].bytes
        IN  /\ FoldSet(LAMBDA n, sum : len(n) + sum, 0, Nodes) = RecordSize * Used(Job)
            /\ \A m, n \in Nodes : len(m) <= len(n) + RecordSize

(* A node that starts after a run that ended well, and finds no file in a  *)
(* directory before the run's, serves all of its rows; if it has none it   *)
(* serves sample data as if they were rows.                                *)
StartsComplete ==
    [][\A n \in Nodes \ {Leader} :
          /\ Load(n) /\ stage = "done"
          /\ \E k \in DOMAIN Roots[n] :
                 /\ Roots[n][k] = Job.dir
                 /\ \A j \in 1 .. k - 1 : disk[Roots[n][j]][n] = NoFile
          => payload'[n] = IF Share(Job, n) = 0 THEN Sample
                           ELSE Data(Run, RecordSize * Share(Job, n))]_vars
=============================================================================
