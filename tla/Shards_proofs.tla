--------------------------- MODULE Shards_proofs ---------------------------
(***************************************************************************)
(* What TLAPS checks of Shards, for any cluster, any CSV files and limits, *)
(* any directories and any number of runs of make_shards.py.               *)
(***************************************************************************)
EXTENDS Shards, FiniteSetTheorems, WellFoundedInduction, TLAPS

(* The rows before the a-th that are dealt to n.                           *)
DealtTo(n, a) == {idx \in 0 .. a - 1 : Deal(idx) = n}

(* What a run that ends well leaves in the file of n.                      *)
WholeFile(r, n) == RecordSize * Share(jobs[r], n)

(* A file of n that run r has written in part or in whole.                 *)
FileOf(r, n) == {Data(r, b) : b \in 0 .. WholeFile(r, n)}

(* How far the last run has come.                                          *)
StageInv ==
    /\ jobs \in Seq(Jobs)
    /\ stage \in {"none", "open", "write", "close", "abort", "done", "failed"}
    /\ stage # "none" => Run >= 1
    /\ at \in Nat
    /\ stage \in {"open", "close", "abort"} => at < Len(Names)
    /\ stage = "write" => at <= Used(Job)

(* What it has in its buffers: the rows dealt so far.                      *)
CountsInv ==
    /\ counts \in [Nodes -> Nat]
    /\ \A n \in Nodes :
          /\ stage = "open" => counts[n] = 0
          /\ stage = "write" => counts[n] = Cardinality(DealtTo(n, at))
          /\ stage = "close" => counts[n] = Share(Job, n)
          /\ stage = "abort" => counts[n] <= Share(Job, n)

(* All files are of some run and within their share.                       *)
FilesOwned ==
    /\ disk \in [Dirs -> [Nodes -> {NoFile} \cup [run : Nat, bytes : Nat]]]
    /\ \A d \in Dirs, n \in Nodes :
          disk[d][n] # NoFile => \E r \in 1 .. Run : disk[d][n] \in FileOf(r, n)

(* The files of the last run are its own once they were opened.            *)
FilesOpened ==
    /\ stage = "open" =>
          \A j \in 1 .. at : disk[Job.dir][Names[j]] \in FileOf(Run, Names[j])
    /\ stage \in {"write", "close", "abort"} =>
          \A n \in Nodes : disk[Job.dir][n] \in FileOf(Run, n)

(* They are whole once they were closed, if no exception led there.        *)
FilesClosed ==
    /\ stage = "close" =>
          \A j \in 1 .. at : disk[Job.dir][Names[j]] = Data(Run, WholeFile(Run, Names[j]))
    /\ stage = "done" =>
          \A n \in Nodes : disk[Job.dir][n] = Data(Run, WholeFile(Run, n))

FilesInv == FilesOwned /\ FilesOpened /\ FilesClosed

(* What is served are whole records of some run's share.                   *)
PayloadInv ==
    /\ payload \in [Nodes \ {Leader} -> {Down, Sample} \cup [run : Nat, bytes : Nat]]
    /\ \A n \in Nodes \ {Leader} :
          payload[n] \notin {Down, Sample} =>
              \E r \in 1 .. Run : \E k \in 1 .. Share(jobs[r], n) :
                  payload[n] = Data(r, RecordSize * k)

(* An exception came from a row that cannot be converted.                  *)
AbortInv == stage = "abort" => \E k \in 1 .. Used(Job) : ~Packs(Job.rows[k])

ShardsInv ==
    /\ StageInv
    /\ CountsInv
    /\ FilesInv
    /\ PayloadInv
    /\ AbortInv

-----------------------------------------------------------------------------
(* The quotient and the remainder that tell a number are the ones that     *)
(* division gives.                                                         *)
LEMMA Division ==
    ASSUME NEW w \in Nat \ {0}, NEW k \in Nat, NEW r \in 0 .. w - 1
    PROVE  (k * w + r) % w = r /\ (k * w + r) \div w = k
<1> DEFINE x == k * w + r
           q == x \div w
           m == x % w
<1>1. x \in Nat
  OBVIOUS
<1>2. q \in Nat /\ m \in 0 .. w - 1 /\ x = q * w + m
  BY <1>1
<1>3. k * w + r = q * w + m /\ k * w \in Nat /\ q * w \in Nat
  BY <1>2
<1> HIDE DEF x, q, m
<1>4. ASSUME q < k PROVE FALSE
  <2>1. PICK e \in Nat : k = q + 1 + e
    BY <1>2, <1>4
  <2>2. k * w = q * w + w + e * w /\ e * w \in Nat
    BY <1>2, <2>1
  <2>3. QED
    BY <1>2, <1>3, <2>2
<1>5. ASSUME k < q PROVE FALSE
  <2>1. PICK e \in Nat : q = k + 1 + e
    BY <1>2, <1>5
  <2>2. q * w = k * w + w + e * w /\ e * w \in Nat
    BY <1>2, <2>1
  <2>3. QED
    BY <1>2, <1>3, <2>2
<1>6. q = k
  BY <1>2, <1>4, <1>5
<1>7. m = r
  BY <1>2, <1>3, <1>6
<1>8. QED
  BY <1>6, <1>7 DEF x, q, m

(* What division gives tells the number.                                   *)
LEMMA DivisionMod ==
    ASSUME NEW w \in Nat \ {0}, NEW x \in Nat, NEW q \in Nat, NEW m \in Nat,
           q = x \div w, m = x % w
    PROVE  q \in 0 .. x /\ m \in 0 .. w - 1 /\ x = q * w + m
<1>1. w > 0 /\ m \in 0 .. w - 1 /\ x = w * q + m
  OBVIOUS
<1>2. w * q \in Nat /\ w * q >= q /\ w * q = q * w
  <2>1. PICK e \in Nat : w = 1 + e
    BY <1>1
  <2>2. (1 + e) * q = q + e * q /\ e * q \in Nat
    OBVIOUS
  <2>3. QED
    BY <2>1, <2>2
<1>3. PICK p \in Nat : p = w * q
  BY <1>2
<1>4. p >= q /\ x = p + m /\ m \in Nat
  BY <1>1, <1>2, <1>3
<1>5. q \in 0 .. x
  BY <1>4
<1>6. QED
  BY <1>1, <1>2, <1>5

(* Each node has one place in NODES.                                       *)
LEMMA PlaceOfNode ==
    ASSUME NEW n \in Nodes
    PROVE  /\ Place(n) \in 1 .. Len(Names) /\ Names[Place(n)] = n
           /\ \A p \in 1 .. Len(Names) : Names[p] = n => p = Place(n)
<1> DEFINE I == {p \in 1 .. Len(Names) : Names[p] = n}
<1>1. Names \in Seq(Nodes) /\ IsInjective(Names)
  BY ShardsAssumption DEF ShardsAssumption
<1>2. PICK p \in 1 .. Len(Names) : Names[p] = n
  BY <1>1 DEF Nodes, ToSet
<1>3. I = {p}
  BY <1>1, <1>2 DEF IsInjective
<1>4. Place(n) = Min(I)
  BY <1>3 DEF Place, SelectInSeq
<1>5. Min(I) = p
  BY <1>2, <1>3 DEF Min
<1>6. QED
  BY <1>2, <1>3, <1>4, <1>5

(* Share counts the rows that Deal gives to n.                             *)
LEMMA ShareIsDealt ==
    ASSUME NEW n \in Nodes, NEW job \in Jobs
    PROVE  Share(job, n) = Cardinality(DealtTo(n, Used(job)))
<1> DEFINE L == Len(Names)
           r == Place(n) - 1
<1>1. L \in Nat \ {0}
  BY ShardsAssumption DEF ShardsAssumption
<1>2. r \in 0 .. L - 1
  BY <1>1, PlaceOfNode
<1>3. Used(job) \in Nat
  BY ShardsAssumption DEF ShardsAssumption, Used
<1>4. ASSUME NEW idx \in 0 .. Used(job) - 1
      PROVE  Deal(idx) = n <=> \E k \in 0 .. idx : idx = k * Len(Names) + Place(n) - 1
  <2>1. idx \in Nat
    BY <1>3, <1>4
  <2>2. PICK q \in Nat, m \in Nat : q = idx \div L /\ m = idx % L
    BY <1>1, <2>1
  <2>3. q \in 0 .. idx /\ m \in 0 .. L - 1 /\ idx = q * L + m
    BY <1>1, <2>1, <2>2, DivisionMod
  <2>4. Deal(idx) = n <=> m = r
    <3>1. m + 1 \in 1 .. L
      BY <1>1, <2>3
    <3>2. Deal(idx) = n <=> m + 1 = Place(n)
      BY <2>2, <3>1, PlaceOfNode DEF Deal
    <3>3. QED
      BY <2>2, <3>2, PlaceOfNode
  <2>5. ASSUME m = r PROVE \E k \in 0 .. idx : idx = k * L + Place(n) - 1
    <3>1. idx = q * L + Place(n) - 1
      BY <1>1, <2>1, <2>3, <2>5, PlaceOfNode
    <3>2. QED
      BY <2>3, <3>1
  <2>6. ASSUME NEW k \in 0 .. idx, idx = k * L + Place(n) - 1 PROVE m = r
    <3>1. idx = k * L + r /\ k \in Nat
      BY <1>1, <2>1, <2>6, PlaceOfNode
    <3>2. QED
      BY <1>1, <1>2, <2>2, <3>1, Division
  <2>7. QED
    BY <2>4, <2>5, <2>6
<1>5. QED
  BY <1>4 DEF Share, DealtTo

(* One row more is one record more for the node it is dealt to.            *)
LEMMA DealOneMore ==
    ASSUME NEW n \in Nodes, NEW a \in Nat
    PROVE  /\ Cardinality(DealtTo(n, a)) \in Nat /\ Cardinality(DealtTo(n, a)) <= a
           /\ Cardinality(DealtTo(n, 0)) = 0
           /\ Cardinality(DealtTo(n, a + 1)) =
                  Cardinality(DealtTo(n, a)) + (IF Deal(a) = n THEN 1 ELSE 0)
<1>1. IsFiniteSet(0 .. a - 1) /\ Cardinality(0 .. a - 1) = a
  BY FS_Interval
<1>2. DealtTo(n, a) \subseteq 0 .. a - 1
  BY DEF DealtTo
<1>3. IsFiniteSet(DealtTo(n, a)) /\ Cardinality(DealtTo(n, a)) <= a
  BY <1>1, <1>2, FS_Subset
<1>4. Cardinality(DealtTo(n, a)) \in Nat
  BY <1>3, FS_CardinalityType
<1>5. Cardinality(DealtTo(n, 0)) = 0
  <2>1. DealtTo(n, 0) = {}
    BY DEF DealtTo
  <2>2. QED
    BY <2>1, FS_EmptySet
<1>6. a \notin DealtTo(n, a)
  BY DEF DealtTo
<1>7. DealtTo(n, a + 1) = IF Deal(a) = n THEN DealtTo(n, a) \cup {a} ELSE DealtTo(n, a)
  BY DEF DealtTo
<1>8. Cardinality(DealtTo(n, a) \cup {a}) = Cardinality(DealtTo(n, a)) + 1
  BY <1>3, <1>6, FS_AddElement
<1>9. QED
  BY <1>3, <1>4, <1>5, <1>7, <1>8

(* Fewer rows are no more records.                                         *)
LEMMA DealtGrows ==
    ASSUME NEW n \in Nodes, NEW a \in Nat, NEW b \in Nat, a <= b
    PROVE  Cardinality(DealtTo(n, a)) <= Cardinality(DealtTo(n, b))
<1>1. DealtTo(n, a) \subseteq DealtTo(n, b) /\ DealtTo(n, b) \subseteq 0 .. b - 1
  BY DEF DealtTo
<1>2. IsFiniteSet(0 .. b - 1)
  BY FS_Interval
<1>3. IsFiniteSet(DealtTo(n, b))
  BY <1>1, <1>2, FS_Subset
<1>4. QED
  BY <1>1, <1>3, FS_Subset

-----------------------------------------------------------------------------
(* A job uses no more rows than there are, and gives a node no more.       *)
LEMMA JobTypes ==
    ASSUME NEW job \in Jobs
    PROVE  /\ job.dir \in Dirs /\ job.rows \in Seq(Rows)
           /\ Used(job) \in Nat /\ Used(job) <= Len(job.rows)
           /\ \A n \in Nodes : Share(job, n) \in Nat /\ Share(job, n) <= Used(job)
<1>1. job \in [dir : Dirs, rows : Seq(Rows), limit : Nat]
  BY ShardsAssumption DEF ShardsAssumption
<1>2. Used(job) \in Nat /\ Used(job) <= Len(job.rows)
  BY <1>1 DEF Used
<1>3. QED
  BY <1>1, <1>2, ShareIsDealt, DealOneMore

(* The last job is one of the jobs.                                        *)
LEMMA LastJob ==
    ASSUME StageInv, stage # "none"
    PROVE  Run \in 1 .. Len(jobs) /\ Job \in Jobs
BY DEF StageInv, Run, Job

(* The job of any run so far is one of the jobs.                           *)
LEMMA JobOfRun ==
    ASSUME StageInv, NEW r \in 1 .. Run
    PROVE  jobs[r] \in Jobs
BY DEF StageInv, Run

(* What is said of the runs stays while no run begins.                     *)
LEMMA SameJobs ==
    ASSUME UNCHANGED jobs
    PROVE  /\ Run' = Run /\ Job' = Job
           /\ Used(Job)' = Used(Job)
           /\ \A n : Share(Job, n)' = Share(Job, n)
           /\ \A r, n : WholeFile(r, n)' = WholeFile(r, n) /\ FileOf(r, n)' = FileOf(r, n)
BY DEF Run, Job, WholeFile, FileOf, Used

(* When a run begins the ones before it keep their numbers.                *)
LEMMA OneMoreJob ==
    ASSUME StageInv, NEW job \in Jobs, jobs' = Append(jobs, job)
    PROVE  /\ Run \in Nat /\ Run' = Run + 1 /\ jobs' \in Seq(Jobs)
           /\ \A r \in 1 .. Run : jobs'[r] = jobs[r]
           /\ \A r \in 1 .. Run, n \in Nodes : FileOf(r, n)' = FileOf(r, n)
<1>1. /\ Run \in Nat /\ Run' = Run + 1 /\ jobs' \in Seq(Jobs)
      /\ \A r \in 1 .. Run : jobs'[r] = jobs[r]
  BY DEF StageInv, Run
<1>2. QED
  BY <1>1 DEF FileOf, WholeFile

(* NODES has the nodes, at least one.                                      *)
LEMMA NamesAreNodes ==
    /\ Len(Names) \in Nat /\ Len(Names) >= 1
    /\ \A j \in 1 .. Len(Names) : Names[j] \in Nodes
    /\ \A n \in Nodes : \E j \in 1 .. Len(Names) : Names[j] = n
<1>1. Names \in Seq(Nodes) /\ Names # <<>>
  BY ShardsAssumption DEF ShardsAssumption
<1>2. Len(Names) \in Nat /\ Len(Names) >= 1 /\ \A j \in 1 .. Len(Names) : Names[j] \in Nodes
  BY <1>1
<1>3. ASSUME NEW n \in Nodes PROVE \E j \in 1 .. Len(Names) : Names[j] = n
  BY PlaceOfNode, Zenon
<1>4. QED
  BY <1>2, <1>3, Zenon

-----------------------------------------------------------------------------
(* Each step keeps what StageInv says of the progress of the run.          *)
LEMMA StageKept ==
    ASSUME ShardsInv, Next
    PROVE  StageInv'
<1> USE NamesAreNodes
<1>1. StageInv
  BY DEF ShardsInv
<1>2. ASSUME NEW job \in Jobs, Begin(job) PROVE StageInv'
  BY <1>1, <1>2, OneMoreJob DEF Begin, StageInv
<1>3. CASE Open
  <2>1. Job \in Jobs
    BY <1>1, <1>3, LastJob DEF Open
  <2>2. Used(Job) \in Nat
    BY <2>1, JobTypes
  <2>3. at + 1 # Len(Names) => at + 1 < Len(Names)
    BY <1>1, <1>3 DEF Open, StageInv
  <2>4. QED
    BY <1>1, <1>3, <2>2, <2>3, SameJobs DEF Open, StageInv
<1>4. CASE WriteRow
  <2>1. Job \in Jobs
    BY <1>1, <1>4, LastJob DEF WriteRow
  <2>2. Used(Job) \in Nat
    BY <2>1, JobTypes
  <2>3. QED
    BY <1>1, <1>4, <2>2, SameJobs DEF WriteRow, StageInv
<1>5. CASE StopReading
  BY <1>1, <1>5, SameJobs DEF StopReading, StageInv
<1>6. CASE Close
  <2>1. at + 1 # Len(Names) => at + 1 < Len(Names)
    BY <1>1, <1>6 DEF Close, StageInv
  <2>2. QED
    BY <1>1, <1>6, <2>1, SameJobs DEF Close, StageInv
<1>7. CASE Kill
  BY <1>1, <1>7, SameJobs DEF Kill, StageInv
<1>8. ASSUME NEW n \in Nodes, Flush(n) PROVE StageInv'
  BY <1>1, <1>8, SameJobs DEF Flush, StageInv
<1>9. ASSUME NEW n \in Nodes \ {Leader}, Load(n) \/ Stop(n) PROVE StageInv'
  BY <1>1, <1>9, SameJobs DEF Load, Stop, StageInv
<1>10. QED
  BY <1>2, <1>3, <1>4, <1>5, <1>6, <1>7, <1>8, <1>9 DEF Next

(* The buffers hold the rows that were dealt: at the end of the rows each  *)
(* node's share.                                                           *)
LEMMA CountsKept ==
    ASSUME ShardsInv, Next
    PROVE  CountsInv'
<1>1. StageInv /\ CountsInv
  BY DEF ShardsInv
<1>2. ASSUME NEW job \in Jobs, Begin(job) PROVE CountsInv'
  BY <1>2 DEF Begin, CountsInv
<1>3. CASE Open
  <2>1. \A n \in Nodes : counts[n] = 0 /\ Cardinality(DealtTo(n, 0)) = 0
    BY <1>1, <1>3, DealOneMore DEF Open, CountsInv
  <2>2. counts' = counts /\ ((stage' = "write" /\ at' = 0) \/ stage' = "open")
    BY <1>3 DEF Open
  <2>3. QED
    BY <1>1, <2>1, <2>2 DEF CountsInv, DealtTo
<1>4. CASE WriteRow
  <2>1. at \in Nat /\ stage = "write" /\ stage' = "write" /\ at' = at + 1
        /\ counts' = [counts EXCEPT ![Deal(at)] = @ + 1]
    BY <1>1, <1>4 DEF WriteRow, StageInv
  <2>2. \A n \in Nodes : /\ counts[n] = Cardinality(DealtTo(n, at)) /\ counts[n] \in Nat
                         /\ counts'[n] = counts[n] + (IF Deal(at) = n THEN 1 ELSE 0)
    BY <1>1, <2>1 DEF CountsInv
  <2>3. \A n \in Nodes : counts'[n] = Cardinality(DealtTo(n, at'))
    BY <2>1, <2>2, DealOneMore
  <2>4. counts' \in [Nodes -> Nat]
    <3>1. counts \in [Nodes -> Nat]
      BY <1>1 DEF CountsInv
    <3>2. CASE Deal(at) \in Nodes
      <4>1. counts[Deal(at)] + 1 \in Nat
        BY <3>1, <3>2
      <4>2. QED
        BY <2>1, <3>1, <4>1
    <3>3. CASE Deal(at) \notin Nodes
      BY <2>1, <3>1, <3>3
    <3>4. QED
      BY <3>2, <3>3
  <2>5. QED
    BY <2>1, <2>3, <2>4 DEF CountsInv, DealtTo
<1>5. CASE StopReading
  <2>1. Job \in Jobs
    BY <1>1, <1>5, LastJob DEF StopReading
  <2>2. Used(Job) \in Nat /\ at \in Nat /\ at <= Used(Job)
    BY <1>1, <1>5, <2>1, JobTypes DEF StopReading, StageInv
  <2>3. ASSUME NEW n \in Nodes
        PROVE  counts[n] <= Share(Job, n) /\ (at = Used(Job) => counts[n] = Share(Job, n))
    <3>1. counts[n] = Cardinality(DealtTo(n, at))
      BY <1>1, <1>5 DEF StopReading, CountsInv
    <3>2. QED
      BY <2>1, <2>2, <3>1, ShareIsDealt, DealtGrows
  <2>4. /\ counts' = counts /\ stage' \in {"close", "abort"}
        /\ stage' = "close" => at = Used(Job)
    BY <1>5 DEF StopReading
  <2>5. QED
    BY <1>1, <1>5, <2>3, <2>4, SameJobs DEF StopReading, CountsInv
<1>6. CASE Close
  BY <1>1, <1>6, SameJobs DEF Close, CountsInv
<1>7. CASE Kill
  BY <1>1, <1>7 DEF Kill, CountsInv
<1>8. ASSUME NEW m \in Nodes, Flush(m) PROVE CountsInv'
  BY <1>1, <1>8, SameJobs DEF Flush, CountsInv, DealtTo
<1>9. ASSUME NEW m \in Nodes \ {Leader}, Load(m) \/ Stop(m) PROVE CountsInv'
  BY <1>1, <1>9, SameJobs DEF Load, Stop, CountsInv, DealtTo
<1>10. QED
  BY <1>2, <1>3, <1>4, <1>5, <1>6, <1>7, <1>8, <1>9 DEF Next

(* The row that ended the writing is one that cannot be converted.         *)
LEMMA AbortKept ==
    ASSUME ShardsInv, Next
    PROVE  AbortInv'
<1>1. StageInv /\ AbortInv
  BY DEF ShardsInv
<1>2. CASE StopReading
  <2>1. Job \in Jobs
    BY <1>1, <1>2, LastJob DEF StopReading
  <2>2. Used(Job) \in Nat /\ at \in Nat
    BY <1>1, <2>1, JobTypes DEF StageInv
  <2>3. stage' = "abort" => at + 1 \in 1 .. Used(Job) /\ ~Packs(Job.rows[at + 1])
    BY <1>2, <2>2 DEF StopReading, AtBadRow
  <2>4. QED
    BY <1>2, <2>3, SameJobs DEF StopReading, AbortInv
<1>3. ASSUME stage' = "abort", ~StopReading PROVE stage = "abort" /\ UNCHANGED jobs
  BY <1>3 DEF Next, Begin, Open, WriteRow, Close, Kill, Flush, Load, Stop
<1>4. QED
  BY <1>1, <1>2, <1>3, SameJobs DEF AbortInv

-----------------------------------------------------------------------------
(* What a file of n says of itself.                                        *)
LEMMA FileTypes ==
    ASSUME StageInv, NEW r \in 1 .. Run, NEW n \in Nodes
    PROVE  /\ WholeFile(r, n) \in Nat
           /\ \A b \in 0 .. WholeFile(r, n) : Data(r, b) \in FileOf(r, n)
           /\ \A x \in FileOf(r, n) :
                 /\ x \in [run : Nat, bytes : Nat] /\ x # NoFile
                 /\ x.run = r /\ x.bytes \in 0 .. WholeFile(r, n)
                 /\ x = Data(r, x.bytes)
<1>1. Share(jobs[r], n) \in Nat /\ RecordSize \in Nat
  BY JobOfRun, JobTypes, ShardsAssumption DEF ShardsAssumption
<1>2. WholeFile(r, n) \in Nat
  BY <1>1 DEF WholeFile
<1>3. r \in Nat
  BY DEF StageInv, Run
<1>4. QED
  BY <1>2, <1>3, ShardsAssumption DEF FileOf, Data, ShardsAssumption

(* One file is written, the others stay as they are.                       *)
Writes(d, n, x) ==
    /\ disk' \in [Dirs -> [Nodes -> {NoFile} \cup [run : Nat, bytes : Nat]]]
    /\ \A e \in Dirs, m \in Nodes :
          disk'[e][m] = IF e = d /\ m = n THEN x ELSE disk[e][m]

LEMMA WritesOne ==
    ASSUME FilesOwned, NEW d \in Dirs, NEW n \in Nodes, NEW x \in [run : Nat, bytes : Nat],
           disk' = [disk EXCEPT ![d][n] = x]
    PROVE  Writes(d, n, x)
BY DEF FilesOwned, Writes

LEMMA OneFile ==
    ASSUME StageInv, FilesOwned, UNCHANGED jobs,
           NEW d \in Dirs, NEW n \in Nodes, NEW r \in 1 .. Run, NEW x \in FileOf(r, n),
           Writes(d, n, x)
    PROVE  FilesOwned'
<1>1. \A e \in Dirs, m \in Nodes :
          disk'[e][m] # NoFile => \E k \in 1 .. Run : disk'[e][m] \in FileOf(k, m)
  BY DEF FilesOwned, Writes
<1>2. QED
  BY <1>1, SameJobs DEF FilesOwned, Writes

(* A step that leaves files and jobs alone keeps whose they are.           *)
LEMMA SameFiles ==
    ASSUME FilesOwned, UNCHANGED <<jobs, disk>>
    PROVE  FilesOwned'
BY SameJobs DEF FilesOwned

(* Each step keeps the files of every run.                                 *)
LEMMA FilesKept ==
    ASSUME ShardsInv, Next
    PROVE  FilesInv'
<1>1. StageInv /\ CountsInv /\ FilesOwned /\ FilesOpened /\ FilesClosed
  BY DEF ShardsInv, FilesInv
<1>2. ASSUME NEW job \in Jobs, Begin(job) PROVE FilesInv'
  <2>1. disk' = disk /\ stage' = "open" /\ at' = 0 /\ jobs' = Append(jobs, job)
    BY <1>2 DEF Begin
  <2>2. FilesOwned'
    BY <1>1, <2>1, OneMoreJob DEF FilesOwned
  <2>3. FilesOpened' /\ FilesClosed'
    BY <2>1 DEF FilesOpened, FilesClosed
  <2>4. QED
    BY <2>2, <2>3 DEF FilesInv
<1>3. CASE Open
  <2> DEFINE n == Names[at + 1]
  <2>1. Run \in 1 .. Run /\ Job.dir \in Dirs
    BY <1>1, <1>3, LastJob, JobTypes DEF Open, Run
  <2>2. n \in Nodes /\ at \in Nat /\ at < Len(Names)
    BY <1>1, <1>3, NamesAreNodes DEF Open, StageInv
  <2>3. Data(Run, 0) \in FileOf(Run, n)
    BY <1>1, <2>1, <2>2, FileTypes
  <2>4. /\ FilesOwned'
        /\ \A m \in Nodes : disk'[Job.dir][m] = IF m = n THEN Data(Run, 0) ELSE disk[Job.dir][m]
    <3>1. Data(Run, 0) \in [run : Nat, bytes : Nat]
      BY <1>1, <2>1, <2>2, <2>3, FileTypes
    <3>2. disk' = [disk EXCEPT ![Job.dir][n] = Data(Run, 0)] /\ UNCHANGED jobs
      BY <1>3 DEF Open
    <3>3. Writes(Job.dir, n, Data(Run, 0))
      BY <1>1, <2>1, <2>2, <3>1, <3>2, WritesOne
    <3>4. FilesOwned'
      BY <1>1, <2>1, <2>2, <2>3, <3>2, <3>3, OneFile
    <3>5. QED
      BY <2>1, <3>3, <3>4 DEF Writes
  <2>5. \A j \in 1 .. at + 1 : disk'[Job.dir][Names[j]] \in FileOf(Run, Names[j])
    <3>1. \A j \in 1 .. at : disk[Job.dir][Names[j]] \in FileOf(Run, Names[j])
      BY <1>1, <1>3 DEF Open, FilesOpened
    <3>2. \A j \in 1 .. at + 1 : Names[j] \in Nodes
      BY <2>2, NamesAreNodes
    <3>3. \A j \in 1 .. at + 1 : j = at + 1 \/ j \in 1 .. at
      BY <2>2
    <3>4. QED
      BY <2>3, <2>4, <3>1, <3>2, <3>3
  <2>6. /\ UNCHANGED jobs
        /\ (stage' = "open" /\ at' = at + 1) \/ (stage' = "write" /\ at + 1 = Len(Names))
    BY <1>3 DEF Open
  <2>7. FilesOpened'
    <3>1. CASE stage' = "open" /\ at' = at + 1
      BY <2>5, <2>6, <3>1, SameJobs DEF FilesOpened
    <3>2. CASE stage' = "write" /\ at + 1 = Len(Names)
      <4>1. \A m \in Nodes : disk'[Job.dir][m] \in FileOf(Run, m)
        BY <2>5, <3>2, NamesAreNodes
      <4>2. QED
        BY <2>6, <3>2, <4>1, SameJobs DEF FilesOpened
    <3>3. QED
      BY <2>6, <3>1, <3>2
  <2>8. FilesClosed'
    BY <2>6 DEF FilesClosed
  <2>9. QED
    BY <2>4, <2>7, <2>8 DEF FilesInv
<1>4. CASE WriteRow
  BY <1>1, <1>4, SameJobs, SameFiles DEF WriteRow, FilesInv, FilesOpened, FilesClosed
<1>5. CASE StopReading
  BY <1>1, <1>5, SameJobs, SameFiles DEF StopReading, FilesInv, FilesOpened, FilesClosed
<1>6. CASE Close
  <2> DEFINE n == Names[at + 1]
  <2>1. Run \in 1 .. Run /\ Job.dir \in Dirs /\ Job = jobs[Run] /\ Job \in Jobs
    BY <1>1, <1>6, LastJob, JobTypes DEF Close, Run, Job
  <2>2. n \in Nodes /\ at \in Nat /\ at < Len(Names)
    BY <1>1, <1>6, NamesAreNodes DEF Close, StageInv
  <2>3. Written(n) \in 0 .. WholeFile(Run, n)
        /\ (stage = "close" => Written(n) = WholeFile(Run, n))
    <3>1. counts[n] \in Nat /\ Share(Job, n) \in Nat /\ RecordSize \in Nat
      BY <1>1, <2>1, <2>2, JobTypes, ShardsAssumption DEF CountsInv, ShardsAssumption
    <3>2. counts[n] <= Share(Job, n) /\ (stage = "close" => counts[n] = Share(Job, n))
      BY <1>1, <1>6, <2>2, <3>1 DEF Close, CountsInv
    <3>3. RecordSize * counts[n] \in 0 .. RecordSize * Share(Job, n)
      BY <3>1, <3>2
    <3>4. QED
      BY <2>1, <3>2, <3>3 DEF Written, WholeFile
  <2>4. Data(Run, Written(n)) \in FileOf(Run, n)
    BY <1>1, <2>1, <2>2, <2>3, FileTypes
  <2>5. disk' = [disk EXCEPT ![Job.dir][n] = Data(Run, Written(n))] /\ UNCHANGED jobs
    BY <1>6 DEF Close
  <2>6. /\ FilesOwned'
        /\ \A m \in Nodes :
              disk'[Job.dir][m] = IF m = n THEN Data(Run, Written(n)) ELSE disk[Job.dir][m]
    <3>1. Data(Run, Written(n)) \in [run : Nat, bytes : Nat]
      BY <1>1, <2>1, <2>2, <2>4, FileTypes
    <3>2. disk' = [disk EXCEPT ![Job.dir][n] = Data(Run, Written(n))]
      BY <2>5
    <3>3. Writes(Job.dir, n, Data(Run, Written(n)))
      BY <1>1, <2>1, <2>2, <3>1, <3>2, WritesOne
    <3>4. FilesOwned'
      BY <1>1, <2>1, <2>2, <2>4, <2>5, <3>3, OneFile
    <3>5. QED
      BY <2>1, <3>3, <3>4 DEF Writes
  <2>7. \A m \in Nodes : disk'[Job.dir][m] \in FileOf(Run, m)
    BY <1>1, <1>6, <2>4, <2>6 DEF Close, FilesOpened
  <2>8. ASSUME stage = "close"
        PROVE  \A j \in 1 .. at + 1 :
                  disk'[Job.dir][Names[j]] = Data(Run, WholeFile(Run, Names[j]))
    <3>1. \A j \in 1 .. at : disk[Job.dir][Names[j]] = Data(Run, WholeFile(Run, Names[j]))
      BY <1>1, <2>8 DEF FilesClosed
    <3>2. \A j \in 1 .. at + 1 : Names[j] \in Nodes
      BY <2>2, NamesAreNodes
    <3>3. \A j \in 1 .. at + 1 : j = at + 1 \/ j \in 1 .. at
      BY <2>2
    <3>4. QED
      BY <2>3, <2>6, <2>8, <3>1, <3>2, <3>3
  <2>9. FilesOpened'
    BY <1>6, <2>5, <2>7, SameJobs DEF Close, FilesOpened
  <2>10. FilesClosed'
    <3>1. CASE stage = "close" /\ stage' = "close" /\ at' = at + 1
      BY <2>5, <2>8, <3>1, SameJobs DEF FilesClosed
    <3>2. CASE stage = "close" /\ stage' = "done" /\ at + 1 = Len(Names)
      BY <2>5, <2>8, <3>2, SameJobs, NamesAreNodes DEF FilesClosed
    <3>3. CASE stage' \in {"abort", "failed"}
      BY <3>3 DEF FilesClosed
    <3>4. QED
      BY <1>6, <3>1, <3>2, <3>3 DEF Close
  <2>11. QED
    BY <2>6, <2>9, <2>10 DEF FilesInv
<1>7. CASE Kill
  BY <1>1, <1>7, SameJobs, SameFiles DEF Kill, FilesInv, FilesOpened, FilesClosed
<1>8. ASSUME NEW n \in Nodes, Flush(n) PROVE FilesInv'
  <2>1. Run \in 1 .. Run /\ Job.dir \in Dirs /\ Job = jobs[Run] /\ Job \in Jobs
    BY <1>1, <1>8, LastJob, JobTypes DEF Flush, Run, Job
  <2>2. disk[Job.dir][n] \in FileOf(Run, n)
    BY <1>1, <1>8 DEF Flush, FilesOpened
  <2>3. PICK b \in disk[Job.dir][n].bytes + 1 .. Written(n) :
            disk' = [disk EXCEPT ![Job.dir][n].bytes = b]
    BY <1>8 DEF Flush
  <2>4. disk[Job.dir][n].bytes \in 0 .. WholeFile(Run, n) /\ WholeFile(Run, n) \in Nat
        /\ disk[Job.dir][n] = Data(Run, disk[Job.dir][n].bytes)
    BY <1>1, <2>1, <2>2, FileTypes
  <2>5. Written(n) <= WholeFile(Run, n) /\ Written(n) \in Nat
    <3>1. counts[n] \in Nat /\ Share(Job, n) \in Nat /\ RecordSize \in Nat
      BY <1>1, <2>1, JobTypes, ShardsAssumption DEF CountsInv, ShardsAssumption
    <3>2. counts[n] <= Share(Job, n)
      <4>1. stage = "write" => counts[n] <= Share(Job, n)
        <5>1. Used(Job) \in Nat
          BY <2>1, JobTypes
        <5>2. QED
          BY <1>1, <2>1, <5>1, ShareIsDealt, DealtGrows DEF CountsInv, StageInv
      <4>2. QED
        BY <1>1, <1>8, <3>1, <4>1 DEF Flush, CountsInv
    <3>3. QED
      BY <2>1, <3>1, <3>2 DEF Written, WholeFile
  <2>6. b \in 0 .. WholeFile(Run, n)
    BY <2>3, <2>4, <2>5
  <2>7. Data(Run, b) \in FileOf(Run, n)
    BY <1>1, <2>1, <2>6, FileTypes
  <2>8. disk' = [disk EXCEPT ![Job.dir][n] = Data(Run, b)] /\ UNCHANGED <<jobs, stage, at>>
    <3>1. [disk[Job.dir][n] EXCEPT !.bytes = b] = Data(Run, b)
      BY <2>4 DEF Data
    <3>2. QED
      BY <1>8, <2>3, <3>1 DEF Flush
  <2>9. /\ FilesOwned'
        /\ \A m \in Nodes :
              disk'[Job.dir][m] = IF m = n THEN Data(Run, b) ELSE disk[Job.dir][m]
    <3>1. Data(Run, b) \in [run : Nat, bytes : Nat]
      BY <1>1, <2>1, <2>7, FileTypes
    <3>2. disk' = [disk EXCEPT ![Job.dir][n] = Data(Run, b)]
      BY <2>8
    <3>3. Writes(Job.dir, n, Data(Run, b))
      BY <1>1, <2>1, <3>1, <3>2, WritesOne
    <3>4. FilesOwned'
      BY <1>1, <2>1, <2>7, <2>8, <3>3, OneFile
    <3>5. QED
      BY <2>1, <3>3, <3>4 DEF Writes
  <2>10. FilesOpened'
    BY <1>1, <1>8, <2>7, <2>8, <2>9, SameJobs DEF Flush, FilesOpened
  <2>11. FilesClosed'
    <3>1. ASSUME stage = "close", NEW j \in 1 .. at PROVE Names[j] # n
      <4>1. ASSUME Names[j] = n PROVE FALSE
        <5>1. disk[Job.dir][n] = Data(Run, WholeFile(Run, n))
          BY <1>1, <3>1, <4>1 DEF FilesClosed
        <5>2. disk[Job.dir][n].bytes = WholeFile(Run, n)
          BY <5>1 DEF Data
        <5>3. QED
          BY <2>3, <2>4, <2>5, <5>2
      <4>2. QED
        BY <4>1
    <3>2. stage = "close" => \A j \in 1 .. at : Names[j] \in Nodes
      BY <1>1, NamesAreNodes DEF StageInv
    <3>3. stage' # "done"
      BY <1>8 DEF Flush
    <3>4. QED
      BY <1>1, <2>8, <2>9, <3>1, <3>2, <3>3, SameJobs DEF FilesClosed
  <2>12. QED
    BY <2>9, <2>10, <2>11 DEF FilesInv
<1>9. ASSUME NEW m \in Nodes \ {Leader}, Load(m) \/ Stop(m) PROVE FilesInv'
  BY <1>1, <1>9, SameJobs, SameFiles DEF Load, Stop, FilesInv, FilesOpened, FilesClosed
<1>10. QED
  BY <1>2, <1>3, <1>4, <1>5, <1>6, <1>7, <1>8, <1>9 DEF Next

-----------------------------------------------------------------------------
(* A set of numbers has a least one.                                       *)
LEMMA LeastNumber ==
    ASSUME NEW S \in SUBSET Nat, S # {}
    PROVE  Min(S) \in S /\ \A y \in S : Min(S) <= y
<1>1. PICK x \in S : \A y \in S : ~(<<y, x>> \in OpToRel(<, Nat))
  BY NatLessThanWellFounded, WFMin
<1>2. ASSUME NEW y \in S PROVE x <= y
  <2>1. <<y, x>> \in Nat \X Nat /\ <<y, x>>[1] = y /\ <<y, x>>[2] = x
    OBVIOUS
  <2>2. ~(y < x)
    BY <1>1, <2>1, Zenon DEF OpToRel
  <2>3. QED
    BY <2>2
<1>3. QED
  BY <1>2 DEF Min

(* The file that a node reads is one of its own, of some run.              *)
LEMMA FileRead ==
    ASSUME StageInv, FilesOwned, NEW n \in Nodes \ {Leader}, FirstFile(n) # NoFile
    PROVE  \E r \in 1 .. Run : FirstFile(n) \in FileOf(r, n)
<1> DEFINE k == Min(Found(n))
<1>1. Roots[n] \in Seq(Dirs)
  <2>1. Roots \in [Nodes \ {Leader} -> Seq(Dirs)]
    BY ShardsAssumption, SMTT(30) DEF ShardsAssumption
  <2>2. QED
    BY <2>1, Zenon
<1>2. Found(n) # {} /\ Found(n) \in SUBSET Nat
  BY <1>1 DEF FirstFile, Found
<1>3. k \in Found(n)
  BY <1>2, LeastNumber
<1>4. Roots[n][k] \in Dirs
  <2>1. k \in DOMAIN Roots[n]
    BY <1>3 DEF Found
  <2>2. \A j \in DOMAIN Roots[n] : Roots[n][j] \in Dirs
    BY <1>1
  <2>3. QED
    BY <2>1, <2>2
<1>5. FirstFile(n) = disk[Roots[n][k]][n]
  BY <1>2 DEF FirstFile
<1>6. QED
  BY <1>4, <1>5 DEF FilesOwned

(* What is kept of a file are its whole records.                           *)
LEMMA WholeRecords ==
    ASSUME NEW b \in Nat, NEW k \in Nat, b <= RecordSize * k
    PROVE  \E q \in 0 .. k : Trimmed(b) = RecordSize * q
<1>1. RecordSize \in Nat \ {0}
  BY ShardsAssumption DEF ShardsAssumption
<1>2. PICK q \in Nat, m \in Nat : q = b \div RecordSize /\ m = b % RecordSize
  BY <1>1
<1>3. m \in 0 .. RecordSize - 1 /\ b = q * RecordSize + m
  BY <1>1, <1>2, DivisionMod
<1>4. ASSUME q > k PROVE FALSE
  <2>1. PICK e \in Nat : q = k + 1 + e
    BY <1>4
  <2>2. q * RecordSize = RecordSize * k + RecordSize + RecordSize * e
        /\ RecordSize * e \in Nat /\ RecordSize * k \in Nat
    BY <1>1, <2>1
  <2>3. QED
    BY <1>1, <1>3, <2>2
<1>5. q \in 0 .. k
  BY <1>4
<1>6. QED
  BY <1>2, <1>5 DEF Trimmed

(* Trimming leaves whole records as they are.                              *)
LEMMA TrimmedWhole ==
    ASSUME NEW k \in Nat
    PROVE  Trimmed(RecordSize * k) = RecordSize * k /\ (RecordSize * k) % RecordSize = 0
<1>1. RecordSize \in Nat \ {0}
  BY ShardsAssumption DEF ShardsAssumption
<1>2. RecordSize * k = k * RecordSize + 0 /\ 0 \in 0 .. RecordSize - 1
  BY <1>1
<1>3. (k * RecordSize + 0) % RecordSize = 0 /\ (k * RecordSize + 0) \div RecordSize = k
  BY <1>1, <1>2, Division
<1>4. QED
  BY <1>2, <1>3 DEF Trimmed

(* A node that starts serves sample data or whole records of a share.      *)
LEMMA ReadServes ==
    ASSUME StageInv, FilesOwned, NEW n \in Nodes \ {Leader}
    PROVE  Read(n) = Sample \/
           \E r \in 1 .. Run : \E k \in 1 .. Share(jobs[r], n) : Read(n) = Data(r, RecordSize * k)
<1> DEFINE file == FirstFile(n)
<1>1. SUFFICES ASSUME file # NoFile, Trimmed(file.bytes) # 0
               PROVE  \E r \in 1 .. Run : \E k \in 1 .. Share(jobs[r], n) :
                          Read(n) = Data(r, RecordSize * k)
  BY DEF Read
<1>2. PICK r \in 1 .. Run : file \in FileOf(r, n)
  BY <1>1, FileRead
<1>3. file.run = r /\ file.bytes \in 0 .. WholeFile(r, n) /\ WholeFile(r, n) \in Nat
  BY <1>2, FileTypes
<1>4. Share(jobs[r], n) \in Nat
  BY JobOfRun, JobTypes
<1>5. PICK q \in 0 .. Share(jobs[r], n) : Trimmed(file.bytes) = RecordSize * q
  BY <1>3, <1>4, WholeRecords DEF WholeFile
<1>6. q # 0
  BY <1>1, <1>5, ShardsAssumption DEF ShardsAssumption
<1>7. Read(n) = Data(r, RecordSize * q)
  BY <1>1, <1>3, <1>5 DEF Read
<1>8. QED
  BY <1>4, <1>6, <1>7

(* Each step keeps what the nodes serve within their shares.               *)
LEMMA PayloadKept ==
    ASSUME ShardsInv, Next
    PROVE  PayloadInv'
<1>1. StageInv /\ FilesOwned /\ PayloadInv
  BY DEF ShardsInv, FilesInv
<1>2. ASSUME NEW job \in Jobs, Begin(job) PROVE PayloadInv'
  <2>1. jobs' = Append(jobs, job) /\ payload' = payload
    BY <1>2 DEF Begin
  <2>2. /\ 1 .. Run \subseteq 1 .. Run'
        /\ \A r \in 1 .. Run : jobs'[r] = jobs[r]
    <3>1. Run \in Nat /\ Run' = Run + 1 /\ \A r \in 1 .. Run : jobs'[r] = jobs[r]
      BY <1>1, <2>1, OneMoreJob
    <3>2. QED
      BY <3>1
  <2>3. ASSUME NEW n \in Nodes \ {Leader}, payload[n] \notin {Down, Sample}
        PROVE  \E r \in 1 .. Run' : \E k \in 1 .. Share(jobs'[r], n) :
                   payload[n] = Data(r, RecordSize * k)
    <3>1. PICK r \in 1 .. Run :
             \E k \in 1 .. Share(jobs[r], n) : payload[n] = Data(r, RecordSize * k)
      BY <1>1, <2>3 DEF PayloadInv
    <3>2. QED
      BY <2>2, <3>1
  <2>4. QED
    BY <1>1, <2>1, <2>3 DEF PayloadInv
<1>3. ASSUME NEW n \in Nodes \ {Leader}, Load(n) PROVE PayloadInv'
  <2>1. payload' = [payload EXCEPT ![n] = Read(n)] /\ UNCHANGED jobs
    BY <1>3 DEF Load
  <2>2. Read(n) \in {Down, Sample} \cup [run : Nat, bytes : Nat]
    <3>1. CASE Read(n) = Sample
      BY <3>1
    <3>2. ASSUME NEW r \in 1 .. Run, NEW k \in 1 .. Share(jobs[r], n),
                 Read(n) = Data(r, RecordSize * k)
          PROVE  Read(n) \in [run : Nat, bytes : Nat]
      <4>1. Share(jobs[r], n) \in Nat /\ r \in Nat /\ k \in Nat
        BY <1>1, JobOfRun, JobTypes DEF StageInv, Run
      <4>2. RecordSize * k \in Nat
        BY <4>1, ShardsAssumption DEF ShardsAssumption
      <4>3. QED
        BY <3>2, <4>1, <4>2 DEF Data
    <3>3. QED
      BY <1>1, <3>1, <3>2, ReadServes
  <2>3. QED
    BY <1>1, <2>1, <2>2, ReadServes, SameJobs DEF PayloadInv
<1>4. ASSUME NEW n \in Nodes \ {Leader}, Stop(n) PROVE PayloadInv'
  BY <1>1, <1>4, SameJobs DEF Stop, PayloadInv
<1>5. CASE Open \/ WriteRow \/ StopReading \/ Close \/ Kill \/ \E n \in Nodes : Flush(n)
  <2>1. UNCHANGED <<jobs, payload>>
    BY <1>5 DEF Open, WriteRow, StopReading, Close, Kill, Flush
  <2>2. QED
    BY <1>1, <2>1, SameJobs DEF PayloadInv
<1>6. QED
  BY <1>2, <1>3, <1>4, <1>5 DEF Next

-----------------------------------------------------------------------------
(* The inductive invariant holds at the start, and each step keeps it.     *)
LEMMA ShardsInvAtInit == Init => ShardsInv
<1> SUFFICES ASSUME Init PROVE ShardsInv
  OBVIOUS
<1>1. jobs \in Seq(Jobs) /\ Run = 0
  BY DEF Init, Run
<1>2. StageInv /\ CountsInv /\ AbortInv
  BY <1>1 DEF Init, StageInv, CountsInv, AbortInv
<1>3. FilesInv /\ PayloadInv
  BY DEF Init, FilesInv, FilesOwned, FilesOpened, FilesClosed, PayloadInv
<1>4. QED
  BY <1>2, <1>3 DEF ShardsInv

(* Every step keeps the inductive invariant.                               *)
LEMMA ShardsInvKept == ShardsInv /\ [Next]_vars => ShardsInv'
<1> SUFFICES ASSUME ShardsInv, [Next]_vars PROVE ShardsInv'
  OBVIOUS
<1>1. CASE Next
  BY <1>1, StageKept, CountsKept, FilesKept, PayloadKept, AbortKept DEF ShardsInv
<1>2. CASE UNCHANGED vars
  <2>1. UNCHANGED <<jobs, stage, at, counts, disk, payload>>
    BY <1>2 DEF vars
  <2>2. StageInv' /\ CountsInv' /\ AbortInv'
    BY <2>1, SameJobs DEF ShardsInv, StageInv, CountsInv, AbortInv, DealtTo
  <2>3. FilesInv' /\ PayloadInv'
    BY <2>1, SameJobs, SameFiles DEF ShardsInv, FilesInv, FilesOpened, FilesClosed, PayloadInv
  <2>4. QED
    BY <2>2, <2>3 DEF ShardsInv
<1>3. QED
  BY <1>1, <1>2

(* The inductive invariant has the type invariant in it.                   *)
LEMMA ShardsInvTypes == ShardsInv => TypeOK
<1> SUFFICES ASSUME ShardsInv PROVE TypeOK
  OBVIOUS
<1>1. StageInv /\ CountsInv /\ FilesOwned /\ PayloadInv
  BY DEF ShardsInv, FilesInv
<1>2. ASSUME NEW r \in 1 .. Run, NEW n \in Nodes
      PROVE  /\ r \in DOMAIN jobs /\ MaxBytes(r) \in Nat
             /\ \A k \in 0 .. Share(jobs[r], n) : RecordSize * k \in 0 .. MaxBytes(r)
  <2>1. jobs[r] \in Jobs
    BY <1>1, JobOfRun
  <2>2. Share(jobs[r], n) \in Nat /\ Used(jobs[r]) \in Nat /\ Share(jobs[r], n) <= Used(jobs[r])
    BY <2>1, JobTypes
  <2>3. RecordSize \in Nat
    BY ShardsAssumption DEF ShardsAssumption
  <2>4. \A k \in 0 .. Share(jobs[r], n) : RecordSize * k \in 0 .. RecordSize * Used(jobs[r])
    BY <2>2, <2>3
  <2>5. QED
    BY <1>1, <2>2, <2>3, <2>4 DEF MaxBytes, StageInv, Run
<1>3. ASSUME NEW d \in Dirs, NEW n \in Nodes
      PROVE  disk[d][n] \in {NoFile} \cup
                 UNION {{Data(r, b) : b \in 0 .. MaxBytes(r)} : r \in DOMAIN jobs}
  <2>1. SUFFICES ASSUME disk[d][n] # NoFile
                 PROVE  \E r \in DOMAIN jobs : \E b \in 0 .. MaxBytes(r) : disk[d][n] = Data(r, b)
    OBVIOUS
  <2>2. PICK r \in 1 .. Run : disk[d][n] \in FileOf(r, n)
    BY <1>1, <2>1 DEF FilesOwned
  <2>3. Share(jobs[r], n) \in Nat
    BY <1>1, JobOfRun, JobTypes
  <2>4. 0 .. WholeFile(r, n) \subseteq 0 .. MaxBytes(r)
    BY <1>2, <2>3 DEF WholeFile
  <2>5. QED
    BY <1>2, <2>2, <2>4 DEF FileOf
<1>4. ASSUME NEW n \in Nodes \ {Leader}
      PROVE  payload[n] \in {Down, Sample} \cup
                 UNION {{Data(r, b) : b \in 1 .. MaxBytes(r)} : r \in DOMAIN jobs}
  <2>1. SUFFICES ASSUME payload[n] \notin {Down, Sample}
                 PROVE  \E r \in DOMAIN jobs : \E b \in 1 .. MaxBytes(r) : payload[n] = Data(r, b)
    OBVIOUS
  <2>2a. PICK r \in 1 .. Run :
            \E k \in 1 .. Share(jobs[r], n) : payload[n] = Data(r, RecordSize * k)
    BY <1>1, <2>1 DEF PayloadInv
  <2>2. PICK k \in 1 .. Share(jobs[r], n) : payload[n] = Data(r, RecordSize * k)
    BY <2>2a
  <2>3. Share(jobs[r], n) \in Nat /\ RecordSize \in Nat \ {0}
    BY <1>1, JobOfRun, JobTypes, ShardsAssumption DEF ShardsAssumption
  <2>4. RecordSize * k \in 0 .. MaxBytes(r) /\ RecordSize * k >= 1
    BY <1>2, <2>3
  <2>5. QED
    BY <1>2, <2>2, <2>4
<1>5. disk \in [Dirs -> [Nodes -> {NoFile} \cup
                    UNION {{Data(r, b) : b \in 0 .. MaxBytes(r)} : r \in DOMAIN jobs}]]
  BY <1>1, <1>3 DEF FilesOwned
<1>6. payload \in [Nodes \ {Leader} -> {Down, Sample} \cup
                    UNION {{Data(r, b) : b \in 1 .. MaxBytes(r)} : r \in DOMAIN jobs}]
  BY <1>1, <1>4 DEF PayloadInv
<1>7. QED
  BY <1>1, <1>5, <1>6 DEF TypeOK, StageInv, CountsInv

(* Every run, with any limit and any files left over, keeps the types of   *)
(* buffers, files and payloads: no file outgrows the rows of its run.      *)
THEOREM ShardsTypes == Spec => []TypeOK
BY ShardsInvAtInit, ShardsInvKept, ShardsInvTypes, PTL DEF Spec

(* ServesOwnRows: whenever a node starts, while files are emptied and      *)
(* written by a run or left over by a failed one, it serves whole records  *)
(* of rows that were dealt to it, or sample data.                          *)
THEOREM NodesServeOwnRows == Spec => []ServesOwnRows
<1>1. ShardsInv => ServesOwnRows
  <2>1. SUFFICES ASSUME ShardsInv, NEW n \in Nodes \ {Leader}, IsData(payload[n])
                 PROVE  /\ payload[n].bytes % RecordSize = 0
                        /\ payload[n].bytes <= RecordSize * Share(jobs[payload[n].run], n)
    BY DEF ServesOwnRows
  <2>2a. PICK r \in 1 .. Run :
            \E k \in 1 .. Share(jobs[r], n) : payload[n] = Data(r, RecordSize * k)
    BY <2>1 DEF ShardsInv, PayloadInv, IsData
  <2>2. PICK k \in 1 .. Share(jobs[r], n) : payload[n] = Data(r, RecordSize * k)
    BY <2>2a
  <2>3. payload[n].run = r /\ payload[n].bytes = RecordSize * k
    BY <2>2 DEF Data
  <2>4. Share(jobs[r], n) \in Nat /\ RecordSize \in Nat
    BY <2>1, JobOfRun, JobTypes, ShardsAssumption DEF ShardsInv, ShardsAssumption
  <2>5. RecordSize * k <= RecordSize * Share(jobs[r], n) /\ k \in Nat
    BY <2>4
  <2>6. QED
    BY <2>3, <2>5, TrimmedWhole
<1>2. QED
  BY <1>1, ShardsInvAtInit, ShardsInvKept, PTL DEF Spec

(* StopsForCause: only a key that is no 32-bit number or a coordinate that *)
(* is no float ends the writing.                                           *)
THEOREM WritingStopsForCause == Spec => []StopsForCause
<1>1. ASSUME NEW row \in Rows, ~Packs(row)
      PROVE  row["key"] \in {"huge", "other"} \/ "huge" \in {row["latitude"], row["longitude"]}
  <2>1. \A c \in Columns : row[c] \in Cells
    BY DEF Rows
  <2>2. row["key"] \in {"missing", "good"} => ParseKey(row["key"]) <= 32
    BY DEF ParseKey
  <2>3. \A cell \in Cells : cell # "huge" => ParseFloat(cell) <= 32
    BY DEF ParseFloat, Cells
  <2>4. \A cell : ParseZip(cell) <= 32 /\ ParseYear(cell) <= 16 /\ Code(cell) <= 8
    BY DEF ParseZip, ParseYear, Code, CodeBits
  <2>5. QED
    BY <1>1, <2>1, <2>2, <2>3, <2>4 DEF Packs, RowToRecord, FieldBytes, Columns, Cells
<1>2. ShardsInv => StopsForCause
  <2>1. SUFFICES ASSUME ShardsInv, stage = "abort"
                 PROVE  \E k \in 1 .. Used(Job) :
                            \/ Job.rows[k]["key"] \in {"huge", "other"}
                            \/ "huge" \in {Job.rows[k]["latitude"], Job.rows[k]["longitude"]}
    BY DEF StopsForCause
  <2>2. PICK k \in 1 .. Used(Job) : ~Packs(Job.rows[k])
    BY <2>1 DEF ShardsInv, AbortInv
  <2>3. Job \in Jobs
    BY <2>1, LastJob DEF ShardsInv
  <2>4. Job.rows[k] \in Rows
    BY <2>3, JobTypes
  <2>5. QED
    BY <1>1, <2>2, <2>4
<1>3. QED
  BY <1>2, ShardsInvAtInit, ShardsInvKept, PTL DEF Spec

(* StartsComplete: a node that starts after a run that ended well, and     *)
(* finds the run's file first, serves its whole share.                     *)
THEOREM NodesStartComplete == Spec => StartsComplete
<1> DEFINE Complete(n) ==
      /\ Load(n) /\ stage = "done"
      /\ \E k \in DOMAIN Roots[n] :
             /\ Roots[n][k] = Job.dir
             /\ \A j \in 1 .. k - 1 : disk[Roots[n][j]][n] = NoFile
      => payload'[n] = IF Share(Job, n) = 0 THEN Sample
                       ELSE Data(Run, RecordSize * Share(Job, n))
<1>1. ASSUME ShardsInv, NEW n \in Nodes \ {Leader}
      PROVE  Complete(n)
  <2>1. SUFFICES ASSUME Load(n), stage = "done", NEW k \in DOMAIN Roots[n], Roots[n][k] = Job.dir,
                        \A j \in 1 .. k - 1 : disk[Roots[n][j]][n] = NoFile
                 PROVE  payload'[n] = IF Share(Job, n) = 0 THEN Sample
                                      ELSE Data(Run, RecordSize * Share(Job, n))
    OBVIOUS
  <2>2. StageInv /\ Run \in 1 .. Run /\ Job \in Jobs /\ Job = jobs[Run]
    BY <1>1, <2>1, LastJob DEF ShardsInv, Run, Job
  <2>3. Share(Job, n) \in Nat /\ RecordSize \in Nat \ {0}
    BY <2>2, JobTypes, ShardsAssumption DEF ShardsAssumption
  <2>4. disk[Job.dir][n] = Data(Run, RecordSize * Share(Job, n))
    BY <1>1, <2>1, <2>2 DEF ShardsInv, FilesInv, FilesClosed, WholeFile
  <2>5. disk[Job.dir][n] # NoFile
    BY <1>1, <2>1, <2>2, FileTypes DEF ShardsInv, FilesInv, FilesClosed
  <2>6. FirstFile(n) = Data(Run, RecordSize * Share(Job, n))
    <3>1. Roots[n] \in Seq(Dirs)
      BY ShardsAssumption DEF ShardsAssumption
    <3>2. k \in Found(n) /\ k \in Nat /\ Found(n) \in SUBSET Nat
      BY <2>1, <2>5, <3>1 DEF Found
    <3>3. \A j \in Found(n) : k <= j
      BY <2>1, <3>1, <3>2 DEF Found
    <3>4. Min(Found(n)) \in Found(n) /\ Min(Found(n)) <= k
      BY <3>2, LeastNumber
    <3>5. Min(Found(n)) = k
      BY <3>2, <3>3, <3>4
    <3>6. QED
      BY <2>1, <2>4, <3>2, <3>5 DEF FirstFile
  <2>7. RecordSize * Share(Job, n) = 0 <=> Share(Job, n) = 0
    BY <2>3
  <2>8. Read(n) = IF Share(Job, n) = 0 THEN Sample ELSE Data(Run, RecordSize * Share(Job, n))
    <3>1. FirstFile(n) # NoFile
      BY <2>4, <2>5, <2>6
    <3>2. /\ FirstFile(n).run = Run
          /\ Trimmed(FirstFile(n).bytes) = RecordSize * Share(Job, n)
      <4>1. FirstFile(n).run = Run /\ FirstFile(n).bytes = RecordSize * Share(Job, n)
        BY <2>6 DEF Data
      <4>2. QED
        BY <2>3, <4>1, TrimmedWhole
    <3>3. QED
      BY <2>7, <3>1, <3>2 DEF Read
  <2>9. payload'[n] = Read(n)
    BY <1>1, <2>1 DEF Load, ShardsInv, PayloadInv
  <2>10. QED
    BY <2>8, <2>9
<1>2. ShardsInv /\ [Next]_vars => [\A n \in Nodes \ {Leader} : Complete(n)]_vars
  BY <1>1
<1>3. QED
  BY <1>2, ShardsInvAtInit, ShardsInvKept, PTL DEF Spec, StartsComplete

-----------------------------------------------------------------------------
(* A node's row but the first comes Len(Names) rows after one of its own,  *)
(* and between the two every other node has one.                           *)
LEMMA DealIsEven ==
    ASSUME NEW m \in Nodes, NEW n \in Nodes, NEW a \in Nat
    PROVE  Cardinality(DealtTo(m, a)) <= Cardinality(DealtTo(n, a)) + 1
<1> DEFINE L == Len(Names)
           first == Place(m) - 1
           later == DealtTo(m, a) \ {first}
           f == [idx \in later |-> idx - L - Place(m) + Place(n)]
<1>1. L \in Nat \ {0}
  BY ShardsAssumption DEF ShardsAssumption
<1>2. Place(m) \in 1 .. L /\ Place(n) \in 1 .. L /\ Names[Place(n)] = n
  BY PlaceOfNode
<1>3. ASSUME NEW idx \in later PROVE f[idx] \in DealtTo(n, a)
  <2>1. idx \in 0 .. a - 1 /\ Deal(idx) = m /\ idx # first
    BY <1>3 DEF DealtTo
  <2>2. PICK q \in Nat, r \in Nat : q = idx \div L /\ r = idx % L
    BY <1>1, <2>1
  <2>3. r \in 0 .. L - 1 /\ idx = q * L + r
    BY <1>1, <2>1, <2>2, DivisionMod
  <2>4. r = first
    <3>1. r + 1 \in 1 .. L /\ Names[r + 1] = m
      BY <1>1, <2>1, <2>2, <2>3 DEF Deal
    <3>2. r + 1 = Place(m)
      BY <3>1, PlaceOfNode
    <3>3. QED
      BY <1>2, <2>2, <3>2
  <2>5. PICK e \in Nat : q = 1 + e
    <3>1. q # 0
      BY <1>1, <2>1, <2>3, <2>4
    <3>2. q - 1 \in Nat /\ q = 1 + (q - 1)
      BY <2>2, <3>1
    <3>3. QED
      BY <3>2
  <2>6. PICK v \in Nat : v = e * L /\ idx = v + L + first
    <3>1. e * L \in Nat /\ idx = e * L + L + first
      BY <1>1, <2>3, <2>4, <2>5
    <3>2. QED
      BY <3>1
  <2>7. f[idx] = v + (Place(n) - 1)
    <3>1. f[idx] = idx - L - Place(m) + Place(n)
      BY <1>3
    <3> HIDE DEF f, later, L
    <3>2. QED
      BY <1>1, <1>2, <2>6, <3>1
  <2>8. Place(n) - 1 \in 0 .. L - 1
    BY <1>1, <1>2
  <2>9. (e * L + (Place(n) - 1)) % L = Place(n) - 1
    BY <1>1, <2>5, <2>8, Division
  <2> HIDE DEF f, later
  <2>10. Deal(f[idx]) = n
    <3>1. f[idx] % L = Place(n) - 1
      BY <2>6, <2>7, <2>9, Zenon
    <3>2. (Place(n) - 1) + 1 = Place(n)
      BY <1>1, <1>2
    <3>3. QED
      BY <1>2, <3>1, <3>2, Zenon DEF Deal, L
  <2>11. f[idx] \in 0 .. a - 1
    <3> HIDE DEF L
    <3>1. Place(n) - 1 < L + first
      BY <1>1, <1>2
    <3>2. QED
      BY <1>1, <1>2, <2>1, <2>6, <2>7, <2>8, <3>1
  <2>12. QED
    BY <2>10, <2>11 DEF DealtTo
<1>4. f \in Injection(later, DealtTo(n, a))
  <2>1. later \subseteq Int
    BY DEF DealtTo
  <2>2. \A x, y \in later : f[x] = f[y] => x = y
    BY <1>1, <1>2, <2>1, SMTT(30)
  <2>3. f \in [later -> DealtTo(n, a)]
    BY <1>3
  <2>4. QED
    BY <2>2, <2>3 DEF Injection, IsInjective
<1>5. IsFiniteSet(DealtTo(m, a)) /\ IsFiniteSet(DealtTo(n, a))
  <2>1. IsFiniteSet(0 .. a - 1)
    BY FS_Interval
  <2>2. DealtTo(m, a) \subseteq 0 .. a - 1 /\ DealtTo(n, a) \subseteq 0 .. a - 1
    BY DEF DealtTo
  <2>3. QED
    BY <2>1, <2>2, FS_Subset
<1>6. Cardinality(later) <= Cardinality(DealtTo(n, a))
  BY <1>4, <1>5, FS_Injection
<1>7. /\ Cardinality(DealtTo(m, a)) \in Nat /\ Cardinality(DealtTo(n, a)) \in Nat
      /\ Cardinality(later) \in Nat
      /\ Cardinality(DealtTo(m, a)) <= Cardinality(later) + 1
  <2>1. Cardinality(DealtTo(m, a)) \in Nat /\ Cardinality(DealtTo(n, a)) \in Nat
    BY <1>5, FS_CardinalityType
  <2>2. CASE first \in DealtTo(m, a)
    <3>1. Cardinality(later) = Cardinality(DealtTo(m, a)) - 1
      BY <1>5, <2>2, FS_RemoveElement
    <3>2. IsFiniteSet(later)
      BY <1>5, FS_Subset
    <3>3. Cardinality(later) \in Nat
      BY <3>2, FS_CardinalityType
    <3> HIDE DEF later
    <3>4. QED
      BY <2>1, <3>1, <3>3
  <2>3. CASE first \notin DealtTo(m, a)
    <3>1. later = DealtTo(m, a)
      BY <2>3
    <3> HIDE DEF later
    <3>2. QED
      BY <2>1, <3>1
  <2>4. QED
    BY <2>2, <2>3
<1> HIDE DEF later
<1>8. QED
  BY <1>6, <1>7

(* What AllRowsOnDisk says without its sum: each file has a record for     *)
(* each of the rows that were dealt to its node, which no other node was   *)
(* dealt, and the files are of almost equal length.                        *)
FilesHoldRows ==
    stage = "done" =>
        LET len(n) == disk[Job.dir][n].bytes
        IN  /\ \A n \in Nodes : len(n) = RecordSize * Cardinality(DealtTo(n, Used(Job)))
            /\ \A m, n \in Nodes : len(m) <= len(n) + RecordSize

LEMMA HoldsRows == ShardsInv => FilesHoldRows
<1>1. ASSUME ShardsInv, stage = "done", NEW n \in Nodes
      PROVE  /\ disk[Job.dir][n].bytes = RecordSize * Cardinality(DealtTo(n, Used(Job)))
             /\ Used(Job) \in Nat
  <2>1. StageInv /\ Job \in Jobs /\ Job = jobs[Run]
    BY <1>1, LastJob DEF ShardsInv, Run, Job
  <2>2. disk[Job.dir][n] = Data(Run, RecordSize * Share(Job, n))
    BY <1>1, <2>1 DEF ShardsInv, FilesInv, FilesClosed, WholeFile
  <2>3. QED
    BY <2>1, <2>2, ShareIsDealt, JobTypes DEF Data
<1>2. ASSUME ShardsInv, stage = "done", NEW m \in Nodes, NEW n \in Nodes
      PROVE  disk[Job.dir][m].bytes <= disk[Job.dir][n].bytes + RecordSize
  <2>1. PICK j \in Nat, k \in Nat :
            /\ j = Cardinality(DealtTo(m, Used(Job)))
            /\ k = Cardinality(DealtTo(n, Used(Job))) /\ j <= k + 1
    BY <1>1, <1>2, DealIsEven, DealOneMore
  <2>2. RecordSize \in Nat
    BY ShardsAssumption DEF ShardsAssumption
  <2>3. RecordSize * j <= RecordSize * (k + 1)
    <3>1. PICK e \in Nat : k + 1 = j + e
      <4>1. k + 1 - j \in Nat /\ k + 1 = j + (k + 1 - j)
        BY <2>1
      <4>2. QED
        BY <4>1
    <3>2. RecordSize * (j + e) = RecordSize * j + RecordSize * e /\ RecordSize * e \in Nat
      BY <2>2
    <3>3. QED
      BY <2>1, <2>2, <3>1, <3>2
  <2>4. RecordSize * (k + 1) = RecordSize * k + RecordSize
    BY <2>2
  <2>5. QED
    BY <1>1, <1>2, <2>1, <2>3, <2>4
<1>3. QED
  BY <1>1, <1>2 DEF FilesHoldRows

-----------------------------------------------------------------------------
LEMMA NodesFinite == IsFiniteSet(Nodes)
<1>1. Names \in Seq(Nodes)
  BY ShardsAssumption DEF ShardsAssumption
<1>2. \A n \in Nodes : Place(n) \in 1 .. Len(Names) /\ Names[Place(n)] = n
  BY PlaceOfNode
<1> DEFINE f == [n \in Nodes |-> Place(n)]
<1>3. f \in Injection(Nodes, 1 .. Len(Names))
  <2>1. f \in [Nodes -> 1 .. Len(Names)]
    BY <1>2
  <2>2. \A m, n \in Nodes : f[m] = f[n] => m = n
    BY <1>2
  <2>3. QED
    BY <2>1, <2>2 DEF Injection, IsInjective
<1>4. IsFiniteSet(1 .. Len(Names))
  BY <1>1, FS_Interval
<1>5. QED
  BY <1>3, <1>4, FS_Injection

(* Each row is dealt to a node.                                            *)
LEMMA DealtToNodes ==
    ASSUME NEW idx \in Nat
    PROVE  Deal(idx) \in Nodes
<1>1. Names \in Seq(Nodes) /\ Len(Names) \in Nat \ {0}
  BY ShardsAssumption DEF ShardsAssumption
<1>2. (idx % Len(Names)) + 1 \in 1 .. Len(Names)
  BY <1>1
<1>3. QED
  BY <1>1, <1>2 DEF Deal

(* Rows dealt to the nodes of s, and to one node more.                     *)
DealtWithin(s, a) == {idx \in 0 .. a - 1 : Deal(idx) \in s}

LEMMA OneNodeMore ==
    ASSUME NEW a \in Nat, NEW s, NEW x \in s
    PROVE  /\ Cardinality(DealtWithin(s, a)) \in Nat /\ Cardinality(DealtTo(x, a)) \in Nat
           /\ Cardinality(DealtWithin(s \ {x}, a)) \in Nat
           /\ Cardinality(DealtWithin(s, a)) =
                  Cardinality(DealtTo(x, a)) + Cardinality(DealtWithin(s \ {x}, a))
<1> DEFINE mine == DealtTo(x, a)
           others == DealtWithin(s \ {x}, a)
<1>1. DealtWithin(s, a) = mine \cup others /\ mine \cap others = {}
  BY DEF DealtWithin, DealtTo
<1>2. IsFiniteSet(DealtWithin(s, a)) /\ IsFiniteSet(mine) /\ IsFiniteSet(others)
  <2>1. IsFiniteSet(0 .. a - 1)
    BY FS_Interval
  <2>2. DealtWithin(s, a) \subseteq 0 .. a - 1 /\ mine \subseteq 0 .. a - 1 /\ others \subseteq 0 .. a - 1
    BY DEF DealtWithin, DealtTo
  <2>3. QED
    BY <2>1, <2>2, FS_Subset
<1>3. /\ Cardinality(DealtWithin(s, a)) \in Nat
      /\ Cardinality(mine) \in Nat /\ Cardinality(others) \in Nat
  BY <1>2, FS_CardinalityType
<1> HIDE DEF mine, others
<1>4. Cardinality(mine \cup others) = Cardinality(mine) + Cardinality(others)
  <2>1. Cardinality(mine \cup others) =
            Cardinality(mine) + Cardinality(others) - Cardinality(mine \cap others)
    BY <1>2, FS_Union
  <2>2. Cardinality(mine \cap others) = 0
    BY <1>1, FS_EmptySet
  <2>3. QED
    BY <1>3, <2>1, <2>2
<1>5. QED
  BY <1>1, <1>3, <1>4 DEF mine, others

(* The length of the file of n that the last run wrote.                    *)
OnDisk(n) == disk[Job.dir][n].bytes

(* Adding up the lengths of files that hold the dealt rows counts each row *)
(* once.  The sum is a recursive function on the sets of nodes: what it    *)
(* should be satisfies its equation, so that the function exists, and a    *)
(* smallest set where the two differ would be neither empty nor not.       *)
LEMMA RowsAddUp ==
    ASSUME NEW a \in Nat,
           \A n \in Nodes : OnDisk(n) = RecordSize * Cardinality(DealtTo(n, a))
    PROVE  FoldSet(LAMBDA n, sum : OnDisk(n) + sum, 0, Nodes) = RecordSize * a
<1> DEFINE Sums(f) == f = [s \in SUBSET Nodes |->
                              IF s = {} THEN 0
                              ELSE LET x == CHOOSE x \in s : TRUE
                                   IN  OnDisk(x) + f[s \ {x}]]
           bytes == [s \in SUBSET Nodes |-> RecordSize * Cardinality(DealtWithin(s, a))]
           iter == CHOOSE f : Sums(f)
<1>1. FoldSet(LAMBDA n, sum : OnDisk(n) + sum, 0, Nodes) = iter[Nodes]
  BY DEF FoldSet, MapThenFoldSet
<1>2. bytes[{}] = 0
  <2>1. DealtWithin({}, a) = {}
    BY DEF DealtWithin
  <2>2. Cardinality({}) = 0 /\ RecordSize * 0 = 0
    BY FS_EmptySet, ShardsAssumption DEF ShardsAssumption
  <2>3. QED
    BY <2>1, <2>2
<1>3. ASSUME NEW s \in SUBSET Nodes, NEW x \in s
      PROVE  bytes[s] = OnDisk(x) + bytes[s \ {x}] /\ bytes[s] \in Nat
  <2>1. PICK j \in Nat, k \in Nat :
            /\ j = Cardinality(DealtTo(x, a)) /\ k = Cardinality(DealtWithin(s \ {x}, a))
            /\ Cardinality(DealtWithin(s, a)) = j + k
    BY OneNodeMore, ZenonT(60)
  <2>2. RecordSize \in Nat
    BY ShardsAssumption DEF ShardsAssumption
  <2>3. RecordSize * (j + k) = RecordSize * j + RecordSize * k /\ RecordSize * (j + k) \in Nat
    BY <2>2
  <2>4. OnDisk(x) = RecordSize * j /\ s \ {x} \in SUBSET Nodes
    BY <2>1
  <2>5. QED
    BY <2>1, <2>3, <2>4
<1>4. Sums(iter)
  <2>1. Sums(bytes)
    <3>1. ASSUME NEW s \in SUBSET Nodes
          PROVE  bytes[s] = IF s = {} THEN 0
                            ELSE LET x == CHOOSE x \in s : TRUE
                                 IN  OnDisk(x) + bytes[s \ {x}]
      <4>1. CASE s = {}
        BY <1>2, <4>1
      <4>2. CASE s # {}
        <5>1. (CHOOSE x \in s : TRUE) \in s
          BY <4>2
        <5> HIDE DEF bytes
        <5>2. QED
          BY <1>3, <4>2, <5>1
      <4>3. QED
        BY <4>1, <4>2
    <3>2. QED
      BY <3>1
  <2> HIDE DEF Sums, bytes
  <2>2. QED
    BY <2>1
<1> HIDE DEF bytes, iter
<1>5. iter[Nodes] = bytes[Nodes]
  <2> DEFINE wrong == {s \in SUBSET Nodes : iter[s] # bytes[s]}
             sizes == {Cardinality(s) : s \in wrong}
  <2>1. \A s \in SUBSET Nodes : IsFiniteSet(s) /\ Cardinality(s) \in Nat
    <3>1. IsFiniteSet(Nodes)
      BY NodesFinite
    <3>2. QED
      BY <3>1, FS_Subset, FS_CardinalityType
  <2>2. SUFFICES ASSUME wrong # {} PROVE FALSE
    OBVIOUS
  <2>3. sizes \in SUBSET Nat /\ sizes # {}
    BY <2>1, <2>2
  <2>4. PICK s \in wrong : \A t \in wrong : Cardinality(s) <= Cardinality(t)
    <3>1. Min(sizes) \in sizes /\ \A k \in sizes : Min(sizes) <= k
      BY <2>3, LeastNumber
    <3>2. PICK s \in wrong : Cardinality(s) = Min(sizes)
      BY <3>1
    <3>3. \A t \in wrong : Cardinality(t) \in sizes
      OBVIOUS
    <3>4. QED
      BY <3>1, <3>2, <3>3
  <2>5. s # {}
    BY <1>2, <1>4, <2>4
  <2>6. PICK x \in s : x = CHOOSE y \in s : TRUE
    BY <2>5
  <2>7. iter[s] = OnDisk(x) + iter[s \ {x}]
    BY <1>4, <2>4, <2>5, <2>6
  <2>8. Cardinality(s \ {x}) = Cardinality(s) - 1 /\ s \ {x} \in SUBSET Nodes
    BY <2>1, <2>4, FS_RemoveElement
  <2>9. s \ {x} \notin wrong
    BY <2>1, <2>4, <2>8
  <2>10. QED
    BY <1>3, <2>4, <2>7, <2>8, <2>9
<1>6. bytes[Nodes] = RecordSize * a
  <2>1. DealtWithin(Nodes, a) = 0 .. a - 1
    BY DealtToNodes DEF DealtWithin
  <2>2. Cardinality(0 .. a - 1) = a
    BY FS_Interval
  <2>3. bytes[Nodes] = RecordSize * Cardinality(DealtWithin(Nodes, a))
    BY Zenon DEF bytes
  <2>4. QED
    BY <2>1, <2>2, <2>3, Zenon
<1>7. QED
  BY <1>1, <1>5, <1>6

(* A run of make_shards.py that ends well has written every row that it    *)
(* used to one file, and no file has more than one record more than        *)
(* another.                                                                *)
THEOREM EveryRowIsOnDisk == Spec => []AllRowsOnDisk
<1>1. ShardsInv /\ stage = "done" => FilesHoldRows
  BY HoldsRows
<1>2. ASSUME ShardsInv, stage = "done" PROVE AllRowsOnDisk
  <2>1. PICK a \in Nat : a = Used(Job)
    BY <1>2, LastJob, JobTypes DEF ShardsInv, StageInv
  <2>2. \A n \in Nodes : OnDisk(n) = RecordSize * Cardinality(DealtTo(n, a))
    BY <1>1, <1>2, <2>1 DEF FilesHoldRows, OnDisk
  <2>3. FoldSet(LAMBDA n, sum : OnDisk(n) + sum, 0, Nodes) = RecordSize * Used(Job)
    BY <2>1, <2>2, RowsAddUp
  <2>4. FoldSet(LAMBDA n, sum : disk[Job.dir][n].bytes + sum, 0, Nodes) = RecordSize * Used(Job)
    BY <2>3 DEF OnDisk
  <2>5. \A m, n \in Nodes : disk[Job.dir][m].bytes <= disk[Job.dir][n].bytes + RecordSize
    BY <1>1, <1>2 DEF FilesHoldRows
  <2>6. QED
    BY <2>4, <2>5 DEF AllRowsOnDisk
<1>3. ShardsInv => AllRowsOnDisk
  BY <1>2 DEF AllRowsOnDisk
<1>4. QED
  BY <1>3, ShardsInvAtInit, ShardsInvKept, PTL DEF Spec
=============================================================================
