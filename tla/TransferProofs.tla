--------------------------- MODULE TransferProofs ---------------------------
(***************************************************************************)
(* What a download leaves on disk, for every size, every plan of ranges    *)
(* and every number of faults, edits and kills; what an upload lets the    *)
(* server show, for every set of editions; and which update is offered.    *)
(***************************************************************************)
EXTENDS Download, Upload, Updates, ListTheorems, SequenceTheorems, TLAPS

Pcs == {"idle", "attempt", "get", "stream", "versions", "allocate", "remember", "fetch",
        "verify", "rename", "replace", "sweepRanges", "sweepVersion",
        "discard", "discardRanges", "discardVersion", "over"}

Verdicts == {"retry", "fail", "uncounted"}

Jobs == [pc : Pcs, plan : Versions \cup {NoVersion}, attempt : Nat,
         seen : Versions \cup {NoVersion}, pending : SUBSET (Int \X Int),
         failed : BOOLEAN, verdict : Verdicts, after : Verdicts \cup {"allocate"}]

\* What the later steps of a download rely on: there is a plan, and each file
\* swept or discarded is gone, if it could be removed.
TypeInv ==
    /\ setting \in DownloadSettings
    /\ remote \in Versions
    /\ job \in Jobs
    /\ ~At("idle") => job.plan \in Versions

GonePart == job.pc \in {"sweepRanges", "sweepVersion", "discardRanges", "discardVersion"}
GoneRanges == job.pc \in {"sweepVersion", "discardVersion"}

CleanInv ==
    /\ GonePart => kept \/ part = Absent
    /\ GoneRanges => kept \/ rangesDone = {}
    /\ At("over") /\ Leftover => kept \/ ended = "unfinished"
    /\ LeftoversHaveReasons

CheckedInv ==
    setting.checksum => /\ job.pc \in {"rename", "replace"} => part = Whole(job.plan)
                        /\ DownloadedIsOneVersion

\* The offsets of a range lie inside the file.
LEMMA RangesAreIntegers ==
    ASSUME NEW size \in Nat \ {0}, NEW streams \in Nat
    PROVE  SplitRanges(size, streams) \subseteq Int \X Int
<1> DEFINE n == Min2(Max2(streams, 1), size)
           chunk == size \div n
<1>1. n \in Nat \ {0} BY DEF Min2, Max2
<1>2. chunk \in Int BY <1>1
<1>3. ASSUME NEW i \in 0..(n - 1)
      PROVE  <<i * chunk, IF i + 1 = n THEN size - 1 ELSE i * chunk + chunk - 1>> \in Int \X Int
  <2>1. i * chunk \in Int BY <1>1, <1>2
  <2> QED BY <2>1, <1>1, <1>2
<1> QED BY <1>3 DEF SplitRanges

\* Integer division, as the provers know it.
LEMMA Quotient ==
    ASSUME NEW a \in Nat, NEW b \in Nat \ {0}
    PROVE  /\ a \div b \in Nat
           /\ b * (a \div b) <= a
           /\ a < b * (a \div b) + b
  BY Z3

\* Multiples of the chunk are a chunk apart.
LEMMA Multiples ==
    ASSUME NEW c \in Nat \ {0}, NEW i \in Nat, NEW j \in Nat, i < j
    PROVE  i * c + c <= j * c
<1>1. PICK d \in Nat : j = i + 1 + d
  <2>1. j - i - 1 \in Nat OBVIOUS
  <2> QED BY <2>1
<1>2. j * c = i * c + c + d * c BY <1>1, Z3
<1>3. d * c >= 0 BY <1>1, Z3
<1>4. i * c \in Int /\ d * c \in Int OBVIOUS
<1> QED BY <1>2, <1>3, <1>4

\* split_ranges, "contiguous and cover the whole file": every byte of the file
\* is in one range, and in one only, so that no byte is left out and no two
\* threads write the same one.
THEOREM RangesTile ==
    ASSUME NEW size \in Nat \ {0}, NEW streams \in Nat, NEW o \in 0..(size - 1)
    PROVE  /\ \E r \in SplitRanges(size, streams) : r[1] <= o /\ o <= r[2]
           /\ \A r, q \in SplitRanges(size, streams) :
                  r[1] <= o /\ o <= r[2] /\ q[1] <= o /\ o <= q[2] => r = q
<1> DEFINE n == Min2(Max2(streams, 1), size)
           chunk == size \div n
           Piece(i) == <<i * chunk, IF i + 1 = n THEN size - 1 ELSE i * chunk + chunk - 1>>
<1>1. n \in Nat \ {0} /\ n <= size BY DEF Min2, Max2
<1>2. SplitRanges(size, streams) = {Piece(i) : i \in 0..(n - 1)} BY DEF SplitRanges
<1>3. chunk \in Nat /\ n * chunk <= size /\ size < n * chunk + n
  BY <1>1, Quotient
<1> HIDE DEF n, chunk
<1>4. chunk # 0
  <2>1. SUFFICES ASSUME chunk = 0 PROVE FALSE OBVIOUS
  <2>2. n * chunk = 0 BY <1>1, <2>1
  <2> QED BY <1>1, <1>3, <2>2
<1>5. \A i \in 0..(n - 1) : i * chunk \in Nat /\ i * chunk + chunk <= n * chunk
  BY <1>1, <1>3, <1>4, Multiples, Z3
<1>6. o \in Nat /\ o < size OBVIOUS
<1>7. \E i \in 0..(n - 1) : Piece(i)[1] <= o /\ o <= Piece(i)[2]
  <2> DEFINE k == o \div chunk
  <2>1. k \in Nat /\ chunk * k <= o /\ o < chunk * k + chunk BY <1>3, <1>4, <1>6, Quotient
  <2>2. chunk * k = k * chunk BY <2>1, <1>3, Z3
  <2> HIDE DEF k
  <2>3. CASE k < n - 1
    <3>1. k \in 0..(n - 1) /\ k + 1 # n BY <1>1, <2>1, <2>3
    <3>2. k * chunk \in Nat BY <3>1, <1>5
    <3> QED BY <3>1, <3>2, <2>1, <2>2, <1>3, <1>6
  <2>4. CASE k >= n - 1
    <3>1. (n - 1) * chunk <= k * chunk
      <4>1. CASE k = n - 1 BY <4>1, <2>1, <1>3
      <4>2. CASE k > n - 1 BY <4>2, <1>1, <1>3, <1>4, <2>1, Multiples, Z3
      <4> QED BY <2>4, <4>1, <4>2, <1>1, <2>1
    <3>2. n - 1 \in 0..(n - 1) BY <1>1
    <3>3. (n - 1) * chunk \in Nat BY <3>2, <1>5
    <3>4. (n - 1) * chunk <= o BY <3>1, <3>3, <2>1, <2>2, <1>3, <1>6
    <3> QED BY <3>2, <3>3, <3>4, <1>1, <1>6
  <2> QED BY <2>3, <2>4, <2>1, <1>1
<1>8. ASSUME NEW i \in 0..(n - 1), NEW j \in 0..(n - 1),
             Piece(i)[1] <= o, o <= Piece(i)[2], Piece(j)[1] <= o, o <= Piece(j)[2], i < j
      PROVE  FALSE
  <2>1. i + 1 # n BY <1>1, <1>8
  <2>2. o <= i * chunk + chunk - 1 BY <1>8, <2>1
  <2>3. j * chunk <= o BY <1>8
  <2>4. i * chunk + chunk <= j * chunk BY <1>1, <1>3, <1>4, <1>8, Multiples
  <2>5. i * chunk \in Nat /\ j * chunk \in Nat BY <1>5
  <2> QED BY <2>2, <2>3, <2>4, <2>5, <1>3, <1>6
<1>9. ASSUME NEW i \in 0..(n - 1), NEW j \in 0..(n - 1),
             Piece(i)[1] <= o, o <= Piece(i)[2], Piece(j)[1] <= o, o <= Piece(j)[2]
      PROVE  Piece(i) = Piece(j)
  <2>1. i = j \/ i < j \/ j < i BY <1>1
  <2>2. i = j BY <2>1, <1>8, <1>9
  <2> QED BY <2>2
<1> HIDE DEF Piece
<1> QED BY <1>2, <1>7, <1>9

\* The initial state has the types of the model.
LEMMA TypeInit == DownloadInit => TypeInv
<1> SUFFICES ASSUME DownloadInit PROVE TypeInv OBVIOUS
<1>1. Idle \in Jobs BY DEF Idle, Jobs, Pcs, Verdicts
<1> QED BY <1>1 DEF DownloadInit, TypeInv, At, Idle

\* Every step keeps the types of the setting, the server and the job.
LEMMA TypeStep == TypeInv /\ [DownloadNext]_downloadVars => TypeInv'
<1> SUFFICES ASSUME TypeInv, [DownloadNext]_downloadVars PROVE TypeInv'
    OBVIOUS
<1>1. setting' \in DownloadSettings /\ remote' \in Versions
  BY DEF TypeInv, DownloadNext, DownloadStep, downloadVars, Server, StartDownload, ChooseRanges,
     ChooseStream, OpenStream, OutOfRange, ReadBlock, StreamEnds, CheckPartVersion, Allocate,
     RememberVersion, FetchRange, RangeShort, RangeSkipped, JoinRanges, Verify, Rename,
     SweepRanges, SweepVersion, DiscardPart, DiscardRanges, DiscardVersion, RangeIgnored,
     Cancelled, RequestFails, Kill, RemoteEdit, LocalDelete, RenameFails, ReturnsAtOnce, NoteOutcome
<1>2. job' \in Jobs
  <2> USE DEF TypeInv, Jobs, Pcs, Verdicts, Goto, At, Failing, FetchFails
  <2>1. CASE StartDownload BY <2>1 DEF StartDownload, Idle
  <2>2. CASE ChooseRanges BY <2>2 DEF ChooseRanges
  <2>3. CASE ChooseStream BY <2>3 DEF ChooseStream
  <2>4. CASE OpenStream BY <2>4 DEF OpenStream
  <2>5. CASE OutOfRange BY <2>5 DEF OutOfRange
  <2>6. CASE ReadBlock BY <2>6 DEF ReadBlock
  <2>7. CASE StreamEnds BY <2>7 DEF StreamEnds
  <2>8. CASE RangeIgnored BY <2>8 DEF RangeIgnored
  <2>9. CASE CheckPartVersion BY <2>9 DEF CheckPartVersion
  <2>10. CASE Allocate BY <2>10 DEF Allocate
  <2>11. CASE RememberVersion
    <3>0. job.plan \in Versions BY <2>11 DEF RememberVersion
    <3>1. setting.streams \in Nat BY SettingsAssumption DEF Settings
    <3>2. Size[job.plan] \in Nat \ {0} BY <3>0, SizeAssumption DEF Versions
    <3>3. SplitRanges(Size[job.plan], setting.streams) \subseteq Int \X Int
      BY <3>1, <3>2, RangesAreIntegers
    <3> QED BY <2>11, <3>3 DEF RememberVersion
  <2>12. CASE \E r \in job.pending : FetchRange(r) BY <2>12 DEF FetchRange
  <2>13. CASE \E r \in job.pending : RangeShort(r)
    <3>1. PICK r \in job.pending : RangeShort(r) BY <2>13
    <3> DEFINE verdict == IF r[1] < Size[remote] THEN "retry" ELSE "fail"
    <3>2. verdict \in Verdicts OBVIOUS
    <3>3. FetchFails(r, verdict) BY <3>1 DEF RangeShort
    <3> HIDE DEF verdict
    <3> QED BY <3>2, <3>3
  <2>14. CASE \E r \in job.pending : RangeSkipped(r) BY <2>14 DEF RangeSkipped
  <2>15. CASE JoinRanges BY <2>15 DEF JoinRanges
  <2>16. CASE Verify BY <2>16 DEF Verify
  <2>17. CASE Rename BY <2>17 DEF Rename
  <2>18. CASE SweepRanges BY <2>18 DEF SweepRanges
  <2>19. CASE SweepVersion BY <2>19 DEF SweepVersion, Returns, Idle
  <2>20. CASE DiscardPart BY <2>20 DEF DiscardPart
  <2>21. CASE DiscardRanges BY <2>21 DEF DiscardRanges
  <2>22. CASE DiscardVersion
    <3>1. job.attempt + 1 \in Nat OBVIOUS
    <3>2. CASE Goto("allocate") BY <3>2
    <3>3. CASE job' = [job EXCEPT !.pc = "attempt", !.attempt = @ + 1] BY <3>1, <3>3
    <3>4. CASE \E how \in {"uncounted", "failed"} : Returns(how)
      <4>1. job' = [Idle EXCEPT !.pc = "over", !.plan = job.plan] BY <3>4 DEF Returns
      <4> QED BY <4>1 DEF Idle
    <3> QED BY <2>22, <3>2, <3>3, <3>4 DEF DiscardVersion
  <2>23. CASE Cancelled BY <2>23 DEF Cancelled
  <2>24. CASE RequestFails
    <3>1. CASE \E verdict \in Verdicts : job' = Failing(verdict) BY <3>1
    <3>2. CASE \E r \in job.pending : \E verdict \in Verdicts : FetchFails(r, verdict)
      <4>1. PICK r \in job.pending, verdict \in Verdicts : FetchFails(r, verdict) BY <3>2
      <4> QED BY <4>1
    <3> QED BY <2>24, <3>1, <3>2 DEF RequestFails
  <2>25. CASE Kill BY <2>25 DEF Kill, Idle
  <2>26. CASE RemoteEdit \/ LocalDelete \/ UNCHANGED downloadVars
    BY <2>26 DEF RemoteEdit, LocalDelete, downloadVars
  <2>27. CASE RenameFails BY <2>27 DEF RenameFails
  <2>28. CASE ReturnsAtOnce BY <2>28 DEF ReturnsAtOnce, Returns, Idle
  <2>29. CASE NoteOutcome BY <2>29 DEF NoteOutcome, Idle
  <2> QED
    BY <2>1, <2>2, <2>3, <2>4, <2>5, <2>6, <2>7, <2>8, <2>9, <2>10, <2>11, <2>12, <2>13,
       <2>14, <2>15, <2>16, <2>17, <2>18, <2>19, <2>20, <2>21, <2>22, <2>23, <2>24, <2>25, <2>26,
       <2>27, <2>28, <2>29
    DEF DownloadNext, DownloadStep
<1>3. ~At("idle")' => job'.plan \in Versions
  <2> USE DEF TypeInv, Jobs, Goto, At, Failing, FetchFails, Returns, Idle
  <2>1. CASE StartDownload \/ ChooseRanges \/ ChooseStream
    BY <2>1 DEF StartDownload, ChooseRanges, ChooseStream
  <2>2. CASE OpenStream \/ OutOfRange \/ ReadBlock \/ StreamEnds \/ RangeIgnored
    BY <2>2 DEF OpenStream, OutOfRange, ReadBlock, StreamEnds, RangeIgnored
  <2>3. CASE CheckPartVersion \/ Allocate \/ RememberVersion
    BY <2>3 DEF CheckPartVersion, Allocate, RememberVersion
  <2>4. CASE \E r \in job.pending : FetchRange(r) \/ RangeShort(r) \/ RangeSkipped(r)
    BY <2>4 DEF FetchRange, RangeShort, RangeSkipped
  <2>5. CASE JoinRanges \/ Verify \/ Rename BY <2>5 DEF JoinRanges, Verify, Rename
  <2>6. CASE SweepRanges \/ SweepVersion BY <2>6 DEF SweepRanges, SweepVersion
  <2>7. CASE DiscardPart \/ DiscardRanges BY <2>7 DEF DiscardPart, DiscardRanges
  <2>12. CASE DiscardVersion
    <3>1. CASE Goto("allocate") BY <2>12, <3>1 DEF DiscardVersion
    <3>2. CASE job' = [job EXCEPT !.pc = "attempt", !.attempt = @ + 1] BY <2>12, <3>2 DEF DiscardVersion
    <3>3. CASE \E how \in {"uncounted", "failed"} : Returns(how) BY <2>12, <3>3 DEF DiscardVersion
    <3> QED BY <2>12, <3>1, <3>2, <3>3 DEF DiscardVersion
  <2>8. CASE Cancelled BY <2>8 DEF Cancelled
  <2>9. CASE RequestFails
    <3>1. CASE ~At("idle") /\ \E verdict \in Verdicts : job' = Failing(verdict) BY <3>1
    <3>2. CASE At("fetch") /\ \E r \in job.pending : \E verdict \in Verdicts : FetchFails(r, verdict)
      BY <3>2
    <3> QED BY <2>9, <3>1, <3>2 DEF RequestFails, Verdicts
  <2>11. CASE Kill \/ NoteOutcome BY <2>11 DEF Kill, NoteOutcome
  <2>13. CASE RenameFails \/ ReturnsAtOnce BY <2>13 DEF RenameFails, ReturnsAtOnce
  <2>10. CASE RemoteEdit \/ LocalDelete \/ UNCHANGED downloadVars
    BY <2>10 DEF RemoteEdit, LocalDelete, downloadVars
  <2> QED
    BY <2>1, <2>2, <2>3, <2>4, <2>5, <2>6, <2>7, <2>8, <2>9, <2>10, <2>11, <2>12, <2>13
    DEF DownloadNext, DownloadStep
<1> QED BY <1>1, <1>2, <1>3 DEF TypeInv

\* A step keeps what the later steps of a download rely on.
LEMMA CleanStep ==
    TypeInv /\ CleanInv /\ [DownloadNext]_downloadVars => CleanInv'
<1> SUFFICES ASSUME TypeInv, CleanInv, [DownloadNext]_downloadVars PROVE CleanInv'
    OBVIOUS
<1> USE DEF TypeInv, Jobs, CleanInv, GonePart, GoneRanges, LeftoversHaveReasons, Leftover, Goto, At,
        Idle, Server, Disk, Calm
<1>1. CASE StartDownload \/ ChooseRanges \/ ChooseStream
  BY <1>1 DEF StartDownload, ChooseRanges, ChooseStream
<1>2. CASE OpenStream \/ OutOfRange \/ ReadBlock \/ StreamEnds \/ RangeIgnored
  BY <1>2 DEF OpenStream, OutOfRange, ReadBlock, StreamEnds, RangeIgnored, Failing
<1>3. CASE CheckPartVersion \/ Allocate \/ RememberVersion
  BY <1>3 DEF CheckPartVersion, Allocate, RememberVersion
<1>4. CASE \E r \in job.pending : FetchRange(r) \/ RangeShort(r) \/ RangeSkipped(r)
  BY <1>4 DEF FetchRange, RangeShort, RangeSkipped, FetchFails
<1>5. CASE JoinRanges \/ Verify \/ Rename
  <2>1. CASE JoinRanges BY <2>1 DEF JoinRanges, Failing
  <2>2. CASE Verify BY <2>2 DEF Verify, Failing
  <2>3. CASE Rename BY <2>3 DEF Rename, Failing
  <2> QED BY <1>5, <2>1, <2>2, <2>3
<1>6. CASE SweepRanges \/ SweepVersion BY <1>6 DEF SweepRanges, SweepVersion, Removes, Returns
<1>7. CASE DiscardPart \/ DiscardRanges BY <1>7 DEF DiscardPart, DiscardRanges, Removes
<1>8. CASE DiscardVersion
  <2>1. kept' \/ (part' = Absent /\ rangesDone' = {} /\ partOf' = NoVersion)
    BY <1>8 DEF DiscardVersion, Removes
  <2>2. job'.pc \in {"allocate", "attempt", "over"} BY <1>8 DEF DiscardVersion, Returns
  <2> QED BY <2>1, <2>2
<1>9. CASE Cancelled BY <1>9 DEF Cancelled, Failing
<1>12. CASE RenameFails \/ ReturnsAtOnce BY <1>12 DEF RenameFails, ReturnsAtOnce, Returns
<1>13. CASE Kill \/ NoteOutcome BY <1>13 DEF Kill, NoteOutcome
<1>10. CASE RequestFails
  <2>1. UNCHANGED <<dest, part, rangesDone, partOf, setting, ended, kept>> BY <1>10 DEF RequestFails
  <2>2. job'.pc \in {"discard", "fetch"} BY <1>10 DEF RequestFails, Failing, FetchFails
  <2> QED BY <2>1, <2>2
<1>11. CASE RemoteEdit \/ LocalDelete \/ UNCHANGED downloadVars
  BY <1>11 DEF RemoteEdit, LocalDelete, downloadVars
<1> QED
  BY <1>1, <1>2, <1>3, <1>4, <1>5, <1>6, <1>7, <1>8, <1>9, <1>10, <1>11, <1>12, <1>13
  DEF DownloadNext, DownloadStep

\* A step keeps the checked file one version: only the rename replaces it, and
\* between the check and the rename nothing touches the part.
LEMMA CheckedStep ==
    TypeInv /\ CheckedInv /\ [DownloadNext]_downloadVars => CheckedInv'
<1> SUFFICES ASSUME TypeInv, CheckedInv, [DownloadNext]_downloadVars, setting'.checksum
             PROVE  /\ (job.pc \in {"rename", "replace"} => part = Whole(job.plan))'
                    /\ DownloadedIsOneVersion'
    BY DEF CheckedInv
<1> USE DEF TypeInv, Jobs, CheckedInv, DownloadedIsOneVersion, Whole, Goto, At, Idle, Server, Disk, Calm
<1>1. CASE StartDownload \/ ChooseRanges \/ ChooseStream
  BY <1>1 DEF StartDownload, ChooseRanges, ChooseStream
<1>2. CASE OpenStream \/ OutOfRange \/ ReadBlock \/ StreamEnds \/ RangeIgnored
  BY <1>2 DEF OpenStream, OutOfRange, ReadBlock, StreamEnds, RangeIgnored, Failing
<1>3. CASE CheckPartVersion \/ Allocate \/ RememberVersion
  <2>1. CASE CheckPartVersion BY <2>1 DEF CheckPartVersion
  <2>2. CASE Allocate BY <2>2 DEF Allocate
  <2>3. CASE RememberVersion BY <2>3 DEF RememberVersion
  <2> QED BY <1>3, <2>1, <2>2, <2>3
<1>4. CASE \E r \in job.pending : FetchRange(r) \/ RangeShort(r) \/ RangeSkipped(r)
  <2>1. PICK r \in job.pending : FetchRange(r) \/ RangeShort(r) \/ RangeSkipped(r) BY <1>4
  <2>2. CASE FetchRange(r) BY <2>2 DEF FetchRange, FetchFails
  <2>3. CASE RangeShort(r) BY <2>3 DEF RangeShort, FetchFails
  <2>4. CASE RangeSkipped(r) BY <2>4 DEF RangeSkipped, FetchFails
  <2> QED BY <2>1, <2>2, <2>3, <2>4
<1>5. CASE JoinRanges BY <1>5 DEF JoinRanges, Failing
<1>12. CASE Verify
  <2>1. CASE Verified BY <1>12, <2>1 DEF Verify, Verified
  <2>2. CASE ~Verified BY <1>12, <2>2 DEF Verify, Failing
  <2> QED BY <2>1, <2>2
<1>6. CASE Rename BY <1>6 DEF Rename
<1>7. CASE SweepRanges \/ SweepVersion BY <1>7 DEF SweepRanges, SweepVersion, Returns
<1>8. CASE DiscardPart \/ DiscardRanges BY <1>8 DEF DiscardPart, DiscardRanges
<1>15. CASE RenameFails \/ ReturnsAtOnce BY <1>15 DEF RenameFails, ReturnsAtOnce, Returns
<1>14. CASE DiscardVersion
  <2>1. CASE Goto("allocate") BY <1>14, <2>1 DEF DiscardVersion
  <2>2. CASE job' = [job EXCEPT !.pc = "attempt", !.attempt = @ + 1] BY <1>14, <2>2 DEF DiscardVersion
  <2>3. CASE \E how \in {"uncounted", "failed"} : Returns(how)
    BY <1>14, <2>3 DEF DiscardVersion, Returns
  <2> QED BY <1>14, <2>1, <2>2, <2>3 DEF DiscardVersion
<1>9. CASE Cancelled BY <1>9 DEF Cancelled, Failing
<1>13. CASE Kill \/ NoteOutcome BY <1>13 DEF Kill, NoteOutcome
<1>10. CASE RequestFails
  <2>1. UNCHANGED <<dest, part, rangesDone, partOf, setting, ended>> BY <1>10 DEF RequestFails
  <2>2. job'.pc \in {"discard", "fetch"} BY <1>10 DEF RequestFails, Failing, FetchFails
  <2> QED BY <2>1, <2>2
<1>11. CASE RemoteEdit \/ LocalDelete \/ UNCHANGED downloadVars
  BY <1>11 DEF RemoteEdit, LocalDelete, downloadVars
<1> QED
  BY <1>1, <1>2, <1>3, <1>4, <1>5, <1>6, <1>7, <1>8, <1>9, <1>10, <1>11, <1>12, <1>13, <1>14, <1>15
  DEF DownloadNext, DownloadStep

\* The part file and its sidecars outlive no download that is done, whose fetching
\* fails or that is cancelled, whatever failed on the way and was left by former
\* ones: only a kill, a finish that fails or a file that cannot be removed leaves
\* them.
THEOREM LeftoversAreExplained == DownloadSpec => []LeftoversHaveReasons
<1>1. DownloadInit => TypeInv /\ CleanInv
  BY TypeInit DEF DownloadInit, CleanInv, GonePart, GoneRanges, LeftoversHaveReasons, Leftover, Idle, At
<1>2. TypeInv /\ CleanInv /\ [DownloadNext]_downloadVars => (TypeInv /\ CleanInv)'
  BY TypeStep, CleanStep
<1>3. CleanInv => LeftoversHaveReasons BY DEF CleanInv
<1> QED BY <1>1, <1>2, <1>3, PTL DEF DownloadSpec

\* With a checksum, what comes down is one version of the server's file, from
\* its first byte to its last, whatever was edited, dropped or killed.
THEOREM ChecksumMeansOneVersion ==
    DownloadSpec => [](setting.checksum => DownloadedIsOneVersion)
<1>1. DownloadInit => TypeInv /\ CheckedInv
  BY TypeInit DEF DownloadInit, CheckedInv, DownloadedIsOneVersion, Idle, At
<1>2. TypeInv /\ CheckedInv /\ [DownloadNext]_downloadVars => (TypeInv /\ CheckedInv)'
  BY TypeStep, CheckedStep
<1>3. CheckedInv => (setting.checksum => DownloadedIsOneVersion) BY DEF CheckedInv
<1> QED BY <1>1, <1>2, <1>3, PTL DEF DownloadSpec

-----------------------------------------------------------------------------
\* Where an upload is, and what names its folder.
UploadPcs == {"idle", "scanned", "hash", "put", "mkcol", "list", "chunk", "move", "create", "patch"}

Stamps == {Stamp[v] : v \in Editions} \cup {0}

Idents == Nat \X Stamps

Uploads == [pc : UploadPcs, id : Idents, index : Nat \ {0}, size : Nat, digest : Nat,
            present : SUBSET Int, attempt : Nat]

\* The requests of an upload are those of its way, and the checksum that goes with
\* a PUT or a MOVE is one of an edition.
UploadTypeInv ==
    /\ way \in UploadSettings
    /\ file \in Editions
    /\ upload \in Uploads
    /\ UpAt("patch") \/ UpAt("create") => way.way = "tus"
    /\ upload.pc \in {"mkcol", "list", "chunk", "move"} => way.way = "chunks"
    /\ UpAt("hash") \/ UpAt("put") => way.way = "put"
    /\ UpAt("put") \/ UpAt("move") => upload.digest \in Editions

\* Where what goes up is compared with the file, or the file cannot change
\* meanwhile: chunks whose MOVE carries a checksum, a TUS upload of a file that
\* nobody saves.
Compared ==
    /\ way.way = "chunks" => way.checksum
    /\ way.way = "tus" => "edit" \notin way.faults

\* What a TUS upload has sent is the beginning of the file.
SentInv ==
    /\ way.way = "tus" /\ upload.pc \in {"create", "patch"} => upload.size = Chunks[file]
    /\ UpAt("patch") => /\ upload.index <= Chunks[file] + 1
                        /\ tusData = [i \in 1..(upload.index - 1) |-> file]

EditionInv == UploadTypeInv /\ (Compared => SentInv /\ PublishedIsOneEdition)

\* The numbers of editions and chunks.
LEMMA EditionNumbers ==
    ASSUME NEW v \in Editions PROVE v \in Nat /\ Chunks[v] \in Nat \ {0}
  BY ChunksAssumption DEF Editions

\* A run of equal chunks grows by one.
LEMMA OneMoreChunk ==
    ASSUME NEW n \in Nat, NEW v \in Nat
    PROVE  Append([i \in 1..n |-> v], v) = [i \in 1..(n + 1) |-> v]
<1> DEFINE s == [i \in 1..n |-> v]
           t == [i \in 1..(n + 1) |-> v]
<1>1. s \in Seq(Nat) /\ Len(s) = n OBVIOUS
<1>2. t \in Seq(Nat) /\ Len(t) = n + 1 OBVIOUS
<1>3. Append(s, v) \in Seq(Nat) /\ Len(Append(s, v)) = n + 1 BY <1>1
<1>4. ASSUME NEW i \in 1..(n + 1) PROVE Append(s, v)[i] = t[i]
  <2>1. CASE i \in 1..n
    <3>1. Append(s, v)[i] = s[i] BY <1>1, <2>1
    <3> QED BY <3>1, <2>1
  <2>2. CASE i = n + 1
    <3>1. Append(s, v)[i] = v BY <1>1, <2>2
    <3> QED BY <3>1
  <2> QED BY <2>1, <2>2
<1> QED BY <1>2, <1>3, <1>4

LEMMA UploadTypeInit == UploadInit => EditionInv
  BY DEF UploadInit, EditionInv, UploadTypeInv, SentInv, PublishedIsOneEdition, Unpublished,
     NoUpload, Uploads, Idents, Stamps, UploadPcs, UpAt

\* An upload that goes on at another chunk is one, and stays where it is.
LEMMA NextIndex ==
    ASSUME NEW u \in Uploads, NEW n \in Nat \ {0}
    PROVE  /\ [u EXCEPT !.index = n] \in Uploads /\ [u EXCEPT !.index = n].pc = u.pc
           /\ [u EXCEPT !.index = n, !.attempt = 0] \in Uploads
           /\ [u EXCEPT !.index = n, !.attempt = 0].pc = u.pc
<1>1. 0 \in Nat OBVIOUS
<1>2. [u EXCEPT !.index = n] \in Uploads BY DEF Uploads
<1>3. [u EXCEPT !.index = n, !.attempt = 0] \in Uploads BY <1>1 DEF Uploads
<1> QED BY <1>2, <1>3 DEF Uploads

\* Every step keeps the types of the upload.
LEMMA UploadTypeStep == UploadTypeInv /\ [UploadNext]_uploadVars => UploadTypeInv'
<1> SUFFICES ASSUME UploadTypeInv, [UploadNext]_uploadVars PROVE UploadTypeInv' OBVIOUS
<1> USE DEF UploadTypeInv, UpAt, UpGoto, Remembered, Store
<1>0. NoUpload \in Uploads /\ NoUpload.pc = "idle" BY DEF NoUpload, Uploads, UploadPcs, Idents, Stamps
<1>1. CASE ScanFile
  <2>1. Stamp[file] \in Stamps BY DEF Stamps
  <2>2. <<0, Stamp[file]>> \in Idents BY <2>1 DEF Idents
  <2> DEFINE id == <<0, Stamp[file]>>
  <2>3. upload' = [NoUpload EXCEPT !.pc = "scanned", !.id = id] /\ UNCHANGED <<way, file>>
    BY <1>1 DEF ScanFile
  <2> HIDE DEF id
  <2> QED BY <1>0, <2>2, <2>3 DEF Uploads, UploadPcs, id
<1>2. CASE StartUpload
  <2> DEFINE n == Chunks[file]
             next == CASE way.way = "put" -> "hash" [] way.way = "chunks" -> "mkcol"
                       [] way.way = "tus" -> "create"
  <2>1. n \in Nat BY EditionNumbers
  <2>2. way.way \in Ways BY UploadSettingsAssumption
  <2>3. /\ next \in {"hash", "mkcol", "create"}
        /\ next = "create" => way.way = "tus"
        /\ next = "mkcol" => way.way = "chunks"
        /\ next = "hash" => way.way = "put"
    BY <2>2 DEF Ways
  <2>4. /\ upload' = [upload EXCEPT !.id[1] = n, !.size = n, !.pc = next]
        /\ UNCHANGED <<way, file>>
    BY <1>2 DEF StartUpload
  <2> HIDE DEF n, next
  <2> DEFINE id == [upload.id EXCEPT ![1] = n]
  <2>7. upload.id \in Idents BY DEF Uploads
  <2>8. id \in Idents BY <2>1, <2>7 DEF Idents
  <2>9. upload' = [upload EXCEPT !.id = id, !.size = n, !.pc = next] BY <2>4
  <2> HIDE DEF id
  <2>5. upload' \in Uploads BY <2>1, <2>3, <2>8, <2>9 DEF Uploads, UploadPcs
  <2>6. upload'.pc = next BY <2>4 DEF Uploads
  <2> QED BY <2>3, <2>4, <2>5, <2>6
<1>3. CASE Hash
  <2>1. file \in Nat BY EditionNumbers
  <2> QED BY <1>3, <2>1 DEF Hash, Uploads, UploadPcs
<1>4. CASE Put \/ Move \/ TusDone \/ CancelUpload \/ ReadFails \/ KillUpload
  <2>1. upload' = NoUpload /\ UNCHANGED <<way, file>>
    BY <1>4 DEF Put, Move, TusDone, CancelUpload, ReadFails, KillUpload, Ends
  <2> QED BY <1>0, <2>1
<1>5. CASE MakeFolder \/ ListFolder
  <2> DEFINE seen == InFolder
  <2>1. seen \subseteq Int BY DEF InFolder
  <2>2. way.way = "chunks" /\ UNCHANGED <<way, file>>
    BY <1>5 DEF MakeFolder, ListFolder
  <2>3. \/ upload' = [upload EXCEPT !.pc = "list"]
        \/ upload' = [upload EXCEPT !.pc = "chunk", !.present = seen]
        \/ upload' = [upload EXCEPT !.pc = "chunk"]
    BY <1>5 DEF MakeFolder, ListFolder
  <2> HIDE DEF seen
  <2>4. upload' \in Uploads BY <2>1, <2>3 DEF Uploads, UploadPcs
  <2>5. upload'.pc \in {"list", "chunk"} BY <2>3 DEF Uploads
  <2> QED BY <2>2, <2>4, <2>5
<1> DEFINE next == upload.index + 1
<1>15. next \in Nat \ {0} BY DEF Uploads
<1> HIDE DEF next
<1>6. CASE SkipChunk \/ PutChunk
  <2>1. UNCHANGED <<way, file>> /\ upload.pc = "chunk" BY <1>6 DEF SkipChunk, PutChunk
  <2>2. \/ upload' = [upload EXCEPT !.index = next]
        \/ upload' = [upload EXCEPT !.index = next, !.attempt = 0]
    BY <1>6 DEF SkipChunk, PutChunk, next
  <2>3. upload' \in Uploads BY <1>15, <2>2, NextIndex
  <2>4. upload'.pc = "chunk" BY <1>15, <2>1, <2>2, NextIndex
  <2> QED BY <2>1, <2>3, <2>4
<1>7. CASE ChunksDone
  <2>1. file \in Nat BY EditionNumbers
  <2>2. upload' = [upload EXCEPT !.pc = "move", !.digest = file] /\ UNCHANGED <<way, file>>
    BY <1>7 DEF ChunksDone
  <2>3. way.way = "chunks" BY <1>7 DEF ChunksDone
  <2>4. upload' \in Uploads BY <2>1, <2>2 DEF Uploads, UploadPcs
  <2>5. upload'.pc = "move" /\ upload'.digest = file BY <2>2 DEF Uploads
  <2> QED BY <2>2, <2>3, <2>4, <2>5
<1>8. CASE CreateTus
  <2>1. upload' = [upload EXCEPT !.pc = "patch", !.index = 1] /\ UNCHANGED <<way, file>>
    BY <1>8 DEF CreateTus
  <2>2. way.way = "tus" BY <1>8 DEF CreateTus
  <2> DEFINE first == 1
  <2>5. first \in Nat \ {0} /\ "patch" \in UploadPcs BY DEF UploadPcs
  <2>6. upload' = [upload EXCEPT !.pc = "patch", !.index = first] BY <2>1
  <2> HIDE DEF first
  <2>3. upload' \in Uploads BY <2>5, <2>6 DEF Uploads
  <2>4. upload'.pc = "patch" BY <2>1 DEF Uploads
  <2> QED BY <2>1, <2>2, <2>3, <2>4
<1>14. CASE Patch
  <2>1. UNCHANGED <<way, file>> /\ upload.pc = "patch" BY <1>14 DEF Patch
  <2>2. upload' = [upload EXCEPT !.index = next] \/ upload' = [upload EXCEPT !.index = upload.index]
    BY <1>14 DEF Patch, next
  <2>6. upload \in Uploads OBVIOUS
  <2>5. upload.index \in Nat \ {0} BY DEF Uploads
  <2> HIDE DEF UploadTypeInv
  <2>3. upload' \in Uploads BY <1>15, <2>2, <2>5, <2>6, NextIndex
  <2>4. upload'.pc = "patch" BY <1>15, <2>1, <2>2, <2>5, <2>6, NextIndex
  <2> QED BY <2>1, <2>3, <2>4 DEF UploadTypeInv
<1> DEFINE more == upload.attempt + 1
<1>16. more \in Nat BY DEF Uploads
<1> HIDE DEF more
<1> DEFINE Fits(pc) == /\ pc = "create" => way.way = "tus"
                       /\ pc = "chunk" => way.way = "chunks"
                       /\ pc = "hash" => way.way = "put"
<1>9. ASSUME NEW pc \in {"hash", "chunk", "create"}, RetryFrom(pc), UNCHANGED <<way, file>>,
             Fits(pc)
      PROVE  UploadTypeInv'
  <2>1. CASE upload' = NoUpload BY <1>0, <1>9, <2>1
  <2>2. CASE upload' = [upload EXCEPT !.pc = pc, !.attempt = more]
    <3>1. upload' \in Uploads BY <1>9, <1>16, <2>2 DEF Uploads, UploadPcs
    <3>2. upload'.pc = pc BY <2>2 DEF Uploads
    <3> QED BY <1>9, <3>1, <3>2
  <2> QED BY <1>9, <2>1, <2>2 DEF RetryFrom, Ends, more
<1>10. CASE RequestRefused
  <2>1. UNCHANGED <<way, file>> BY <1>10 DEF RequestRefused
  <2>2. CASE upload' = NoUpload BY <1>0, <2>1, <2>2
  <2>3. CASE \E pc \in {"hash", "chunk", "create"} :
                RetryFrom(pc) /\ Fits(pc)
    BY <1>9, <2>1, <2>3
  <2> QED BY <1>10, <2>2, <2>3 DEF RequestRefused, RefusedAt, Ends
<1>11. CASE AnswerLost
  <2>1. UNCHANGED <<way, file>> BY <1>11 DEF AnswerLost
  <2>2. CASE upload' = NoUpload BY <1>0, <2>1, <2>2
  <2>3. CASE \E pc \in {"hash", "chunk", "create"} :
                RetryFrom(pc) /\ Fits(pc)
    BY <1>9, <2>1, <2>3
  <2> QED BY <1>11, <2>2, <2>3 DEF AnswerLost, Ends
<1>12. CASE EditFile BY <1>12 DEF EditFile
<1>13. CASE NoteUpload \/ UNCHANGED uploadVars BY <1>13 DEF NoteUpload, uploadVars
<1> QED
  BY <1>1, <1>2, <1>3, <1>4, <1>5, <1>6, <1>7, <1>8, <1>10, <1>11, <1>12, <1>13, <1>14
  DEF UploadNext, UploadStep

\* A PATCH sends the next chunk of the file.
LEMMA PatchSendsNext ==
    ASSUME UploadTypeInv, SentInv, way.way = "tus", UpAt("patch"), upload.index <= upload.size
    PROVE  /\ MoreToRead
           /\ PatchData = [i \in 1..upload.index |-> file]
           /\ upload.index = Len(PatchData)
<1>1. upload.index \in Nat \ {0} /\ file \in Nat /\ Chunks[file] \in Nat
  BY EditionNumbers DEF UploadTypeInv, Uploads
<1>2. MoreToRead BY <1>1 DEF SentInv, MoreToRead, UpAt
<1> DEFINE n == upload.index - 1
<1>3. n \in Nat /\ n + 1 = upload.index BY <1>1
<1>4. PatchData = Append([i \in 1..n |-> file], file) BY <1>2 DEF PatchData, SentInv
<1> HIDE DEF n
<1>5. PatchData = [i \in 1..(n + 1) |-> file] BY <1>1, <1>3, <1>4, OneMoreChunk
<1>6. Len([i \in 1..(n + 1) |-> file]) = n + 1 BY <1>1, <1>3
<1> QED BY <1>2, <1>3, <1>5, <1>6

\* What the server completes of a TUS upload is the file.
LEMMA PatchCompletes ==
    ASSUME UploadTypeInv, SentInv, way.way = "tus", UpAt("patch"), upload.index <= upload.size,
           PublishedIsOneEdition,
           published' = IF Len(PatchData) = upload.size THEN PatchData ELSE published
    PROVE  PublishedIsOneEdition'
<1>1. CASE Len(PatchData) = upload.size
  <2>1. upload.size = Chunks[file] BY DEF SentInv, UpAt
  <2>2. PatchData = WholeEdition(file) BY <1>1, <2>1, PatchSendsNext DEF WholeEdition
  <2> QED BY <1>1, <2>2 DEF PublishedIsOneEdition, UploadTypeInv
<1>2. CASE Len(PatchData) # upload.size BY <1>2 DEF PublishedIsOneEdition
<1> QED BY <1>1, <1>2

\* What an upload has sent is the beginning of the file, whatever fails.
LEMMA SentStep ==
    UploadTypeInv /\ Compared /\ SentInv /\ [UploadNext]_uploadVars => SentInv'
<1> SUFFICES ASSUME UploadTypeInv, Compared, SentInv, [UploadNext]_uploadVars PROVE SentInv'
  OBVIOUS
<1> USE DEF UploadTypeInv, SentInv, UpAt, UpGoto, Remembered, Store
<1>0. file \in Nat /\ Chunks[file] \in Nat \ {0} BY EditionNumbers
<1>1. CASE UNCHANGED <<way, file>> /\ upload'.pc \notin {"create", "patch"} BY <1>1
<1>2. CASE ScanFile \/ Hash \/ MakeFolder \/ ListFolder \/ SkipChunk \/ PutChunk \/ ChunksDone
  <2>1. UNCHANGED <<way, file>> /\ upload'.pc \notin {"create", "patch"}
    BY <1>2 DEF ScanFile, Hash, MakeFolder, ListFolder, SkipChunk, PutChunk, ChunksDone, NoUpload,
       Uploads
  <2> QED BY <1>1, <2>1
<1>3. CASE Put \/ Move \/ TusDone \/ CancelUpload \/ ReadFails \/ KillUpload
  <2>1. upload' = NoUpload /\ UNCHANGED <<way, file>>
    BY <1>3 DEF Put, Move, TusDone, CancelUpload, ReadFails, KillUpload, Ends
  <2> QED BY <1>1, <2>1 DEF NoUpload
<1>4. CASE StartUpload
  <2> DEFINE next == CASE way.way = "put" -> "hash" [] way.way = "chunks" -> "mkcol"
                       [] way.way = "tus" -> "create"
  <2>2. way.way \in Ways BY UploadSettingsAssumption
  <2>3. next \in {"hash", "mkcol", "create"} BY <2>2 DEF Ways
  <2> HIDE DEF next
  <2>4. /\ upload'.pc = next /\ upload'.size = Chunks[file]
        /\ UNCHANGED <<way, file>>
    BY <1>4 DEF StartUpload, next, Uploads
  <2> QED BY <2>3, <2>4
<1>5. CASE CreateTus
  <2>1. /\ upload'.pc = "patch" /\ upload'.size = upload.size /\ upload'.index = 1
        /\ tusData' = <<>> /\ UNCHANGED <<way, file>> /\ upload.pc = "create"
    BY <1>5 DEF CreateTus, Uploads
  <2>2. <<>> = [i \in 1..(1 - 1) |-> file] OBVIOUS
  <2> QED BY <1>0, <2>1, <2>2
<1>6. CASE Patch
  <2>0. way.way = "tus" BY <1>6 DEF Patch
  <2>1. /\ MoreToRead /\ PatchData = [i \in 1..upload.index |-> file]
    BY <1>6, <2>0, PatchSendsNext DEF Patch
  <2>2. upload'.pc = "patch" /\ upload'.size = upload.size /\ upload'.index = upload.index + 1
    BY <1>6, <2>1 DEF Patch, Uploads
  <2>3. tusData' = PatchData /\ UNCHANGED <<way, file>> BY <1>6 DEF Patch
  <2>4. upload.index \in Nat /\ (upload.index + 1) - 1 = upload.index BY DEF Uploads
  <2>5. upload.index <= Chunks[file] BY <2>1 DEF MoreToRead
  <2>6. upload.size = Chunks[file] BY <1>6, <2>0 DEF Patch
  <2> QED BY <1>0, <2>1, <2>2, <2>3, <2>4, <2>5, <2>6
<1>7. ASSUME NEW pc \in {"hash", "chunk", "create"}, RetryFrom(pc), UNCHANGED <<way, file>>,
             pc = "create" => upload.pc \in {"create", "patch"}
      PROVE  SentInv'
  <2>1. CASE upload' = NoUpload BY <1>1, <1>7, <2>1 DEF NoUpload
  <2>2. CASE upload' = [upload EXCEPT !.pc = pc, !.attempt = @ + 1]
    <3>1. upload'.pc = pc /\ upload'.size = upload.size BY <2>2 DEF Uploads
    <3> QED BY <1>7, <3>1
  <2> QED BY <1>7, <2>1, <2>2 DEF RetryFrom, Ends
<1>8. CASE RequestRefused \/ AnswerLost
  <2>1. UNCHANGED <<way, file>> BY <1>8 DEF RequestRefused, AnswerLost
  <2>2. CASE upload' = NoUpload BY <1>1, <2>1, <2>2 DEF NoUpload
  <2>3. CASE \E pc \in {"hash", "chunk", "create"} :
                RetryFrom(pc) /\ (pc = "create" => upload.pc \in {"create", "patch"})
    BY <1>7, <2>1, <2>3
  <2> QED BY <1>8, <2>2, <2>3 DEF RequestRefused, RefusedAt, AnswerLost, Ends
<1>9. CASE EditFile
  <2>1. way.way # "tus" /\ way' = way BY <1>9 DEF EditFile, Compared
  <2>2. upload' = upload /\ tusData' = tusData BY <1>9 DEF EditFile
  <2> QED BY <2>1, <2>2
<1>10. CASE NoteUpload \/ UNCHANGED uploadVars BY <1>10 DEF NoteUpload, uploadVars
<1> QED
  BY <1>2, <1>3, <1>4, <1>5, <1>6, <1>8, <1>9, <1>10 DEF UploadNext, UploadStep

\* Every request keeps what the server shows one edition.
LEMMA EditionStep ==
    UploadTypeInv /\ Compared /\ SentInv /\ PublishedIsOneEdition /\ [UploadNext]_uploadVars
        => PublishedIsOneEdition'
<1> SUFFICES ASSUME UploadTypeInv, Compared, SentInv, PublishedIsOneEdition,
                    [UploadNext]_uploadVars
             PROVE  PublishedIsOneEdition'
  OBVIOUS
<1>1. CASE published' = published BY <1>1 DEF PublishedIsOneEdition
<1>2. CASE published' = WholeEdition(file) BY <1>2 DEF PublishedIsOneEdition, UploadTypeInv
<1>3. CASE UpAt("move") /\ MoveAccepted /\ published' = Assembled
  <2>1. Assembled = WholeEdition(upload.digest)
    BY <1>3 DEF MoveAccepted, Accepts, Compared, UploadTypeInv, UpAt
  <2>2. upload.digest \in Editions BY <1>3 DEF UploadTypeInv
  <2> QED BY <1>3, <2>1, <2>2 DEF PublishedIsOneEdition
<1>4. CASE /\ UpAt("patch") /\ upload.index <= upload.size
           /\ published' = IF Len(PatchData) = upload.size THEN PatchData ELSE published
  <2>1. way.way = "tus" BY <1>4 DEF UploadTypeInv
  <2> QED BY <1>4, <2>1, PatchCompletes
<1>5. CASE UploadStep
  BY <1>1, <1>2, <1>3, <1>4, <1>5
  DEF UploadStep, ScanFile, StartUpload, Hash, Put, MakeFolder, ListFolder, SkipChunk, PutChunk,
      ChunksDone, Move, Publish, CreateTus, Patch, TusDone, NoteUpload, Store
<1>6. CASE \/ CancelUpload \/ RequestRefused \/ ReadFails \/ KillUpload \/ EditFile
           \/ UNCHANGED uploadVars
  BY <1>1, <1>6
  DEF CancelUpload, RequestRefused, ReadFails, KillUpload, EditFile, Store, uploadVars
<1>7. CASE AnswerLost BY <1>1, <1>2, <1>3, <1>4, <1>7 DEF AnswerLost, Publish
<1> QED BY <1>5, <1>6, <1>7 DEF UploadNext

\* upload(): what the server shows is one edition of the local file, from its
\* first chunk to its last, however often requests fail, answers get lost, the
\* process dies and the file is saved meanwhile; where chunks carry a checksum,
\* and for a TUS upload, which has none, while nobody saves the file.
THEOREM OneEditionIsPublished == UploadSpec => [](Compared => PublishedIsOneEdition)
<1>1. UploadInit => EditionInv BY UploadTypeInit
<1>2. EditionInv /\ [UploadNext]_uploadVars => EditionInv'
  <2> SUFFICES ASSUME EditionInv, [UploadNext]_uploadVars PROVE EditionInv' OBVIOUS
  <2>1. UploadTypeInv' BY UploadTypeStep DEF EditionInv
  <2>2. way' = way
    BY DEF UploadNext, UploadStep, uploadVars, ScanFile, StartUpload, Hash, Put, MakeFolder,
       ListFolder, SkipChunk, PutChunk, ChunksDone, Move, CreateTus, Patch, TusDone, Remembered,
       NoteUpload, CancelUpload, RequestRefused, ReadFails, AnswerLost, KillUpload, EditFile
  <2>3. Compared' => Compared BY <2>2 DEF Compared
  <2> QED BY <2>1, <2>3, SentStep, EditionStep DEF EditionInv
<1>3. EditionInv => (Compared => PublishedIsOneEdition) BY DEF EditionInv
<1> QED BY <1>1, <1>2, <1>3, PTL DEF UploadSpec

-----------------------------------------------------------------------------
(* Texts of versions.                                                      *)

\* What marks may stand in a text.
AllMarks == [c : {"number", "padded", "word", "-", ".", "+"}, n : Nat]

\* The marks s with a dot between any two are the text t.
DotsBetween(t, s) ==
    /\ t \in Seq(AllMarks) /\ Len(t) = (Len(s) + Len(s)) - 1
    /\ \A i \in 1..Len(s) : t[(i + i) - 1] = s[i]
    /\ \A i \in 1..Len(s) - 1 : t[i + i] = Dot

\* A function on 1..n is a list of n.
LEMMA ListOf ==
  ASSUME NEW S, NEW n \in Nat, NEW f, f \in [1..n -> S]
  PROVE  f \in Seq(S) /\ Len(f) = n
<1>1. f \in Seq(S) BY SeqDef
<1>2. Len(f) \in Nat /\ DOMAIN f = 1..Len(f) BY <1>1
<1>3. DOMAIN f = 1..n OBVIOUS
<1> QED BY <1>1, <1>2, <1>3

\* Two lists together.
Joined(u, s, t) == u = s \o t
LEMMA Joint ==
  ASSUME NEW S, NEW s \in Seq(S), NEW t \in Seq(S), NEW u, Joined(u, s, t)
  PROVE  /\ u \in Seq(S) /\ Len(u) = Len(s) + Len(t)
         /\ \A i \in 1..Len(s) : u[i] = s[i]
         /\ \A i \in 1..Len(t) : u[Len(s) + i] = t[i]
BY DEF Joined

\* Dotted puts the dots.
LEMMA DottedFacts ==
  ASSUME NEW s \in Seq(AllMarks), s # <<>>
  PROVE  DotsBetween(Dotted(Ones(s)), s)
<1> DEFINE n == Len(s)
           parts == Ones(s)
           lists == [i \in DOMAIN parts |-> IF i = 1 THEN parts[i] ELSE <<Dot>> \o parts[i]]
<1>1. n \in Nat /\ n > 0 /\ DOMAIN s = 1..n /\ \A i \in 1..n : s[i] \in AllMarks
  OBVIOUS
<1>2. DOMAIN parts = 1..n /\ \A i \in 1..n : parts[i] = <<s[i]>> BY DEF Ones
<1>3. Dot \in AllMarks /\ Dot.c = "." BY DEF Dot, Mark, AllMarks
<1> HIDE DEF n, parts
<1>4. ASSUME NEW i \in 1..n
      PROVE  /\ lists[i] \in Seq(AllMarks)
             /\ i = 1 => Len(lists[i]) = 1 /\ lists[i][1] = s[i]
             /\ i # 1 => Len(lists[i]) = 2 /\ lists[i][1] = Dot /\ lists[i][2] = s[i]
  <2> DEFINE a == <<Dot>>
             b == <<s[i]>>
  <2>1. lists[i] = IF i = 1 THEN b ELSE a \o b BY <1>2
  <2>2. a \in Seq(AllMarks) /\ b \in Seq(AllMarks) /\ Len(a) = 1 /\ Len(b) = 1
        /\ a[1] = Dot /\ b[1] = s[i]
    BY <1>1, <1>3
  <2> HIDE DEF a, b, lists
  <2>3. a \o b \in Seq(AllMarks) /\ Len(a \o b) = 2 /\ (a \o b)[1] = Dot /\ (a \o b)[2] = s[i]
    <3> DEFINE x == a \o b
    <3>1. /\ x \in Seq(AllMarks) /\ Len(x) = Len(a) + Len(b)
          /\ \A j \in 1..Len(a) : x[j] = a[j]
          /\ \A j \in 1..Len(b) : x[Len(a) + j] = b[j]
      <4>1. Joined(x, a, b) BY DEF Joined
      <4> HIDE DEF x
      <4>2. a \in Seq(AllMarks) /\ b \in Seq(AllMarks) BY <2>2
      <4> QED BY ONLY <4>1, <4>2, Joint
    <3> HIDE DEF x
    <3>2. 1 \in 1..1 /\ 1 + 1 = 2 OBVIOUS
    <3>3. x[1] = a[1] /\ x[1 + 1] = b[1] /\ Len(x) = 1 + 1 BY <2>2, <3>1, <3>2
    <3> QED BY <2>2, <3>1, <3>2, <3>3 DEF x
  <2> QED BY <2>1, <2>2, <2>3
<1>5. lists \in [1..n -> Seq(AllMarks)]
  <2>1. DOMAIN lists = 1..n /\ lists = [i \in DOMAIN lists |-> lists[i]] BY <1>2
  <2> HIDE DEF lists
  <2> QED BY <1>4, <2>1
<1>6. Dotted(Ones(s)) = FlattenSeq(lists) BY DEF Dotted, parts
<1> HIDE DEF lists
<1>7. PICK flat : Joins(flat, lists, n, AllMarks) BY <1>1, <1>5, FlatSteps
<1>8. /\ flat[0] = <<>> /\ flat[n] = FlattenSeq(lists)
      /\ \A i \in 1..n : flat[i] = flat[i - 1] \o lists[i]
      /\ \A i \in 0..n : flat[i] \in Seq(AllMarks)
  BY <1>7 DEF Joins
<1> DEFINE Holds(k) ==
               /\ Len(flat[k]) = (k + k) - 1
               /\ \A i \in 1..k : flat[k][(i + i) - 1] = s[i]
               /\ \A i \in 1..k - 1 : flat[k][i + i] = Dot
           K == {k \in Nat : k \in 1..n => Holds(k)}
<1>9. 0 \in K OBVIOUS
<1>10. ASSUME NEW k \in Nat, k \in K PROVE k + 1 \in K
  <2> HIDE DEF Holds
  <2> SUFFICES ASSUME k + 1 \in 1..n PROVE Holds(k + 1) OBVIOUS
  <2> USE DEF Holds
  <2>1. CASE k = 0
    <3>1. 1 \in 1..n /\ 1 - 1 = 0 BY <1>1
    <3>2. flat[1] = <<>> \o lists[1] BY <1>8, <3>1
    <3>3. Len(flat[1]) = 1 /\ flat[1][1] = s[1]
      <4>1. lists[1] \in Seq(AllMarks) /\ Len(lists[1]) = 1 /\ lists[1][1] = s[1]
        BY <1>4, <3>1
      <4>2. <<>> \o lists[1] = lists[1] BY <4>1
      <4> QED BY <3>2, <4>1, <4>2
    <3>4. \A i \in 1..1 : (i + i) - 1 = 1 /\ i = 1 OBVIOUS
    <3> QED BY <2>1, <3>3, <3>4
  <2>2. CASE k # 0
    <3>1. k \in 1..n /\ (k + 1) - 1 = k /\ k + 1 # 1 BY <1>1, <2>2
    <3>2. Holds(k) BY <1>10, <3>1
    <3>3. flat[k + 1] = flat[k] \o lists[k + 1] BY <1>8, <3>1
    <3>10. /\ lists[k + 1] \in Seq(AllMarks) /\ Len(lists[k + 1]) = 2
          /\ lists[k + 1][2] = s[k + 1] /\ lists[k + 1][1] = Dot
      BY <1>4, <3>1
    <3>4. flat[k] \in Seq(AllMarks)
      <4>1. k \in 0..n BY <3>1
      <4> QED BY <1>8, <4>1
    <3> DEFINE f == flat[k]
               g == flat[k + 1]
               m == Len(f)
    <3>5. m = (k + k) - 1 /\ m \in Nat BY <3>2, <3>4
    <3>6. Len(g) = m + 2 /\ g[m + 1] = Dot /\ g[m + 2] = s[k + 1] /\ \A i \in 1..m : g[i] = f[i]
      <4> DEFINE l == lists[k + 1]
      <4>1. g = f \o l /\ f \in Seq(AllMarks) /\ l \in Seq(AllMarks) BY <3>3, <3>4, <3>10
      <4> HIDE DEF f, g, l
      <4>2. /\ Len(g) = Len(f) + Len(l) /\ \A i \in 1..Len(f) : g[i] = f[i]
            /\ \A i \in 1..Len(l) : g[Len(f) + i] = l[i]
        <5>1. Joined(g, f, l) BY <4>1 DEF Joined
        <5> QED BY <4>1, <5>1, Joint
      <4>3. Len(l) = 2 /\ l[1] = Dot /\ l[2] = s[k + 1] BY <3>10 DEF l
      <4> QED BY <4>2, <4>3
    <3>7. \A i \in 1..k + 1 : g[(i + i) - 1] = s[i]
      <4> TAKE i \in 1..k + 1
      <4>1. CASE i = k + 1
        <5>1. (i + i) - 1 = m + 2 BY <3>5, <4>1
        <5> QED BY <3>6, <4>1, <5>1
      <4>2. CASE i # k + 1
        <5>1. i \in 1..k /\ (i + i) - 1 \in 1..m BY <3>5, <4>2
        <5> QED BY <3>2, <3>6, <5>1
      <4> QED BY <4>1, <4>2
    <3>8. \A i \in 1..k : g[i + i] = Dot
      <4> TAKE i \in 1..k
      <4>1. CASE i = k
        <5>1. i + i = m + 1 BY <3>5, <4>1
        <5> QED BY <3>6, <5>1
      <4>2. CASE i # k
        <5>1. i \in 1..k - 1 /\ i + i \in 1..m BY <3>5, <4>2
        <5> QED BY <3>2, <3>6, <5>1
      <4> QED BY <4>1, <4>2
    <3>9. Len(g) = ((k + 1) + (k + 1)) - 1 BY <3>5, <3>6
    <3> QED BY <3>1, <3>7, <3>8, <3>9
  <2> QED BY <2>1, <2>2
<1>11. Holds(n)
  <2> HIDE DEF K, Holds
  <2>1. n \in K BY <1>1, <1>9, <1>10, AllNaturals
  <2>2. n \in 1..n BY <1>1
  <2> QED BY <2>1, <2>2 DEF K
<1>12. flat[n] \in Seq(AllMarks)
  <2>1. n \in 0..n BY <1>1
  <2> QED BY <1>8, <2>1
<1> QED BY <1>6, <1>8, <1>11, <1>12 DEF DotsBetween, n

\* A number is even or odd.
LEMMA EvenOrOdd == \A m \in Nat : \E i \in Nat : m = i + i \/ m = (i + i) - 1
<1> DEFINE Halved == {m \in Nat : \E i \in Nat : m = i + i \/ m = (i + i) - 1}
<1>1. 0 \in Halved
  <2>1. 0 \in Nat /\ 0 = 0 + 0 OBVIOUS
  <2> QED BY <2>1
<1>2. ASSUME NEW m \in Nat, m \in Halved PROVE m + 1 \in Halved
  <2>1. PICK i \in Nat : m = i + i \/ m = (i + i) - 1 BY <1>2
  <2>2. CASE m = i + i
    <3>1. i + 1 \in Nat /\ m + 1 = ((i + 1) + (i + 1)) - 1 /\ m + 1 \in Nat BY <2>2
    <3>2. \E j \in Nat : m + 1 = j + j \/ m + 1 = (j + j) - 1 BY <3>1
    <3> QED BY <3>1, <3>2
  <2>3. CASE m = (i + i) - 1
    <3>1. m + 1 = i + i /\ m + 1 \in Nat BY <2>3
    <3>2. \E j \in Nat : m + 1 = j + j \/ m + 1 = (j + j) - 1 BY <3>1
    <3> QED BY <3>1, <3>2
  <2> QED BY <2>1, <2>2, <2>3
<1> HIDE DEF Halved
<1>3. Nat \subseteq Halved BY <1>1, <1>2, AllNaturals
<1> QED BY <1>3 DEF Halved

\* The even numbers up to twice m are m.
Evens(m) == {i + i : i \in 1..m}
LEMMA EvensFacts ==
  ASSUME NEW m \in Nat
  PROVE  Evens(m) \in SUBSET Nat /\ IsFiniteSet(Evens(m)) /\ Cardinality(Evens(m)) = m
<1> DEFINE f == [i \in 1..m |-> i + i]
<1>1. f \in Bijection(1..m, Evens(m))
  <2>1. f \in [1..m -> Evens(m)] BY DEF Evens
  <2>2. \A i, j \in 1..m : f[i] = f[j] => i = j
    <3>1. \A i, j \in 1..m : i + i = j + j => i = j OBVIOUS
    <3> QED BY <3>1
  <2>3. \A u \in Evens(m) : \E i \in 1..m : f[i] = u BY DEF Evens
  <2> HIDE DEF f
  <2> QED BY <2>1, <2>2, <2>3 DEF Bijection, Injection, Surjection, IsInjective
<1>2. IsFiniteSet(1..m) /\ Cardinality(1..m) = m
  <2>1. 1 \in Int /\ m \in Int /\ (1 > m <=> m = 0) OBVIOUS
  <2> QED BY <2>1, FS_Interval
<1>3. ExistsBijection(1..m, Evens(m)) BY <1>1 DEF ExistsBijection
<1>4. IsFiniteSet(Evens(m)) /\ Cardinality(Evens(m)) = Cardinality(1..m)
  BY <1>2, <1>3, FS_Bijection
<1> QED BY <1>2, <1>4 DEF Evens

\* Splitting at the dots gives the marks back.
LEMMA SplitFacts ==
  ASSUME NEW s \in Seq(AllMarks), s # <<>>, \A i \in DOMAIN s : s[i].c # "."
  PROVE  Split(Dotted(Ones(s)), ".") = Ones(s)
<1> DEFINE n == Len(s)
           t == Dotted(Ones(s))
           E == {i \in DOMAIN t : t[i].c = "."} \cup {Len(t) + 1}
           ends == Rising(E)
<1>1. n \in Nat /\ n > 0 /\ DOMAIN s = 1..n OBVIOUS
<1>2. /\ t \in Seq(AllMarks) /\ Len(t) = (n + n) - 1
      /\ \A i \in 1..n : t[(i + i) - 1] = s[i]
      /\ \A i \in 1..n - 1 : t[i + i] = Dot
  BY DottedFacts DEF DotsBetween
<1> HIDE DEF t
<1>3. E = Evens(n)
  <2>1. DOMAIN t = 1..(n + n) - 1 BY <1>1, <1>2
  <2>2. ASSUME NEW e \in E PROVE e \in Evens(n)
    <3>1. CASE e = Len(t) + 1
      <4>1. e = n + n /\ n \in 1..n BY <1>1, <1>2, <3>1
      <4> QED BY <4>1 DEF Evens
    <3>2. CASE e \in DOMAIN t /\ t[e].c = "."
      <4>1. ASSUME NEW i \in 1..n PROVE e # (i + i) - 1
        <5>1. t[(i + i) - 1].c # "." BY <1>1, <1>2
        <5> QED BY <3>2, <5>1
      <4>2. e \in 1..(n + n) - 1 BY <2>1, <3>2
      <4>3. PICK i \in 1..n : e = i + i \/ e = (i + i) - 1
        <5> HIDE DEF n, E
        <5>1. e \in Nat BY <1>1, <4>2
        <5>2. PICK i \in Nat : e = i + i \/ e = (i + i) - 1 BY <5>1, EvenOrOdd
        <5>3. i \in 1..n BY <1>1, <4>2, <5>2
        <5> QED BY <5>2, <5>3
      <4> QED BY <4>1, <4>3 DEF Evens
    <3> QED BY <3>1, <3>2
  <2>3. ASSUME NEW i \in 1..n PROVE i + i \in E
    <3>1. CASE i = n BY <1>1, <1>2, <3>1
    <3>2. CASE i # n
      <4>1. i \in 1..n - 1 /\ i + i \in 1..(n + n) - 1
        <5> HIDE DEF n
        <5> QED BY <1>1, <3>2
      <4>2. t[i + i].c = "." BY <1>2, <4>1 DEF Dot, Mark
      <4> QED BY <2>1, <4>1, <4>2
    <3> QED BY <3>1, <3>2
  <2> HIDE DEF E, n
  <2> QED BY <2>2, <2>3 DEF Evens
<1> HIDE DEF E
<1>4. E \in SUBSET Nat /\ IsFiniteSet(E) /\ Cardinality(E) = n BY <1>1, <1>3, EvensFacts
<1>5. DOMAIN ends = 1..n
  <2>1. ListsOnce(ends, E) BY <1>4, Ascending
  <2> HIDE DEF ends, n
  <2> QED BY <1>4, <2>1 DEF ListsOnce
<1>6. \A k \in 1..n : ends[k] = k + k
  <2> TAKE k \in 1..n
  <2>1. k + k \in E BY <1>3 DEF Evens
  <2>2. {d \in E : d < k + k} = Evens(k - 1)
    <3>1. \A i \in 1..n : i + i < k + k <=> i \in 1..k - 1 BY <1>1
    <3>2. \A i \in 1..k - 1 : i \in 1..n BY <1>1
    <3> HIDE DEF n
    <3> QED BY <1>3, <3>1, <3>2 DEF Evens
  <2>3. k - 1 \in Nat /\ (k - 1) + 1 = k BY <1>1
  <2>4. Cardinality({d \in E : d < k + k}) = k - 1 BY <2>2, <2>3, EvensFacts
  <2>5. Rising(E)[Cardinality({d \in E : d < k + k}) + 1] = k + k
    <3> HIDE DEF n
    <3> QED BY <1>4, <2>1, Ascending
  <2> QED BY <2>3, <2>4, <2>5
<1>7. Split(t, ".") = [k \in DOMAIN ends |->
                        SubSeq(t, IF k = 1 THEN 1 ELSE ends[k - 1] + 1, ends[k] - 1)]
  BY DEF Split, E
<1>8. ASSUME NEW k \in 1..n
      PROVE  SubSeq(t, IF k = 1 THEN 1 ELSE ends[k - 1] + 1, ends[k] - 1) = <<s[k]>>
  <2> HIDE DEF ends
  <2>1. ends[k] - 1 = (k + k) - 1 BY <1>1, <1>6
  <2>2. (IF k = 1 THEN 1 ELSE ends[k - 1] + 1) = (k + k) - 1
    <3>1. CASE k = 1 BY <3>1
    <3>2. CASE k # 1
      <4>1. k - 1 \in 1..n BY <1>1, <3>2
      <4>2. ends[k - 1] = (k - 1) + (k - 1) BY <1>6, <4>1
      <4> QED BY <1>1, <3>2, <4>2
    <3> QED BY <3>1, <3>2
  <2>3. (k + k) - 1 \in 1..Len(t) BY <1>1, <1>2
  <2> DEFINE p == (k + k) - 1
  <2>4. SubSeq(t, p, p) = <<t[p]>>
    <3>1. p \in 1..Len(t) BY <2>3
    <3> HIDE DEF p
    <3> DEFINE u == SubSeq(t, p, p)
    <3>2. u \in Seq(AllMarks) /\ Len(u) = 1 /\ u[1] = t[p] /\ t[p] \in AllMarks
      BY <1>2, <3>1
    <3> HIDE DEF u
    <3>3. u = <<t[p]>> BY <3>2
    <3> QED BY <3>3 DEF u
  <2>5. t[p] = s[k] BY <1>2
  <2> HIDE DEF p
  <2> QED BY <2>1, <2>2, <2>4, <2>5 DEF p
<1>9. Ones(s) = [k \in 1..n |-> <<s[k]>>] BY <1>1 DEF Ones
<1>10. Split(t, ".") = [k \in 1..n |-> <<s[k]>>]
  <2> HIDE DEF ends, n
  <2> QED BY <1>5, <1>7, <1>8
<1> QED BY <1>9, <1>10 DEF t

\* Every mark is one of those, or a dot.
LEMMA DottedMarks ==
  ASSUME NEW s \in Seq(AllMarks), s # <<>>, NEW t, t = Dotted(Ones(s)), NEW j \in 1..Len(t)
  PROVE  t[j] = Dot \/ \E i \in 1..Len(s) : t[j] = s[i]
<1> DEFINE n == Len(s)
<1>1. n \in Nat /\ n > 0 OBVIOUS
<1>2. /\ Len(t) = (n + n) - 1
      /\ \A i \in 1..n : t[(i + i) - 1] = s[i]
      /\ \A i \in 1..n - 1 : t[i + i] = Dot
  BY DottedFacts DEF DotsBetween
<1> HIDE DEF n
<1>3. j \in Nat /\ j > 0 /\ j <= (n + n) - 1 BY <1>1, <1>2
<1>4. PICK i \in Nat : j = i + i \/ j = (i + i) - 1 BY <1>3, EvenOrOdd
<1>5. CASE j = i + i
  <2>1. i \in 1..n - 1 BY <1>1, <1>3, <1>5
  <2> QED BY <1>2, <1>5, <2>1
<1>6. CASE j = (i + i) - 1
  <2>1. i \in 1..n BY <1>1, <1>3, <1>6
  <2> QED BY <1>2, <1>6, <2>1 DEF n
<1> QED BY <1>4, <1>5, <1>6

\* The text is x, a mark m and y.
Around(text, x, m, y) == text = x \o (<<m>> \o y)

\* A text is split at the first mark of its kind, if there is one.
LEMMA SplitOnceFacts ==
  ASSUME NEW x \in Seq(AllMarks), NEW c, \A i \in 1..Len(x) : x[i].c # c
  PROVE  /\ SplitOnce(x, c).head = x /\ ~SplitOnce(x, c).found
         /\ \A y \in Seq(AllMarks), m \in AllMarks : \A text :
                m.c = c /\ Around(text, x, m, y) =>
                    SplitOnce(text, c).head = x /\ SplitOnce(text, c).found
                        /\ SplitOnce(text, c).tail = y
<1>1. Len(x) \in Nat /\ DOMAIN x = 1..Len(x) OBVIOUS
<1>2. SplitOnce(x, c).head = x /\ ~SplitOnce(x, c).found
  <2>1. {i \in DOMAIN x : x[i].c = c} = {} BY <1>1
  <2>2. (Len(x) + 1) - 1 = Len(x) BY <1>1
  <2>3. SubSeq(x, 1, Len(x)) = x BY SubSeqFull
  <2> QED BY <2>1, <2>2, <2>3 DEF SplitOnce
<1>3. ASSUME NEW y \in Seq(AllMarks), NEW m \in AllMarks, NEW text, m.c = c, Around(text, x, m, y)
      PROVE  SplitOnce(text, c).head = x /\ SplitOnce(text, c).found /\ SplitOnce(text, c).tail = y
  <2> DEFINE t == text
             b == <<m>> \o y
             a == <<m>>
             Here == {i \in DOMAIN t : t[i].c = c}
             n == Len(x) + 1
  <2>1. /\ b \in Seq(AllMarks) /\ Len(b) = Len(y) + 1 /\ b[1] = m /\ Len(y) \in Nat
        /\ \A i \in 1..Len(y) : b[i + 1] = y[i]
    <3>1. a \in Seq(AllMarks) /\ Len(a) = 1 /\ a[1] = m OBVIOUS
    <3> HIDE DEF a
    <3>3. Joined(b, a, y) BY DEF a, Joined
    <3> HIDE DEF b
    <3>2. /\ b \in Seq(AllMarks) /\ Len(b) = Len(a) + Len(y)
          /\ \A i \in 1..Len(a) : b[i] = a[i]
          /\ \A i \in 1..Len(y) : b[Len(a) + i] = y[i]
      <4>1. a \in Seq(AllMarks) /\ y \in Seq(AllMarks) BY <3>1
      <4> QED BY ONLY <3>3, <4>1, Joint
    <3>4. Len(y) \in Nat /\ 1 \in 1..1 OBVIOUS
    <3>5. \A i \in 1..Len(y) : i + 1 = 1 + i BY <3>4
    <3> QED BY <3>1, <3>2, <3>4, <3>5
  <2>2. Joined(t, x, b) BY <1>3 DEF Around, Joined
  <2> HIDE DEF t, b
  <2>3. /\ t \in Seq(AllMarks) /\ Len(t) = Len(x) + Len(b)
        /\ \A i \in 1..Len(x) : t[i] = x[i]
        /\ \A i \in 1..Len(b) : t[Len(x) + i] = b[i]
    BY <2>1, <2>2, Joint
  <2>4. /\ DOMAIN t = 1..Len(t) /\ Len(t) = n + Len(y) /\ n \in 1..Len(t) /\ t[n] = m
        /\ \A i \in 1..Len(y) : t[n + i] = y[i]
    <3>1. Len(t) = n + Len(y) /\ n \in 1..Len(t) BY <1>1, <2>1, <2>3
    <3>2. 1 \in 1..Len(b) BY <2>1
    <3>3. \A i \in 1..Len(y) : i + 1 \in 1..Len(b) /\ n + i = Len(x) + (i + 1) BY <1>1, <2>1
    <3>4. t[n] = m
      <4>1. t[Len(x) + 1] = b[1] BY <2>3, <3>2
      <4> QED BY <2>1, <4>1
    <3>5. \A i \in 1..Len(y) : t[n + i] = y[i]
      <4> TAKE i \in 1..Len(y)
      <4>1. t[Len(x) + (i + 1)] = b[i + 1] BY <2>3, <3>3
      <4>2. b[i + 1] = y[i] BY <2>1
      <4> QED BY <3>3, <4>1, <4>2
    <3>6. DOMAIN t = 1..Len(t) BY <2>3
    <3> QED BY <3>1, <3>4, <3>5, <3>6
  <2>5. n \in Here /\ \A i \in Here : n <= i
    <3>1. \A i \in Here : ~(i <= Len(x))
      <4> TAKE i \in Here
      <4>1. i \in Nat /\ i > 0 BY <2>4
      <4>2. i <= Len(x) => t[i].c # c BY <1>1, <2>3, <4>1
      <4> QED BY <4>2
    <3>2. \A i \in Here : i \in Nat BY <2>4
    <3>3. n \in Here BY <1>3, <2>4
    <3> HIDE DEF Here
    <3> QED BY <1>1, <3>1, <3>2, <3>3
  <2>6. Here \in SUBSET Nat BY <2>4
  <2> DEFINE p == IF Here = {} THEN Len(t) + 1 ELSE CHOOSE i \in Here : \A j \in Here : i <= j
  <2>7. p = n
    <3> HIDE DEF Here, n
    <3>1. p \in Here /\ \A j \in Here : p <= j BY <2>5
    <3> HIDE DEF p
    <3>2. p <= n /\ n <= p /\ p \in Nat /\ n \in Nat BY <2>5, <2>6, <3>1
    <3> QED BY <3>2
  <2>8. SplitOnce(t, c) = [head |-> SubSeq(t, 1, p - 1), found |-> Here # {},
                           tail |-> SubSeq(t, p + 1, Len(t))]
    BY DEF SplitOnce
  <2> HIDE DEF p
  <2>9. SubSeq(t, 1, p - 1) = x
    <3> DEFINE u == SubSeq(t, 1, Len(x))
    <3>1. Len(x) \in 0..Len(t) BY <1>1, <2>4
    <3>2. u \in Seq(AllMarks) /\ Len(u) = Len(x) /\ \A i \in 1..Len(x) : u[i] = t[i]
      BY <1>1, <2>3, <3>1
    <3> HIDE DEF u
    <3>3. u = x BY <2>3, <3>2, SeqEqual
    <3>4. p - 1 = Len(x) BY <1>1, <2>7
    <3> QED BY <3>3, <3>4 DEF u
  <2>10. SubSeq(t, p + 1, Len(t)) = y
    <3> DEFINE u == SubSeq(t, n + 1, Len(t))
    <3>1. n + 1 \in 1..Len(t) + 1 /\ Len(t) = n + Len(y) /\ n \in Nat /\ Len(y) \in Nat
      BY <2>1, <2>4
    <3> HIDE DEF n
    <3>2. u \in Seq(AllMarks) /\ Len(u) = Len(y) /\ \A i \in 1..Len(y) : u[i] = t[n + i]
      <4>1. u \in Seq(AllMarks) /\ Len(u) = Len(t) - (n + 1) + 1
            /\ \A i \in 1..Len(u) : u[i] = t[(n + 1) + i - 1]
        BY <2>3, <3>1
      <4> HIDE DEF u
      <4>2. Len(u) = Len(y) /\ \A i \in 1..Len(y) : (n + 1) + i - 1 = n + i BY <3>1, <4>1
      <4> QED BY <4>1, <4>2
    <3> HIDE DEF u
    <3>3. u = y BY <2>4, <3>2, SeqEqual
    <3> QED BY <2>7, <3>3 DEF u
  <2>11. Here # {} BY <2>5
  <2> HIDE DEF Here
  <2>12. SplitOnce(t, c).head = SubSeq(t, 1, p - 1) /\ SplitOnce(t, c).found
        /\ SplitOnce(t, c).tail = SubSeq(t, p + 1, Len(t))
    <3> DEFINE whole == SplitOnce(t, c)
    <3>1. whole = [head |-> SubSeq(t, 1, p - 1), found |-> Here # {},
                   tail |-> SubSeq(t, p + 1, Len(t))]
      BY <2>8
    <3> HIDE DEF whole
    <3>2. /\ whole.head = SubSeq(t, 1, p - 1) /\ whole.found = (Here # {})
          /\ whole.tail = SubSeq(t, p + 1, Len(t))
      BY ONLY <3>1
    <3>3. whole.found BY <2>11, <3>2
    <3> QED BY <3>2, <3>3 DEF whole
  <2> QED BY <2>9, <2>10, <2>12 DEF t
<1> QED BY <1>2, <1>3

\* A text written with the letters L.
Written(x, L) == x \in Seq(AllMarks) /\ \A j \in 1..Len(x) : x[j].c \in L

LEMMA WrittenTogether ==
  ASSUME NEW L, NEW M, NEW s, NEW t, NEW u, Written(s, L), Written(t, M), Joined(u, s, t)
  PROVE  Written(u, L \cup M)
<1>1. s \in Seq(AllMarks) /\ t \in Seq(AllMarks) /\ Len(s) \in Nat /\ Len(t) \in Nat
  BY DEF Written
<1>2. /\ u \in Seq(AllMarks) /\ Len(u) = Len(s) + Len(t)
      /\ \A i \in 1..Len(s) : u[i] = s[i]
      /\ \A i \in 1..Len(t) : u[Len(s) + i] = t[i]
  <2>1. s \in Seq(AllMarks) /\ t \in Seq(AllMarks) BY <1>1
  <2>2. Joined(u, s, t) OBVIOUS
  <2> QED BY ONLY <2>1, <2>2, Joint
<1>3. ASSUME NEW j \in 1..Len(u) PROVE u[j].c \in L \cup M
  <2>1. CASE j <= Len(s)
    <3>1. j \in 1..Len(s) BY <1>1, <2>1
    <3> QED BY <1>2, <3>1 DEF Written
  <2>2. CASE ~(j <= Len(s))
    <3>1. j - Len(s) \in 1..Len(t) /\ Len(s) + (j - Len(s)) = j BY <1>1, <1>2, <2>2
    <3>2. u[Len(s) + (j - Len(s))] = t[j - Len(s)] BY <1>2, <3>1
    <3> QED BY <3>1, <3>2 DEF Written
  <2> QED BY <2>1, <2>2
<1> QED BY <1>2, <1>3 DEF Written

\* A dotted list is written with the letters of its marks and with dots.
LEMMA WrittenDotted ==
  ASSUME NEW s \in Seq(AllMarks), s # <<>>, NEW L, \A i \in 1..Len(s) : s[i].c \in L
  PROVE  Written(Dotted(Ones(s)), L \cup {"."}) /\ Dotted(Ones(s)) # <<>>
<1> DEFINE t == Dotted(Ones(s))
<1>1. t \in Seq(AllMarks) /\ Len(t) = (Len(s) + Len(s)) - 1 BY DottedFacts DEF DotsBetween
<1>2. \A j \in 1..Len(t) : t[j] = Dot \/ \E i \in 1..Len(s) : t[j] = s[i] BY DottedMarks
<1>3. t # <<>>
  <2>1. Len(s) \in Nat /\ Len(s) > 0 OBVIOUS
  <2> HIDE DEF t
  <2>2. Len(t) # 0 BY <1>1, <2>1
  <2> QED BY <2>2
<1>4. Dot.c = "." BY DEF Dot, Mark
<1> HIDE DEF t
<1>5. \A j \in 1..Len(t) : t[j].c \in L \cup {"."} BY <1>2, <1>4
<1> QED BY <1>1, <1>3, <1>5 DEF Written, t

\* A mark before a text.
LEMMA WrittenAfter ==
  ASSUME NEW m \in AllMarks, NEW L, NEW t, Written(t, L)
  PROVE  Written(<<m>> \o t, L \cup {m.c})
<1> DEFINE s == <<m>>
           u == s \o t
<1>1. Written(s, {m.c}) BY DEF Written
<1>2. Joined(u, s, t) BY DEF Joined
<1> HIDE DEF s, u
<1>3. Written(u, {m.c} \cup L) BY <1>1, <1>2, WrittenTogether
<1>4. {m.c} \cup L = L \cup {m.c} OBVIOUS
<1> QED BY <1>3, <1>4 DEF u, s

-----------------------------------------------------------------------------
\* The marks of a core.
CoreOf(v) == [i \in 1..3 |-> Mark("number", v.core[i])]

LEMMA CoreFacts ==
  ASSUME NEW v \in SemVers
  PROVE  /\ CoreOf(v) \in Seq(AllMarks) /\ CoreOf(v) # <<>> /\ Len(CoreOf(v)) = 3
         /\ DOMAIN CoreOf(v) = 1..3
         /\ \A i \in 1..3 : CoreOf(v)[i].c = "number" /\ CoreOf(v)[i].n = v.core[i]
         /\ v.pre \in Seq(AllMarks) /\ \A i \in 1..Len(v.pre) : v.pre[i].c \in {"number", "word"}
         /\ v.build \in Seq(AllMarks)
         /\ \A i \in 1..Len(v.build) : v.build[i].c \in {"number", "padded", "word", "-"}
<1>1. v.core \in [1..3 -> Nat] /\ v.pre \in Seq(Identifiers)
      /\ v.build \in Seq([c : {"number", "padded", "word", "-"}, n : Nat])
  BY DEF SemVers
<1>2. \A i \in 1..3 : Mark("number", v.core[i]) \in AllMarks BY <1>1 DEF Mark, AllMarks
<1>3. CoreOf(v) \in [1..3 -> AllMarks] BY <1>2 DEF CoreOf
<1>4. CoreOf(v) \in Seq(AllMarks) /\ Len(CoreOf(v)) = 3 /\ DOMAIN CoreOf(v) = 1..3
  <2> DEFINE f == CoreOf(v)
  <2>1. f \in [1..3 -> AllMarks] /\ DOMAIN f = 1..3 /\ 3 \in Nat BY <1>3
  <2> HIDE DEF f
  <2>2. f \in Seq(AllMarks) /\ Len(f) = 3 BY <2>1, ListOf
  <2> QED BY <2>1, <2>2 DEF f
<1>5. \A i \in 1..3 : CoreOf(v)[i].c = "number" /\ CoreOf(v)[i].n = v.core[i] BY DEF CoreOf, Mark
<1>6. CoreOf(v) # <<>> BY <1>4
<1>7. v.pre \in Seq(AllMarks) /\ \A i \in 1..Len(v.pre) : v.pre[i].c \in {"number", "word"}
  <2>1. Identifiers \subseteq AllMarks BY DEF Identifiers, AllMarks
  <2>2. \A m \in Identifiers : m.c \in {"number", "word"} BY DEF Identifiers
  <2>3. \A i \in 1..Len(v.pre) : v.pre[i] \in Identifiers BY <1>1
  <2>4. Len(v.pre) \in Nat /\ v.pre = [i \in 1..Len(v.pre) |-> v.pre[i]] BY <1>1
  <2>5. v.pre \in [1..Len(v.pre) -> AllMarks] BY <2>1, <2>3, <2>4
  <2> QED BY <2>2, <2>3, <2>4, <2>5
<1>8. v.build \in Seq(AllMarks)
      /\ \A i \in 1..Len(v.build) : v.build[i].c \in {"number", "padded", "word", "-"}
  <2> DEFINE B == [c : {"number", "padded", "word", "-"}, n : Nat]
  <2>1. B \subseteq AllMarks BY DEF AllMarks
  <2>2. \A m \in B : m.c \in {"number", "padded", "word", "-"} OBVIOUS
  <2>3. v.build \in Seq(B) BY <1>1
  <2> HIDE DEF B
  <2>6. \A i \in 1..Len(v.build) : v.build[i] \in B BY <2>3, ElementOfSeq
  <2>4. Len(v.build) \in Nat /\ v.build = [i \in 1..Len(v.build) |-> v.build[i]] BY <2>3
  <2>5. v.build \in [1..Len(v.build) -> AllMarks] BY <2>1, <2>6, <2>4
  <2> QED BY <2>2, <2>6, <2>4, <2>5
<1> QED BY <1>4, <1>5, <1>6, <1>7, <1>8

\* What is parsed of a version's text.
Read(v) == [core |-> [i \in 1..3 |-> Fitted(v.core[i])], pre |-> Ones(v.pre)]

\* A mark that is not among a text's letters is not in it.
LEMMA NotWritten ==
  ASSUME NEW x, NEW L, Written(x, L), NEW c, c \notin L
  PROVE  x \in Seq(AllMarks) /\ \A i \in 1..Len(x) : x[i].c # c
BY DEF Written

LEMMA OnesFacts ==
  ASSUME NEW s \in Seq(AllMarks)
  PROVE  /\ DOMAIN Ones(s) = 1..Len(s)
         /\ \A i \in 1..Len(s) : Ones(s)[i] = <<s[i]>>
         /\ \A piece \in Range(Ones(s)) : \E i \in 1..Len(s) : piece = <<s[i]>>
         /\ s = <<>> => Ones(s) = <<>>
<1>1. DOMAIN s = 1..Len(s) OBVIOUS
<1>2. DOMAIN Ones(s) = 1..Len(s) /\ \A i \in 1..Len(s) : Ones(s)[i] = <<s[i]>>
  BY <1>1 DEF Ones
<1>3. \A piece \in Range(Ones(s)) : \E i \in 1..Len(s) : piece = <<s[i]>>
  BY <1>2 DEF Range
<1>4. s = <<>> => Ones(s) = <<>>
  <2>1. DOMAIN <<>> = {} OBVIOUS
  <2> QED BY <2>1 DEF Ones
<1> QED BY <1>2, <1>3, <1>4

\* The text of a version is taken apart into what it was put together from.
LEMMA TextFacts ==
  ASSUME NEW v \in SemVers
  PROVE  /\ Written(Text(v), {"number", "padded", "word", ".", "-", "+"}) /\ Text(v) # <<>>
         /\ \E h, c :
                /\ SplitOnce(Text(v), "+").head = h
                /\ SplitOnce(Text(v), "+").found <=> v.build # <<>>
                /\ v.build # <<>> => Split(SplitOnce(Text(v), "+").tail, ".") = Ones(v.build)
                /\ SplitOnce(h, "-").head = c
                /\ SplitOnce(h, "-").found <=> v.pre # <<>>
                /\ v.pre # <<>> => Split(SplitOnce(h, "-").tail, ".") = Ones(v.pre)
                /\ Split(c, ".") = Ones(CoreOf(v))
<1> DEFINE c == Dotted(Ones(CoreOf(v)))
           d == Dotted(Ones(v.pre))
           e == Dotted(Ones(v.build))
           p == IF v.pre = <<>> THEN <<>> ELSE <<Hyphen>> \o d
           b == IF v.build = <<>> THEN <<>> ELSE <<Plus>> \o e
           h == c \o p
           text == Text(v)
           CoreLetters == {"number", "."}
           PreLetters == {"number", "word", "."}
           BuildLetters == {"number", "padded", "word", "-", "."}
           HeadLetters == {"number", "word", ".", "-"}
<1>1. /\ CoreOf(v) \in Seq(AllMarks) /\ CoreOf(v) # <<>> /\ DOMAIN CoreOf(v) = 1..3
      /\ Len(CoreOf(v)) = 3 /\ \A i \in 1..3 : CoreOf(v)[i].c = "number"
      /\ v.pre \in Seq(AllMarks) /\ \A i \in 1..Len(v.pre) : v.pre[i].c \in {"number", "word"}
      /\ v.build \in Seq(AllMarks)
      /\ \A i \in 1..Len(v.build) : v.build[i].c \in {"number", "padded", "word", "-"}
  BY CoreFacts
<1>2. Written(c, CoreLetters) /\ c # <<>> /\ Split(c, ".") = Ones(CoreOf(v))
  <2>1. Written(c, {"number"} \cup {"."}) /\ c # <<>>
    <3>1. \A i \in 1..Len(CoreOf(v)) : CoreOf(v)[i].c \in {"number"} BY <1>1
    <3> QED BY <1>1, <3>1, WrittenDotted
  <2>2. {"number"} \cup {"."} = CoreLetters OBVIOUS
  <2>3. \A i \in DOMAIN CoreOf(v) : CoreOf(v)[i].c # "." BY <1>1
  <2>4. Split(c, ".") = Ones(CoreOf(v)) BY <1>1, <2>3, SplitFacts
  <2> HIDE DEF c
  <2> QED BY <2>1, <2>2, <2>4
<1>3. ASSUME v.pre # <<>>
      PROVE  Written(d, PreLetters) /\ Split(d, ".") = Ones(v.pre)
  <2>1. Written(d, {"number", "word"} \cup {"."}) BY <1>1, <1>3, WrittenDotted
  <2>2. {"number", "word"} \cup {"."} = PreLetters OBVIOUS
  <2>3. \A i \in DOMAIN v.pre : v.pre[i].c # "."
    <3>1. DOMAIN v.pre = 1..Len(v.pre) BY <1>1
    <3> QED BY <1>1, <3>1
  <2>4. Split(d, ".") = Ones(v.pre) BY <1>1, <1>3, <2>3, SplitFacts
  <2> HIDE DEF d
  <2> QED BY <2>1, <2>2, <2>4
<1>4. ASSUME v.build # <<>>
      PROVE  Written(e, BuildLetters) /\ Split(e, ".") = Ones(v.build)
  <2>1. Written(e, {"number", "padded", "word", "-"} \cup {"."}) BY <1>1, <1>4, WrittenDotted
  <2>2. {"number", "padded", "word", "-"} \cup {"."} = BuildLetters OBVIOUS
  <2>3. \A i \in DOMAIN v.build : v.build[i].c # "."
    <3>1. DOMAIN v.build = 1..Len(v.build) BY <1>1
    <3> QED BY <1>1, <3>1
  <2>4. Split(e, ".") = Ones(v.build) BY <1>1, <1>4, <2>3, SplitFacts
  <2> HIDE DEF e
  <2> QED BY <2>1, <2>2, <2>4
<1>5. text = h \o b BY DEF Text, CoreOf
<1> HIDE DEF c, d, e, text
<1>6. Hyphen \in AllMarks /\ Hyphen.c = "-" /\ Plus \in AllMarks /\ Plus.c = "+"
  BY DEF Hyphen, Plus, Mark, AllMarks
<1>7. Written(h, HeadLetters) /\ Len(h) > 0
  <2>1. CASE v.pre = <<>>
    <3>1. h = c
      <4>1. c \in Seq(AllMarks) BY <1>2 DEF Written
      <4>2. c \o <<>> = c BY <4>1
      <4> QED BY <2>1, <4>2
    <3>2. Len(c) > 0 BY <1>2 DEF Written
    <3> HIDE DEF h
    <3> QED BY <1>2, <3>1, <3>2 DEF Written
  <2>2. CASE v.pre # <<>>
    <3>1. p = <<Hyphen>> \o d BY <2>2
    <3>2. Written(d, PreLetters) BY <1>3, <2>2
    <3>3. Written(<<Hyphen>> \o d, PreLetters \cup {Hyphen.c}) BY <1>6, <3>2, WrittenAfter
    <3>4. Joined(h, c, p) BY DEF Joined
    <3> HIDE DEF h, p
    <3>5. Written(h, CoreLetters \cup (PreLetters \cup {Hyphen.c}))
      <4>1. Written(p, PreLetters \cup {Hyphen.c}) BY <3>1, <3>3
      <4> QED BY <1>2, <3>4, <4>1, WrittenTogether
    <3>6. CoreLetters \cup (PreLetters \cup {Hyphen.c}) = HeadLetters BY <1>6
    <3>7. Len(h) > 0
      <4>1. c \in Seq(AllMarks) /\ p \in Seq(AllMarks) BY <1>2, <3>1, <3>3 DEF Written
      <4>2. Len(h) = Len(c) + Len(p) BY <3>4, <4>1 DEF Joined
      <4>3. Len(c) > 0 /\ Len(p) \in Nat /\ Len(c) \in Nat BY <1>2, <4>1
      <4> QED BY <4>2, <4>3
    <3> QED BY <3>5, <3>6, <3>7
  <2> QED BY <2>1, <2>2
<1>8. /\ SplitOnce(h, "-").head = c /\ (SplitOnce(h, "-").found <=> v.pre # <<>>)
      /\ v.pre # <<>> => SplitOnce(h, "-").tail = d
  <2>1. "-" \notin CoreLetters OBVIOUS
  <2>2. c \in Seq(AllMarks) /\ \A i \in 1..Len(c) : c[i].c # "-"
    BY <1>2, <2>1, NotWritten
  <2>3. CASE v.pre = <<>>
    <3>1. h = c
      <4>1. c \o <<>> = c BY <2>2
      <4> QED BY <2>3, <4>1
    <3>2. SplitOnce(c, "-").head = c /\ ~SplitOnce(c, "-").found
      BY <2>2, SplitOnceFacts
    <3> HIDE DEF h
    <3> QED BY <2>3, <3>1, <3>2
  <2>4. CASE v.pre # <<>>
    <3>1. Around(h, c, Hyphen, d) BY <2>4 DEF Around
    <3>2. d \in Seq(AllMarks) BY <1>3, <2>4 DEF Written
    <3> HIDE DEF h
    <3>3. /\ SplitOnce(h, "-").head = c /\ SplitOnce(h, "-").found
          /\ SplitOnce(h, "-").tail = d
      BY <1>6, <2>2, <3>1, <3>2, SplitOnceFacts
    <3> QED BY <2>4, <3>3
  <2> QED BY <2>3, <2>4
<1>9. /\ SplitOnce(text, "+").head = h /\ (SplitOnce(text, "+").found <=> v.build # <<>>)
      /\ v.build # <<>> => SplitOnce(text, "+").tail = e
      /\ Written(text, {"number", "padded", "word", ".", "-", "+"}) /\ text # <<>>
  <2> DEFINE Letters == {"number", "padded", "word", ".", "-", "+"}
  <2>1. "+" \notin HeadLetters OBVIOUS
  <2> HIDE DEF h
  <2>2. h \in Seq(AllMarks) /\ \A i \in 1..Len(h) : h[i].c # "+"
    BY <1>7, <2>1, NotWritten
  <2>3. CASE v.build = <<>>
    <3>1. text = h
      <4>1. h \o <<>> = h BY <2>2
      <4> QED BY <1>5, <2>3, <4>1
    <3>2. SplitOnce(h, "+").head = h /\ ~SplitOnce(h, "+").found
      BY <2>2, SplitOnceFacts
    <3>3. Written(h, Letters) BY <1>7 DEF Written
    <3>4. h # <<>> BY <1>7, <2>2
    <3> QED BY <2>3, <3>1, <3>2, <3>3, <3>4
  <2>4. CASE v.build # <<>>
    <3>1. b = <<Plus>> \o e BY <2>4
    <3>2. Around(text, h, Plus, e) BY <1>5, <3>1 DEF Around
    <3>3. e \in Seq(AllMarks) /\ Written(e, BuildLetters) BY <1>4, <2>4 DEF Written
    <3>4. /\ SplitOnce(text, "+").head = h /\ SplitOnce(text, "+").found
          /\ SplitOnce(text, "+").tail = e
      BY <1>6, <2>2, <3>2, <3>3, SplitOnceFacts
    <3>5. Written(<<Plus>> \o e, BuildLetters \cup {Plus.c}) BY <1>6, <3>3, WrittenAfter
    <3>6. Joined(text, h, b) BY <1>5 DEF Joined
    <3> HIDE DEF b
    <3>7. Written(text, HeadLetters \cup (BuildLetters \cup {Plus.c}))
      <4>1. Written(b, BuildLetters \cup {Plus.c}) BY <3>1, <3>5
      <4> QED BY <1>7, <3>6, <4>1, WrittenTogether
    <3>8. HeadLetters \cup (BuildLetters \cup {Plus.c}) = Letters BY <1>6
    <3>9. text # <<>>
      <4>1. b \in Seq(AllMarks) BY <3>1, <3>5 DEF Written
      <4>2. Len(text) = Len(h) + Len(b) BY <2>2, <3>6, <4>1 DEF Joined
      <4>3. Len(h) > 0 /\ Len(h) \in Nat /\ Len(b) \in Nat BY <1>7, <2>2, <4>1
      <4>4. Len(text) # 0 BY <4>2, <4>3
      <4> QED BY <4>4
    <3> QED BY <2>4, <3>4, <3>7, <3>8, <3>9
  <2> QED BY <2>3, <2>4
<1> HIDE DEF h
<1> QED BY <1>2, <1>3, <1>4, <1>8, <1>9 DEF text

\* The text of a version stands for it, as far as its numbers fit.
LEMMA ParsedFacts ==
  ASSUME NEW v \in SemVers
  PROVE  ParsedVersion(Text(v)) = {Read(v)}
<1> DEFINE text == Text(v)
           build == SplitOnce(text, "+")
           pre == SplitOnce(build.head, "-")
           core == Split(pre.head, ".")
           identifiers == IF pre.found THEN Split(pre.tail, ".") ELSE <<>>
           metadata == IF build.found THEN Split(build.tail, ".") ELSE <<>>
           fine == /\ text # <<>> /\ Head(text).c # " " /\ Last(text).c # " "
                   /\ Len(core) = 3 /\ \A i \in 1..3 : IsNumber(core[i])
                   /\ \A piece \in Range(identifiers) \cup Range(metadata) : IsIdentifier(piece)
                   /\ \A piece \in Range(identifiers) : ~IsPadded(piece)
<1>1. ParsedVersion(text) =
          IF fine THEN {[core |-> [i \in 1..3 |-> Fitted(core[i][1].n)], pre |-> identifiers]}
          ELSE {}
  BY DEF ParsedVersion
<1>2. /\ Written(text, {"number", "padded", "word", ".", "-", "+"}) /\ text # <<>>
      /\ core = Ones(CoreOf(v))
      /\ pre.found <=> v.pre # <<>>
      /\ v.pre # <<>> => Split(pre.tail, ".") = Ones(v.pre)
      /\ build.found <=> v.build # <<>>
      /\ v.build # <<>> => Split(build.tail, ".") = Ones(v.build)
  BY TextFacts
<1>3. /\ CoreOf(v) \in Seq(AllMarks) /\ Len(CoreOf(v)) = 3
      /\ \A i \in 1..3 : CoreOf(v)[i].c = "number" /\ CoreOf(v)[i].n = v.core[i]
      /\ v.pre \in Seq(AllMarks) /\ \A i \in 1..Len(v.pre) : v.pre[i].c \in {"number", "word"}
      /\ v.build \in Seq(AllMarks)
      /\ \A i \in 1..Len(v.build) : v.build[i].c \in {"number", "padded", "word", "-"}
  BY CoreFacts
<1>4. identifiers = Ones(v.pre)
  <2>1. v.pre = <<>> => Ones(v.pre) = <<>> BY <1>3, OnesFacts
  <2> HIDE DEF pre
  <2> QED BY <1>2, <2>1
<1>5. metadata = Ones(v.build)
  <2>1. v.build = <<>> => Ones(v.build) = <<>> BY <1>3, OnesFacts
  <2> HIDE DEF build
  <2> QED BY <1>2, <2>1
<1> HIDE DEF text, build, pre, core, identifiers, metadata
<1>6. Head(text).c # " " /\ Last(text).c # " "
  <2> DEFINE L == {"number", "padded", "word", ".", "-", "+"}
  <2>1. text \in Seq(AllMarks) /\ \A j \in 1..Len(text) : text[j].c \in L BY <1>2 DEF Written
  <2>2. " " \notin L OBVIOUS
  <2> HIDE DEF L
  <2>3. Len(text) \in Nat /\ Len(text) # 0 BY <1>2, <2>1
  <2>4. 1 \in 1..Len(text) /\ Len(text) \in 1..Len(text) BY <2>3
  <2>5. Head(text) = text[1] BY <1>2, <2>1
  <2>6. Last(text) = text[Len(text)] BY DEF Last
  <2> QED BY <2>1, <2>2, <2>4, <2>5, <2>6
<1>7. \A m \in AllMarks : Len(<<m>>) = 1 /\ <<m>>[1] = m /\ <<m>> # <<>> /\ DOMAIN <<m>> = 1..1
  OBVIOUS
<1>8. /\ Len(core) = 3 /\ DOMAIN core = 1..3
      /\ \A i \in 1..3 : core[i] = <<CoreOf(v)[i]>> /\ CoreOf(v)[i] \in AllMarks
  <2>1. DOMAIN core = 1..3 /\ \A i \in 1..3 : core[i] = <<CoreOf(v)[i]>>
    BY <1>2, <1>3, OnesFacts
  <2>2. \A i \in 1..3 : CoreOf(v)[i] \in AllMarks BY <1>3, ElementOfSeq
  <2>3. core \in [1..3 -> Seq(AllMarks)]
    <3>1. \A i \in 1..3 : <<CoreOf(v)[i]>> \in Seq(AllMarks) BY <2>2
    <3>2. core = [i \in 1..3 |-> core[i]] BY <1>2, <1>3, <2>1 DEF Ones
    <3> QED BY <2>1, <3>1, <3>2
  <2> DEFINE T == Seq(AllMarks)
  <2>4. 3 \in Nat /\ core \in [1..3 -> T] BY <2>3
  <2> HIDE DEF T
  <2>5. Len(core) = 3 BY <2>4, ListOf
  <2> QED BY <2>1, <2>2, <2>5
<1>9. \A i \in 1..3 : IsNumber(core[i]) /\ core[i][1].n = v.core[i]
  <2> TAKE i \in 1..3
  <2> DEFINE m == CoreOf(v)[i]
             piece == core[i]
  <2>1. m.c = "number" /\ m.n = v.core[i] BY <1>3
  <2>2. piece = <<m>> /\ m \in AllMarks BY <1>8
  <2> HIDE DEF m, piece
  <2>3. Len(piece) = 1 /\ piece[1] = m BY <1>7, <2>2
  <2>4. IsNumber(piece) /\ piece[1].n = v.core[i] BY <2>1, <2>3 DEF IsNumber
  <2> QED BY <2>4 DEF piece
<1>10. ASSUME NEW piece \in Range(identifiers) PROVE IsIdentifier(piece) /\ ~IsPadded(piece)
  <2>1. PICK i \in 1..Len(v.pre) : piece = <<v.pre[i]>> BY <1>3, <1>4, OnesFacts
  <2> DEFINE m == v.pre[i]
  <2>2. m \in AllMarks BY <1>3, ElementOfSeq
  <2>3. m.c \in {"number", "word"} BY <1>3
  <2> HIDE DEF m
  <2>4. Len(piece) = 1 /\ piece[1] = m /\ piece # <<>> /\ DOMAIN piece = 1..1
    BY <1>7, <2>1, <2>2 DEF m
  <2> QED BY <2>3, <2>4 DEF IsIdentifier, IsPadded
<1>11. ASSUME NEW piece \in Range(metadata) PROVE IsIdentifier(piece)
  <2>1. PICK i \in 1..Len(v.build) : piece = <<v.build[i]>> BY <1>3, <1>5, OnesFacts
  <2> DEFINE m == v.build[i]
  <2>2. m \in AllMarks BY <1>3, ElementOfSeq
  <2>3. m.c \in {"number", "padded", "word", "-"} BY <1>3
  <2> HIDE DEF m
  <2>4. Len(piece) = 1 /\ piece[1] = m /\ piece # <<>> /\ DOMAIN piece = 1..1
    BY <1>7, <2>1, <2>2 DEF m
  <2> QED BY <2>3, <2>4 DEF IsIdentifier
<1>12. fine BY <1>2, <1>6, <1>8, <1>9, <1>10, <1>11
<1>13. [i \in 1..3 |-> Fitted(core[i][1].n)] = [i \in 1..3 |-> Fitted(v.core[i])] BY <1>9
<1> HIDE DEF fine
<1> QED BY <1>1, <1>4, <1>12, <1>13 DEF Read, text

-----------------------------------------------------------------------------
(* The order of lists.                                                     *)

\* The lists begin with the same n elements.
Alike(s, t, n) == \A j \in 1..n : s[j] = t[j]

LEMMA SameStart ==
  ASSUME NEW s \in Seq(Nat), NEW t \in Seq(Nat), NEW n \in Nat, n <= Len(s), n <= Len(t)
  PROVE  SubSeq(s, 1, n) = SubSeq(t, 1, n) <=> Alike(s, t, n)
<1> DEFINE a == SubSeq(s, 1, n)
           b == SubSeq(t, 1, n)
<1>1. Len(s) \in Nat /\ Len(t) \in Nat OBVIOUS
<1>2. a \in Seq(Nat) /\ Len(a) = n /\ \A j \in 1..n : a[j] = s[j]
  <2>1. n \in 0..Len(s) BY <1>1
  <2> QED BY <2>1
<1>3. b \in Seq(Nat) /\ Len(b) = n /\ \A j \in 1..n : b[j] = t[j]
  <2>1. n \in 0..Len(t) BY <1>1
  <2> QED BY <2>1
<1> HIDE DEF a, b
<1>4. ASSUME a = b PROVE Alike(s, t, n) BY <1>2, <1>3, <1>4 DEF Alike
<1>5. ASSUME Alike(s, t, n) PROVE a = b
  <2>1. \A j \in 1..Len(a) : a[j] = b[j] BY <1>2, <1>3, <1>5 DEF Alike
  <2> QED BY <1>2, <1>3, <2>1, SeqEqual
<1> QED BY <1>4, <1>5 DEF a, b

\* The first difference decides.
LEMMA FirstDifference ==
  ASSUME NEW s \in Seq(Nat), NEW t \in Seq(Nat), NEW k \in Nat, k > 0, k <= Len(s), k <= Len(t),
         Alike(s, t, k - 1), s[k] # t[k]
  PROVE  LexBefore(s, t) <=> s[k] < t[k]
<1>1. Len(s) \in Nat /\ Len(t) \in Nat OBVIOUS
<1>2. ASSUME LexBefore(s, t) PROVE s[k] < t[k]
  <2>1. PICK n \in 0..Len(s) : /\ n < Len(t) /\ SubSeq(s, 1, n) = SubSeq(t, 1, n)
                               /\ n = Len(s) \/ s[n + 1] < t[n + 1]
    BY <1>2 DEF LexBefore
  <2>2. n \in Nat /\ n <= Len(s) /\ n <= Len(t) BY <1>1, <2>1
  <2>3. Alike(s, t, n) BY <2>1, <2>2, SameStart
  <2>4. ~(k <= n)
    <3>1. k <= n => k \in 1..n BY <2>2
    <3> QED BY <2>3, <3>1 DEF Alike
  <2>5. ~(n + 1 < k)
    <3>1. ASSUME n + 1 < k PROVE FALSE
      <4>1. n + 1 \in 1..k - 1 /\ n # Len(s) BY <1>1, <2>2, <3>1
      <4>2. s[n + 1] = t[n + 1] BY <4>1 DEF Alike
      <4>3. t[n + 1] \in Nat BY <1>1, <2>1, <2>2
      <4> QED BY <2>1, <4>1, <4>2, <4>3
    <3> QED BY <3>1
  <2>6. n + 1 = k /\ n # Len(s) BY <1>1, <2>2, <2>4, <2>5
  <2> QED BY <2>1, <2>6
<1>3. ASSUME s[k] < t[k] PROVE LexBefore(s, t)
  <2> DEFINE n == k - 1
  <2>1. n \in 0..Len(s) /\ n \in Nat /\ n < Len(t) /\ n <= Len(s) /\ n <= Len(t) /\ n + 1 = k
    BY <1>1
  <2> HIDE DEF n
  <2>2. Alike(s, t, n) BY DEF n
  <2>3. SubSeq(s, 1, n) = SubSeq(t, 1, n) BY <2>1, <2>2, SameStart
  <2>4. s[n + 1] < t[n + 1] BY <1>3, <2>1
  <2> QED BY <2>1, <2>3, <2>4 DEF LexBefore
<1> QED BY <1>2, <1>3

\* No list comes before itself.
LEMMA NotBeforeItself ==
  ASSUME NEW s \in Seq(Nat)
  PROVE  ~LexBefore(s, s)
<1> SUFFICES ASSUME LexBefore(s, s) PROVE FALSE OBVIOUS
<1>1. PICK n \in 0..Len(s) : n < Len(s) /\ (n = Len(s) \/ s[n + 1] < s[n + 1])
  BY DEF LexBefore
<1>2. Len(s) \in Nat OBVIOUS
<1>3. n + 1 \in 1..Len(s) BY <1>1, <1>2
<1>4. s[n + 1] \in Nat BY <1>3
<1> QED BY <1>1, <1>2, <1>4

-----------------------------------------------------------------------------
(* Pairs in a row.                                                         *)
Paired(a, b, n) == [i \in 1..n |-> <<a[i], b[i]>>]

LEMMA PairedFacts ==
  ASSUME NEW n \in Nat, NEW a \in [1..n -> Nat], NEW b \in [1..n -> Nat]
  PROVE  /\ FlattenSeq(Paired(a, b, n)) \in Seq(Nat) /\ Len(FlattenSeq(Paired(a, b, n))) = n + n
         /\ \A i \in 1..n : /\ FlattenSeq(Paired(a, b, n))[(i + i) - 1] = a[i]
                            /\ FlattenSeq(Paired(a, b, n))[i + i] = b[i]
<1> DEFINE lists == Paired(a, b, n)
<1>1. ASSUME NEW i \in 1..n
      PROVE  lists[i] \in Seq(Nat) /\ Len(lists[i]) = 2 /\ lists[i][1] = a[i] /\ lists[i][2] = b[i]
  <2>1. lists[i] = <<a[i], b[i]>> BY DEF Paired
  <2>2. a[i] \in Nat /\ b[i] \in Nat OBVIOUS
  <2> QED BY <2>1, <2>2
<1>2. lists \in [1..n -> Seq(Nat)]
  <2>1. lists = [i \in 1..n |-> lists[i]] BY DEF Paired
  <2> HIDE DEF lists
  <2> QED BY <1>1, <2>1
<1> HIDE DEF lists
<1>3. PICK flat : Joins(flat, lists, n, Nat) BY <1>2, FlatSteps
<1>4. /\ flat[0] = <<>> /\ flat[n] = FlattenSeq(lists)
      /\ \A i \in 1..n : flat[i] = flat[i - 1] \o lists[i]
      /\ \A i \in 0..n : flat[i] \in Seq(Nat)
  BY <1>3 DEF Joins
<1> DEFINE Holds(k) == /\ Len(flat[k]) = k + k
                       /\ \A i \in 1..k : flat[k][(i + i) - 1] = a[i] /\ flat[k][i + i] = b[i]
           K == {k \in Nat : k <= n => Holds(k)}
<1>5. 0 \in K BY <1>4
<1>6. ASSUME NEW k \in Nat, k \in K PROVE k + 1 \in K
  <2> HIDE DEF Holds
  <2> SUFFICES ASSUME k + 1 <= n PROVE Holds(k + 1) OBVIOUS
  <2>1. k + 1 \in 1..n /\ k \in 0..n /\ k <= n /\ (k + 1) - 1 = k OBVIOUS
  <2>2. Holds(k) BY <1>6, <2>1
  <2> DEFINE f == flat[k]
             l == lists[k + 1]
             g == flat[k + 1]
  <2>3. g = f \o l BY <1>4, <2>1
  <2>4. f \in Seq(Nat) /\ l \in Seq(Nat) /\ Len(l) = 2 /\ l[1] = a[k + 1] /\ l[2] = b[k + 1]
    BY <1>1, <1>4, <2>1
  <2>5. Len(f) = k + k /\ \A i \in 1..k : f[(i + i) - 1] = a[i] /\ f[i + i] = b[i]
    BY <2>2 DEF Holds
  <2> HIDE DEF f, l, g
  <2>6. /\ Len(g) = Len(f) + Len(l) /\ \A i \in 1..Len(f) : g[i] = f[i]
        /\ \A i \in 1..Len(l) : g[Len(f) + i] = l[i]
    <3>1. Joined(g, f, l) BY <2>3 DEF Joined
    <3>2. f \in Seq(Nat) /\ l \in Seq(Nat) BY <2>4
    <3> QED BY ONLY <3>1, <3>2, Joint
  <2>7. Len(g) = (k + 1) + (k + 1) BY <2>4, <2>5, <2>6
  <2>8. ASSUME NEW i \in 1..k + 1 PROVE g[(i + i) - 1] = a[i] /\ g[i + i] = b[i]
    <3>1. CASE i = k + 1
      <4>1. (i + i) - 1 = (k + k) + 1 /\ i + i = (k + k) + 2 BY <3>1
      <4>2. g[(k + k) + 1] = l[1] /\ g[(k + k) + 2] = l[2]
        <5>1. 1 \in 1..2 /\ 2 \in 1..2 OBVIOUS
        <5> QED BY <2>4, <2>5, <2>6, <5>1
      <4> QED BY <2>4, <3>1, <4>1, <4>2
    <3>2. CASE i # k + 1
      <4>1. i \in 1..k /\ (i + i) - 1 \in 1..k + k /\ i + i \in 1..k + k BY <3>2
      <4> QED BY <2>5, <2>6, <4>1
    <3> QED BY <3>1, <3>2
  <2> QED BY <2>7, <2>8 DEF Holds, g
<1>7. Holds(n)
  <2> HIDE DEF Holds, K
  <2>1. n \in K BY <1>5, <1>6, AllNaturals
  <2> QED BY <2>1 DEF K
<1>8. flat[n] \in Seq(Nat)
  <2>1. n \in 0..n OBVIOUS
  <2> QED BY <1>4, <2>1
<1> QED BY <1>4, <1>7, <1>8 DEF lists

Kind(m) == IF m.c = "number" THEN 1 ELSE 2

LEMMA SemVerFacts ==
  ASSUME NEW v \in SemVers
  PROVE  /\ v.core \in [1..3 -> Nat] /\ v.core \in Seq(Nat) /\ Len(v.core) = 3
         /\ v.pre \in Seq(Identifiers) /\ Len(v.pre) \in Nat /\ DOMAIN v.pre = 1..Len(v.pre)
         /\ v.pre = <<>> <=> Len(v.pre) = 0
         /\ \A i \in 1..Len(v.pre) : v.pre[i] \in Identifiers
<1>1. v.core \in [1..3 -> Nat] /\ v.pre \in Seq(Identifiers) BY DEF SemVers
<1>2. v.core \in Seq(Nat) /\ Len(v.core) = 3
  <2> DEFINE f == v.core
  <2>1. f \in [1..3 -> Nat] /\ 3 \in Nat BY <1>1
  <2> HIDE DEF f
  <2>2. f \in Seq(Nat) /\ Len(f) = 3 BY <2>1, ListOf
  <2> QED BY <2>2 DEF f
<1>3. Len(v.pre) \in Nat /\ DOMAIN v.pre = 1..Len(v.pre) /\ (v.pre = <<>> <=> Len(v.pre) = 0)
  BY <1>1
<1>4. \A i \in 1..Len(v.pre) : v.pre[i] \in Identifiers BY <1>1, ElementOfSeq
<1> QED BY <1>1, <1>2, <1>3, <1>4

LEMMA KeyFacts ==
  ASSUME NEW v \in SemVers
  PROVE  /\ Key(v) \in Seq(Nat)
         /\ \A i \in 1..3 : Key(v)[i] = v.core[i]
         /\ v.pre = <<>> => Len(Key(v)) = 4 /\ Key(v)[4] = 3
         /\ v.pre # <<>> =>
                /\ Len(Key(v)) = (Len(v.pre) + Len(v.pre)) + 4
                /\ \A i \in 1..Len(v.pre) : /\ Key(v)[(i + i) + 2] = Kind(v.pre[i])
                                            /\ Key(v)[(i + i) + 3] = v.pre[i].n
                /\ Key(v)[(Len(v.pre) + Len(v.pre)) + 4] = 0
<1> DEFINE n == Len(v.pre)
           core == v.core
           pairs == [i \in DOMAIN v.pre |->
                        <<IF v.pre[i].c = "number" THEN 1 ELSE 2, v.pre[i].n>>]
           flat == FlattenSeq(pairs)
           last == <<0>>
           body == flat \o last
           three == <<3>>
           rest == IF v.pre = <<>> THEN three ELSE body
           key == Key(v)
<1>1. /\ core \in Seq(Nat) /\ Len(core) = 3 /\ n \in Nat /\ DOMAIN v.pre = 1..n
      /\ \A i \in 1..n : v.pre[i] \in Identifiers
  BY SemVerFacts
<1>2. Joined(key, core, rest) BY DEF Key, Joined
<1>3. /\ three \in Seq(Nat) /\ Len(three) = 1 /\ three[1] = 3
      /\ last \in Seq(Nat) /\ Len(last) = 1 /\ last[1] = 0
  OBVIOUS
<1>4. /\ flat \in Seq(Nat) /\ Len(flat) = n + n
      /\ \A i \in 1..n : flat[(i + i) - 1] = Kind(v.pre[i]) /\ flat[i + i] = v.pre[i].n
  <2> DEFINE a == [i \in 1..n |-> Kind(v.pre[i])]
             b == [i \in 1..n |-> v.pre[i].n]
  <2>1. a \in [1..n -> Nat] BY DEF Kind
  <2>2. b \in [1..n -> Nat] BY <1>1 DEF Identifiers
  <2>3. pairs = Paired(a, b, n) BY <1>1 DEF Paired, Kind
  <2>4. \A i \in 1..n : a[i] = Kind(v.pre[i]) /\ b[i] = v.pre[i].n OBVIOUS
  <2> HIDE DEF a, b, pairs, n
  <2> QED BY <1>1, <2>1, <2>2, <2>3, <2>4, PairedFacts
<1>5. Joined(body, flat, last) BY DEF Joined
<1> HIDE DEF flat, last, three, body, key, n, core
<1>6. /\ body \in Seq(Nat) /\ Len(body) = Len(flat) + Len(last)
      /\ \A i \in 1..Len(flat) : body[i] = flat[i]
      /\ \A i \in 1..Len(last) : body[Len(flat) + i] = last[i]
  <2>1. flat \in Seq(Nat) /\ last \in Seq(Nat) BY <1>3, <1>4
  <2> QED BY ONLY <1>5, <2>1, Joint
<1>7. rest \in Seq(Nat) BY <1>3, <1>6
<1> HIDE DEF rest
<1>8. /\ key \in Seq(Nat) /\ Len(key) = Len(core) + Len(rest)
      /\ \A i \in 1..Len(core) : key[i] = core[i]
      /\ \A i \in 1..Len(rest) : key[Len(core) + i] = rest[i]
  <2>1. core \in Seq(Nat) BY <1>1
  <2> QED BY ONLY <1>2, <1>7, <2>1, Joint
<1>9. \A i \in 1..3 : key[i] = core[i] BY <1>1, <1>8
<1>10. ASSUME v.pre = <<>> PROVE Len(key) = 4 /\ key[4] = 3
  <2>1. rest = three BY <1>10 DEF rest
  <2>2. Len(key) = 4
    <3>1. Len(rest) = 1 /\ Len(core) = 3 BY <1>1, <1>3, <2>1
    <3>2. Len(key) = Len(core) + Len(rest) BY <1>8
    <3> QED BY ONLY <3>1, <3>2
  <2>3. 1 \in 1..1 /\ 3 + 1 = 4 OBVIOUS
  <2>4. key[3 + 1] = three[1] BY <1>1, <1>3, <1>8, <2>1, <2>3
  <2> QED BY <1>3, <2>2, <2>3, <2>4
<1>11. ASSUME v.pre # <<>>
       PROVE  /\ Len(key) = (n + n) + 4
              /\ \A i \in 1..n : key[(i + i) + 2] = Kind(v.pre[i]) /\ key[(i + i) + 3] = v.pre[i].n
              /\ key[(n + n) + 4] = 0
  <2>1. rest = body BY <1>11 DEF rest
  <2>2. Len(rest) = (n + n) + 1 BY <1>1, <1>3, <1>4, <1>6, <2>1
  <2>3. Len(key) = (n + n) + 4 BY <1>1, <1>8, <2>2
  <2>4. \A j \in 1..n + n : key[3 + j] = flat[j]
    <3> TAKE j \in 1..n + n
    <3>1. j \in 1..Len(rest) /\ j \in 1..Len(flat) BY <1>1, <1>4, <2>2
    <3>2. key[Len(core) + j] = rest[j] BY <1>8, <3>1
    <3>3. rest[j] = flat[j] BY <1>6, <2>1, <3>1
    <3> QED BY <1>1, <3>2, <3>3
  <2>5. key[(n + n) + 4] = 0
    <3>1. (n + n) + 1 \in 1..Len(rest) /\ 1 \in 1..Len(last) BY <1>1, <1>3, <2>2
    <3>2. key[Len(core) + ((n + n) + 1)] = rest[(n + n) + 1] BY <1>8, <3>1
    <3>3. body[Len(flat) + 1] = last[1] BY <1>6, <3>1
    <3>4. Len(core) + ((n + n) + 1) = (n + n) + 4 /\ Len(flat) + 1 = (n + n) + 1 BY <1>1, <1>4
    <3> QED BY <1>3, <2>1, <3>2, <3>3, <3>4
  <2>6. ASSUME NEW i \in 1..n
        PROVE  key[(i + i) + 2] = Kind(v.pre[i]) /\ key[(i + i) + 3] = v.pre[i].n
    <3>1. /\ (i + i) - 1 \in 1..n + n /\ 3 + ((i + i) - 1) = (i + i) + 2
          /\ i + i \in 1..n + n /\ 3 + (i + i) = (i + i) + 3
      BY <1>1
    <3>2. key[3 + ((i + i) - 1)] = flat[(i + i) - 1] /\ key[3 + (i + i)] = flat[i + i]
      BY <2>4, <3>1
    <3> QED BY <1>4, <3>1, <3>2
  <2> QED BY <2>3, <2>5, <2>6
<1> QED BY <1>8, <1>9, <1>10, <1>11 DEF key, n, core

\* The keys of versions that agree on the core and the first identifiers agree
\* as far.
LEMMA SameUpTo ==
  ASSUME NEW v \in SemVers, NEW w \in SemVers, v.core = w.core, v.pre # <<>>, w.pre # <<>>,
         NEW i \in Nat, i > 0, i - 1 <= Len(v.pre), i - 1 <= Len(w.pre),
         \A k \in 1..i - 1 : v.pre[k] = w.pre[k]
  PROVE  Alike(Key(w), Key(v), (i + i) + 1)
<1>1. Len(v.pre) \in Nat /\ Len(w.pre) \in Nat BY SemVerFacts
<1>2. ASSUME NEW u \in {v, w}
      PROVE  /\ \A k \in 1..3 : Key(u)[k] = v.core[k]
             /\ \A k \in 1..i - 1 : /\ Key(u)[(k + k) + 2] = Kind(v.pre[k])
                                    /\ Key(u)[(k + k) + 3] = v.pre[k].n
  <2>1. u \in SemVers /\ u.core = v.core /\ u.pre # <<>>
        /\ \A k \in 1..i - 1 : k \in 1..Len(u.pre) /\ u.pre[k] = v.pre[k]
    BY <1>1
  <2>2. /\ \A k \in 1..3 : Key(u)[k] = u.core[k]
        /\ \A k \in 1..Len(u.pre) : /\ Key(u)[(k + k) + 2] = Kind(u.pre[k])
                                    /\ Key(u)[(k + k) + 3] = u.pre[k].n
    BY <2>1, KeyFacts
  <2>3. ASSUME NEW k \in 1..i - 1
        PROVE  Key(u)[(k + k) + 2] = Kind(v.pre[k]) /\ Key(u)[(k + k) + 3] = v.pre[k].n
    <3>1. k \in 1..Len(u.pre) /\ u.pre[k] = v.pre[k] BY <2>1
    <3>2. Key(u)[(k + k) + 2] = Kind(u.pre[k]) /\ Key(u)[(k + k) + 3] = u.pre[k].n
      BY <2>2, <3>1
    <3> QED BY <3>1, <3>2
  <2> QED BY <2>1, <2>2, <2>3
<1>3. ASSUME NEW j \in 1..(i + i) + 1 PROVE Key(w)[j] = Key(v)[j]
  <2>1. CASE j <= 3
    <3>1. j \in 1..3 BY <2>1
    <3>2. Key(v)[j] = v.core[j] /\ Key(w)[j] = v.core[j] BY <1>2, <3>1
    <3> QED BY <3>2
  <2>2. CASE ~(j <= 3)
    <3>1. j \in Nat /\ j >= 4 /\ j <= (i + i) + 1 BY <2>2
    <3>2. PICK k \in Nat : j = k + k \/ j = (k + k) - 1 BY <3>1, EvenOrOdd
    <3>3. CASE j = k + k
      <4>1. k - 1 \in 1..i - 1 /\ j = ((k - 1) + (k - 1)) + 2 BY <3>1, <3>3
      <4>2. Key(v)[j] = Kind(v.pre[k - 1]) /\ Key(w)[j] = Kind(v.pre[k - 1]) BY <1>2, <4>1
      <4> QED BY <4>2
    <3>4. CASE j = (k + k) - 1
      <4>1. k - 2 \in 1..i - 1 /\ j = ((k - 2) + (k - 2)) + 3 BY <3>1, <3>4
      <4>2. Key(v)[j] = v.pre[k - 2].n /\ Key(w)[j] = v.pre[k - 2].n BY <1>2, <4>1
      <4> QED BY <4>2
    <3> QED BY <3>2, <3>3, <3>4
  <2> QED BY <2>1, <2>2
<1> QED BY <1>3 DEF Alike

\* One list in a list.
LEMMA OneFlattened ==
  ASSUME NEW S, NEW l \in Seq(S), NEW lists, lists = [i \in 1..1 |-> l]
  PROVE  FlattenSeq(lists) = l
<1>1. lists \in [1..1 -> Seq(S)] /\ 1 \in Nat OBVIOUS
<1>2. PICK flat : Joins(flat, lists, 1, S) BY <1>1, FlatSteps
<1>3. /\ flat[0] = <<>> /\ flat[1] = FlattenSeq(lists)
      /\ \A i \in 1..1 : flat[i] = flat[i - 1] \o lists[i]
  BY <1>2 DEF Joins
<1>4. 1 \in 1..1 /\ 1 - 1 = 0 /\ lists[1] = l OBVIOUS
<1>5. flat[1] = <<>> \o l BY <1>3, <1>4
<1>6. <<>> \o l = l OBVIOUS
<1> QED BY <1>3, <1>5, <1>6

LEMMA WordPlace ==
  ASSUME NEW m \in Identifiers, m.c = "word"
  PROVE  FlattenSeq([i \in DOMAIN <<m>> |-> Place(<<m>>[i])]) = <<2, m.n>>
<1> DEFINE l == <<2, m.n>>
           lists == [i \in DOMAIN <<m>> |-> Place(<<m>>[i])]
<1>1. m.n \in Nat /\ l \in Seq(Nat) BY DEF Identifiers
<1>2. Place(m) = l BY DEF Place
<1>3. DOMAIN <<m>> = 1..1 /\ \A i \in 1..1 : <<m>>[i] = m OBVIOUS
<1>4. lists = [i \in 1..1 |-> l] BY <1>2, <1>3
<1> HIDE DEF l, lists
<1>5. FlattenSeq(lists) = l BY <1>1, <1>4, OneFlattened
<1> QED BY <1>5 DEF l, lists

\* A number comes before a word, and the smaller before the larger.
FirstOf(k, m) == Kind(k) < Kind(m) \/ (Kind(k) = Kind(m) /\ k.n < m.n)
LEMMA IdentifierOrder ==
  ASSUME NEW m \in Identifiers, NEW k \in Identifiers, m # k,
         m.c = "number" => m.n <= Widest, k.c = "number" => k.n <= Widest
  PROVE  IdentifierAfter(<<m>>, <<k>>) <=> FirstOf(k, m)
<1>1. /\ m.c \in {"number", "word"} /\ k.c \in {"number", "word"} /\ m.n \in Nat /\ k.n \in Nat
      /\ m.c # k.c \/ m.n # k.n
  BY DEF Identifiers
<1>2. /\ IsNumber(<<m>>) <=> m.c = "number"
      /\ IsNumber(<<k>>) <=> k.c = "number"
      /\ <<m>>[1] = m /\ <<k>>[1] = k
  BY DEF IsNumber
<1>3. CASE m.c = "word" /\ k.c = "word"
  <2> DEFINE s == <<2, k.n>>
             t == <<2, m.n>>
  <2>1. /\ FlattenSeq([i \in DOMAIN <<m>> |-> Place(<<m>>[i])]) = t
        /\ FlattenSeq([i \in DOMAIN <<k>> |-> Place(<<k>>[i])]) = s
    BY <1>3, WordPlace
  <2>2. TextAfter(<<m>>, <<k>>) <=> LexBefore(s, t) BY <2>1 DEF TextAfter
  <2>3. /\ s \in Seq(Nat) /\ t \in Seq(Nat) /\ Len(s) = 2 /\ Len(t) = 2
        /\ s[1] = 2 /\ t[1] = 2 /\ s[2] = k.n /\ t[2] = m.n
    BY <1>1
  <2> HIDE DEF s, t
  <2>4. 2 \in Nat /\ 2 > 0 /\ 2 <= Len(s) /\ 2 <= Len(t) /\ s[2] # t[2] BY <1>1, <1>3, <2>3
  <2>5. Alike(s, t, 2 - 1)
    <3>1. \A j \in 1..2 - 1 : j = 1 OBVIOUS
    <3> QED BY <2>3, <3>1 DEF Alike
  <2>6. LexBefore(s, t) <=> s[2] < t[2] BY <2>3, <2>4, <2>5, FirstDifference
  <2>7. IdentifierAfter(<<m>>, <<k>>) <=> TextAfter(<<m>>, <<k>>)
    BY <1>2, <1>3 DEF IdentifierAfter
  <2> QED BY <1>3, <2>2, <2>3, <2>6, <2>7 DEF FirstOf, Kind
<1>4. CASE m.c = "number" /\ k.c = "number"
  <2>1. Fitted(m.n) = m.n /\ Fitted(k.n) = k.n BY <1>4 DEF Fitted
  <2>2. IdentifierAfter(<<m>>, <<k>>) <=> m.n > k.n
    BY <1>2, <1>4, <2>1 DEF IdentifierAfter
  <2> QED BY <1>1, <1>4, <2>2 DEF FirstOf, Kind
<1>5. CASE m.c = "number" /\ k.c = "word"
  <2>1. ~IdentifierAfter(<<m>>, <<k>>) BY <1>2, <1>5 DEF IdentifierAfter
  <2> QED BY <1>5, <2>1 DEF FirstOf, Kind
<1>6. CASE m.c = "word" /\ k.c = "number"
  <2>1. IdentifierAfter(<<m>>, <<k>>) BY <1>2, <1>6 DEF IdentifierAfter
  <2> QED BY <1>6, <2>1 DEF FirstOf, Kind
<1> QED BY <1>1, <1>3, <1>4, <1>5, <1>6

\* Lists of one mark are told apart by it.
LEMMA OnesDiffer ==
  ASSUME NEW v \in SemVers, NEW w \in SemVers
  PROVE  /\ DOMAIN Ones(v.pre) = 1..Len(v.pre) /\ Len(Ones(v.pre)) = Len(v.pre)
         /\ Ones(v.pre) = <<>> <=> v.pre = <<>>
         /\ \A i \in 1..Len(v.pre) : Ones(v.pre)[i] = <<v.pre[i]>>
         /\ \A i \in (1..Len(v.pre)) \cap (1..Len(w.pre)) :
                Ones(v.pre)[i] = Ones(w.pre)[i] <=> v.pre[i] = w.pre[i]
<1>1. v.pre \in Seq(AllMarks) /\ w.pre \in Seq(AllMarks) BY CoreFacts
<1>2. /\ DOMAIN Ones(v.pre) = 1..Len(v.pre)
      /\ \A i \in 1..Len(v.pre) : Ones(v.pre)[i] = <<v.pre[i]>>
      /\ \A i \in 1..Len(w.pre) : Ones(w.pre)[i] = <<w.pre[i]>>
      /\ v.pre = <<>> => Ones(v.pre) = <<>>
  BY <1>1, OnesFacts
<1>3. Len(Ones(v.pre)) = Len(v.pre)
  <2> DEFINE f == Ones(v.pre)
             T == Seq(AllMarks)
             n == Len(v.pre)
  <2>1. n \in Nat /\ DOMAIN f = 1..n BY <1>1, <1>2
  <2>2. \A i \in 1..n : f[i] \in T
    <3> TAKE i \in 1..n
    <3>1. v.pre[i] \in AllMarks BY <1>1, ElementOfSeq
    <3>2. <<v.pre[i]>> \in T BY <3>1
    <3> QED BY <1>2, <3>2
  <2>3. f = [i \in DOMAIN f |-> f[i]] BY DEF Ones
  <2> HIDE DEF f, T, n
  <2>4. f \in [1..n -> T] BY <2>1, <2>2, <2>3
  <2>5. Len(f) = n BY <2>1, <2>4, ListOf
  <2> QED BY <2>5 DEF f, n
<1>4. Ones(v.pre) = <<>> => v.pre = <<>>
  <2>1. ASSUME Ones(v.pre) = <<>> PROVE v.pre = <<>>
    <3>1. Len(v.pre) = 0 BY <1>3, <2>1
    <3> QED BY <1>1, <3>1
  <2> QED BY <2>1
<1>5. ASSUME NEW i \in (1..Len(v.pre)) \cap (1..Len(w.pre))
      PROVE  Ones(v.pre)[i] = Ones(w.pre)[i] <=> v.pre[i] = w.pre[i]
  <2>1. Ones(v.pre)[i] = <<v.pre[i]>> /\ Ones(w.pre)[i] = <<w.pre[i]>> BY <1>2
  <2>2. \A a, b : <<a>> = <<b>> <=> a = b OBVIOUS
  <2> QED BY <2>1, <2>2
<1> QED BY <1>2, <1>3, <1>4, <1>5

\* Of different cores the first difference decides.
LEMMA CoresDecide ==
  ASSUME NEW v \in SemVers, NEW w \in SemVers, v.core # w.core
  PROVE  LexBefore(w.core, v.core) <=> Precedes(w, v)
<1>1. /\ v.core \in [1..3 -> Nat] /\ w.core \in [1..3 -> Nat]
      /\ v.core \in Seq(Nat) /\ w.core \in Seq(Nat) /\ Len(v.core) = 3 /\ Len(w.core) = 3
  BY SemVerFacts
<1>2. /\ Key(v) \in Seq(Nat) /\ \A i \in 1..3 : Key(v)[i] = v.core[i]
      /\ Key(w) \in Seq(Nat) /\ \A i \in 1..3 : Key(w)[i] = w.core[i]
      /\ Len(Key(v)) >= 4 /\ Len(Key(w)) >= 4
  <2>1. \A u \in SemVers : Len(Key(u)) >= 4
    <3> TAKE u \in SemVers
    <3>1. CASE u.pre = <<>> BY <3>1, KeyFacts
    <3>2. CASE u.pre # <<>>
      <4>1. Len(u.pre) \in Nat BY SemVerFacts
      <4>2. Len(Key(u)) = (Len(u.pre) + Len(u.pre)) + 4 BY <3>2, KeyFacts
      <4> QED BY <4>1, <4>2
    <3> QED BY <3>1, <3>2
  <2> QED BY <2>1, KeyFacts
<1> DEFINE D == {i \in 1..3 : v.core[i] # w.core[i]}
<1>3. D # {} BY <1>1
<1>4. PICK k \in D : \A i \in D : k <= i
  <2>1. D \subseteq Nat OBVIOUS
  <2> HIDE DEF D
  <2> QED BY <1>3, <2>1, LeastNatural
<1>5. k \in 1..3 /\ v.core[k] # w.core[k] /\ \A i \in 1..k - 1 : v.core[i] = w.core[i]
  <2>1. \A i \in 1..k - 1 : i \in 1..3 /\ ~(k <= i) OBVIOUS
  <2> QED BY <1>4, <2>1
<1> HIDE DEF D
<1>6. k \in Nat /\ k > 0 /\ k <= 3 /\ k <= Len(Key(v)) /\ k <= Len(Key(w))
  <2>1. k \in Nat /\ k > 0 /\ k <= 3 BY <1>5
  <2>2. Len(Key(v)) \in Nat /\ Len(Key(w)) \in Nat BY <1>2
  <2>3. Len(Key(v)) >= 4 /\ Len(Key(w)) >= 4 BY <1>2
  <2> QED BY ONLY <2>1, <2>2, <2>3
<1>7. Alike(w.core, v.core, k - 1) BY <1>5 DEF Alike
<1>8. Alike(Key(w), Key(v), k - 1)
  <2>1. \A i \in 1..k - 1 : i \in 1..3 BY <1>5
  <2> QED BY <1>2, <1>5, <2>1 DEF Alike
<1>9. LexBefore(w.core, v.core) <=> w.core[k] < v.core[k]
  BY <1>1, <1>5, <1>6, <1>7, FirstDifference
<1>10. LexBefore(Key(w), Key(v)) <=> Key(w)[k] < Key(v)[k]
  <2>1. Key(w)[k] # Key(v)[k] BY <1>2, <1>5
  <2> QED BY <1>2, <1>6, <1>8, <2>1, FirstDifference
<1> QED BY <1>2, <1>5, <1>9, <1>10 DEF Precedes

\* A release follows every prerelease.
LEMMA ReleasesDecide ==
  ASSUME NEW v \in SemVers, NEW w \in SemVers, v.core = w.core, v.pre = <<>> \/ w.pre = <<>>
  PROVE  (v.pre = <<>> /\ w.pre # <<>>) <=> Precedes(w, v)
<1> DEFINE s == Key(w)
           t == Key(v)
<1>1. s \in Seq(Nat) /\ t \in Seq(Nat) BY KeyFacts
<1>2. ASSUME NEW u \in SemVers
      PROVE  /\ Len(Key(u)) >= 4 /\ \A i \in 1..3 : Key(u)[i] = u.core[i]
             /\ IF u.pre = <<>> THEN Key(u)[4] = 3 ELSE Key(u)[4] \in {1, 2}
  <2>1. CASE u.pre = <<>> BY <2>1, KeyFacts
  <2>2. CASE u.pre # <<>>
    <3>1. Len(u.pre) \in Nat /\ Len(u.pre) # 0 BY <2>2, SemVerFacts
    <3>2. /\ Len(Key(u)) = (Len(u.pre) + Len(u.pre)) + 4
          /\ \A i \in 1..Len(u.pre) : Key(u)[(i + i) + 2] = Kind(u.pre[i])
          /\ \A i \in 1..3 : Key(u)[i] = u.core[i]
      BY <2>2, KeyFacts
    <3>3. 1 \in 1..Len(u.pre) /\ (1 + 1) + 2 = 4 BY <3>1
    <3>4. Key(u)[4] = Kind(u.pre[1]) BY <3>2, <3>3
    <3> QED BY <2>2, <3>1, <3>2, <3>4 DEF Kind
  <2> QED BY <2>1, <2>2
<1>3. CASE v.pre = <<>> /\ w.pre = <<>>
  <2>1. s = t BY <1>3 DEF Key
  <2>2. ~LexBefore(t, t) BY <1>1, NotBeforeItself
  <2> QED BY <1>3, <2>1, <2>2 DEF Precedes
<1>4. CASE ~(v.pre = <<>> /\ w.pre = <<>>)
  <2>1. Alike(s, t, 4 - 1)
    <3>1. \A j \in 1..4 - 1 : j \in 1..3 OBVIOUS
    <3> QED BY <1>2, <3>1 DEF Alike
  <2>2. 4 \in Nat /\ 4 > 0 /\ 4 <= Len(s) /\ 4 <= Len(t)
    <3>1. Len(s) \in Nat /\ Len(t) \in Nat BY <1>1
    <3> QED BY <1>2, <3>1
  <2>3. s[4] # t[4] /\ (s[4] < t[4] <=> v.pre = <<>> /\ w.pre # <<>>)
    <3>1. CASE v.pre = <<>>
      <4>1. t[4] = 3 /\ s[4] \in {1, 2} BY <1>2, <1>4, <3>1
      <4> HIDE DEF s, t
      <4> QED BY <1>4, <3>1, <4>1
    <3>2. CASE v.pre # <<>>
      <4>1. s[4] = 3 /\ t[4] \in {1, 2} BY <1>2, <3>2
      <4> HIDE DEF s, t
      <4> QED BY <3>2, <4>1
    <3> QED BY <3>1, <3>2
  <2> HIDE DEF s, t
  <2>4. LexBefore(s, t) <=> s[4] < t[4] BY <1>1, <2>1, <2>2, <2>3, FirstDifference
  <2> QED BY <2>3, <2>4 DEF Precedes, s, t
<1> QED BY <1>3, <1>4

\* Between prereleases of one core the first identifiers that differ decide, or
\* the longer list.
LEMMA PrereleasesDecide ==
  ASSUME NEW v \in SemVers, NEW w \in SemVers, v.core = w.core, v.pre # <<>>, w.pre # <<>>,
         NumbersFit(v), NumbersFit(w)
  PROVE  PrereleaseAfter(Ones(v.pre), Ones(w.pre)) <=> Precedes(w, v)
<1> DEFINE own == Ones(v.pre)
           theirs == Ones(w.pre)
           differ == {i \in DOMAIN own \cap DOMAIN theirs : own[i] # theirs[i]}
           m == Len(v.pre)
           n == Len(w.pre)
           s == Key(w)
           t == Key(v)
<1>1. /\ m \in Nat /\ n \in Nat /\ m # 0 /\ n # 0
      /\ \A i \in 1..m : v.pre[i] \in Identifiers
      /\ \A i \in 1..n : w.pre[i] \in Identifiers
      /\ v.pre \in Seq(Identifiers) /\ w.pre \in Seq(Identifiers)
  BY SemVerFacts
<1>2. /\ s \in Seq(Nat) /\ t \in Seq(Nat)
      /\ Len(s) = (n + n) + 4 /\ Len(t) = (m + m) + 4
      /\ s[(n + n) + 4] = 0 /\ t[(m + m) + 4] = 0
      /\ \A i \in 1..n : s[(i + i) + 2] = Kind(w.pre[i]) /\ s[(i + i) + 3] = w.pre[i].n
      /\ \A i \in 1..m : t[(i + i) + 2] = Kind(v.pre[i]) /\ t[(i + i) + 3] = v.pre[i].n
  BY KeyFacts
<1>3. /\ Len(own) = m /\ Len(theirs) = n
      /\ \A i \in differ : i \in 1..m /\ i \in 1..n /\ v.pre[i] # w.pre[i]
      /\ \A i : i \in 1..m /\ i \in 1..n /\ i \notin differ => v.pre[i] = w.pre[i]
      /\ \A i \in 1..m : own[i] = <<v.pre[i]>>
      /\ \A i \in 1..n : theirs[i] = <<w.pre[i]>>
  <2>1. /\ DOMAIN own = 1..m /\ Len(own) = m /\ \A i \in 1..m : own[i] = <<v.pre[i]>>
        /\ \A i \in (1..m) \cap (1..n) : own[i] = theirs[i] <=> v.pre[i] = w.pre[i]
    BY OnesDiffer
  <2>2. DOMAIN theirs = 1..n /\ Len(theirs) = n /\ \A i \in 1..n : theirs[i] = <<w.pre[i]>>
    BY OnesDiffer
  <2> HIDE DEF own, theirs, m, n
  <2> QED BY <2>1, <2>2
<1>4. PrereleaseAfter(own, theirs) <=>
          IF differ = {} THEN LongerWins(own, theirs)
          ELSE \E i \in differ : (\A j \in differ : i <= j) /\ IdentifierAfter(own[i], theirs[i])
  BY DEF PrereleaseAfter
<1>5. Precedes(w, v) <=> LexBefore(s, t) BY DEF Precedes
<1>6. \A k : Kind(k) \in {1, 2} BY DEF Kind
<1>7. ASSUME NEW i \in Nat, i > 0, i - 1 <= m, i - 1 <= n, \A k \in 1..i - 1 : k \notin differ
      PROVE  Alike(s, t, (i + i) + 1)
  <2>1. \A k \in 1..i - 1 : v.pre[k] = w.pre[k]
    <3>1. \A k \in 1..i - 1 : k \in 1..m /\ k \in 1..n BY <1>1, <1>7
    <3> HIDE DEF differ
    <3> QED BY <1>3, <1>7, <3>1
  <2> QED BY <1>7, <2>1, SameUpTo
<1> HIDE DEF s, t, m, n, own, theirs
<1> SUFFICES PrereleaseAfter(own, theirs) <=> Precedes(w, v) BY DEF own, theirs
<1>8. CASE differ = {}
  <2>1. PrereleaseAfter(own, theirs) <=> m > n BY <1>3, <1>4, <1>8 DEF LongerWins
  <2>2. CASE m = n
    <3>1. v.pre = w.pre
      <4>1. \A i \in 1..m : v.pre[i] = w.pre[i]
        <5> HIDE DEF differ
        <5> QED BY <1>3, <1>8, <2>2
      <4>2. Len(v.pre) = Len(w.pre) /\ \A i \in 1..Len(v.pre) : v.pre[i] = w.pre[i]
        BY <2>2, <4>1 DEF m, n
      <4> QED BY <1>1, <4>2, SeqEqual
    <3>2. s = t BY <3>1 DEF s, t, Key
    <3>3. ~LexBefore(t, t) BY <1>2, NotBeforeItself
    <3>4. ~(m > n) BY <1>1, <2>2
    <3> QED BY <1>5, <2>1, <3>2, <3>3, <3>4
  <2>3. CASE n < m
    <3> DEFINE i == n + 1
               k == (n + n) + 4
    <3>1. /\ i \in Nat /\ i > 0 /\ i - 1 <= m /\ i - 1 <= n /\ k - 1 = (i + i) + 1
          /\ k = (i + i) + 2 /\ i \in 1..m /\ k \in Nat /\ k > 0
          /\ k <= Len(s) /\ k <= Len(t)
      BY <1>1, <1>2, <2>3
    <3>2. s[k] = 0 BY <1>2
    <3> HIDE DEF i, k
    <3>3. t[k] = Kind(v.pre[i]) BY <1>2, <3>1
    <3>4. s[k] # t[k] /\ s[k] < t[k] BY <1>6, <3>2, <3>3
    <3>5. Alike(s, t, k - 1)
      <4>1. Alike(s, t, (i + i) + 1) BY <1>7, <1>8, <3>1
      <4> QED BY <3>1, <4>1
    <3>6. LexBefore(s, t) <=> s[k] < t[k] BY <1>2, <3>1, <3>4, <3>5, FirstDifference
    <3>7. m > n BY <1>1, <2>3
    <3> QED BY <1>5, <2>1, <3>4, <3>6, <3>7
  <2>4. CASE m < n
    <3> DEFINE i == m + 1
               k == (m + m) + 4
    <3>1. /\ i \in Nat /\ i > 0 /\ i - 1 <= m /\ i - 1 <= n /\ k - 1 = (i + i) + 1
          /\ k = (i + i) + 2 /\ i \in 1..n /\ k \in Nat /\ k > 0
          /\ k <= Len(s) /\ k <= Len(t)
      BY <1>1, <1>2, <2>4
    <3>2. t[k] = 0 BY <1>2
    <3> HIDE DEF i, k
    <3>3. s[k] = Kind(w.pre[i]) BY <1>2, <3>1
    <3>4. s[k] # t[k] /\ ~(s[k] < t[k]) BY <1>6, <3>2, <3>3
    <3>5. Alike(s, t, k - 1)
      <4>1. Alike(s, t, (i + i) + 1) BY <1>7, <1>8, <3>1
      <4> QED BY <3>1, <4>1
    <3>6. LexBefore(s, t) <=> s[k] < t[k] BY <1>2, <3>1, <3>4, <3>5, FirstDifference
    <3>7. ~(m > n) BY <1>1, <2>4
    <3> QED BY <1>5, <2>1, <3>4, <3>6, <3>7
  <2> QED BY <1>1, <2>2, <2>3, <2>4
<1>9. CASE differ # {}
  <2>1. PICK i \in differ : \A j \in differ : i <= j
    <3>1. differ \subseteq Nat BY <1>1, <1>3
    <3> HIDE DEF differ
    <3> QED BY <1>9, <3>1, LeastNatural
  <2>2. i \in 1..m /\ i \in 1..n /\ v.pre[i] # w.pre[i] /\ i \in Nat /\ i > 0
        /\ i - 1 <= m /\ i - 1 <= n
    BY <1>1, <1>3
  <2>3. \A k \in 1..i - 1 : k \notin differ
    <3> HIDE DEF differ
    <3>1. \A k \in 1..i - 1 : ~(i <= k) BY <2>2
    <3> QED BY <2>1, <3>1
  <2>4. Alike(s, t, (i + i) + 1) BY <1>7, <2>2, <2>3
  <2>5. PrereleaseAfter(own, theirs) <=> IdentifierAfter(own[i], theirs[i])
    <3> HIDE DEF differ
    <3>1. \A j \in differ : (\A h \in differ : j <= h) => j = i
      <4>1. \A j \in differ : j \in Nat BY <1>1, <1>3
      <4> QED BY <2>1, <2>2, <4>1
    <3> QED BY <1>4, <1>9, <2>1, <3>1
  <2>6. IdentifierAfter(own[i], theirs[i]) <=> FirstOf(w.pre[i], v.pre[i])
    <3>1. own[i] = <<v.pre[i]>> /\ theirs[i] = <<w.pre[i]>> BY <1>3, <2>2
    <3>2. v.pre[i] \in Identifiers /\ w.pre[i] \in Identifiers BY <1>1, <2>2
    <3>3. /\ v.pre[i].c = "number" => v.pre[i].n <= Widest
          /\ w.pre[i].c = "number" => w.pre[i].n <= Widest
      <4>1. i \in DOMAIN v.pre /\ i \in DOMAIN w.pre BY <1>1, <2>2 DEF m, n
      <4> QED BY <4>1 DEF NumbersFit
    <3>4. IdentifierAfter(<<v.pre[i]>>, <<w.pre[i]>>) <=> FirstOf(w.pre[i], v.pre[i])
      BY <2>2, <3>2, <3>3, IdentifierOrder
    <3> QED BY <3>1, <3>4
  <2>7. CASE Kind(w.pre[i]) # Kind(v.pre[i])
    <3> DEFINE k == (i + i) + 2
    <3>1. k \in Nat /\ k > 0 /\ k <= Len(s) /\ k <= Len(t) /\ k - 1 = (i + i) + 1
      <4>1. Len(s) = (n + n) + 4 /\ Len(t) = (m + m) + 4 BY <1>2
      <4>2. m \in Nat /\ n \in Nat /\ i \in Nat /\ i > 0 /\ i <= m /\ i <= n BY <1>1, <2>2
      <4> QED BY ONLY <4>1, <4>2
    <3>2. s[k] = Kind(w.pre[i]) /\ t[k] = Kind(v.pre[i]) BY <1>2, <2>2
    <3> HIDE DEF k
    <3>3. Alike(s, t, k - 1) BY <2>4, <3>1
    <3>4. s[k] # t[k] BY <2>7, <3>2
    <3>5. LexBefore(s, t) <=> s[k] < t[k] BY <1>2, <3>1, <3>3, <3>4, FirstDifference
    <3> QED BY <1>5, <2>5, <2>6, <2>7, <3>2, <3>5 DEF FirstOf
  <2>8. CASE Kind(w.pre[i]) = Kind(v.pre[i])
    <3> DEFINE k == (i + i) + 3
    <3>1. k \in Nat /\ k > 0 /\ k <= Len(s) /\ k <= Len(t) /\ k - 1 = (i + i) + 2
      <4>1. Len(s) = (n + n) + 4 /\ Len(t) = (m + m) + 4 BY <1>2
      <4>2. m \in Nat /\ n \in Nat /\ i \in Nat /\ i > 0 /\ i <= m /\ i <= n BY <1>1, <2>2
      <4> QED BY ONLY <4>1, <4>2
    <3>2. s[k] = w.pre[i].n /\ t[k] = v.pre[i].n BY <1>2, <2>2
    <3>3. s[(i + i) + 2] = t[(i + i) + 2] BY <1>2, <2>2, <2>8
    <3> HIDE DEF k
    <3>4. Alike(s, t, k - 1)
      <4>1. \A j \in 1..(i + i) + 2 : j \in 1..(i + i) + 1 \/ j = (i + i) + 2 BY <2>2
      <4>2. Alike(s, t, (i + i) + 2) BY <2>4, <3>3, <4>1 DEF Alike
      <4> QED BY <3>1, <4>2
    <3>5. v.pre[i].n # w.pre[i].n
      <4>1. v.pre[i] \in Identifiers /\ w.pre[i] \in Identifiers BY <1>1, <2>2
      <4>2. v.pre[i].c = w.pre[i].c BY <2>8, <4>1 DEF Kind, Identifiers
      <4>3. \A a, b \in Identifiers : a.c = b.c /\ a.n = b.n => a = b BY DEF Identifiers
      <4> QED BY <2>2, <4>1, <4>2, <4>3
    <3>6. s[k] # t[k] BY <3>2, <3>5
    <3>7. LexBefore(s, t) <=> s[k] < t[k] BY <1>2, <3>1, <3>4, <3>6, FirstDifference
    <3>8. ~(Kind(w.pre[i]) < Kind(v.pre[i])) BY <1>6, <2>8
    <3> QED BY <1>5, <2>5, <2>6, <2>8, <3>2, <3>7, <3>8 DEF FirstOf
  <2> QED BY <2>7, <2>8
<1> QED BY <1>8, <1>9

\* The order of the program on what it reads is the precedence of the versions.
LEMMA FollowsFacts ==
  ASSUME NEW v \in SemVers, NEW w \in SemVers, NumbersFit(v), NumbersFit(w)
  PROVE  Follows(Read(v), Read(w)) <=> Precedes(w, v)
<1>1. ASSUME NEW u \in SemVers, NumbersFit(u)
      PROVE  Read(u).core = u.core /\ Read(u).pre = Ones(u.pre)
  <2>1. u.core \in [1..3 -> Nat] BY SemVerFacts
  <2>2. \A i \in 1..3 : Fitted(u.core[i]) = u.core[i] BY <1>1 DEF NumbersFit, Fitted
  <2>3. [i \in 1..3 |-> Fitted(u.core[i])] = u.core BY <2>1, <2>2
  <2> QED BY <2>3 DEF Read
<1>2. /\ Read(v).core = v.core /\ Read(v).pre = Ones(v.pre)
      /\ Read(w).core = w.core /\ Read(w).pre = Ones(w.pre)
  BY <1>1
<1>3. (Ones(v.pre) = <<>> <=> v.pre = <<>>) /\ (Ones(w.pre) = <<>> <=> w.pre = <<>>)
  BY OnesDiffer
<1>4. CASE v.core # w.core
  <2>1. Follows(Read(v), Read(w)) <=> LexBefore(w.core, v.core) BY <1>2, <1>4 DEF Follows
  <2> QED BY <1>4, <2>1, CoresDecide
<1>5. CASE v.core = w.core /\ (v.pre = <<>> \/ w.pre = <<>>)
  <2>1. Follows(Read(v), Read(w)) <=> v.pre = <<>> /\ w.pre # <<>>
    BY <1>2, <1>3, <1>5 DEF Follows
  <2> QED BY <1>5, <2>1, ReleasesDecide
<1>6. CASE v.core = w.core /\ v.pre # <<>> /\ w.pre # <<>>
  <2>1. Follows(Read(v), Read(w)) <=> PrereleaseAfter(Ones(v.pre), Ones(w.pre))
    BY <1>2, <1>3, <1>6 DEF Follows
  <2> QED BY <1>6, <2>1, PrereleasesDecide
<1> QED BY <1>4, <1>5, <1>6

-----------------------------------------------------------------------------
(* The update check.                                                       *)

\* What is no version is refused.
NoVersionIsRead == \A text \in IllFormed : ParsedVersion(text) = {}

\* What is shown is the outcome of the last answer, and one check at most is
\* under way, with its spinner.
OffersInv ==
    /\ installed \in Installed
    /\ updates \in [about : BOOLEAN, clicks : Nat, spinner : BOOLEAN, running : {0, 1},
                    shown : {"nothing", "unavailable", "available", "up_to_date"}, checks : Nat]
    /\ updates.shown # "nothing" => answered \in Answers /\ updates.shown = Outcome(answered)
    /\ updates.spinner <=> updates.running = 1

LEMMA OffersInvHolds == UpdatesSpec => []OffersInv
<1> DEFINE Checks == [about : BOOLEAN, clicks : Nat, spinner : BOOLEAN, running : {0, 1},
                      shown : {"nothing", "unavailable", "available", "up_to_date"}, checks : Nat]
<1>1. UpdatesInit => OffersInv BY DEF UpdatesInit, OffersInv
<1>2. ASSUME OffersInv, [UpdatesNext]_updateVars PROVE OffersInv'
  <2>1. /\ installed \in Installed /\ updates \in Checks
        /\ updates.shown # "nothing" => answered \in Answers /\ updates.shown = Outcome(answered)
        /\ updates.spinner <=> updates.running = 1
    BY <1>2 DEF OffersInv
  <2>2. SUFFICES /\ installed' = installed /\ updates' \in Checks
                 /\ updates'.shown # "nothing" =>
                        \/ answered' = answered /\ updates'.shown = updates.shown
                        \/ answered' \in Answers /\ updates'.shown = Outcome(answered')
                 /\ updates'.spinner <=> updates'.running = 1
    <3>1. \A a : installed' = installed => Outcome(a)' = Outcome(a) BY DEF Outcome
    <3>2. installed' = installed => Outcome(answered)' = Outcome(answered') BY DEF Outcome
    <3>3. Answers' = Answers BY DEF Answers
    <3> QED BY <2>1, <2>2, <3>1, <3>2, <3>3 DEF OffersInv
  <2>3. CASE UNCHANGED updateVars BY <2>1, <2>3 DEF updateVars
  <2>4. CASE ShowAbout BY <2>1, <2>4 DEF ShowAbout
  <2>5. CASE AboutClosed BY <2>1, <2>5 DEF AboutClosed
  <2>6. CASE CheckClicked
    <3>1. PICK a, b \in Nat : updates' = [updates EXCEPT !.clicks = a, !.checks = b]
      <4>1. updates.clicks + 1 \in Nat /\ updates.checks + 1 \in Nat BY <2>1
      <4> QED BY <2>6, <4>1 DEF CheckClicked
    <3>2. installed' = installed /\ answered' = answered BY <2>6 DEF CheckClicked
    <3> QED BY ONLY <2>1, <3>1, <3>2
  <2>7. CASE CheckForUpdates
    <3>1. updates.clicks - 1 \in Nat BY <2>1, <2>7 DEF CheckForUpdates
    <3>2. CASE updates.spinner BY <2>1, <2>7, <3>1, <3>2 DEF CheckForUpdates
    <3>3. CASE ~updates.spinner
      <4>1. updates.running = 0 BY <2>1, <3>3
      <4>2. PICK a \in Nat : updates' = [updates EXCEPT !.clicks = a, !.spinner = TRUE, !.running = 1]
        <5>1. updates.running + 1 = 1 BY <4>1
        <5> QED BY <2>7, <3>1, <3>3, <5>1 DEF CheckForUpdates
      <4>3. installed' = installed /\ answered' = answered BY <2>7 DEF CheckForUpdates
      <4> QED BY ONLY <2>1, <4>2, <4>3
    <3> QED BY <3>2, <3>3
  <2>8. CASE FinishUpdateCheck
    <3>1. updates.running = 1 BY <2>1, <2>8 DEF FinishUpdateCheck
    <3>2. PICK answer \in Answers :
             /\ answered' = answer
             /\ updates' = [updates EXCEPT !.running = @ - 1, !.spinner = FALSE,
                                           !.shown = Outcome(answer)]
      BY <2>8 DEF FinishUpdateCheck
    <3>3. Outcome(answer) \in {"unavailable", "available", "up_to_date"} BY DEF Outcome
    <3>4. installed' = installed BY <2>8 DEF FinishUpdateCheck
    <3>5. updates' = [updates EXCEPT !.running = 0, !.spinner = FALSE, !.shown = Outcome(answer)]
      <4>1. updates.running - 1 = 0 BY <3>1
      <4> QED BY <3>2, <4>1
    <3>6. answered' = answer /\ answered' \in Answers BY <3>2
    <3> DEFINE told == Outcome(answer)
    <3>7. told \in {"unavailable", "available", "up_to_date"} BY <3>3
    <3>8. updates' = [updates EXCEPT !.running = 0, !.spinner = FALSE, !.shown = told] BY <3>5
    <3>9. told = Outcome(answered') BY <3>6
    <3> HIDE DEF told
    <3>10. /\ updates' \in Checks /\ updates'.shown = told
           /\ updates'.spinner = FALSE /\ updates'.running = 0
      BY ONLY <2>1, <3>7, <3>8
    <3> QED BY <3>4, <3>6, <3>9, <3>10
  <2>9. CASE ResultClosed BY <2>1, <2>9 DEF ResultClosed
  <2> QED BY <1>2, <2>3, <2>4, <2>5, <2>6, <2>7, <2>8, <2>9 DEF UpdatesNext
<1> QED BY <1>1, <1>2, PTL DEF UpdatesSpec

\* An update is offered if and only if a version was published that follows the
\* installed one by the precedence of SemVer.
THEOREM OffersFollowPrecedence ==
  ASSUME NoVersionIsRead
  PROVE  UpdatesSpec => []OffersAreNewer
<1>1. ASSUME OffersInv PROVE OffersAreNewer
  <2> DEFINE readable == {v \in Published : answered.kind = "manifest"
                                            /\ answered.flaw = "none" /\ answered.text = Text(v)}
  <2>1. /\ installed \in SemVers /\ \A v \in Published : v \in SemVers
        /\ updates.spinner <=> updates.running > 0
    BY <1>1, UpdatesAssumption DEF OffersInv
  <2>2. SUFFICES ASSUME updates.shown # "nothing"
                 PROVE  /\ updates.shown = "unavailable" <=> readable = {}
                        /\ (\A v \in readable \cup {installed} : NumbersFit(v)) =>
                               (updates.shown = "available" <=>
                                    \E v \in readable : Precedes(installed, v))
    BY <2>1 DEF OffersAreNewer
  <2>3. answered \in Answers /\ updates.shown = Outcome(answered) BY <1>1, <2>2 DEF OffersInv
  <2>4. ParsedVersion(Text(installed)) = {Read(installed)} BY <2>1, ParsedFacts
  <2>5. \A v \in readable : v \in SemVers /\ ParsedVersion(answered.text) = {Read(v)}
                            /\ answered.kind = "manifest" /\ answered.flaw = "none"
    BY <2>1, ParsedFacts
  <2> HIDE DEF readable
  <2>6. CASE readable = {}
    <3>1. answered.kind = "manifest" /\ answered.flaw = "none" => answered.text \in IllFormed
      BY <2>3, <2>6 DEF Answers, readable, Flaws
    <3>2. Outcome(answered) = "unavailable"
      BY <3>1, NoVersionIsRead DEF Outcome, NoVersionIsRead
    <3> QED BY <2>3, <2>6, <3>2
  <2>7. CASE readable # {}
    <3>1. PICK v \in readable : TRUE BY <2>7
    <3>2. /\ ParsedVersion(answered.text) = {Read(v)} /\ v \in SemVers
          /\ answered.kind = "manifest" /\ answered.flaw = "none"
      BY <2>5
    <3>3. Outcome(answered) =
              IF Follows(Read(v), Read(installed)) THEN "available" ELSE "up_to_date"
      BY <2>4, <3>2 DEF Outcome
    <3>4. ASSUME \A u \in readable \cup {installed} : NumbersFit(u)
          PROVE  updates.shown = "available" <=> \E u \in readable : Precedes(installed, u)
      <4>1. ASSUME NEW u \in readable
            PROVE  Follows(Read(v), Read(installed)) <=> Precedes(installed, u)
        <5>1. u \in SemVers /\ {Read(u)} = {Read(v)} BY <2>5, <3>2
        <5>2. Read(u) = Read(v) BY <5>1
        <5>3. Follows(Read(u), Read(installed)) <=> Precedes(installed, u)
          BY <2>1, <3>4, <5>1, FollowsFacts
        <5> QED BY <5>2, <5>3
      <4> QED BY <2>3, <3>1, <3>3, <4>1
    <3>5. Outcome(answered) # "unavailable" BY <3>3
    <3> QED BY <2>3, <2>7, <3>4, <3>5
  <2> QED BY <2>6, <2>7
<1> QED BY <1>1, OffersInvHolds, PTL

=============================================================================
