--------------------------- MODULE SecretFilesProofs ---------------------------
(***************************************************************************)
(* What a success of SyncSecret, the ready flag and the status file mean,  *)
(* for any number of files, descriptions, jobs, runs and failures.         *)
(*                                                                         *)
(* A result says nothing of the files that a later sync could rely on: a   *)
(* success still in the channel must vouch for files that jobs go on       *)
(* writing.  It does, because within a run no file that was written        *)
(* becomes absent or older than the run; and a job vouches for exactly the *)
(* files before next.                                                      *)
(***************************************************************************)
EXTENDS SecretFiles, SequenceTheorems, TLAPS

WrittenHere(f) == out[f] # Absent /\ out[f].run = run

AllWritten ==
    \E c \in Confs : \A i \in DOMAIN FileSeq[c] : WrittenHere(FileSeq[c][i])

\* Where a job is in the list of its files.
Places ==
    \A j \in Jobs :
       /\ pc[j] \in {"none", "rest", "fetch"} => next[j] = 1
       /\ pc[j] = "write" => next[j] \in 1..Len(FileSeq[conf[j]])
       /\ pc[j] = "ok" => next[j] = Len(FileSeq[conf[j]]) + 1

\* What a job has written so far.
Written ==
    \A j \in Jobs : \A i \in 1..(next[j] - 1) :
       /\ WrittenHere(FileSeq[conf[j]][i])
       /\ j \in alone => Rendered(conf[j], FileSeq[conf[j]][i], got[j])

\* Jobs begin in their order, in schedulers that are made in their order.
Order == curSched <= cur /\ \A k \in Jobs : k > cur => pc[k] = "none"

\* A success that the monitor has read or will read.
Vouched ==
    /\ ready => AllWritten
    /\ \A s \in Jobs : \A i \in DOMAIN results[s] : results[s][i] = "success" => AllWritten

IndInv == SecretFilesTypeOK /\ Places /\ Written /\ Order /\ Vouched /\ StatusFollows

-----------------------------------------------------------------------------
\* The list of a description.
LEMMA FileSeqType ==
  ASSUME NEW c \in Confs
  PROVE  /\ FileSeq[c] \in Seq(Files)
         /\ Len(FileSeq[c]) \in Nat \ {0}
         /\ DOMAIN FileSeq[c] = 1..Len(FileSeq[c])
         /\ \A i \in 1..Len(FileSeq[c]) : FileSeq[c][i] \in Files
BY SecretFilesAssumption

LEMMA JobsType == 1 \in Jobs /\ Jobs \subseteq Nat /\ MaxJobs \in Nat \ {0}
BY SecretFilesAssumption DEF Jobs

LEMMA InitIndInv == Init => IndInv
<1> SUFFICES ASSUME Init PROVE IndInv
  OBVIOUS
<1> USE JobsType
<1>1. SecretFilesTypeOK
  <2>1. JobsTypeOK
    BY SecretFilesAssumption DEF Init, JobsTypeOK, All, FirstOnly, Version
  <2>2. ResultsTypeOK
    BY SecretFilesAssumption DEF Init, ResultsTypeOK, All
  <2>3. HealthTypeOK
    BY DEF Init, HealthTypeOK
  <2>4. DiskTypeOK
    BY SecretFilesAssumption DEF Init, DiskTypeOK, Version
  <2> QED
    BY <2>1, <2>2, <2>3, <2>4 DEF SecretFilesTypeOK
<1>2. Places
  BY DEF Init, Places, All, FirstOnly
<1>3. Written
  BY DEF Init, Written, All
<1>4. Order
  BY DEF Init, Order, FirstOnly
<1>5. Vouched
  BY DEF Init, Vouched, All
<1>6. StatusFollows
  BY DEF Init, StatusFollows
<1> QED
  BY <1>1, <1>2, <1>3, <1>4, <1>5, <1>6 DEF IndInv

\* Sending a result keeps the channels typed and bounded, and adds at most that
\* result to one of them.
LEMMA SendType ==
  ASSUME JobsTypeOK, ResultsTypeOK, NEW j \in Jobs, NEW r \in {"success", "error"}, Send(j, r)
  PROVE  /\ ResultsTypeOK'
         /\ \A s \in Jobs : \A i \in DOMAIN results'[s] :
              \/ results'[s][i] = r
              \/ i \in DOMAIN results[s] /\ results'[s][i] = results[s][i]
<1> DEFINE t == sched[j]
           q == results[t]
<1>1. t \in Jobs /\ q \in Seq({"success", "error"})
  BY DEF JobsTypeOK, ResultsTypeOK
<1>2. CASE Len(q) < ResultsCap
  <2>1. results' = [results EXCEPT ![t] = Append(q, r)]
    BY <1>1, <1>2 DEF Send
  <2>2. /\ Append(q, r) \in Seq({"success", "error"})
        /\ Len(Append(q, r)) = Len(q) + 1
        /\ DOMAIN Append(q, r) = 1..Len(q) + 1
        /\ \A i \in 1..Len(q) : Append(q, r)[i] = q[i]
        /\ Append(q, r)[Len(q) + 1] = r
    BY <1>1, AppendProperties
  <2>3. ResultsTypeOK'
    BY <1>1, <1>2, <2>1, <2>2, SecretFilesAssumption DEF ResultsTypeOK
  <2>4. SUFFICES ASSUME NEW s \in Jobs, NEW i \in DOMAIN results'[s]
                 PROVE  \/ results'[s][i] = r
                        \/ i \in DOMAIN results[s] /\ results'[s][i] = results[s][i]
    BY <2>3
  <2>5. CASE s = t
    BY <1>1, <2>1, <2>2, <2>5 DEF ResultsTypeOK
  <2>6. CASE s # t
    BY <1>1, <2>1, <2>6 DEF ResultsTypeOK
  <2> QED
    BY <2>5, <2>6
<1>3. CASE ~(Len(q) < ResultsCap)
  BY <1>3 DEF Send, ResultsTypeOK
<1> QED
  BY <1>2, <1>3

\* A step that writes no file and begins no run keeps what is written.
LEMMA KeepsWritten ==
  ASSUME UNCHANGED diskVars
  PROVE  AllWritten' <=> AllWritten
BY DEF diskVars, AllWritten, WrittenHere

\* The end of a sync, with its result.
LEMMA ReportIndInv ==
  ASSUME IndInv, NEW j \in Jobs, NEW r \in {"success", "error"}, Report(j, r),
         pc[j] \in {"fetch", "write", "ok"}, failures' \in 0..MaxFailures,
         r = "success" => AllWritten
  PROVE  IndInv'
<1> USE JobsType
<1>1. UNCHANGED diskVars /\ UNCHANGED healthVars
  BY DEF Report
<1>0. /\ JobsTypeOK /\ ResultsTypeOK /\ HealthTypeOK /\ DiskTypeOK
      /\ Places /\ Written /\ Order /\ Vouched /\ StatusFollows
  BY DEF IndInv, SecretFilesTypeOK
<1>2. SecretFilesTypeOK'
  <2>1. JobsTypeOK'
    <3>1. pc' \in [Jobs -> {"none", "rest", "fetch", "write", "ok"}]
      BY <1>0 DEF JobsTypeOK, Report, Goto
    <3>2. 0 \in Version
      BY SecretFilesAssumption DEF Version
    <3>3. got' \in [Jobs -> Version]
      BY <1>0, <3>2 DEF JobsTypeOK, Report
    <3>4. next' \in [Jobs -> Nat]
      BY <1>0 DEF JobsTypeOK, Report
    <3>5. alone' \subseteq Jobs
      BY <1>0 DEF JobsTypeOK, Report
    <3> QED
      BY <1>0, <3>1, <3>3, <3>4, <3>5 DEF JobsTypeOK, Report
  <2>2. ResultsTypeOK'
    BY <1>0, SendType DEF Report
  <2>3. HealthTypeOK' /\ DiskTypeOK'
    BY <1>0, <1>1 DEF HealthTypeOK, DiskTypeOK, Report, healthVars, diskVars
  <2> QED
    BY <2>1, <2>2, <2>3 DEF SecretFilesTypeOK
<1>3. Places'
  BY <1>0 DEF JobsTypeOK, Places, Report, Goto
<1>4. Written'
  <2> SUFFICES ASSUME NEW k \in Jobs, NEW i \in 1..(next'[k] - 1)
               PROVE  /\ WrittenHere(FileSeq[conf[k]][i])'
                      /\ k \in alone' => Rendered(conf[k], FileSeq[conf[k]][i], got[k])'
    BY DEF Report, Written, WrittenHere, Rendered
  <2>1. k # j /\ next'[k] = next[k] /\ got'[k] = got[k] /\ (k \in alone' => k \in alone)
    BY <1>0 DEF JobsTypeOK, Report
  <2> QED
    BY <1>0, <2>1 DEF Written, Report, WrittenHere, Rendered, diskVars
<1>5. Order'
  BY <1>0 DEF JobsTypeOK, Order, Report, Goto
<1>6. Vouched'
  <2>1. AllWritten' <=> AllWritten
    BY <1>1, KeepsWritten
  <2>2. \A s \in Jobs : \A i \in DOMAIN results'[s] : results'[s][i] = "success" => AllWritten
    BY <1>0, SendType DEF Report, Vouched
  <2> QED
    BY <1>0, <1>1, <2>1, <2>2 DEF Vouched, healthVars
<1>7. StatusFollows'
  BY <1>0, <1>1 DEF StatusFollows, Stat, CheckReadiness, healthVars
<1> QED
  BY <1>2, <1>3, <1>4, <1>5, <1>6, <1>7 DEF IndInv

\* Writing the next file.
LEMMA WriteIndInv == ASSUME IndInv, NEW j \in Jobs, Write(j) PROVE IndInv'
<1> USE JobsType
<1>a. /\ JobsTypeOK /\ ResultsTypeOK /\ HealthTypeOK /\ DiskTypeOK
      /\ Places /\ Written /\ Order /\ Vouched /\ StatusFollows
  BY DEF IndInv, SecretFilesTypeOK
<1> DEFINE c == conf[j]
           n == Len(FileSeq[c])
           f == NextFile(j)
<1>0. c \in Confs /\ next[j] \in 1..n /\ n \in Nat \ {0} /\ f = FileSeq[c][next[j]] /\ f \in Files
  BY <1>a, FileSeqType DEF JobsTypeOK, Places, Write, NextFile
<1>1. PICK t \in Templates[c] :
        /\ Maps(c, t, f)
        /\ out' = [out EXCEPT ![f] = [conf |-> c, tmpl |-> t, version |-> got[j], run |-> run]]
  BY DEF Write
<1>2. t = Basename[f]
  BY <1>1 DEF Maps
<1> DEFINE new == [conf |-> c, tmpl |-> t, version |-> got[j], run |-> run]
<1>3. new \in Content /\ new # Absent
  BY <1>0, <1>a, SecretFilesAssumption DEF Content, JobsTypeOK, DiskTypeOK
<1>4. out'[f] = new /\ \A g \in Files : g # f => out'[g] = out[g]
  BY <1>0, <1>1, <1>a DEF DiskTypeOK
<1>5. run' = run /\ conf' = conf /\ got' = got /\ results' = results /\ UNCHANGED healthVars
      /\ next' = [next EXCEPT ![j] = next[j] + 1]
      /\ alone' = {k \in alone : k = j \/ pc[k] \notin {"write", "ok"}}
      /\ pc[j] = "write" /\ pc' = [pc EXCEPT ![j] = IF next[j] = n THEN "ok" ELSE "write"]
      /\ UNCHANGED <<version, failures, sched, stopped, cur, curSched>>
  BY DEF Write, Advance, Goto
<1>6. \A g \in Files : WrittenHere(g) => WrittenHere(g)'
  BY <1>3, <1>4, <1>5 DEF WrittenHere
<1>7. /\ out'[f] # Absent /\ out'[f].run = run
      /\ out'[f].conf = c /\ out'[f].tmpl = Basename[f] /\ out'[f].version = got[j]
  BY <1>2, <1>3, <1>4
<1>8. SecretFilesTypeOK'
  <2>1. DiskTypeOK'
    BY <1>0, <1>1, <1>3, <1>5, <1>a DEF DiskTypeOK
  <2>2. JobsTypeOK'
    <3>1. pc' \in [Jobs -> {"none", "rest", "fetch", "write", "ok"}]
      BY <1>5, <1>a DEF JobsTypeOK
    <3>2. next' \in [Jobs -> Nat]
      BY <1>5, <1>a DEF JobsTypeOK
    <3>3. alone' \subseteq Jobs
      BY <1>5, <1>a DEF JobsTypeOK
    <3> QED
      BY <1>5, <1>a, <3>1, <3>2, <3>3 DEF JobsTypeOK
  <2>3. ResultsTypeOK' /\ HealthTypeOK'
    BY <1>5, <1>a DEF ResultsTypeOK, HealthTypeOK, healthVars
  <2> QED
    BY <2>1, <2>2, <2>3 DEF SecretFilesTypeOK
<1>9. Places'
  <2> SUFFICES ASSUME NEW k \in Jobs
               PROVE  /\ pc'[k] \in {"none", "rest", "fetch"} => next'[k] = 1
                      /\ pc'[k] = "write" => next'[k] \in 1..Len(FileSeq[conf[k]])
                      /\ pc'[k] = "ok" => next'[k] = Len(FileSeq[conf[k]]) + 1
    BY <1>5 DEF Places
  <2>1. CASE k = j
    <3>1. next'[j] = next[j] + 1 /\ pc'[j] = IF next[j] = n THEN "ok" ELSE "write"
      BY <1>5, <1>a DEF JobsTypeOK
    <3> QED
      BY <1>0, <2>1, <3>1
  <2>2. CASE k # j
    <3>1. next'[k] = next[k] /\ pc'[k] = pc[k]
      BY <1>5, <1>a, <2>2 DEF JobsTypeOK
    <3> QED
      BY <1>a, <3>1 DEF Places
  <2> QED
    BY <2>1, <2>2
<1>10. Written'
  <2> SUFFICES ASSUME NEW k \in Jobs, NEW i \in 1..(next'[k] - 1)
               PROVE  /\ WrittenHere(FileSeq[conf[k]][i])'
                      /\ k \in alone' => Rendered(conf[k], FileSeq[conf[k]][i], got[k])'
    BY <1>5 DEF Written, Rendered, WrittenHere
  <2>1. CASE k = j
    <3>1. i \in 1..next[j] /\ i \in 1..n
      BY <1>0, <1>5, <1>a, <2>1 DEF JobsTypeOK
    <3>2. FileSeq[c][i] \in Files
      BY <1>0, <3>1, FileSeqType
    <3>3. CASE FileSeq[c][i] = f
      BY <1>5, <1>7, <2>1, <3>3 DEF WrittenHere, Rendered
    <3>4. CASE FileSeq[c][i] # f
      <4>1. i \in 1..(next[j] - 1)
        BY <1>0, <3>1, <3>4
      <4>2. WrittenHere(FileSeq[c][i]) /\ (j \in alone => Rendered(c, FileSeq[c][i], got[j]))
        BY <4>1, <1>a DEF Written
      <4> QED
        BY <1>4, <1>5, <1>6, <2>1, <3>2, <3>4, <4>2 DEF Rendered
    <3> QED
      BY <3>3, <3>4
  <2>2. CASE k # j
    <3>1. next'[k] = next[k] /\ i \in 1..(next[k] - 1)
      BY <1>5, <1>a, <2>2 DEF JobsTypeOK
    <3>2. pc[k] \in {"write", "ok"} /\ k \notin alone'
      BY <1>5, <1>a, <2>2, <3>1 DEF JobsTypeOK, Places
    <3>3. conf[k] \in Confs /\ i \in 1..Len(FileSeq[conf[k]])
      BY <1>a, <3>1, <3>2, FileSeqType DEF JobsTypeOK, Places
    <3>4. FileSeq[conf[k]][i] \in Files /\ WrittenHere(FileSeq[conf[k]][i])
      BY <1>a, <3>1, <3>3, FileSeqType DEF Written
    <3> QED
      BY <1>5, <1>6, <3>2, <3>4 DEF WrittenHere
  <2> QED
    BY <2>1, <2>2
<1>11. Order'
  BY <1>5, <1>a DEF JobsTypeOK, Order
<1>12. Vouched'
  <2>1. AllWritten => AllWritten'
    BY <1>6, FileSeqType DEF AllWritten, WrittenHere
  <2> QED
    BY <1>5, <1>a, <2>1 DEF Vouched, healthVars
<1>13. StatusFollows'
  BY <1>5, <1>a DEF StatusFollows, Stat, CheckReadiness, healthVars
<1> QED
  BY <1>8, <1>9, <1>10, <1>11, <1>12, <1>13 DEF IndInv

\* The other steps of a sync.
LEMMA SyncSecretIndInv == ASSUME IndInv, NEW j \in Jobs, SyncSecret(j) PROVE IndInv'
<1> USE JobsType
<1>a. /\ JobsTypeOK /\ ResultsTypeOK /\ HealthTypeOK /\ DiskTypeOK
      /\ Places /\ Written /\ Order /\ Vouched /\ StatusFollows
  BY DEF IndInv, SecretFilesTypeOK
<1>1. CASE Fetch(j)
  <2> USE <1>1
  <2>1. SecretFilesTypeOK'
    BY <1>a DEF SecretFilesTypeOK, JobsTypeOK, ResultsTypeOK, HealthTypeOK, DiskTypeOK,
       Fetch, Goto, healthVars, diskVars
  <2>2. Places'
    BY <1>a, FileSeqType DEF JobsTypeOK, Places, Fetch, Goto
  <2>3. Written'
    <3> SUFFICES ASSUME NEW k \in Jobs, NEW i \in 1..(next[k] - 1)
                 PROVE  /\ WrittenHere(FileSeq[conf[k]][i])'
                        /\ k \in alone' => Rendered(conf[k], FileSeq[conf[k]][i], got[k])'
      BY DEF Fetch, Written, WrittenHere, Rendered
    <3>1. k # j /\ got'[k] = got[k]
      BY <1>a DEF JobsTypeOK, Places, Fetch
    <3> QED
      BY <1>a, <3>1 DEF Written, Fetch, WrittenHere, Rendered, diskVars
  <2>4. Order'
    BY <1>a DEF JobsTypeOK, Order, Fetch, Goto
  <2>5. Vouched' /\ StatusFollows'
    BY <1>a, KeepsWritten DEF Vouched, StatusFollows, Stat, CheckReadiness, Fetch, healthVars
  <2> QED
    BY <2>1, <2>2, <2>3, <2>4, <2>5 DEF IndInv
<1>2. CASE FetchFails(j)
  BY <1>2, <1>a, ReportIndInv, SecretFilesAssumption DEF FetchFails, Fail, DiskTypeOK
<1>3. CASE Write(j)
  BY <1>3, WriteIndInv
<1>4. CASE WriteFails(j)
  BY <1>4, <1>a, ReportIndInv, SecretFilesAssumption DEF WriteFails, Fail, DiskTypeOK
<1>5. CASE Succeed(j)
  <2>1. \A i \in DOMAIN FileSeq[conf[j]] : WrittenHere(FileSeq[conf[j]][i])
    <3>1. /\ conf[j] \in Confs /\ next[j] = Len(FileSeq[conf[j]]) + 1
      BY <1>5, <1>a DEF Succeed, JobsTypeOK, Places
    <3>2. DOMAIN FileSeq[conf[j]] = 1..(next[j] - 1)
      BY <3>1, FileSeqType
    <3> QED
      BY <1>a, <3>2 DEF Written
  <2>2. AllWritten
    BY <1>a, <2>1 DEF AllWritten, JobsTypeOK
  <2> QED
    BY <1>5, <1>a, <2>2, ReportIndInv DEF Succeed, DiskTypeOK
<1> QED
  BY <1>1, <1>2, <1>3, <1>4, <1>5 DEF SyncSecret

\* The monitor: the only step that makes the service ready or touches the file.
LEMMA MonitorIndInv == ASSUME IndInv, Monitor PROVE IndInv'
<1> USE JobsType
<1>a. /\ JobsTypeOK /\ ResultsTypeOK /\ HealthTypeOK /\ DiskTypeOK
      /\ Places /\ Written /\ Order /\ Vouched /\ StatusFollows
  BY DEF IndInv, SecretFilesTypeOK
<1>1. UNCHANGED jobVars /\ UNCHANGED diskVars /\ UNCHANGED version
  BY DEF Monitor, MonitorStart, MonitorTake
<1>2. Places' /\ Order'
  BY <1>1, <1>a DEF Places, Order, jobVars
<1>3. Written'
  BY <1>1, <1>a DEF Written, WrittenHere, Rendered, jobVars, diskVars
<1>4. CASE MonitorStart
  <2>1. SecretFilesTypeOK'
    BY <1>4, <1>a DEF MonitorStart, SecretFilesTypeOK, JobsTypeOK, ResultsTypeOK, HealthTypeOK,
       DiskTypeOK, jobVars, diskVars
  <2>2. Vouched' /\ StatusFollows'
    BY <1>1, <1>4, <1>a, KeepsWritten DEF MonitorStart, Vouched, StatusFollows, Stat, CheckReadiness
  <2> QED
    BY <1>2, <1>3, <2>1, <2>2 DEF IndInv
<1>5. CASE MonitorTake
  <2> DEFINE q == results[monitored]
  <2>1. /\ monitored \in Jobs /\ q \in Seq({"success", "error"}) /\ q # <<>>
        /\ results' = [results EXCEPT ![monitored] = Tail(q)]
        /\ heard' = TRUE /\ monitored' = monitored
        /\ ready' = (ready \/ Head(q) = "success")
        /\ SetReady
    BY <1>5, <1>a DEF MonitorTake, HealthTypeOK, ResultsTypeOK
  <2>2. /\ Tail(q) \in Seq({"success", "error"}) /\ Len(Tail(q)) = Len(q) - 1
        /\ DOMAIN Tail(q) = 1..(Len(q) - 1) /\ DOMAIN q = 1..Len(q) /\ Len(q) \in Nat \ {0}
        /\ Head(q) = q[1]
        /\ \A i \in 1..(Len(q) - 1) : Tail(q)[i] = q[i + 1]
    BY <2>1, HeadTailProperties
  <2>3. SecretFilesTypeOK'
    <3>1. ResultsTypeOK'
      BY <1>a, <2>1, <2>2, SecretFilesAssumption DEF ResultsTypeOK
    <3>2. HealthTypeOK' /\ failures' \in 0..MaxFailures
      <4>1. ready' \in BOOLEAN /\ heard' \in BOOLEAN
        BY <2>1, Zenon
      <4>2. statusFile' \in BOOLEAN /\ stuck' \in BOOLEAN
        BY <1>a, <2>1, Zenon DEF SetReady, HealthTypeOK
      <4>3. failures' \in 0..MaxFailures
        <5>1. failures' = failures \/ Fail
          BY <2>1, Zenon DEF SetReady
        <5> QED
          BY <1>a, <5>1, SecretFilesAssumption DEF Fail, DiskTypeOK
      <4> QED
        BY <1>a, <2>1, <4>1, <4>2, <4>3 DEF HealthTypeOK
    <3>3. JobsTypeOK' /\ DiskTypeOK'
      BY <1>1, <1>a, <3>2 DEF JobsTypeOK, DiskTypeOK, jobVars, diskVars
    <3> QED
      BY <3>1, <3>2, <3>3 DEF SecretFilesTypeOK
  <2>4. Vouched'
    <3>1. ready' => AllWritten
      <4>1. q[1] = "success" => AllWritten
        BY <1>a, <2>1, <2>2 DEF Vouched
      <4> QED
        BY <1>a, <2>1, <2>2, <4>1, Zenon DEF Vouched
    <3>2. \A s \in Jobs : \A i \in DOMAIN results'[s] : results'[s][i] = "success" => AllWritten
      <4> SUFFICES ASSUME NEW s \in Jobs, NEW i \in DOMAIN results'[s],
                          results'[s][i] = "success"
                   PROVE  AllWritten
        OBVIOUS
      <4>1. CASE s = monitored
        <5>1. i \in 1..(Len(q) - 1) /\ q[i + 1] = "success"
          BY <1>a, <2>1, <2>2, <4>1 DEF ResultsTypeOK
        <5>2. i + 1 \in DOMAIN q
          BY <2>2, <5>1
        <5> QED
          BY <1>a, <2>1, <5>1, <5>2 DEF Vouched
      <4>2. CASE s # monitored
        BY <1>a, <2>1, <4>2 DEF Vouched, ResultsTypeOK
      <4> QED
        BY <4>1, <4>2
    <3> QED
      BY <1>1, <3>1, <3>2, KeepsWritten DEF Vouched
  <2>5. StatusFollows'
    BY <2>1 DEF SetReady, StatusFollows, Stat, CheckReadiness
  <2> QED
    BY <1>2, <1>3, <2>3, <2>4, <2>5 DEF IndInv
<1> QED
  BY <1>4, <1>5 DEF Monitor

\* The ticker, the end of a job, its replacement, rotations.
LEMMA OthersIndInv ==
  ASSUME IndInv,
         \/ \E j \in Jobs : Tick(j) \/ End(j)
         \/ \E c \in Confs : Replace(c)
         \/ Rotate
  PROVE  IndInv'
<1> USE JobsType
<1>a. /\ JobsTypeOK /\ ResultsTypeOK /\ HealthTypeOK /\ DiskTypeOK
      /\ Places /\ Written /\ Order /\ Vouched /\ StatusFollows
  BY DEF IndInv, SecretFilesTypeOK
<1>1. UNCHANGED diskVars /\ UNCHANGED healthVars /\ UNCHANGED results
  BY DEF Tick, End, Replace, Rotate
<1>2. Vouched' /\ StatusFollows'
  BY <1>1, <1>a, KeepsWritten DEF Vouched, StatusFollows, Stat, CheckReadiness, healthVars
<1>3. CASE \E j \in Jobs : Tick(j) \/ End(j)
  <2>1. SecretFilesTypeOK'
    <3>1. JobsTypeOK'
      <4>1. pc' \in [Jobs -> {"none", "rest", "fetch", "write", "ok"}]
        BY <1>3, <1>a DEF Tick, End, Goto, JobsTypeOK
      <4>2. UNCHANGED <<conf, sched, stopped, got, next, alone, cur, curSched>>
        BY <1>3 DEF Tick, End
      <4> QED
        BY <1>a, <4>1, <4>2 DEF JobsTypeOK
    <3>2. ResultsTypeOK'
      BY <1>1, <1>a DEF ResultsTypeOK
    <3>3. HealthTypeOK'
      BY <1>1, <1>a DEF HealthTypeOK, healthVars
    <3>4. DiskTypeOK'
      BY <1>1, <1>3, <1>a DEF Tick, End, DiskTypeOK, diskVars
    <3> QED
      BY <3>1, <3>2, <3>3, <3>4 DEF SecretFilesTypeOK
  <2>2. Places' /\ Order'
    BY <1>3, <1>a DEF Tick, End, Goto, JobsTypeOK, Places, Order
  <2>3. Written'
    <3>1. UNCHANGED <<conf, got, next, alone, out, run>>
      BY <1>3 DEF Tick, End, diskVars
    <3> QED
      BY <1>a, <3>1 DEF Written, WrittenHere, Rendered
  <2> QED
    BY <1>2, <2>1, <2>2, <2>3 DEF IndInv
<1>4. CASE \E c \in Confs : Replace(c)
  <2>1. PICK c \in Confs : Replace(c)
    BY <1>4
  <2>2. cur + 1 \in Jobs /\ pc[cur + 1] = "none" /\ next[cur + 1] = 1
    BY <1>a, <2>1 DEF Replace, JobsTypeOK, Order, Places
  <2>3. SecretFilesTypeOK'
    <3>1. curSched' \in Jobs
      <4>1. cur \in 1..MaxJobs /\ curSched \in 1..MaxJobs /\ curSched <= cur /\ cur + 1 \in 1..MaxJobs
        BY <1>a, <2>2 DEF JobsTypeOK, Order, Jobs
      <4>2. curSched' = curSched \/ curSched' = curSched + 1
        BY <2>1 DEF Replace
      <4> QED
        BY <4>1, <4>2, SecretFilesAssumption DEF Jobs
    <3>2. JobsTypeOK'
      BY <1>a, <2>1, <2>2, <3>1 DEF Replace, JobsTypeOK
    <3>3. ResultsTypeOK' /\ HealthTypeOK' /\ DiskTypeOK'
      BY <1>a, <2>1 DEF Replace, ResultsTypeOK, HealthTypeOK, DiskTypeOK, healthVars, diskVars
    <3> QED
      BY <3>2, <3>3 DEF SecretFilesTypeOK
  <2>4. Places'
    BY <1>a, <2>1, <2>2 DEF Replace, JobsTypeOK, Places
  <2>5. Order'
    BY <1>a, <2>1, <2>2 DEF Replace, JobsTypeOK, Order
  <2>6. Written'
    <3> SUFFICES ASSUME NEW k \in Jobs, NEW i \in 1..(next[k] - 1)
                 PROVE  /\ WrittenHere(FileSeq[conf[k]][i])'
                        /\ k \in alone' => Rendered(conf[k], FileSeq[conf[k]][i], got[k])'
      BY <2>1 DEF Replace, Written, WrittenHere, Rendered
    <3>1. k # cur + 1 /\ conf'[k] = conf[k]
      BY <1>a, <2>1, <2>2 DEF Replace, JobsTypeOK
    <3> QED
      BY <1>a, <2>1, <3>1 DEF Written, Replace, WrittenHere, Rendered, diskVars
  <2> QED
    BY <1>2, <2>3, <2>4, <2>5, <2>6 DEF IndInv
<1>5. CASE Rotate
  <2>1. SecretFilesTypeOK'
    <3>1. JobsTypeOK' /\ ResultsTypeOK'
      BY <1>5, <1>a DEF Rotate, JobsTypeOK, ResultsTypeOK, jobVars
    <3>2. HealthTypeOK'
      BY <1>1, <1>a DEF HealthTypeOK, healthVars
    <3>3. DiskTypeOK'
      BY <1>5, <1>a, SecretFilesAssumption DEF Rotate, Version, DiskTypeOK, diskVars
    <3> QED
      BY <3>1, <3>2, <3>3 DEF SecretFilesTypeOK
  <2>2. Places' /\ Order' /\ Written'
    BY <1>5, <1>a DEF Rotate, Places, Order, Written, WrittenHere, Rendered, jobVars, diskVars
  <2> QED
    BY <1>2, <2>1, <2>2 DEF IndInv
<1> QED
  BY <1>3, <1>4, <1>5

\* A new run finds the files of the last one and vouches for none.
LEMMA RestartIndInv == ASSUME IndInv, NEW c \in Confs, Restart(c) PROVE IndInv'
<1> USE JobsType
<1>1. SecretFilesTypeOK'
  <2>1. JobsTypeOK'
    BY SecretFilesAssumption DEF Restart, JobsTypeOK, All, FirstOnly, Version
  <2>2. ResultsTypeOK'
    BY SecretFilesAssumption DEF Restart, ResultsTypeOK, All
  <2>3. HealthTypeOK'
    BY DEF Restart, IndInv, SecretFilesTypeOK, HealthTypeOK
  <2>4. DiskTypeOK'
    BY SecretFilesAssumption DEF Restart, IndInv, SecretFilesTypeOK, DiskTypeOK
  <2> QED
    BY <2>1, <2>2, <2>3, <2>4 DEF SecretFilesTypeOK
<1>2. Places' /\ Order'
  BY DEF Restart, Places, Order, All, FirstOnly
<1>3. Written'
  BY DEF Restart, Written, All
<1>4. Vouched' /\ StatusFollows'
  BY DEF Restart, Vouched, StatusFollows, All
<1> QED
  BY <1>1, <1>2, <1>3, <1>4 DEF IndInv

LEMMA NextIndInv == IndInv /\ [Next]_vars => IndInv'
<1> SUFFICES ASSUME IndInv, [Next]_vars PROVE IndInv'
  OBVIOUS
<1>1. CASE \E j \in Jobs : SyncSecret(j)
  BY <1>1, SyncSecretIndInv
<1>2. CASE Monitor
  BY <1>2, MonitorIndInv
<1>3. CASE (\E j \in Jobs : Tick(j) \/ End(j)) \/ (\E c \in Confs : Replace(c)) \/ Rotate
  BY <1>3, OthersIndInv
<1>4. CASE \E c \in Confs : Restart(c)
  BY <1>4, RestartIndInv
<1>5. CASE UNCHANGED vars
  BY <1>5 DEF vars, jobVars, healthVars, diskVars, IndInv, SecretFilesTypeOK, JobsTypeOK,
     ResultsTypeOK, HealthTypeOK, DiskTypeOK, Places, Written, Order, Vouched, StatusFollows, Stat,
     CheckReadiness, WrittenHere, Rendered, AllWritten
<1> QED
  BY <1>1, <1>2, <1>3, <1>4, <1>5 DEF Next, Job

\* The invariant of the module.
THEOREM Invariance == Spec => []IndInv
  BY InitIndInv, NextIndInv, PTL DEF Spec

\* Jobs, channels and files are well typed.
THEOREM TypeCorrect == Spec => []SecretFilesTypeOK
<1>1. IndInv => SecretFilesTypeOK
  BY DEF IndInv
<1> QED
  BY <1>1, Invariance, PTL

\* When SyncSecret returns nil every file of the secret holds what it fetched,
\* unless another job wrote in the meantime.
THEOREM SuccessIsComplete == Spec => []SuccessMeansWritten
<1>1. IndInv => SuccessMeansWritten
  <2> SUFFICES ASSUME IndInv, NEW j \in Jobs, pc[j] = "ok", j \in alone,
                      NEW i \in DOMAIN FileSeq[conf[j]]
               PROVE  Rendered(conf[j], FileSeq[conf[j]][i], got[j])
    BY DEF SuccessMeansWritten
  <2>1. i \in 1..(next[j] - 1)
    BY FileSeqType DEF IndInv, SecretFilesTypeOK, JobsTypeOK, Places
  <2> QED
    BY <2>1 DEF IndInv, Written
<1> QED
  BY <1>1, Invariance, PTL

\* A service that says it is ready has, in this run, written every file of a
\* description of the secret.
THEOREM ReadyIsWritten == Spec => []ReadyMeansWritten
<1>1. IndInv => ReadyMeansWritten
  BY DEF IndInv, Vouched, AllWritten, WrittenHere, ReadyMeansWritten
<1> QED
  BY <1>1, Invariance, PTL

\* Once this run had a result the probe says ready for no other run, unless the
\* status file of the other run could not be removed or could not be looked at.
THEOREM StatusIsCurrent == Spec => []StatusFollows
<1>1. IndInv => StatusFollows
  BY DEF IndInv
<1> QED
  BY <1>1, Invariance, PTL
=============================================================================
