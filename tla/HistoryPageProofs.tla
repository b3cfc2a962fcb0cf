------------------------- MODULE HistoryPageProofs -------------------------
(***************************************************************************)
(* Proofs about ScanStore and HistoryPage, for any number of scans, pages  *)
(* and restarts and any limit: what is called done is whole on disk, a     *)
(* list has every finished scan once, and the report of a scan that a page *)
(* lists as done is served.                                                *)
(***************************************************************************)
EXTENDS HistoryPage, TLAPS

\* What the thread of a scan has done by each point of _run. An id is used
\* once, so a file that is complete is never opened again.
ThreadInv(s) ==
  /\ s \notin started => wpc[s] = "none" /\ file[s] = "absent"
  /\ s \in registry <=> wpc[s] # "none"
  /\ wpc[s] # "end" => status[s] = "running"
  /\ wpc[s] = "end" => status[s] \in {"done", "error"}
  /\ wpc[s] \in {"scan", "open"} => file[s] = "absent"
  /\ wpc[s] = "write" => file[s] = "partial"
  /\ wpc[s] = "finish" => file[s] = "complete"
  /\ wpc[s] = "fail" => file[s] # "complete"
  /\ wpc[s] \in {"open", "write", "finish"} => report[s]
  /\ status[s] = "done" => s \in finished /\ report[s]
  /\ status[s] = "error" => file[s] # "complete"
  /\ s \in finished => file[s] = "complete" /\ wpc[s] \in {"none", "end"}

DistinctIds(l) == \A i, j \in DOMAIN l : l[i].id = l[j].id => i = j
DoneOnDisk(l)  == \A e \in Entries(l) : e.status = "done" => file[e.id] = "complete"
Listed(l, s)   == Entry(s, "done") \in Entries(l)

\* How far list_recent has come for a page: what is in its answer is no longer
\* to be read, and what was finished when it began is in it or still to come.
ListInv(p) ==
  /\ DistinctIds(out[p]) /\ DistinctIds(history[p])
  /\ DoneOnDisk(out[p]) /\ DoneOnDisk(history[p])
  /\ known[p] \subseteq finished
  /\ lpc[p] \in {"live", "disk"} => live[p] \subseteq registry
  /\ lpc[p] = "live" =>
       /\ left[p] \subseteq live[p]
       /\ \A e \in Entries(out[p]) : e.id \in live[p] \ left[p]
       /\ \A s \in known[p] \cap live[p] : s \in left[p] \/ Listed(out[p], s)
  /\ lpc[p] = "disk" =>
       /\ \A s \in left[p] : file[s] # "absent"
       /\ \A e \in Entries(out[p]) : e.id \in live[p] \/ e.id \notin left[p]
       /\ \A s \in known[p] : s \in left[p] \ live[p] \/ Listed(out[p], s)
  /\ lpc[p] = "answer" => Len(out[p]) >= Limit
  /\ lpc[p] = "shown" =>
       /\ history[p] = out[p]
       /\ Len(out[p]) < Limit => \A s \in known[p] : Listed(out[p], s)

ListTypes ==
  /\ out \in [Pages -> Seq(EntryType)]
  /\ history \in [Pages -> Seq(EntryType)]

StoreInv ==
  /\ TypeOK /\ ListTypes
  /\ \A s \in Scans : ThreadInv(s)
  /\ \A p \in Pages : ListInv(p)

\* A report that the page listed as done when it asked for it.
OpenInv(p) ==
  /\ listed[p] => want[p] \in Scans /\ file[want[p]] = "complete"
  /\ opc[p] \notin {"idle"} => want[p] \in Scans
  /\ listed[p] => opc[p] \notin {"noReport", "broken", "error"}

PageInv == PageTypeOK /\ \A p \in Pages : OpenInv(p)

-----------------------------------------------------------------------------
(* Sequences of entries *)

\* An entry more at the end of a list (list_recent's out.append).
LEMMA AppendedEntries ==
  ASSUME NEW l \in Seq(EntryType), NEW e \in EntryType
  PROVE  /\ Append(l, e) \in Seq(EntryType)
         /\ Len(Append(l, e)) = Len(l) + 1
         /\ Entries(Append(l, e)) = Entries(l) \cup {e}
<1>1. /\ Append(l, e) \in Seq(EntryType)
      /\ Len(Append(l, e)) = Len(l) + 1
      /\ DOMAIN Append(l, e) = 1 .. Len(l) + 1
      /\ \A i \in 1 .. Len(l) : Append(l, e)[i] = l[i]
      /\ Append(l, e)[Len(l) + 1] = e
      /\ Len(l) \in Nat /\ DOMAIN l = 1 .. Len(l)
  OBVIOUS
<1>2. Entries(Append(l, e)) \subseteq Entries(l) \cup {e}
  <2>. SUFFICES ASSUME NEW i \in 1 .. Len(l) + 1
                PROVE  Append(l, e)[i] \in Entries(l) \cup {e}
    BY <1>1 DEF Entries
  <2>1. CASE i = Len(l) + 1  BY <2>1, <1>1
  <2>2. CASE i \in 1 .. Len(l)  BY <2>2, <1>1 DEF Entries
  <2>. QED BY <2>1, <2>2, <1>1
<1>3. Entries(l) \subseteq Entries(Append(l, e))
  <2>. SUFFICES ASSUME NEW i \in 1 .. Len(l)
                PROVE  l[i] \in Entries(Append(l, e))
    BY <1>1 DEF Entries
  <2>1. i \in 1 .. Len(l) + 1  BY <1>1
  <2>. QED BY <2>1, <1>1 DEF Entries
<1>4. e \in Entries(Append(l, e))
  <2>1. Len(l) + 1 \in 1 .. Len(l) + 1  BY <1>1
  <2>. QED BY <2>1, <1>1 DEF Entries
<1>. QED BY <1>1, <1>2, <1>3, <1>4

\* A scan that was not in the list is in it once when it is appended.
LEMMA AppendedDistinct ==
  ASSUME NEW l \in Seq(EntryType), NEW e \in EntryType,
         DistinctIds(l), \A d \in Entries(l) : d.id # e.id
  PROVE  DistinctIds(Append(l, e))
<1>1. /\ DOMAIN Append(l, e) = 1 .. Len(l) + 1
      /\ \A i \in 1 .. Len(l) : Append(l, e)[i] = l[i]
      /\ Append(l, e)[Len(l) + 1] = e
      /\ Len(l) \in Nat /\ DOMAIN l = 1 .. Len(l)
  OBVIOUS
<1>2. ASSUME NEW i \in 1 .. Len(l) PROVE l[i].id # e.id
  BY <1>1 DEF Entries
<1>. SUFFICES ASSUME NEW i \in 1 .. Len(l) + 1, NEW j \in 1 .. Len(l) + 1,
                     Append(l, e)[i].id = Append(l, e)[j].id
              PROVE  i = j
  BY <1>1 DEF DistinctIds
<1>3. CASE i \in 1 .. Len(l) /\ j \in 1 .. Len(l)
  BY <1>3, <1>1 DEF DistinctIds
<1>4. CASE i = Len(l) + 1 /\ j \in 1 .. Len(l)
  BY <1>4, <1>1, <1>2
<1>5. CASE j = Len(l) + 1 /\ i \in 1 .. Len(l)
  BY <1>5, <1>1, <1>2
<1>6. CASE i = Len(l) + 1 /\ j = Len(l) + 1
  BY <1>6
<1>. QED BY <1>1, <1>3, <1>4, <1>5, <1>6

\* The empty list has no entries.
LEMMA NoEntries ==
  /\ << >> \in Seq(EntryType) /\ Len(<< >>) = 0
  /\ Entries(<< >>) = {} /\ DistinctIds(<< >>) /\ DoneOnDisk(<< >>)
BY DEF Entries, DistinctIds, DoneOnDisk

\* What a list contains has the type of an entry.
LEMMA EntriesTyped ==
  ASSUME NEW l \in Seq(EntryType)
  PROVE  Entries(l) \subseteq EntryType
BY DEF Entries

-----------------------------------------------------------------------------
(* The threads *)

\* What a thread may do to what the lists rely on: files are never unmade,
\* records never leave, nothing done is undone.
Grows ==
  /\ finished \subseteq finished' /\ registry \subseteq registry'
  /\ \A s \in Scans : /\ file[s] = "complete" => file'[s] = "complete"
                      /\ file[s] # "absent" => file'[s] # "absent"
  /\ UNCHANGED listVars

\* ... which leaves what holds of the lists true.
LEMMA GrowsKeepsLists ==
  ASSUME TypeOK, ListTypes, Grows, NEW p \in Pages, ListInv(p)
  PROVE  ListInv(p)'
<1>1. /\ Entries(out[p]) \subseteq EntryType /\ Entries(history[p]) \subseteq EntryType
      /\ left[p] \subseteq Scans
  BY DEF TypeOK
<1>2. ASSUME NEW e \in EntryType PROVE e.id \in Scans
  BY DEF EntryType
<1>3. DoneOnDisk(out[p])' /\ DoneOnDisk(history[p])'
  BY <1>1, <1>2 DEF Grows, ListInv, DoneOnDisk, Entries, listVars
<1>4. DistinctIds(out[p])' /\ DistinctIds(history[p])'
  BY DEF Grows, ListInv, DistinctIds, listVars
<1>5. lpc[p] = "disk" => \A s \in left[p] : file'[s] # "absent"
  BY <1>1 DEF Grows, ListInv
<1>. QED BY <1>3, <1>4, <1>5 DEF Grows, ListInv, Listed, Entries, listVars

\* A step of the thread of s leaves the threads of the others as they are.
LEMMA OtherThreads ==
  ASSUME TypeOK, NEW r \in Scans, ThreadInv(r),
         (r \in started') <=> (r \in started), (r \in registry') <=> (r \in registry),
         (r \in finished') <=> (r \in finished),
         status'[r] = status[r], report'[r] = report[r], wpc'[r] = wpc[r], file'[r] = file[r]
  PROVE  ThreadInv(r)'
BY DEF ThreadInv

\* start and the steps of _run keep the invariant of the store.
LEMMA StartStep ==
  ASSUME StoreInv, NEW s \in Scans, Start(s)
  PROVE  StoreInv'
<1>. USE DEF Start, Goto, diskVars, listVars
<1>1. TypeOK'
  BY DEF StoreInv, TypeOK, WorkerPCs
<1>2. ListTypes'
  BY DEF StoreInv, ListTypes
<1>3. ThreadInv(s)'
  BY DEF StoreInv, TypeOK, ThreadInv
<1>4. ASSUME NEW r \in Scans, r # s PROVE ThreadInv(r)'
  BY <1>4, OtherThreads DEF StoreInv, TypeOK
<1>5. Grows
  BY DEF Grows
<1>6. ASSUME NEW p \in Pages PROVE ListInv(p)'
  BY <1>5, GrowsKeepsLists DEF StoreInv
<1>. QED BY <1>1, <1>2, <1>3, <1>4, <1>6 DEF StoreInv

LEMMA WorkerStep ==
  ASSUME StoreInv, NEW s \in Scans, Worker(s)
  PROVE  StoreInv'
<1>. USE DEF Goto, diskVars, listVars
<1>. USE DEF StoreInv
<1>1. CASE ScanReturns(s)
  <2>. USE <1>1 DEF ScanReturns
  <2>1. TypeOK'  BY DEF TypeOK, WorkerPCs
  <2>2. ThreadInv(s)'  BY DEF TypeOK, ThreadInv
  <2>3. \A r \in Scans : r # s => ThreadInv(r)'  BY OtherThreads DEF TypeOK
  <2>4. Grows  BY DEF Grows
  <2>. QED BY <2>1, <2>2, <2>3, <2>4, GrowsKeepsLists DEF ListTypes
<1>2. CASE ScanFails(s)
  <2>. USE <1>2 DEF ScanFails
  <2>1. TypeOK'  BY DEF TypeOK, WorkerPCs
  <2>2. ThreadInv(s)'  BY DEF TypeOK, ThreadInv
  <2>3. \A r \in Scans : r # s => ThreadInv(r)'  BY OtherThreads DEF TypeOK
  <2>4. Grows  BY DEF Grows
  <2>. QED BY <2>1, <2>2, <2>3, <2>4, GrowsKeepsLists DEF ListTypes
<1>3. CASE OpenFile(s)
  <2>. USE <1>3 DEF OpenFile
  <2>1. TypeOK'  BY DEF TypeOK, WorkerPCs
  <2>2. ThreadInv(s)'  BY DEF TypeOK, ThreadInv
  <2>3. \A r \in Scans : r # s => ThreadInv(r)'  BY OtherThreads DEF TypeOK
  <2>4. Grows
    \* its file was absent
    BY DEF Grows, ThreadInv, TypeOK
  <2>. QED BY <2>1, <2>2, <2>3, <2>4, GrowsKeepsLists DEF ListTypes
<1>4. CASE WriteFile(s)
  <2>. USE <1>4 DEF WriteFile
  <2>1. TypeOK'  BY DEF TypeOK, WorkerPCs
  <2>2. ThreadInv(s)'  BY DEF TypeOK, ThreadInv
  <2>3. \A r \in Scans : r # s => ThreadInv(r)'  BY OtherThreads DEF TypeOK
  <2>4. Grows  BY DEF Grows, TypeOK
  <2>. QED BY <2>1, <2>2, <2>3, <2>4, GrowsKeepsLists DEF ListTypes
<1>5. CASE PersistFails(s)
  <2>. USE <1>5 DEF PersistFails
  <2>1. TypeOK'  BY DEF TypeOK, WorkerPCs
  <2>2. ThreadInv(s)'  BY DEF TypeOK, ThreadInv
  <2>3. \A r \in Scans : r # s => ThreadInv(r)'  BY OtherThreads DEF TypeOK
  <2>4. Grows  BY DEF Grows
  <2>. QED BY <2>1, <2>2, <2>3, <2>4, GrowsKeepsLists DEF ListTypes
<1>6. CASE FinishDone(s)
  <2>. USE <1>6 DEF FinishDone
  <2>0. s \in started
    BY DEF ThreadInv
  <2>1. TypeOK'  BY <2>0 DEF TypeOK, WorkerPCs, Statuses
  <2>2. ThreadInv(s)'  BY DEF TypeOK, ThreadInv
  <2>3. \A r \in Scans : r # s => ThreadInv(r)'  BY OtherThreads DEF TypeOK
  <2>4. Grows  BY DEF Grows
  <2>. QED BY <2>1, <2>2, <2>3, <2>4, GrowsKeepsLists DEF ListTypes
<1>7. CASE FinishError(s)
  <2>. USE <1>7 DEF FinishError
  <2>1. TypeOK'  BY DEF TypeOK, WorkerPCs, Statuses
  <2>2. ThreadInv(s)'  BY DEF TypeOK, ThreadInv
  <2>3. \A r \in Scans : r # s => ThreadInv(r)'  BY OtherThreads DEF TypeOK
  <2>4. Grows  BY DEF Grows
  <2>. QED BY <2>1, <2>2, <2>3, <2>4, GrowsKeepsLists DEF ListTypes
<1>. QED BY <1>1, <1>2, <1>3, <1>4, <1>5, <1>6, <1>7 DEF Worker


-----------------------------------------------------------------------------
(* The lists *)

\* A step of the list of one page leaves those of the other pages alone.
LEMMA OtherLists ==
  ASSUME NEW q \in Pages, ListInv(q), UNCHANGED <<storeVars, diskVars>>,
         lpc'[q] = lpc[q], live'[q] = live[q], left'[q] = left[q],
         out'[q] = out[q], known'[q] = known[q], history'[q] = history[q]
  PROVE  ListInv(q)'
BY DEF ListInv, storeVars, diskVars, DistinctIds, DoneOnDisk, Listed, Entries

\* A step of a list leaves the threads alone.
LEMMA ListsLeaveThreads ==
  ASSUME NEW s \in Scans, ThreadInv(s), UNCHANGED <<storeVars, diskVars>>
  PROVE  ThreadInv(s)'
BY DEF ThreadInv, storeVars, diskVars

\* What the two lemmas leave to show of a step of the list of page p.
LEMMA ListStepSuffices ==
  ASSUME StoreInv, NEW p \in Pages, UNCHANGED <<storeVars, diskVars>>,
         TypeOK', ListTypes', ListInv(p)',
         \A q \in Pages : q # p =>
           /\ lpc'[q] = lpc[q] /\ live'[q] = live[q] /\ left'[q] = left[q]
           /\ out'[q] = out[q] /\ known'[q] = known[q] /\ history'[q] = history[q]
  PROVE  StoreInv'
<1>1. \A s \in Scans : ThreadInv(s)'
  BY ListsLeaveThreads DEF StoreInv
<1>2. \A q \in Pages : q # p => ListInv(q)'
  BY OtherLists DEF StoreInv
<1>. QED BY <1>1, <1>2 DEF StoreInv

\* The snapshot of the registry.
LEMMA BeginListStep ==
  ASSUME StoreInv, NEW p \in Pages, BeginList(p)
  PROVE  StoreInv'
<1>. USE DEF BeginList, storeVars, diskVars
<1>1. TypeOK'
  BY NoEntries, LimitAssumption DEF StoreInv, TypeOK
<1>2. ListTypes'
  BY NoEntries DEF StoreInv, ListTypes
<1>3. /\ lpc'[p] = "live" /\ out'[p] = << >> /\ history'[p] = history[p]
      /\ left'[p] = registry /\ live'[p] = registry /\ known'[p] = finished
  BY DEF StoreInv, TypeOK, ListTypes
<1>4. DistinctIds(history[p])' /\ DoneOnDisk(history[p])'
  BY <1>3 DEF StoreInv, ListInv, DoneOnDisk
<1>5. DistinctIds(out[p])' /\ DoneOnDisk(out[p])'
  BY <1>3, NoEntries DEF DoneOnDisk
<1>6. ListInv(p)'
  BY <1>3, <1>4, <1>5, NoEntries DEF ListInv
<1>. QED BY <1>1, <1>2, <1>6, ListStepSuffices DEF StoreInv, TypeOK, ListTypes

\* A scan that finished is in memory as done, if it is in memory at all.
LEMMA FinishedRecord ==
  ASSUME TypeOK, NEW s \in Scans, ThreadInv(s), s \in registry, s \in finished
  PROVE  status[s] = "done"
BY DEF ThreadInv, TypeOK

\* One summary.
LEMMA ListRecordStep ==
  ASSUME StoreInv, NEW p \in Pages, NEW s \in Scans, ListRecord(p, s)
  PROVE  StoreInv'
<1>. USE DEF ListRecord, storeVars, diskVars
<1>. DEFINE e == Entry(s, status[s])
<1>1. /\ e \in EntryType /\ e.id = s /\ e.status = status[s]
      /\ out[p] \in Seq(EntryType) /\ out'[p] = Append(out[p], e)
      /\ left'[p] = left[p] \ {s} /\ s \in left[p] /\ lpc[p] = "live" /\ lpc'[p] = "live"
  BY DEF StoreInv, TypeOK, ListTypes, Entry, EntryType
<1>. HIDE DEF e
<1>2. /\ out'[p] \in Seq(EntryType) /\ Len(out'[p]) = Len(out[p]) + 1
      /\ Entries(out'[p]) = Entries(out[p]) \cup {e}
  BY <1>1, AppendedEntries
<1>3. ListTypes'
  BY <1>2 DEF StoreInv, ListTypes
<1>4. TypeOK'
  <2>1. Entries(out'[p]) \subseteq EntryType /\ Len(out'[p]) <= Limit
    BY <1>1, <1>2, LimitAssumption DEF StoreInv, TypeOK
  <2>2. left' \in [Pages -> SUBSET Scans]
    BY DEF StoreInv, TypeOK
  <2>3. \A q \in Pages : q # p => out'[q] = out[q]
    BY DEF StoreInv, ListTypes
  <2>. QED BY <2>1, <2>2, <2>3 DEF StoreInv, TypeOK
<1>5. DistinctIds(out'[p])
  <2>1. \A d \in Entries(out[p]) : d.id # e.id
    BY <1>1 DEF StoreInv, ListInv
  <2>. QED BY <2>1, <1>1, AppendedDistinct DEF StoreInv, ListInv
<1>6. \A d \in Entries(out'[p]) : d.status = "done" => file[d.id] = "complete"
  <2>1. status[s] = "done" => file[s] = "complete"
    BY DEF StoreInv, ThreadInv
  <2>. QED BY <2>1, <1>1, <1>2 DEF StoreInv, ListInv, DoneOnDisk
<1>7. \A r \in known[p] \cap live[p] : r \in left'[p] \/ Entry(r, "done") \in Entries(out'[p])
  <2>1. s \in registry
    BY <1>1 DEF StoreInv, ListInv
  <2>2. s \in known[p] => e = Entry(s, "done")
    BY <2>1, FinishedRecord DEF StoreInv, ListInv, e
  <2>. QED BY <2>2, <1>1, <1>2 DEF StoreInv, ListInv, Listed
<1>8. \A d \in Entries(out'[p]) : d.id \in live[p] \ left'[p]
  BY <1>1, <1>2 DEF StoreInv, ListInv
<1>9. left'[p] \subseteq live[p] /\ live[p] \subseteq registry
  BY <1>1 DEF StoreInv, ListInv
<1>10. ListInv(p)'
  <2>1. /\ DistinctIds(history[p]) /\ known[p] \subseteq finished
        /\ \A d \in Entries(history[p]) : d.status = "done" => file[d.id] = "complete"
    BY DEF StoreInv, ListInv, DoneOnDisk
  <2>2. DistinctIds(out[p])' /\ DistinctIds(history[p])'
    BY <2>1, <1>5
  <2>3. DoneOnDisk(out[p])' /\ DoneOnDisk(history[p])'
    BY <2>1, <1>6 DEF DoneOnDisk
  <2>4. (known[p] \subseteq finished)' /\ (live[p] \subseteq registry)' /\ (left[p] \subseteq live[p])'
    BY <2>1, <1>9
  <2>5. (\A d \in Entries(out[p]) : d.id \in live[p] \ left[p])'
    BY <1>8
  <2>6. (\A r \in known[p] \cap live[p] : r \in left[p] \/ Listed(out[p], r))'
    BY <1>7 DEF Listed
  <2>. QED
    BY <2>2, <2>3, <2>4, <2>5, <2>6, <1>1 DEF ListInv
<1>. QED BY <1>3, <1>4, <1>10, ListStepSuffices DEF StoreInv, TypeOK, ListTypes


\* The files are looked for.
LEMMA ListDirectoryStep ==
  ASSUME StoreInv, NEW p \in Pages, ListDirectory(p)
  PROVE  StoreInv'
<1>. USE DEF ListDirectory, storeVars, diskVars
<1>1. TypeOK'
  BY DEF StoreInv, TypeOK
<1>2. ListTypes'
  BY DEF StoreInv, ListTypes
<1>3. DistinctIds(out[p])' /\ DoneOnDisk(out[p])' /\ DistinctIds(history[p])' /\ DoneOnDisk(history[p])'
  BY DEF StoreInv, ListInv, DoneOnDisk
<1>4. /\ known[p] \subseteq finished /\ live[p] \subseteq registry
      /\ \A e \in Entries(out[p]) : e.id \in live[p]
      /\ \A s \in known[p] \cap live[p] : s \in left[p] \/ Listed(out[p], s)
  BY DEF StoreInv, ListInv
<1>5. CASE Len(out[p]) < Limit
  <2>1. /\ lpc'[p] = "disk" /\ left'[p] = {s \in Scans : file[s] # "absent"} /\ left[p] = {}
        /\ live' = live /\ out' = out /\ known' = known /\ file' = file
    BY <1>5, LimitAssumption DEF StoreInv, TypeOK, ListTypes
  <2>2. ASSUME NEW s \in known[p] PROVE s \in Scans /\ file[s] = "complete"
    BY DEF StoreInv, TypeOK, ThreadInv, ListInv
  <2>3. \A s \in known[p] : s \in left'[p] \ live[p] \/ Listed(out[p], s)
    BY <2>1, <2>2, <1>4
  <2>4. ListInv(p)'
    BY <2>1, <2>3, <1>3, <1>4 DEF ListInv, Listed
  <2>. QED BY <1>1, <1>2, <2>4, ListStepSuffices DEF StoreInv, TypeOK
<1>6. CASE ~ (Len(out[p]) < Limit)
  <2>1. lpc'[p] = "answer" /\ out' = out /\ known' = known
    BY <1>6 DEF StoreInv, TypeOK
  <2>2. Len(out[p]) >= Limit
    BY <1>6, LimitAssumption DEF StoreInv, ListTypes
  <2>3. ListInv(p)'
    BY <2>1, <2>2, <1>3, <1>4 DEF ListInv
  <2>. QED BY <1>1, <1>2, <2>3, ListStepSuffices DEF StoreInv, TypeOK
<1>. QED BY <1>5, <1>6

\* One file.
LEMMA ListFileStep ==
  ASSUME StoreInv, NEW p \in Pages, NEW s \in Scans, ListFile(p, s)
  PROVE  StoreInv'
<1>. USE DEF ListFile, storeVars, diskVars
<1>1. /\ left'[p] = left[p] \ {s} /\ s \in left[p] /\ lpc[p] = "disk" /\ lpc'[p] = "disk"
      /\ file[s] # "absent" /\ Len(out[p]) < Limit /\ out[p] \in Seq(EntryType)
      /\ live' = live /\ known' = known /\ history' = history
  BY DEF StoreInv, TypeOK, ListTypes, ListInv
<1>2. /\ DistinctIds(history[p])' /\ DoneOnDisk(history[p])'
      /\ known[p] \subseteq finished /\ live[p] \subseteq registry
  BY <1>1 DEF StoreInv, ListInv, DoneOnDisk
<1>3. left' \in [Pages -> SUBSET Scans] /\ \A q \in Pages : q # p => left'[q] = left[q]
  BY DEF StoreInv, TypeOK
<1>4. ASSUME NEW r \in known[p] PROVE r \in left[p] \ live[p] \/ Listed(out[p], r)
  BY <1>1 DEF StoreInv, ListInv
<1>5. CASE s \in live[p] \/ file[s] = "partial"
  <2>1. out' = out
    BY <1>5
  <2>2. TypeOK' /\ ListTypes'
    BY <2>1, <1>3 DEF StoreInv, TypeOK, ListTypes
  <2>3. ASSUME NEW r \in known[p] PROVE r \in left'[p] \ live[p] \/ Listed(out[p], r)
    <3>1. file[r] = "complete"
      BY <1>2 DEF StoreInv, TypeOK, ThreadInv
    <3>. QED BY <3>1, <1>1, <1>4, <1>5
  <2>4. DistinctIds(out[p])' /\ DoneOnDisk(out[p])'
    BY <2>1 DEF StoreInv, ListInv, DoneOnDisk
  <2>5. /\ \A r \in left'[p] : file[r] # "absent"
        /\ \A e \in Entries(out[p]) : e.id \in live[p] \/ e.id \notin left'[p]
    BY <1>1 DEF StoreInv, ListInv
  <2>6. ListInv(p)'
    BY <2>1, <2>3, <2>4, <2>5, <1>1, <1>2 DEF ListInv, Listed
  <2>. QED BY <2>1, <2>2, <2>6, <1>3, ListStepSuffices
<1>6. CASE ~ (s \in live[p] \/ file[s] = "partial")
  <2>. DEFINE e == Entry(s, "done")
  <2>1. /\ e \in EntryType /\ e.id = s /\ e.status = "done" /\ file[s] = "complete"
        /\ out' = [out EXCEPT ![p] = Append(out[p], e)] /\ out'[p] = Append(out[p], e)
    BY <1>6, <1>1 DEF StoreInv, TypeOK, ListTypes, Entry, EntryType, Statuses
  <2>. HIDE DEF e
  <2>2. /\ out'[p] \in Seq(EntryType) /\ Len(out'[p]) = Len(out[p]) + 1
        /\ Entries(out'[p]) = Entries(out[p]) \cup {e}
    BY <1>1, <2>1, AppendedEntries
  <2>3. ListTypes' /\ \A q \in Pages : q # p => out'[q] = out[q]
    BY <2>1, <2>2 DEF StoreInv, ListTypes
  <2>4. TypeOK'
    <3>1. Entries(out'[p]) \subseteq EntryType /\ Len(out'[p]) <= Limit
      BY <1>1, <2>1, <2>2, LimitAssumption DEF StoreInv, TypeOK
    <3>. QED BY <3>1, <2>3, <1>3 DEF StoreInv, TypeOK
  <2>5. \A d \in Entries(out[p]) : d.id \in live[p] \/ d.id \notin left[p]
    BY <1>1 DEF StoreInv, ListInv
  <2>6. DistinctIds(out'[p])
    <3>1. \A d \in Entries(out[p]) : d.id # e.id
      BY <2>5, <2>1, <1>1, <1>6
    <3>. QED BY <3>1, <2>1, <1>1, AppendedDistinct DEF StoreInv, ListInv
  <2>7. \A d \in Entries(out'[p]) : d.status = "done" => file[d.id] = "complete"
    BY <2>1, <2>2 DEF StoreInv, ListInv, DoneOnDisk
  <2>8. \A r \in known[p] : r \in left'[p] \ live[p] \/ Entry(r, "done") \in Entries(out'[p])
    BY <1>1, <1>4, <2>2 DEF Listed, e
  <2>9. /\ \A r \in left'[p] : file[r] # "absent"
        /\ \A d \in Entries(out'[p]) : d.id \in live[p] \/ d.id \notin left'[p]
    BY <1>1, <2>1, <2>2, <2>5 DEF StoreInv, ListInv
  <2>10. DistinctIds(out[p])' /\ DoneOnDisk(out[p])'
    BY <2>6, <2>7 DEF DoneOnDisk
  <2>11. ListInv(p)'
    BY <2>8, <2>9, <2>10, <1>1, <1>2 DEF ListInv, Listed
  <2>. QED BY <2>3, <2>4, <2>11, <1>3, ListStepSuffices
<1>. QED BY <1>5, <1>6


\* The list is shown. On each of the three ways here it is full, or has
\* everything that was finished when it was begun.
LEMMA EndListStep ==
  ASSUME StoreInv, NEW p \in Pages, EndList(p)
  PROVE  StoreInv'
<1>. USE DEF EndList, storeVars, diskVars
<1>1. TypeOK'
  BY DEF StoreInv, TypeOK
<1>2. ListTypes'
  BY DEF StoreInv, ListTypes
<1>3. /\ lpc'[p] = "shown" /\ history'[p] = out[p] /\ out' = out /\ known' = known
      /\ DistinctIds(out[p]) /\ known[p] \subseteq finished
  BY DEF StoreInv, TypeOK, ListTypes, ListInv
<1>4. Len(out[p]) \in Nat
  BY DEF StoreInv, ListTypes
<1>5. Len(out[p]) < Limit => \A s \in known[p] : Listed(out[p], s)
  BY <1>4, LimitAssumption DEF StoreInv, ListInv
<1>6. DistinctIds(out[p])' /\ DoneOnDisk(out[p])' /\ DistinctIds(history[p])' /\ DoneOnDisk(history[p])'
  BY <1>3 DEF StoreInv, ListInv, DoneOnDisk
<1>7. ListInv(p)'
  BY <1>3, <1>5, <1>6 DEF ListInv, Listed
<1>. QED BY <1>1, <1>2, <1>7, ListStepSuffices DEF StoreInv, TypeOK, ListTypes

LEMMA ReloadStep ==
  ASSUME StoreInv, NEW p \in Pages, Reload(p)
  PROVE  StoreInv'
<1>. USE DEF Reload, storeVars, diskVars
<1>1. TypeOK'
  BY NoEntries, LimitAssumption DEF StoreInv, TypeOK
<1>2. ListTypes'
  BY NoEntries DEF StoreInv, ListTypes
<1>3. /\ lpc'[p] = "idle" /\ out'[p] = << >> /\ known'[p] = {} /\ history' = history
  BY DEF StoreInv, TypeOK, ListTypes
<1>4. DistinctIds(history[p])' /\ DoneOnDisk(history[p])'
  BY <1>3 DEF StoreInv, ListInv, DoneOnDisk
<1>5. DistinctIds(out[p])' /\ DoneOnDisk(out[p])'
  BY <1>3, NoEntries DEF DoneOnDisk
<1>6. ListInv(p)'
  BY <1>3, <1>4, <1>5 DEF ListInv
<1>. QED BY <1>1, <1>2, <1>6, ListStepSuffices DEF StoreInv, TypeOK, ListTypes

LEMMA ListStep ==
  ASSUME StoreInv, NEW p \in Pages, List(p)
  PROVE  StoreInv'
BY BeginListStep, ListDirectoryStep, EndListStep, ReloadStep, ListRecordStep, ListFileStep DEF List

-----------------------------------------------------------------------------
(* The whole store *)

\* A kill: what is only in memory is gone, the files and the pages stay.
LEMMA RestartStep ==
  ASSUME StoreInv, Restart
  PROVE  StoreInv'
<1>. USE DEF Restart
<1>1. TypeOK'
  <2>1. restarts' \in 0 .. MaxRestarts
    BY RestartAssumption DEF StoreInv, TypeOK
  <2>2. ASSUME NEW p \in Pages PROVE Entries(out'[p]) \subseteq EntryType /\ Len(out'[p]) <= Limit
    BY NoEntries, LimitAssumption DEF StoreInv, TypeOK
  <2>. QED BY <2>1, <2>2 DEF StoreInv, TypeOK, Statuses, WorkerPCs
<1>2. ListTypes'
  BY NoEntries DEF StoreInv, ListTypes
<1>3. ASSUME NEW s \in Scans PROVE ThreadInv(s)'
  BY DEF StoreInv, ThreadInv
<1>4. ASSUME NEW p \in Pages PROVE ListInv(p)'
  <2>1. DistinctIds(history[p])' /\ DoneOnDisk(history[p])'
    BY DEF StoreInv, ListInv, DoneOnDisk
  <2>2. CASE lpc[p] = "shown"
    <3>1. lpc'[p] = "shown" /\ out'[p] = out[p] /\ known'[p] = known[p] /\ history' = history
      BY <2>2
    <3>2. DistinctIds(out[p])' /\ DoneOnDisk(out[p])'
      BY <3>1 DEF StoreInv, ListInv, DoneOnDisk
    <3>3. /\ known[p] \subseteq finished /\ history[p] = out[p]
          /\ Len(out[p]) < Limit => \A s \in known[p] : Listed(out[p], s)
      BY <2>2 DEF StoreInv, ListInv
    <3>. QED BY <3>1, <3>2, <3>3, <2>1 DEF ListInv, Listed
  <2>3. CASE lpc[p] # "shown"
    <3>1. lpc'[p] = "idle" /\ out'[p] = << >> /\ known'[p] = {}
      BY <2>3
    <3>2. DistinctIds(out[p])' /\ DoneOnDisk(out[p])'
      BY <3>1, NoEntries DEF DoneOnDisk
    <3>. QED BY <3>1, <3>2, <2>1 DEF ListInv
  <2>. QED BY <2>2, <2>3
<1>. QED BY <1>1, <1>2, <1>3, <1>4 DEF StoreInv

LEMMA StoreInit ==
  ASSUME Init
  PROVE  StoreInv
<1>. USE DEF Init
<1>1. TypeOK
  BY NoEntries, LimitAssumption, RestartAssumption DEF TypeOK, Statuses, WorkerPCs
<1>2. ListTypes
  BY NoEntries DEF ListTypes
<1>3. ASSUME NEW s \in Scans PROVE ThreadInv(s)
  BY DEF ThreadInv
<1>4. ASSUME NEW p \in Pages PROVE ListInv(p)
  BY NoEntries DEF ListInv
<1>. QED BY <1>1, <1>2, <1>3, <1>4 DEF StoreInv

LEMMA StoreStutter ==
  ASSUME StoreInv, UNCHANGED storeState
  PROVE  StoreInv'
<1>. USE DEF storeState
<1>1. TypeOK' /\ ListTypes'
  BY DEF StoreInv, TypeOK, ListTypes, storeVars, diskVars, listVars
<1>2. ASSUME NEW s \in Scans PROVE ThreadInv(s)'
  BY ListsLeaveThreads DEF StoreInv
<1>3. ASSUME NEW p \in Pages PROVE ListInv(p)'
  BY OtherLists DEF StoreInv, listVars
<1>. QED BY <1>1, <1>2, <1>3 DEF StoreInv

\* The invariant of the store holds in every state.
THEOREM StoreInvariant == Spec => []StoreInv
<1>1. StoreInv /\ [Next]_storeState => StoreInv'
  BY StartStep, WorkerStep, ListStep, RestartStep, StoreStutter DEF Next
<1>. QED BY StoreInit, <1>1, PTL DEF Spec

\* The variables keep their types, and no list is longer than the limit.
THEOREM StoreTyped == Spec => []TypeOK
<1>1. StoreInv => TypeOK
  BY DEF StoreInv
<1>. QED BY StoreInvariant, <1>1, PTL

\* What anyone was told is done is whole on disk, however often the server is
\* killed. (store.py:117-119, 145-148.)
THEOREM DoneDurable == Spec => []DoneIsDurable
<1>1. StoreInv => DoneIsDurable
  <2>1. ASSUME StoreInv, NEW s \in finished PROVE file[s] = "complete"
    BY <2>1 DEF StoreInv, TypeOK, ThreadInv
  <2>2. ASSUME StoreInv, NEW p \in Pages PROVE DoneOnDisk(history[p])
    BY <2>2 DEF StoreInv, ListInv
  <2>. QED BY <2>1, <2>2 DEF DoneIsDurable, DoneOnDisk
<1>. QED BY StoreInvariant, <1>1, PTL

\* No list has a scan twice. (store.py:137-144.)
THEOREM NoneListedTwice == Spec => []ListedOnce
<1>1. StoreInv => ListedOnce
  BY DEF StoreInv, ListInv, ListedOnce, DistinctIds
<1>. QED BY StoreInvariant, <1>1, PTL

\* A list that is not full has every scan that was done when it was asked for.
\* (store.py:136-157.)
THEOREM DoneListed == Spec => []DoneStaysListed
<1>1. StoreInv => DoneStaysListed
  BY DEF StoreInv, ListInv, DoneStaysListed, Listed
<1>. QED BY StoreInvariant, <1>1, PTL


-----------------------------------------------------------------------------
(* The page that opens scans *)

\* A file that is whole stays whole: its id is never used again.
LEMMA FilesStay ==
  ASSUME StoreInv, Next \/ UNCHANGED storeState, NEW s \in Scans, file[s] = "complete"
  PROVE  file'[s] = "complete"
<1>1. ASSUME NEW r \in Scans, Start(r) PROVE file' = file
  BY <1>1 DEF Start, diskVars
<1>2. ASSUME NEW r \in Scans, Worker(r) PROVE file'[s] = "complete"
  <2>1. CASE OpenFile(r)
    BY <2>1 DEF OpenFile, StoreInv, ThreadInv, TypeOK
  <2>2. CASE WriteFile(r)
    BY <2>2 DEF WriteFile, StoreInv, TypeOK
  <2>. QED BY <1>2, <2>1, <2>2
         DEF Worker, ScanReturns, ScanFails, PersistFails, FinishDone, FinishError, diskVars
<1>3. ASSUME NEW p \in Pages, List(p) PROVE file' = file
  BY <1>3 DEF List, BeginList, ListRecord, ListDirectory, ListFile, EndList, Reload, diskVars
<1>. QED BY <1>1, <1>2, <1>3 DEF Next, Restart, storeState, diskVars

\* The page is a client of the store: to the store, its steps are steps of
\* list_recent and of the threads, or nothing.
LEMMA PageStepIsStoreStep ==
  ASSUME [PageNext]_vars
  PROVE  [Next]_storeState
<1>1. ASSUME NEW p \in Pages, Open(p) PROVE UNCHANGED storeState
  BY <1>1 DEF Open, StatusAnswered, WatchEnds, ReportFromMemory, ReportFromFile, Leave,
              OpenScan, FetchReport, Ask, Becomes
<1>. QED BY <1>1 DEF PageNext, StoreStep, RestartAll, Next, vars

\* Pages that open scans from the list change nothing of what the store does:
\* the handlers they call only read. (app.py:79-118.)
THEOREM PageImplementsStore == PageSpec => Spec
<1>1. PageInit => Init
  BY DEF PageInit
<1>2. [PageNext]_vars => [Next]_storeState
  BY PageStepIsStoreStep
<1>. QED BY <1>1, <1>2, PTL DEF PageSpec, Spec

\* What a page asks for, it had listed; what it listed as done is on disk.
LEMMA AskStep ==
  ASSUME StoreInv, PageInv, NEW p \in Pages, NEW s \in Scans,
         NEW pc \in {"status", "report"}, Ask(p, s, pc)
  PROVE  PageInv'
<1>. USE DEF Ask
<1>1. PageTypeOK'
  BY DEF PageInv, PageTypeOK
<1>2. file' = file
  BY DEF storeState, diskVars
<1>3. Entry(s, "done") \in Entries(history[p]) => file[s] = "complete"
  <2>1. DoneOnDisk(history[p])
    BY DEF StoreInv, ListInv
  <2>2. Entry(s, "done").id = s /\ Entry(s, "done").status = "done"
    BY DEF Entry
  <2>. QED BY <2>1, <2>2 DEF DoneOnDisk
<1>4. OpenInv(p)'
  <2>1. /\ want'[p] = s /\ opc'[p] = pc
        /\ listed'[p] = (Entry(s, "done") \in Entries(history[p]))
    BY DEF PageInv, PageTypeOK
  <2>. QED BY <2>1, <1>2, <1>3 DEF OpenInv
<1>5. ASSUME NEW q \in Pages, q # p PROVE OpenInv(q)'
  BY <1>2, <1>5 DEF PageInv, PageTypeOK, OpenInv
<1>. QED BY <1>1, <1>4, <1>5 DEF PageInv

\* A step that leaves the pages where they are, and the files whole.
LEMMA PagesWait ==
  ASSUME StoreInv, PageInv, Next \/ UNCHANGED storeState, UNCHANGED openVars
  PROVE  PageInv'
<1>1. ASSUME NEW p \in Pages PROVE OpenInv(p)'
  BY FilesStay DEF openVars, OpenInv, PageInv
<1>. QED BY <1>1 DEF PageInv, PageTypeOK, openVars

\* What the answers to a page lead to, that is not a failure when the report
\* was listed as done.
LEMMA BecomesStep ==
  ASSUME PageInv, NEW p \in Pages, opc[p] # "idle",
         NEW pc \in {"watching", "report", "read"} \cup Outcomes, Becomes(p, pc),
         listed[p] => pc \notin {"noReport", "broken", "error"}
  PROVE  PageInv'
<1>. USE DEF Becomes
<1>1. PageTypeOK'
  BY DEF PageInv, PageTypeOK, Outcomes
<1>2. file' = file
  BY DEF storeState, diskVars
<1>3. opc'[p] = pc /\ \A q \in Pages : q # p => opc'[q] = opc[q]
  BY DEF PageInv, PageTypeOK
<1>4. ASSUME NEW q \in Pages PROVE OpenInv(q)'
  BY <1>2, <1>3 DEF PageInv, OpenInv
<1>. QED BY <1>1, <1>4 DEF PageInv

LEMMA OpenStep ==
  ASSUME StoreInv, PageInv, NEW p \in Pages, Open(p)
  PROVE  PageInv'
<1>. DEFINE s == want[p]
<1>1. opc[p] # "idle" => s \in Scans
  BY DEF PageInv, OpenInv
<1>2. listed[p] => file[s] = "complete"
  BY DEF PageInv, OpenInv
\* A record that ended in an error never had a whole file.
<1>3. s \in Scans /\ file[s] = "complete" => status[s] # "error"
  BY DEF StoreInv, ThreadInv
<1>4. CASE StatusAnswered(p)
  <2>1. s \in Scans /\ opc[p] # "idle"
    BY <1>4, <1>1 DEF StatusAnswered
  <2>2. status[s] \in {"running", "done", "error"}
    BY <2>1 DEF StoreInv, TypeOK, Statuses
  <2>3. CASE s \notin registry
    BY <1>4, <2>1, <2>3, BecomesStep DEF StatusAnswered, Outcomes
  <2>4. CASE s \in registry /\ status[s] = "running"
    <3>1. Becomes(p, "watching")
      BY <1>4, <2>4 DEF StatusAnswered
    <3>. QED BY <3>1, <2>1, BecomesStep
  <2>5. CASE s \in registry /\ status[s] = "error"
    <3>1. Becomes(p, "error") /\ ~ listed[p]
      BY <1>4, <2>1, <2>5, <1>2, <1>3 DEF StatusAnswered, PageInv, PageTypeOK
    <3>. QED BY <3>1, <2>1, BecomesStep DEF Outcomes
  <2>6. CASE s \in registry /\ status[s] = "done"
    <3>1. Becomes(p, "report")
      BY <1>4, <2>6 DEF StatusAnswered
    <3>. QED BY <3>1, <2>1, BecomesStep
  <2>. QED BY <2>2, <2>3, <2>4, <2>5, <2>6
<1>5. CASE WatchEnds(p)
  <2>1. s \in Scans /\ opc[p] # "idle"
    BY <1>5, <1>1 DEF WatchEnds
  <2>2. CASE status[s] = "error"
    <3>1. Becomes(p, "error") /\ ~ listed[p]
      BY <1>5, <2>1, <2>2, <1>2, <1>3 DEF WatchEnds, PageInv, PageTypeOK
    <3>. QED BY <3>1, <2>1, BecomesStep DEF Outcomes
  <2>3. CASE status[s] # "error"
    <3>1. Becomes(p, "report")
      BY <1>5, <2>3 DEF WatchEnds
    <3>. QED BY <3>1, <2>1, BecomesStep
  <2>. QED BY <2>2, <2>3
<1>6. CASE ReportFromMemory(p)
  <2>1. opc[p] # "idle"
    BY <1>6 DEF ReportFromMemory
  <2>2. CASE s \in registry /\ report[s]
    <3>1. Becomes(p, "served")
      BY <1>6, <2>2 DEF ReportFromMemory
    <3>. QED BY <3>1, <2>1, BecomesStep DEF Outcomes
  <2>3. CASE ~ (s \in registry /\ report[s]) /\ file[s] # "absent"
    <3>1. Becomes(p, "read")
      BY <1>6, <2>3 DEF ReportFromMemory
    <3>. QED BY <3>1, <2>1, BecomesStep
  <2>4. CASE ~ (s \in registry /\ report[s]) /\ file[s] = "absent"
    <3>1. Becomes(p, "noReport") /\ ~ listed[p]
      BY <1>6, <2>4, <1>2 DEF ReportFromMemory, PageInv, PageTypeOK
    <3>. QED BY <3>1, <2>1, BecomesStep DEF Outcomes
  <2>. QED BY <2>2, <2>3, <2>4
<1>7. CASE ReportFromFile(p)
  <2>1. opc[p] # "idle"
    BY <1>7 DEF ReportFromFile
  <2>2. CASE file[s] = "complete"
    <3>1. Becomes(p, "served")
      BY <1>7, <2>2 DEF ReportFromFile
    <3>. QED BY <3>1, <2>1, BecomesStep DEF Outcomes
  <2>3. CASE file[s] # "complete"
    <3>1. Becomes(p, "broken") /\ ~ listed[p]
      BY <1>7, <2>3, <1>2 DEF ReportFromFile, PageInv, PageTypeOK
    <3>. QED BY <3>1, <2>1, BecomesStep DEF Outcomes
  <2>. QED BY <2>2, <2>3
<1>8. CASE Leave(p)
  <2>1. PageTypeOK'
    BY <1>8 DEF Leave, PageInv, PageTypeOK
  <2>2. OpenInv(p)' /\ \A q \in Pages : q # p => OpenInv(q)'
    BY <1>8 DEF Leave, PageInv, PageTypeOK, OpenInv, storeState, diskVars
  <2>. QED BY <2>1, <2>2 DEF PageInv
<1>9. ASSUME NEW r \in Scans, OpenScan(p, r) \/ FetchReport(p, r)
      PROVE  PageInv'
  BY <1>9, AskStep DEF OpenScan, FetchReport
<1>. QED BY <1>4, <1>5, <1>6, <1>7, <1>8, <1>9 DEF Open

\* After a kill the files are as they were, and so is what the pages were told.
LEMMA RestartAllStep ==
  ASSUME PageInv, RestartAll
  PROVE  PageInv'
<1>1. PageTypeOK'
  BY DEF RestartAll, PageInv, PageTypeOK, Outcomes
<1>2. ASSUME NEW p \in Pages PROVE OpenInv(p)'
  BY DEF RestartAll, Restart, PageInv, OpenInv, Outcomes
<1>. QED BY <1>1, <1>2 DEF PageInv

\* The invariant of the pages, on top of that of the store.
THEOREM PageInvariant == PageSpec => [](StoreInv /\ PageInv)
<1>1. PageInit => PageInv
  BY DEF PageInit, PageInv, PageTypeOK, OpenInv
<1>2. StoreInv /\ PageInv /\ [PageNext]_vars => PageInv'
  <2>1. ASSUME StoreInv, PageInv, StoreStep PROVE PageInv'
    BY <2>1, PagesWait DEF StoreStep, Next
  <2>2. ASSUME StoreInv, PageInv, UNCHANGED vars PROVE PageInv'
    BY <2>2, PagesWait DEF vars
  <2>. QED BY <2>1, <2>2, OpenStep, RestartAllStep DEF PageNext
<1>. QED BY <1>1, <1>2, PageImplementsStore, StoreInvariant, PTL DEF PageSpec

\* The page's variables keep their types.
THEOREM PageTyped == PageSpec => []PageTypeOK
<1>1. PageInv => PageTypeOK
  BY DEF PageInv
<1>. QED BY PageInvariant, <1>1, PTL

\* The report of a scan that the page lists as done is served when it is asked
\* for, before and after a restart. (store.py:159-168; app.py:113-118.)
THEOREM DoneServed == PageSpec => []DoneReportServed
<1>1. PageInv => DoneReportServed
  BY DEF PageInv, OpenInv, DoneReportServed
<1>. QED BY PageInvariant, <1>1, PTL

\* With pages that open scans, the store keeps what it promises.
THEOREM StoreKeepsItsPromises ==
  PageSpec => [](TypeOK /\ DoneIsDurable /\ ListedOnce /\ DoneStaysListed)
BY PageImplementsStore, StoreTyped, DoneDurable, NoneListedTwice, DoneListed, PTL
=============================================================================
