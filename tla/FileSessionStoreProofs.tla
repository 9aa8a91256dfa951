------------------------ MODULE FileSessionStoreProofs ------------------------
(***************************************************************************)
(* Theorems about FileSessionStore, for all sessions, filters and any      *)
(* number of commands on the file: when map and file agree, which purges   *)
(* are final, and that the store implements DurableSessions.               *)
(***************************************************************************)
EXTENDS FileSessionStore, TLAPS

-----------------------------------------------------------------------------
(* The inductive invariant                                                 *)

\* The records upserts make.
Made == {Stamped(u, n) : u \in UpsertInputs, n \in 1..MaxUpserts}

\* Whatever is somewhere was made by an upsert that has been.
OfUpserts ==
    /\ disk.rows \subseteq Made
    /\ \A p \in Processes : mem[p] \subseteq Made
    /\ \A r \in disk.rows \cup purged : r.stamp <= clock
    /\ \A p \in Processes : \A r \in mem[p] \cup target[p] : r.stamp <= clock

\* A process that is down has no map, the server is never done and purges
\* nothing as a command, and what a command takes away it does not have any
\* more.
OwnMaps ==
    /\ pc[Server] # "done" /\ target[Server] = {}
    /\ \A p \in Processes :
         /\ pc[p] = "down" => mem[p] = {} /\ target[p] = {}
         /\ target[p] \cap mem[p] = {}

\* A command that has been alone still is.
AloneAre == \A p \in alone : OthersDown(p)

FileInv ==
    TypeOK /\ OfUpserts /\ OwnMaps /\ AloneAre /\ FileFollowsMap /\ LonePurgeIsFinal

-----------------------------------------------------------------------------
(* Initial states and steps                                                *)

\* What an upsert makes is a record with the number of the upsert.
LEMMA MadeAreRecords ==
    /\ Made \subseteq Record
    /\ \A u \in UpsertInputs, n \in 1..MaxUpserts :
          Stamped(u, n) \in Made /\ Stamped(u, n).stamp = n /\ Stamped(u, n).key = u.key
BY FileAssumption DEF Made, Stamped, Record

LEMMA InitFileInv == ASSUME Init PROVE FileInv
<1> USE DEF Init
<1>1. TypeOK
  <2>1. disk.kind = "missing" /\ disk.rows = {}
    BY DEF Missing
  <2>2. mem \in [Processes -> SUBSET Record] /\ target \in [Processes -> SUBSET Record]
    OBVIOUS
  <2>3. pc \in [Processes -> {"down", "up", "writing", "done"}] /\ clock \in 0..MaxUpserts
    BY FileAssumption
  <2> QED
    BY <2>1, <2>2, <2>3 DEF TypeOK
<1>2. OfUpserts
  BY DEF OfUpserts, Missing
<1>3. OwnMaps /\ AloneAre /\ LonePurgeIsFinal
  BY FileAssumption DEF OwnMaps, AloneAre, LonePurgeIsFinal, Missing, Processes
<1>4. FileFollowsMap
  BY DEF FileFollowsMap, Processes
<1> QED
  BY <1>1, <1>2, <1>3, <1>4 DEF FileInv

\* An opened store holds what is in the file, or nothing.
LEMMA StepOpen == ASSUME FileInv, NEW p \in Processes, Open(p) PROVE FileInv'
<1> USE DEF FileInv
<1>1. PICK readable \in BOOLEAN :
         /\ mem' = [mem EXCEPT ![p] = IF readable THEN Loaded(disk) ELSE {}]
         /\ disk' = IF disk.kind = "missing" /\ readable THEN File({}) ELSE disk
         /\ disturbed' = IF p = Server
                         THEN Writing # {} \/ mem'[p] # Loaded(disk) ELSE disturbed
  BY DEF Open
<1>2. /\ pc[p] = "down" /\ pc' = [pc EXCEPT ![p] = "up"]
      /\ alone' = IF p # Server /\ OthersDown(p) THEN {p} ELSE {}
      /\ clock' = clock /\ target' = target /\ purged' = purged /\ gone' = gone
  BY DEF Open
<1>3. disk'.rows = disk.rows
  BY <1>1 DEF File, TypeOK
<1>4. /\ mem'[p] \subseteq disk.rows
      /\ \A q \in Processes \ {p} : mem'[q] = mem[q]
      /\ mem' \in [Processes -> SUBSET Record]
  BY <1>1 DEF Loaded, TypeOK
<1>5. /\ pc'[p] = "up" /\ \A q \in Processes \ {p} : pc'[q] = pc[q]
      /\ pc' \in [Processes -> {"down", "up", "writing", "done"}]
  BY <1>2 DEF TypeOK
<1>6. TypeOK'
  <2>1. /\ disk'.kind \in {"missing", "empty", "torn", "rows"} /\ disk'.rows \in SUBSET Record
        /\ disk'.kind # "rows" => disk'.rows = {}
    BY <1>1 DEF TypeOK, File
  <2>2. disturbed' \in BOOLEAN /\ alone' \subseteq Clis
    BY <1>1, <1>2 DEF TypeOK, Processes
  <2> QED
    BY <1>2, <1>4, <1>5, <2>1, <2>2 DEF TypeOK
<1>7. OfUpserts'
  BY <1>2, <1>3, <1>4 DEF OfUpserts
<1>8. OwnMaps'
  <2>1. target[p] \cap mem'[p] = {}
    BY <1>2 DEF OwnMaps
  <2> QED
    BY <1>2, <1>4, <1>5, <2>1 DEF OwnMaps
<1>9. AloneAre'
  BY <1>2, <1>5 DEF AloneAre, OthersDown
<1>10. FileFollowsMap'
  <2>1. CASE p = Server
    BY <1>1, <1>3, <1>5, <2>1 DEF FileFollowsMap, Loaded
  <2>2. CASE p # Server
    <3>1. pc'[Server] = pc[Server] /\ mem'[Server] = mem[Server] /\ disturbed' = disturbed
      BY <1>1, <1>4, <1>5, <2>2 DEF Processes
    <3>2. disk = Empty0 => disk' = disk
      BY <1>1 DEF Empty0
    <3> QED
      BY <1>3, <3>1, <3>2 DEF FileFollowsMap, Loaded
  <2> QED
    BY <2>1, <2>2
<1>11. LonePurgeIsFinal'
  BY <1>2, <1>3, <1>4 DEF LonePurgeIsFinal
<1> QED
  BY <1>6, <1>7, <1>8, <1>9, <1>10, <1>11

\* A change of the map: the new one is made of the old, and of a record that
\* is new.
LEMMA StepChange ==
    ASSUME FileInv, NEW p \in Processes, NEW new, Change(p, new),
           clock' \in 0..MaxUpserts, clock <= clock',
           new \subseteq Made, new \cap gone = {}, \A r \in new : r.stamp <= clock'
    PROVE  FileInv'
<1> USE DEF FileInv
<1>1. /\ pc[p] = "up" /\ mem' = [mem EXCEPT ![p] = new]
      /\ target' = IF p = Server THEN target ELSE [target EXCEPT ![p] = mem[p] \ new]
      /\ purged' = purged /\ gone' = gone
      /\ \/ /\ pc' = [pc EXCEPT ![p] = "writing"]
            /\ disk' = Empty0
            /\ disturbed' = (disturbed \/ p # Server)
            /\ alone' = alone \ (Clis \ {p})
         \/ /\ pc' = [pc EXCEPT ![p] = Changed(p)]
            /\ disturbed' = (disturbed \/ (p = Server /\ new # mem[p]))
            /\ disk' = disk /\ alone' = alone
  BY DEF Change
<1>2. /\ new \subseteq Record /\ mem'[p] = new
      /\ \A q \in Processes \ {p} : mem'[q] = mem[q]
      /\ mem' \in [Processes -> SUBSET Record]
  BY <1>1, MadeAreRecords DEF TypeOK
<1>3. /\ \A q \in Processes \ {p} : target'[q] = target[q]
      /\ p = Server => target'[p] = target[p]
      /\ p # Server => target'[p] = mem[p] \ new
      /\ target' \in [Processes -> SUBSET Record]
  BY <1>1 DEF TypeOK
<1>4. /\ \A q \in Processes \ {p} : pc'[q] = pc[q]
      /\ pc'[p] \in {"writing", "up", "done"} /\ (p = Server => pc'[p] # "done")
      /\ pc' \in [Processes -> {"down", "up", "writing", "done"}]
  BY <1>1 DEF TypeOK, Changed
<1>5. /\ disk'.kind \in {"missing", "empty", "torn", "rows"} /\ disk'.rows \in SUBSET Record
      /\ disk'.kind # "rows" => disk'.rows = {}
      /\ disk'.rows \subseteq disk.rows
  BY <1>1 DEF TypeOK, Empty0
<1>6. TypeOK'
  BY <1>1, <1>2, <1>3, <1>4, <1>5 DEF TypeOK
<1>7. OfUpserts'
  <2>1. clock \in Nat /\ clock' \in Nat /\ \A r \in Record : r.stamp \in Nat
    BY FileAssumption DEF TypeOK, Record
  <2>2. \A r \in disk'.rows \cup purged' : r.stamp <= clock'
    BY <1>1, <1>5, <2>1 DEF OfUpserts, TypeOK
  <2>3. ASSUME NEW q \in Processes, NEW r \in mem'[q] \cup target'[q] PROVE r.stamp <= clock'
    <3>1. r \in new \/ r \in mem[q] \cup target[q]
      BY <1>2, <1>3, <2>3
    <3>2. r \in mem[q] \cup target[q] => r \in Record /\ r.stamp <= clock
      BY DEF OfUpserts, TypeOK
    <3> QED
      BY <2>1, <3>1, <3>2
  <2>4. disk'.rows \subseteq Made /\ \A q \in Processes : mem'[q] \subseteq Made
    BY <1>2, <1>5 DEF OfUpserts
  <2> QED
    BY <2>2, <2>3, <2>4 DEF OfUpserts
<1>8. OwnMaps'
  <2>1. pc'[Server] # "done" /\ target'[Server] = {}
    BY <1>3, <1>4 DEF OwnMaps, Processes
  <2>2. target'[p] \cap mem'[p] = {} /\ pc'[p] # "down"
    BY <1>2, <1>3, <1>4 DEF OwnMaps
  <2> QED
    BY <1>2, <1>3, <1>4, <2>1, <2>2 DEF OwnMaps
<1>9. AloneAre'
  <2>1. alone' \subseteq alone /\ \A q \in Processes : pc'[q] = "down" <=> pc[q] = "down"
    BY <1>1, <1>4
  <2> QED
    BY <2>1 DEF AloneAre, OthersDown
<1>10. FileFollowsMap'
  <2>1. CASE p = Server /\ disk' = Empty0 /\ pc'[p] = "writing"
    BY <2>1 DEF FileFollowsMap
  <2>2. CASE p = Server /\ disk' = disk /\ disturbed' = (disturbed \/ (p = Server /\ new # mem[p]))
    BY <1>1, <1>2, <1>4, <2>2 DEF FileFollowsMap, TypeOK, Loaded, Changed
  <2>3. CASE p # Server
    <3>1. pc'[Server] = pc[Server] /\ mem'[Server] = mem[Server]
      BY <1>2, <1>4, <2>3 DEF Processes
    <3>2. disturbed' \/ (disk' = disk /\ (disturbed' <=> disturbed))
      BY <1>1, <2>3
    <3> QED
      BY <3>1, <3>2 DEF FileFollowsMap, Loaded
  <2>4. \/ disk' = Empty0 /\ pc'[p] = "writing"
        \/ disk' = disk /\ disturbed' = (disturbed \/ (p = Server /\ new # mem[p]))
    BY <1>1 DEF TypeOK
  <2> QED
    BY <2>1, <2>2, <2>3, <2>4
<1>11. LonePurgeIsFinal'
  BY <1>1, <1>2, <1>5 DEF LonePurgeIsFinal
<1> QED
  BY <1>6, <1>7, <1>8, <1>9, <1>10, <1>11

LEMMA StepUpsert == ASSUME FileInv, NEW u \in UpsertInputs, upsert(Server, u) PROVE FileInv'
<1> DEFINE record == Stamped(u, clock + 1)
           new == {s \in mem[Server] : s.key # record.key} \cup {record}
<1> USE DEF FileInv
<1>1. clock < MaxUpserts /\ clock' = clock + 1 /\ Change(Server, new)
  BY DEF upsert
<1>2. Server \in Processes /\ clock \in Nat /\ clock' \in 1..MaxUpserts /\ MaxUpserts \in Nat
  BY <1>1, FileAssumption DEF Processes, TypeOK
<1>3. record \in Made /\ record.stamp = clock + 1
  BY <1>1, <1>2, MadeAreRecords
<1>4. record \notin gone
  BY <1>2, <1>3 DEF OfUpserts, TypeOK
<1> HIDE DEF record
<1>5. new \subseteq Made /\ new \cap gone = {}
  BY <1>2, <1>3, <1>4 DEF OfUpserts, LonePurgeIsFinal
<1>6. ASSUME NEW r \in new PROVE r.stamp <= clock'
  <2>1. CASE r = record
    BY <1>1, <1>2, <1>3, <2>1
  <2>2. CASE r # record
    <3>1. r \in mem[Server] /\ r.stamp <= clock /\ r \in Record
      BY <1>2, <1>6, <2>2 DEF OfUpserts, TypeOK
    <3>2. r.stamp \in Nat
      BY <3>1 DEF Record
    <3> QED
      BY <1>1, <1>2, <3>1, <3>2
  <2> QED
    BY <2>1, <2>2
<1>7. clock <= clock' /\ clock' \in 0..MaxUpserts
  BY <1>1, <1>2
<1> HIDE DEF new
<1> QED
  BY <1>1, <1>2, <1>5, <1>6, <1>7, StepChange

\* remove and purge keep a part of the map.
LEMMA StepKeeps ==
    ASSUME FileInv, NEW p \in Processes, NEW kept \in SUBSET mem[p], Change(p, kept),
           clock' = clock
    PROVE  FileInv'
<1> USE DEF FileInv
<1>1. kept \subseteq Made /\ kept \cap gone = {} /\ \A r \in kept : r.stamp <= clock'
  BY DEF OfUpserts, LonePurgeIsFinal
<1>2. clock \in Nat /\ clock' \in 0..MaxUpserts /\ clock <= clock'
  BY FileAssumption DEF TypeOK
<1> QED
  BY <1>1, <1>2, StepChange

LEMMA StepRemove == ASSUME FileInv, NEW key, remove(Server, key) PROVE FileInv'
BY StepKeeps DEF remove, Processes

LEMMA StepPurge ==
    ASSUME FileInv, NEW p \in Processes, NEW f \in Filters, purge(p, f)
    PROVE  FileInv'
BY StepKeeps DEF purge

LEMMA StepFinishWrite == ASSUME FileInv, NEW p \in Processes, FinishWrite(p) PROVE FileInv'
<1> USE DEF FileInv
<1>1. /\ pc[p] = "writing" /\ pc' = [pc EXCEPT ![p] = Changed(p)]
      /\ disk' = File(mem[p]) \/ disk' = Torn
      /\ disturbed' = IF p = Server THEN disk' # File(mem[p]) \/ Writing # {p} ELSE TRUE
      /\ purged' = IF p = Server THEN purged ELSE purged \cup target[p]
      /\ gone' = IF p \in alone THEN gone \cup target[p] ELSE gone
      /\ mem' = mem /\ clock' = clock /\ alone' = alone /\ target' = target
  BY DEF FinishWrite
<1>2. /\ \A q \in Processes \ {p} : pc'[q] = pc[q]
      /\ pc'[p] = Changed(p) /\ pc'[p] \in {"up", "done"} /\ (p = Server => pc'[p] = "up")
      /\ pc' \in [Processes -> {"down", "up", "writing", "done"}]
  BY <1>1 DEF TypeOK, Changed
<1>3. /\ disk'.kind \in {"missing", "empty", "torn", "rows"} /\ disk'.rows \in SUBSET Record
      /\ disk'.kind # "rows" => disk'.rows = {}
      /\ disk'.rows \subseteq mem[p]
  BY <1>1 DEF TypeOK, File, Torn
<1>4. p \in alone => p # Server
  BY FileAssumption DEF TypeOK
<1>5. TypeOK'
  <2>1. gone' \subseteq purged' /\ purged' \subseteq Record
    BY <1>1, <1>4 DEF TypeOK
  <2>2. disturbed' \in BOOLEAN
    BY <1>1
  <2> QED
    BY <1>1, <1>2, <1>3, <2>1, <2>2 DEF TypeOK
<1>6. OfUpserts'
  BY <1>1, <1>3 DEF OfUpserts
<1>7. OwnMaps'
  BY <1>1, <1>2 DEF OwnMaps
<1>8. AloneAre'
  BY <1>1, <1>2 DEF AloneAre, OthersDown
<1>9. FileFollowsMap'
  <2>1. CASE p = Server
    <3>1. ~disturbed' => disk' = File(mem'[Server])
      BY <1>1, <2>1
    <3> QED
      BY <1>2, <2>1, <3>1 DEF FileFollowsMap, File, Loaded
  <2>2. CASE p # Server
    BY <1>1, <2>2 DEF FileFollowsMap
  <2> QED
    BY <2>1, <2>2
<1>10. LonePurgeIsFinal'
  <2>1. gone \cap disk'.rows = {} /\ \A q \in Processes : gone \cap mem'[q] = {}
    BY <1>1, <1>3 DEF LonePurgeIsFinal
  <2>2. CASE p \in alone
    <3>1. \A q \in Processes : q # p => mem[q] = {}
      BY <2>2 DEF AloneAre, OthersDown, OwnMaps
    <3>2. target[p] \cap disk'.rows = {} /\ \A q \in Processes : target[p] \cap mem'[q] = {}
      BY <1>1, <1>3, <3>1 DEF OwnMaps
    <3> QED
      BY <1>1, <2>1, <3>2 DEF LonePurgeIsFinal
  <2>3. CASE p \notin alone
    BY <1>1, <2>1, <2>3 DEF LonePurgeIsFinal
  <2> QED
    BY <2>2, <2>3
<1> QED
  BY <1>5, <1>6, <1>7, <1>8, <1>9, <1>10

LEMMA StepFailWrite == ASSUME FileInv, NEW p \in Processes, FailWrite(p) PROVE FileInv'
<1> USE DEF FileInv
<1>1. /\ pc[p] = "writing" /\ pc' = [pc EXCEPT ![p] = Changed(p)]
      /\ disk' = disk \/ disk' = Torn
      /\ disturbed' = TRUE
      /\ mem' = mem /\ clock' = clock /\ alone' = alone /\ target' = target
      /\ purged' = purged /\ gone' = gone
  BY DEF FailWrite
<1>2. /\ \A q \in Processes : pc'[q] = "down" <=> pc[q] = "down"
      /\ pc'[Server] # "done"
      /\ pc' \in [Processes -> {"down", "up", "writing", "done"}]
  BY <1>1 DEF TypeOK, Changed, Processes, OwnMaps
<1>3. /\ disk'.kind \in {"missing", "empty", "torn", "rows"} /\ disk'.rows \in SUBSET Record
      /\ disk'.kind # "rows" => disk'.rows = {}
      /\ disk'.rows \subseteq disk.rows
  BY <1>1 DEF TypeOK, Torn
<1>4. TypeOK'
  BY <1>1, <1>2, <1>3 DEF TypeOK
<1>5. OfUpserts'
  BY <1>1, <1>3 DEF OfUpserts
<1>6. OwnMaps'
  BY <1>1, <1>2 DEF OwnMaps
<1>7. AloneAre'
  BY <1>1, <1>2 DEF AloneAre, OthersDown
<1>8. FileFollowsMap'
  BY <1>1 DEF FileFollowsMap
<1>9. LonePurgeIsFinal'
  BY <1>1, <1>3 DEF LonePurgeIsFinal
<1> QED
  BY <1>4, <1>5, <1>6, <1>7, <1>8, <1>9

LEMMA StepExit == ASSUME FileInv, NEW p \in Processes, Exit(p) PROVE FileInv'
<1> USE DEF FileInv
<1>1. /\ pc' = [pc EXCEPT ![p] = "down"] /\ mem' = [mem EXCEPT ![p] = {}]
      /\ disk' = disk \/ (pc[p] = "writing" /\ disk' = Torn)
      /\ disturbed' = (disturbed \/ pc[p] = "writing")
      /\ alone' = alone \ {p} /\ target' = [target EXCEPT ![p] = {}]
      /\ clock' = clock /\ purged' = purged /\ gone' = gone
  BY DEF Exit
<1>2. /\ pc'[p] = "down" /\ \A q \in Processes \ {p} : pc'[q] = pc[q]
      /\ mem'[p] = {} /\ \A q \in Processes \ {p} : mem'[q] = mem[q]
      /\ target'[p] = {} /\ \A q \in Processes \ {p} : target'[q] = target[q]
      /\ pc' \in [Processes -> {"down", "up", "writing", "done"}]
      /\ mem' \in [Processes -> SUBSET Record] /\ target' \in [Processes -> SUBSET Record]
  BY <1>1 DEF TypeOK
<1>3. /\ disk'.kind \in {"missing", "empty", "torn", "rows"} /\ disk'.rows \in SUBSET Record
      /\ disk'.kind # "rows" => disk'.rows = {}
      /\ disk'.rows \subseteq disk.rows
  BY <1>1 DEF TypeOK, Torn
<1>4. TypeOK'
  BY <1>1, <1>2, <1>3 DEF TypeOK
<1>5. OfUpserts'
  BY <1>1, <1>2, <1>3 DEF OfUpserts
<1>6. OwnMaps'
  <2>1. pc'[Server] # "done" /\ target'[Server] = {}
    BY <1>2 DEF OwnMaps, Processes
  <2> QED
    BY <1>2, <2>1 DEF OwnMaps
<1>7. AloneAre'
  BY <1>1, <1>2 DEF AloneAre, OthersDown
<1>8. FileFollowsMap'
  BY <1>1, <1>2 DEF FileFollowsMap, Processes, Loaded
<1>9. LonePurgeIsFinal'
  BY <1>1, <1>2, <1>3 DEF LonePurgeIsFinal
<1> QED
  BY <1>4, <1>5, <1>6, <1>7, <1>8, <1>9

LEMMA NextFileInv == ASSUME FileInv, [Next]_vars PROVE FileInv'
<1>1. CASE \E p \in Processes : Open(p)
  BY <1>1, StepOpen
<1>2. CASE \E u \in UpsertInputs : upsert(Server, u) \/ remove(Server, u.key)
  BY <1>2, StepUpsert, StepRemove
<1>3. CASE \E p \in Processes, f \in Filters : purge(p, f)
  BY <1>3, StepPurge
<1>4. CASE \E p \in Processes : FinishWrite(p) \/ FailWrite(p) \/ Exit(p)
  BY <1>4, StepFinishWrite, StepFailWrite, StepExit
<1>5. CASE UNCHANGED vars
  <2>1. /\ UNCHANGED <<disk, mem, pc, clock, disturbed>>
        /\ UNCHANGED <<alone, target, purged, gone>>
    BY <1>5 DEF vars, history
  <2> QED
    BY <2>1 DEF FileInv, TypeOK, OfUpserts, OwnMaps, AloneAre, OthersDown, FileFollowsMap,
                Loaded, LonePurgeIsFinal
<1> QED
  BY <1>1, <1>2, <1>3, <1>4, <1>5 DEF Next

LEMMA FileInvHolds == Spec => []FileInv
BY InitFileInv, NextFileInv, PTL DEF Spec

-----------------------------------------------------------------------------
(* The theorems                                                            *)

\* The types of the store, the file and the commands.
THEOREM FileTypes == Spec => []TypeOK
BY FileInvHolds, PTL DEF FileInv

\* Unless something disturbed the store, its map and its file say the same:
\* whatever commands do on the file, and after any number of restarts.
THEOREM MapAndFileAgree == Spec => []FileFollowsMap
BY FileInvHolds, PTL DEF FileInv

\* A purge by a command that was alone on the file is final, whichever
\* processes open the file later.
THEOREM LonePurgesAreFinal == Spec => []LonePurgeIsFinal
BY FileInvHolds, PTL DEF FileInv

-----------------------------------------------------------------------------
(* The store implements DurableSessions                                    *)

\* What a disturbed step may do: anything, with records upserts made.
LEMMA DisturbedStep ==
    ASSUME FileInv', disturbed \/ disturbed'
    PROVE  Durable!Next
<1>1. Content' \in SUBSET Made
  BY DEF FileInv, OfUpserts, Content, Loaded, Processes
<1> QED
  BY <1>1 DEF Durable!Next, Durable!Disturbance, Made

\* An undisturbed change by the server puts the new map in place of the old.
LEMMA ServerChange ==
    ASSUME FileInv, NEW new, Change(Server, new)
    PROVE  Content = mem[Server] /\ Content' = new
<1>1. pc[Server] = "up" /\ mem'[Server] = new /\ pc'[Server] # "down"
  BY DEF Change, FileInv, TypeOK, Changed, Processes
<1> QED
  BY <1>1 DEF Content

\* A change by a command leaves the contents alone, or disturbs them.
LEMMA CommandChange ==
    ASSUME FileInv, NEW p \in Processes \ {Server}, NEW new, Change(p, new), ~disturbed'
    PROVE  Content' = Content
<1>1. disk' = disk /\ mem' = [mem EXCEPT ![p] = new]
  BY DEF Change
<1>2. pc'[Server] = pc[Server]
  BY DEF Change, FileInv, TypeOK, Processes
<1>3. mem'[Server] = mem[Server]
  BY <1>1 DEF FileInv, TypeOK, Processes
<1> QED
  BY <1>1, <1>2, <1>3 DEF Content, Loaded

\* Opening, or ending, a process does not change undisturbed contents.
LEMMA OpenKeepsContent ==
    ASSUME FileInv, NEW p \in Processes, Open(p), ~disturbed, ~disturbed'
    PROVE  Content' = Content
<1>1. PICK readable \in BOOLEAN :
         /\ mem' = [mem EXCEPT ![p] = IF readable THEN Loaded(disk) ELSE {}]
         /\ disk' = IF disk.kind = "missing" /\ readable THEN File({}) ELSE disk
         /\ disturbed' = IF p = Server
                         THEN Writing # {} \/ mem'[p] # Loaded(disk) ELSE disturbed
  BY DEF Open
<1>2. disk'.rows = disk.rows
  BY <1>1 DEF FileInv, TypeOK, File
<1>3. pc[p] = "down" /\ pc' = [pc EXCEPT ![p] = "up"]
  BY DEF Open
<1>4. CASE p = Server
  <2>1. mem'[Server] = disk.rows /\ pc'[Server] = "up"
    BY <1>1, <1>3, <1>4 DEF FileInv, TypeOK, Loaded
  <2> QED
    BY <1>3, <1>4, <2>1 DEF Content, Loaded
<1>5. CASE p # Server
  <2>1. mem'[Server] = mem[Server] /\ pc'[Server] = pc[Server]
    BY <1>1, <1>3, <1>5 DEF FileInv, TypeOK, Processes
  <2> QED
    BY <1>2, <2>1 DEF Content, Loaded
<1> QED
  BY <1>4, <1>5

LEMMA ExitKeepsContent ==
    ASSUME FileInv, NEW p \in Processes, Exit(p), ~disturbed, ~disturbed'
    PROVE  Content' = Content
<1>1. /\ pc[p] \notin {"down", "writing"} /\ pc' = [pc EXCEPT ![p] = "down"]
      /\ mem' = [mem EXCEPT ![p] = {}] /\ disk' = disk
  BY DEF Exit
<1>2. CASE p = Server
  <2>1. pc[Server] = "up" /\ pc'[Server] = "down"
    BY <1>1, <1>2 DEF FileInv, TypeOK, OwnMaps
  <2> QED
    BY <1>1, <2>1 DEF FileInv, FileFollowsMap, Content, Loaded
<1>3. CASE p # Server
  <2>1. pc'[Server] = pc[Server] /\ mem'[Server] = mem[Server]
    BY <1>1, <1>3 DEF FileInv, TypeOK, Processes
  <2> QED
    BY <1>1, <2>1 DEF Content, Loaded
<1> QED
  BY <1>2, <1>3

\* Neither does the end of a write.
LEMMA WriteKeepsContent ==
    ASSUME FileInv, NEW p \in Processes, FinishWrite(p), ~disturbed'
    PROVE  Content' = Content
<1>1. p = Server /\ pc[Server] = "writing" /\ pc' = [pc EXCEPT ![p] = "up"] /\ mem' = mem
  BY DEF FinishWrite, Changed
<1>2. pc'[Server] = "up"
  BY <1>1 DEF FileInv, TypeOK
<1> QED
  BY <1>1, <1>2 DEF Content

\* Every step of the store is a step of DurableSessions, or changes nothing.
LEMMA StepImplements ==
    ASSUME FileInv, FileInv', [Next]_vars
    PROVE  [Durable!Next]_<<Content, disturbed>>
<1>1. CASE disturbed \/ disturbed'
  BY <1>1, DisturbedStep
<1>2. CASE ~disturbed /\ ~disturbed'
  <2>0. disturbed' = disturbed
    BY <1>2 DEF FileInv, TypeOK
  <2>1. ASSUME NEW u \in UpsertInputs, upsert(Server, u) PROVE Durable!Next
    <3>1. clock + 1 \in 1..MaxUpserts
      BY <2>1, FileAssumption DEF upsert, FileInv, TypeOK
    <3>2. /\ Content = mem[Server]
          /\ Content' = {s \in mem[Server] : s.key # Stamped(u, clock + 1).key}
                          \cup {Stamped(u, clock + 1)}
      BY <2>1, ServerChange DEF upsert
    <3> QED
      BY <1>2, <3>1, <3>2 DEF Durable!Next, Durable!Operation, Durable!Upsert
  <2>2. ASSUME NEW u \in UpsertInputs, remove(Server, u.key)
        PROVE  Durable!Next \/ Content' = Content
    <3>1. Content = mem[Server] /\ Content' = {s \in mem[Server] : s.key # u.key}
      BY <2>2, ServerChange DEF remove
    <3>2. CASE MaxUpserts = 0
      <4>1. Made = {}
        BY <3>2 DEF Made
      <4> QED
        BY <3>1, <4>1 DEF FileInv, OfUpserts, Processes
    <3>3. CASE MaxUpserts # 0
      <4>1. 1 \in 1..MaxUpserts
        BY <3>3, FileAssumption
      <4>2. Stamped(u, 1).key = u.key
        BY DEF Stamped
      <4> QED
        BY <1>2, <3>1, <4>1, <4>2 DEF Durable!Next, Durable!Operation, Durable!Remove
    <3> QED
      BY <3>2, <3>3
  <2>3. ASSUME NEW p \in Processes, NEW f \in Filters, purge(p, f)
        PROVE  Durable!Next \/ Content' = Content
    <3>1. CASE p = Server
      <4>1. Content = mem[Server] /\ Content' = {s \in mem[Server] : ~matches(f, s)}
        BY <2>3, <3>1, ServerChange DEF purge
      <4> QED
        BY <1>2, <4>1 DEF Durable!Next, Durable!Operation, Durable!Purge
    <3>2. CASE p # Server
      BY <1>2, <2>3, <3>2, CommandChange DEF purge
    <3> QED
      BY <3>1, <3>2
  <2>4. ASSUME NEW p \in Processes, Open(p) \/ FinishWrite(p) \/ FailWrite(p) \/ Exit(p)
        PROVE  Content' = Content
    BY <1>2, <2>4, OpenKeepsContent, WriteKeepsContent, ExitKeepsContent DEF FailWrite
  <2>5. ASSUME UNCHANGED vars PROVE Content' = Content
    BY <2>5 DEF vars, Content, Loaded
  <2>6. Durable!Next \/ Content' = Content
    BY <2>1, <2>2, <2>3, <2>4, <2>5 DEF Next
  <2> QED
    BY <2>0, <2>6
<1> QED
  BY <1>1, <1>2 DEF FileInv, TypeOK

\* Seen from the server, the store is one durable set of sessions: outside a
\* disturbance it changes by upsert, remove and purge only, and stopping and
\* starting the process, or another process opening the file, is no change.
THEOREM StoreIsDurable == Spec => ImplementsDurableSessions
<1>1. Init => Durable!Init
  BY DEF Init, Durable!Init, Content, Loaded, Missing, Processes
<1>2. FileInv /\ FileInv' /\ [Next]_vars => [Durable!Next]_<<Content, disturbed>>
  BY StepImplements
<1> QED
  BY <1>1, <1>2, FileInvHolds, PTL DEF Spec, ImplementsDurableSessions, Durable!Spec

=============================================================================
