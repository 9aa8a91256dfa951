--------------------------- MODULE PackReloadProofs ---------------------------
(***************************************************************************)
(* Theorems about PackReload, for every number of packs, requests and      *)
(* changes: the types, when the index may go back, and when the runner     *)
(* host has the index of the server.                                       *)
(***************************************************************************)
EXTENDS PackReload, SequenceTheorems, TLAPS

-----------------------------------------------------------------------------
(* The inductive invariant                                                 *)

\* Nothing a reload has read, or that is installed, is newer than the disk.
NotNewer ==
    \A p \in Packs :
        /\ disk[p].n <= edits
        /\ index[p].n <= disk[p].n
        /\ \A x \in Reloaders : reload[x].got[p].n <= disk[p].n

\* What a reload that no other has overtaken has read is not older than the
\* index.
Fresh ==
    \A x \in Reloaders :
        /\ reload[x].pc = "built" => reload[x].left = {}
        /\ reload[x].pc \in {"scan", "built"} /\ ~reload[x].crossed =>
              \A p \in Packs \ reload[x].left : index[p].n <= reload[x].got[p].n

\* Unless the last two installs raced, the index is with the one reload that
\* has not submitted it yet, or the last command in the channel, or with the
\* runner host.
Passed ==
    ~raced =>
        \/ \E x \in Reloaders :
              /\ reload[x].pc = "swapped" /\ reload[x].got = index
              /\ \A y \in Reloaders \ {x} : reload[y].pc # "swapped"
        \/ /\ \A y \in Reloaders : reload[y].pc # "swapped"
           /\ IF queue = <<>> THEN RunnerBase /\ ~refused => runner = index
              ELSE queue[Len(queue)] = index

ReloadInv == TypeOK /\ NotNewer /\ Fresh /\ Passed

\* A reload that is begun, or none, has read nothing.
LEMMA NothingReadYet ==
    /\ NothingRead \in PackIndex
    /\ \A new \in {NoReload, Begun} :
          new \in Reload /\ new.got = NothingRead /\ \A p \in Packs : new.got[p].n = 0
    /\ NoReload.pc = "idle" /\ Begun.pc = "scan" /\ Begun.left = Packs
<1>1. NotRead \in [kind : {"absent", "ok"}, n : 0..MaxEdits] /\ NotRead.n = 0
  BY ReloadAssumption DEF NotRead
<1>2. NothingRead \in PackIndex /\ \A p \in Packs : NothingRead[p].n = 0
  BY <1>1 DEF NothingRead, PackIndex
<1>3. NoReload \in Reload /\ NoReload.got = NothingRead /\ NoReload.pc = "idle"
  BY <1>2 DEF NoReload, Reload
<1>4. Begun \in Reload /\ Begun.got = NothingRead /\ Begun.pc = "scan" /\ Begun.left = Packs
  BY <1>2 DEF Begun, Reload
<1> QED
  BY <1>2, <1>3, <1>4

\* The server starts with the index of what is installed, and one command for
\* the runner host.
LEMMA InitReloadInv == ASSUME Init PROVE ReloadInv
<1> USE ReloadAssumption
<1>1. disk \in [Packs -> Manifest] /\ disk \in PackIndex
  BY DEF Init, Manifest, PackIndex, NotRead
<1>2. NoReload \in Reload
  BY NothingReadYet
<1>3. TypeOK
  <2>1. queue \in Seq(PackIndex)
    BY <1>1 DEF Init
  <2>2. runner \in PackIndex
    BY NothingReadYet DEF Init
  <2>3. disk \in [Packs -> Manifest] /\ index \in PackIndex
    BY <1>1 DEF Init
  <2>4. reload \in [Reloaders -> Reload]
    BY <1>2 DEF Init
  <2>5. /\ fsEvents \in 0..MaxPending
        /\ watcher \in {"none", "starting", "watching", "ended"}
        /\ phase \in {"serving", "draining", "exited"}
        /\ edits \in 0..MaxEdits /\ reloads \in 0..MaxReloads
    BY DEF Init
  <2>6. debouncing \in BOOLEAN /\ raced \in BOOLEAN /\ refused \in BOOLEAN
    BY DEF Init
  <2> QED
    BY <2>1, <2>2, <2>3, <2>4, <2>5, <2>6 DEF TypeOK
<1>4. NotNewer
  <2>1. \A p \in Packs : disk[p].n = 0
    BY DEF Init, NotRead
  <2>2. edits = 0 /\ index = disk /\ \A x \in Reloaders : reload[x] = NoReload
    BY DEF Init
  <2>3. \A x \in Reloaders, p \in Packs : reload[x].got[p].n = 0
    BY <2>2, NothingReadYet
  <2> SUFFICES ASSUME NEW p \in Packs
               PROVE  /\ disk[p].n <= edits
                      /\ index[p].n <= disk[p].n
                      /\ \A x \in Reloaders : reload[x].got[p].n <= disk[p].n
    BY DEF NotNewer
  <2>4. disk[p].n = 0 /\ index[p].n = 0 /\ edits = 0
    BY <2>1, <2>2
  <2> QED
    BY <2>3, <2>4
<1>5. Fresh
  BY DEF Init, Fresh, NoReload
<1>6. Passed
  BY DEF Init, Passed, NoReload
<1> QED
  BY <1>3, <1>4, <1>5, <1>6 DEF ReloadInv

-----------------------------------------------------------------------------
(* One lemma per kind of step                                              *)

\* A change of a manifest makes the disk newer and nothing else.
LEMMA StepEdit ==
    ASSUME ReloadInv, NEW p \in Packs, NEW kind \in {"absent", "bad", "ok"}, edit(p, kind)
    PROVE  ReloadInv'
<1> USE ReloadAssumption DEF ReloadInv
<1>1. TypeOK'
  <2>1. [kind |-> kind, n |-> edits + 1] \in Manifest
    BY DEF edit, TypeOK, Manifest
  <2>2. disk' \in [Packs -> Manifest]
    BY <2>1 DEF edit, TypeOK
  <2>3. fsEvents' \in 0..MaxPending
    BY DEF edit, TypeOK, NotifiedOnce
  <2> QED
    BY <2>2, <2>3 DEF edit, TypeOK
<1>2. NotNewer'
  <2> SUFFICES ASSUME NEW q \in Packs
               PROVE  /\ disk'[q].n <= edits' /\ disk[q].n <= disk'[q].n
                      /\ index[q].n \in Nat /\ disk[q].n \in Nat /\ disk'[q].n \in Nat
                      /\ \A x \in Reloaders : reload[x].got[q].n \in Nat
    BY DEF NotNewer, edit
  <2>1. disk[q].n \in Nat /\ index[q].n \in Nat /\ \A x \in Reloaders : reload[x].got[q].n \in Nat
    BY DEF TypeOK, Manifest, PackIndex, Reload
  <2>2. disk'[q].n = IF q = p THEN edits + 1 ELSE disk[q].n
    BY DEF edit, TypeOK
  <2> QED
    BY <2>1, <2>2 DEF edit, TypeOK, NotNewer
<1>3. Fresh' /\ Passed'
  BY DEF edit, Fresh, Passed
<1> QED
  BY <1>1, <1>2, <1>3

\* A request, or the watcher, begins a reload.
LEMMA StepBegin ==
    ASSUME ReloadInv, NEW x \in Reloaders, reload[x].pc = "idle", Begin(x),
           UNCHANGED <<disk, index, queue, runner, edits, raced, refused>>,
           fsEvents' \in 0..MaxPending, debouncing' \in BOOLEAN, reloads' \in 0..MaxReloads,
           UNCHANGED <<watcher, phase>>
    PROVE  ReloadInv'
<1> USE ReloadAssumption DEF ReloadInv
<1>1. Begun \in Reload /\ Begun.pc = "scan" /\ Begun.left = Packs /\ \A p \in Packs : Begun.got[p].n = 0
  BY NothingReadYet
<1>2. reload' \in [Reloaders -> Reload] /\ reload' = [reload EXCEPT ![x] = Begun]
  BY <1>1 DEF Begin, TypeOK
<1>4. TypeOK'
  BY <1>2 DEF TypeOK
<1>5. \A y \in Reloaders : reload'[y] = IF y = x THEN Begun ELSE reload[y]
  BY <1>2 DEF TypeOK
<1>6. NotNewer'
  <2>1. \A p \in Packs : disk[p].n \in Nat
    BY DEF TypeOK, Manifest
  <2> QED
    BY <1>1, <1>5, <2>1 DEF NotNewer
<1>7. Fresh'
  BY <1>1, <1>5 DEF Fresh
<1>8. Passed'
  BY <1>1, <1>5 DEF Passed
<1> QED
  BY <1>4, <1>6, <1>7, <1>8

\* A manifest is read: it is not older than the index entry.
LEMMA StepBuild ==
    ASSUME ReloadInv, NEW x \in Reloaders, NEW p \in Packs, build_step(x, p)
    PROVE  ReloadInv'
<1> USE ReloadAssumption DEF ReloadInv
<1>0. /\ UNCHANGED <<disk, index, queue, runner, edits, raced, refused>>
      /\ reload[x].pc = "scan"
  BY DEF build_step
<1>1. reload[x] \in Reload /\ NoReload \in Reload
  BY NothingReadYet DEF TypeOK
<1>2. CASE disk[p].kind = "bad"
  <2>1. \A y \in Reloaders : reload'[y] = IF y = x THEN NoReload ELSE reload[y]
    BY <1>2 DEF build_step, TypeOK
  <2>2. TypeOK'
    BY <1>1, <1>2 DEF TypeOK, build_step
  <2>3. NoReload.pc = "idle" /\ \A q \in Packs : NoReload.got[q].n = 0
    BY NothingReadYet
  <2>4. \A q \in Packs : disk[q].n \in Nat
    BY DEF TypeOK, Manifest
  <2>5. NotNewer'
    BY <1>0, <2>1, <2>3, <2>4 DEF NotNewer
  <2>6. Fresh'
    BY <1>0, <2>1, <2>3 DEF Fresh
  <2>7. Passed'
    BY <1>0, <2>1, <2>3 DEF Passed
  <2> QED
    BY <2>2, <2>5, <2>6, <2>7
<1>3. CASE disk[p].kind # "bad"
  <2> DEFINE rest == reload[x].left \ {p}
             new == [reload[x] EXCEPT !.got[p] = disk[p], !.left = rest,
                                      !.pc = IF rest = {} THEN "built" ELSE "scan"]
  <2>1. disk[p] \in [kind : {"absent", "ok"}, n : 0..MaxEdits]
    BY <1>3 DEF TypeOK, Manifest
  <2>2. new \in Reload
    BY <1>1, <2>1 DEF Reload, PackIndex
  <2>3. reload' = [reload EXCEPT ![x] = new]
    BY <1>3 DEF build_step
  <2>4. \A y \in Reloaders : reload'[y] = IF y = x THEN new ELSE reload[y]
    BY <2>3 DEF TypeOK
  <2>5. /\ new.pc \in {"scan", "built"} /\ new.left = rest /\ new.crossed = reload[x].crossed
        /\ new.pc = "built" => rest = {}
        /\ \A q \in Packs : new.got[q] = IF q = p THEN disk[p] ELSE reload[x].got[q]
    BY <1>1 DEF Reload, PackIndex
  <2> HIDE DEF new
  <2>6. TypeOK'
    BY <2>2, <2>3 DEF TypeOK, build_step
  <2>7. \A q \in Packs : disk[q].n \in Nat
    BY DEF TypeOK, Manifest
  <2>8. NotNewer'
    BY <1>0, <2>4, <2>5, <2>7 DEF NotNewer
  <2>9. Fresh'
    BY <1>0, <2>4, <2>5 DEF Fresh, NotNewer
  <2>10. Passed'
    BY <1>0, <2>4, <2>5 DEF Passed
  <2> QED
    BY <2>6, <2>8, <2>9, <2>10
<1> QED
  BY <1>2, <1>3

\* An install marks every other reload as overtaken, and is raced if one of
\* them has installed and not submitted.
LEMMA StepInstall ==
    ASSUME ReloadInv, NEW x \in Reloaders, install(x)
    PROVE  ReloadInv'
<1> USE ReloadAssumption DEF ReloadInv
<1>1. \A y \in Reloaders :
        /\ reload'[y] \in Reload
        /\ reload'[y].got = reload[y].got /\ reload'[y].left = reload[y].left
        /\ reload'[y].pc = IF y = x THEN "swapped" ELSE reload[y].pc
        /\ y # x => reload'[y].crossed = (reload[y].pc # "idle")
  BY DEF install, TypeOK, Reload
<1>2. TypeOK'
  <2>1. reload' \in [Reloaders -> Reload]
    BY <1>1 DEF install
  <2>2. index' \in PackIndex
    BY DEF install, TypeOK, Reload
  <2>3. raced' \in BOOLEAN
    BY DEF install
  <2> QED
    BY <2>1, <2>2, <2>3 DEF install, TypeOK
<1>3. NotNewer'
  BY <1>1 DEF NotNewer, install
<1>4. Fresh'
  <2> SUFFICES ASSUME NEW y \in Reloaders
               PROVE  /\ reload'[y].pc = "built" => reload'[y].left = {}
                      /\ reload'[y].pc \in {"scan", "built"} => reload'[y].crossed
    BY DEF Fresh
  <2>1. CASE y = x
    BY <1>1, <2>1
  <2>2. CASE y # x
    BY <1>1, <2>2 DEF Fresh
  <2> QED
    BY <2>1, <2>2
<1>5. Passed'
  <2> SUFFICES ASSUME ~raced' PROVE Passed'
    BY DEF Passed
  <2>a. ~(\E y \in Reloaders \ {x} : reload[y].pc = "swapped")
    BY Zenon DEF install
  <2>0. \A y \in Reloaders \ {x} : reload[y].pc # "swapped"
    BY <2>a
  <2>1. \A y \in Reloaders \ {x} : reload'[y].pc # "swapped"
    BY <1>1, <2>0
  <2>2. reload'[x].pc = "swapped" /\ reload'[x].got = index'
    BY <1>1 DEF install
  <2> QED
    BY <2>1, <2>2 DEF Passed
<1> QED
  BY <1>2, <1>3, <1>4, <1>5

\* A command is queued: the last one, when nothing raced, is the index.
LEMMA StepSubmit ==
    ASSUME ReloadInv, NEW x \in Reloaders, submit(x)
    PROVE  ReloadInv'
<1> USE ReloadAssumption DEF ReloadInv
<1>1. \A y \in Reloaders : reload'[y] = IF y = x THEN NoReload ELSE reload[y]
  BY DEF submit, TypeOK
<1>2. /\ NoReload \in Reload /\ NoReload.pc = "idle"
      /\ \A p \in Packs : NoReload.got[p].n = 0
  BY NothingReadYet
<1>3. queue \in Seq(PackIndex) /\ reload[x].got \in PackIndex
  BY DEF TypeOK, Reload
<1>4. queue' \in Seq(PackIndex) /\ queue' # <<>> /\ queue'[Len(queue')] = reload[x].got
  BY <1>3 DEF submit
<1>5. TypeOK'
  BY <1>2, <1>4 DEF TypeOK, submit
<1>6. NotNewer'
  <2>1. \A p \in Packs : disk[p].n \in Nat
    BY DEF TypeOK, Manifest
  <2> QED
    BY <1>1, <1>2, <2>1 DEF NotNewer, submit
<1>7. Fresh'
  BY <1>1, <1>2 DEF Fresh, submit
<1>8. Passed'
  BY <1>1, <1>2, <1>4 DEF Passed, submit
<1> QED
  BY <1>5, <1>6, <1>7, <1>8

\* The runner host is given the first command, the last one when there is no
\* other.
LEMMA StepProxy ==
    ASSUME ReloadInv, proxy_runner_loop
    PROVE  ReloadInv'
<1> USE ReloadAssumption DEF ReloadInv
<1>1. queue \in Seq(PackIndex) /\ queue # <<>>
  BY DEF TypeOK, proxy_runner_loop
<1>2. /\ Head(queue) \in PackIndex /\ Tail(queue) \in Seq(PackIndex)
      /\ Head(queue) = queue[1] /\ Len(queue) \in Nat \ {0}
      /\ Tail(queue) = <<>> => Len(queue) = 1
      /\ Tail(queue) # <<>> => Tail(queue)[Len(Tail(queue))] = queue[Len(queue)]
  <2>1. /\ Head(queue) \in PackIndex /\ Tail(queue) \in Seq(PackIndex)
        /\ Head(queue) = queue[1] /\ Len(queue) \in Nat \ {0}
        /\ Len(Tail(queue)) = Len(queue) - 1
        /\ \A i \in 1..Len(Tail(queue)) : Tail(queue)[i] = queue[i + 1]
    BY <1>1, HeadTailProperties
  <2>2. Tail(queue) = <<>> <=> Len(Tail(queue)) = 0
    BY <2>1, EmptySeq
  <2> QED
    BY <2>1, <2>2
<1>3. PICK accepted \in BOOLEAN :
        /\ runner' = IF RunnerBase /\ accepted THEN Head(queue) ELSE runner
        /\ refused' = (RunnerBase /\ ~accepted)
  BY DEF proxy_runner_loop
<1>4. TypeOK'
  BY <1>2, <1>3 DEF TypeOK, proxy_runner_loop
<1>5. NotNewer' /\ Fresh'
  BY DEF NotNewer, Fresh, proxy_runner_loop
<1>6. Passed'
  BY <1>2, <1>3 DEF Passed, proxy_runner_loop
<1> QED
  BY <1>4, <1>5, <1>6

-----------------------------------------------------------------------------

\* Every step keeps the invariant.
LEMMA NextReloadInv == ASSUME ReloadInv, [Next]_vars PROVE ReloadInv'
<1> USE ReloadAssumption
<1>1. ASSUME NEW p \in Packs, NEW kind \in {"absent", "bad", "ok"}, edit(p, kind)
      PROVE  ReloadInv'
  BY <1>1, StepEdit
<1>2. ASSUME NEW r \in Requests, reload_packs_http(r) PROVE ReloadInv'
  <2>1. r \in Reloaders /\ reloads' \in 0..MaxReloads
    BY <1>2 DEF Reloaders, reload_packs_http, ReloadInv, TypeOK
  <2> QED
    BY <1>2, <2>1, StepBegin DEF reload_packs_http, ReloadInv, TypeOK
<1>3. ASSUME NEW x \in Reloaders, NEW p \in Packs, build_step(x, p) PROVE ReloadInv'
  BY <1>3, StepBuild
<1>4. ASSUME NEW x \in Reloaders, install(x) PROVE ReloadInv'
  BY <1>4, StepInstall
<1>5. ASSUME NEW x \in Reloaders, submit(x) PROVE ReloadInv'
  BY <1>5, StepSubmit
<1>6. ASSUME watch_event PROVE ReloadInv'
  <2>1. Watcher \in Reloaders /\ fsEvents' \in 0..MaxPending
    BY <1>6 DEF Reloaders, watch_event, ReloadInv, TypeOK
  <2>2. CASE debouncing /\ UNCHANGED <<debouncing, reload>>
    BY <1>6, <2>1, <2>2 DEF watch_event, ReloadInv, TypeOK, NotNewer, Fresh, Passed
  <2>3. CASE ~debouncing /\ debouncing' = TRUE /\ Begin(Watcher)
    BY <1>6, <2>1, <2>3, StepBegin DEF watch_event, ReloadInv, TypeOK
  <2> QED
    BY <1>6, <2>2, <2>3 DEF watch_event
<1>7. ASSUME proxy_runner_loop PROVE ReloadInv'
  BY <1>7, StepProxy
<1>8. ASSUME watch_start \/ window_over \/ shutdown_signal \/ exit PROVE ReloadInv'
  BY <1>8 DEF watch_start, window_over, shutdown_signal, exit, ReloadInv, TypeOK, NotNewer,
              Fresh, Passed
<1>9. CASE UNCHANGED vars
  BY <1>9 DEF vars, ReloadInv, TypeOK, NotNewer, Fresh, Passed
<1> QED
  BY <1>1, <1>2, <1>3, <1>4, <1>5, <1>6, <1>7, <1>8, <1>9 DEF Next

\* The invariant holds with any number of packs, requests and changes.
THEOREM ReloadInvariant == Safety => []ReloadInv
<1>1. Init => ReloadInv
  BY InitReloadInv
<1>2. ReloadInv /\ [Next]_vars => ReloadInv'
  BY NextReloadInv
<1> QED
  BY <1>1, <1>2, PTL DEF Safety

\* Every variable of the pack reload keeps its type.
THEOREM ReloadTypes == Safety => []TypeOK
<1>1. ReloadInv => TypeOK
  BY DEF ReloadInv
<1> QED
  BY <1>1, ReloadInvariant, PTL

\* Once its channel is empty and every reload has submitted, the runner host
\* has the server's index, unless it refused it or two installs raced.
THEOREM RunnerKeepsUp == Safety => []RunnerHasServerIndex
<1>1. ReloadInv => RunnerHasServerIndex
  BY DEF ReloadInv, Passed, RunnerHasServerIndex, Settled
<1> QED
  BY <1>1, ReloadInvariant, PTL

\* GET /packs goes back to an older state of a pack only by an install that
\* another one overtook.
THEOREM IndexGoesForward == Safety => IndexGoesBackOnlyWhenCrossed
<1> DEFINE Back == \E p \in Packs : index'[p].n < index[p].n
           Crossed == \E x \in Reloaders : reload[x].pc = "built" /\ reload[x].crossed
<1>1. ASSUME ReloadInv, [Next]_vars, Back PROVE Crossed
  <2>1. PICK p \in Packs : index'[p].n < index[p].n
    BY <1>1
  <2>2. index' # index
    BY <2>1, <1>1 DEF ReloadInv, TypeOK, PackIndex
  <2>3. PICK x \in Reloaders : install(x)
    BY <1>1, <2>2 DEF Next, vars, edit, reload_packs_http, build_step, submit, watch_start,
                      watch_event, window_over, proxy_runner_loop, shutdown_signal, exit
  <2>4. reload[x].pc = "built" /\ index' = reload[x].got
    BY <2>3 DEF install
  <2>5. index[p].n \in Nat /\ index'[p].n \in Nat
    BY <1>1, <2>4 DEF ReloadInv, TypeOK, PackIndex, Reload
  <2>6. reload[x].crossed
    BY <1>1, <2>1, <2>4, <2>5 DEF ReloadInv, Fresh, TypeOK, Reload
  <2> QED
    BY <2>4, <2>6
<1>2. ReloadInv /\ [Next]_vars => [Back => Crossed]_vars
  BY <1>1
<1> QED
  BY <1>2, ReloadInvariant, PTL DEF Safety, IndexGoesBackOnlyWhenCrossed
=============================================================================
