----------------------------- MODULE PackReload -----------------------------
(***************************************************************************)
(* The server's pack index and everything that replaces it: the build at   *)
(* start, POST /packs/reload, the file watcher of `serve --watch` with its *)
(* 500 ms debounce, and the proxy loop that passes each new index on to    *)
(* the runner host.  Ends with the server's shutdown.                      *)
(*                                                                         *)
(* A reload is not atomic: it reads the manifests one by one, replaces the *)
(* index under the lock, and submits the command after releasing it, so    *)
(* two reloads, or a reload and an editor, interleave.                     *)
(***************************************************************************)
EXTENDS Naturals, Sequences

CONSTANTS
    Packs,       \* directories there may be under the packs root
    Installed,   \* those with a manifest when the server starts
    Requests,    \* POST /packs/reload handlers that may run at the same time
    Watcher,     \* the task that runs watch_packs
    RunnerBase,  \* whether the URL of a runner host is configured
    MaxEdits,    \* bound: changes to manifests
    MaxReloads,  \* bound: POST /packs/reload
    MaxPending   \* cap of the unread watcher events; more are like this many

Reloaders == Requests \cup {Watcher}

ASSUME ReloadAssumption ==
    /\ Installed \subseteq Packs
    /\ Watcher \notin Requests
    /\ RunnerBase \in BOOLEAN
    /\ MaxEdits \in Nat /\ MaxReloads \in Nat
    /\ MaxPending \in Nat \ {0, 1}

VARIABLES
    disk,        \* what each pack's manifest file holds
    fsEvents,    \* watcher events not yet received
    index,       \* AppState.pack_index
    reload,      \* each reloader's running reload
    debouncing,  \* last_reload was less than 500 ms ago
    watcher,     \* the watch task: "none", "starting", "watching", "ended"
    queue,       \* RunnerCommand::ReloadPacks in the proxy's channel
    runner,      \* the index the runner host accepted last
    phase,       \* "serving", "draining" after ctrl-c, "exited"
    edits,       \* changes to manifests so far
    reloads      \* POST /packs/reload so far

\* History variables: read by properties, never by a guard.
VARIABLES
    raced,   \* the last index was installed before an earlier one was submitted
    refused  \* the proxy's last forward failed

vars == <<disk, fsEvents, index, reload, debouncing, watcher, queue, runner,
          phase, edits, reloads, raced, refused>>

\* A manifest that is not there, that does not parse (a bad one, or one an
\* editor is in the middle of saving), or that parses.  n tells which change
\* of the directory made it so.
Manifest == [kind: {"absent", "bad", "ok"}, n: 0..MaxEdits]
NotRead == [kind |-> "absent", n |-> 0]

\* An index, with the absent packs in it only to carry their n.
PackIndex == [Packs -> [kind: {"absent", "ok"}, n: 0..MaxEdits]]

Reload ==
    [pc: {"idle", "scan", "built", "swapped"},
     left: SUBSET Packs,   \* directories not read yet
     got: PackIndex,
     crossed: BOOLEAN]     \* history: another index was installed meanwhile

NothingRead == [p \in Packs |-> NotRead]
NoReload == [pc |-> "idle", left |-> {}, got |-> NothingRead, crossed |-> FALSE]
Begun == [pc |-> "scan", left |-> Packs, got |-> NothingRead, crossed |-> FALSE]

TypeOK ==
    /\ disk \in [Packs -> Manifest]
    /\ fsEvents \in 0..MaxPending
    /\ index \in PackIndex
    /\ reload \in [Reloaders -> Reload]
    /\ debouncing \in BOOLEAN
    /\ watcher \in {"none", "starting", "watching", "ended"}
    /\ queue \in Seq(PackIndex)
    /\ runner \in PackIndex
    /\ phase \in {"serving", "draining", "exited"}
    /\ edits \in 0..MaxEdits /\ reloads \in 0..MaxReloads
    /\ raced \in BOOLEAN /\ refused \in BOOLEAN

\* serve has built the index and submitted it; a bad manifest would have
\* ended it.  The watch task of --watch is spawned and has not run yet.
Init ==
    /\ disk = [p \in Packs |-> IF p \in Installed THEN [kind |-> "ok", n |-> 0] ELSE NotRead]
    /\ index = disk
    /\ queue = <<index>>
    /\ runner = NothingRead
    /\ fsEvents = 0 /\ debouncing = FALSE
    /\ watcher \in {"none", "starting"}
    /\ reload = [x \in Reloaders |-> NoReload]
    /\ phase = "serving"
    /\ edits = 0 /\ reloads = 0
    /\ raced = FALSE /\ refused = FALSE

Running == phase # "exited"

\* The watcher callback: tx.send(event), once the watch is in place.
NotifiedOnce == fsEvents' = IF watcher = "watching" /\ fsEvents < MaxPending
                            THEN fsEvents + 1 ELSE fsEvents

-----------------------------------------------------------------------------
(* The packs directory                                                     *)

\* Somebody creates, replaces, removes or half-writes a manifest.
edit(p, kind) ==
    /\ edits < MaxEdits
    /\ kind # "absent" \/ disk[p].kind # "absent"
    /\ edits' = edits + 1
    /\ disk' = [disk EXCEPT ![p] = [kind |-> kind, n |-> edits + 1]]
    /\ NotifiedOnce
    /\ UNCHANGED <<index, reload, debouncing, watcher, queue, runner, phase, reloads,
                   raced, refused>>

-----------------------------------------------------------------------------
(* A reload: reload_packs_http in a handler, reload_packs in the watcher   *)

Begin(x) == reload' = [reload EXCEPT ![x] = Begun]

reload_packs_http(r) ==
    /\ phase = "serving"
    /\ reload[r].pc = "idle"
    /\ reloads < MaxReloads
    /\ reloads' = reloads + 1
    /\ Begin(r)
    /\ UNCHANGED <<disk, fsEvents, index, debouncing, watcher, queue, runner, phase, edits,
                   raced, refused>>

\* Mutant: the scan stops at the first manifest it could read.
MutantBuildStep(x, p) ==
    /\ Running /\ reload[x].pc = "scan" /\ p \in reload[x].left
    /\ reload' = IF disk[p].kind = "bad" THEN [reload EXCEPT ![x] = NoReload]
                 ELSE [reload EXCEPT ![x].got[p] = disk[p], ![x].pc = "built", ![x].left = {}]
    /\ UNCHANGED <<disk, fsEvents, index, debouncing, watcher, queue, runner, phase, edits,
                   reloads, raced, refused>>

\* Mutant: a manifest that does not parse is indexed as it is.
MutantLenientBuild(x, p) ==
    /\ Running /\ reload[x].pc = "scan" /\ p \in reload[x].left
    /\ LET left == reload[x].left \ {p}
       IN  reload' = [reload EXCEPT ![x].got[p] = disk[p], ![x].left = left,
                                   ![x].pc = IF left = {} THEN "built" ELSE "scan"]
    /\ UNCHANGED <<disk, fsEvents, index, debouncing, watcher, queue, runner, phase, edits,
                   reloads, raced, refused>>

\* build_pack_index reads the next manifest.  One that does not parse ends
\* the whole reload.
build_step(x, p) ==
    /\ Running
    /\ reload[x].pc = "scan"
    /\ p \in reload[x].left
    /\ LET left == reload[x].left \ {p}
       IN  reload' = IF disk[p].kind = "bad" THEN [reload EXCEPT ![x] = NoReload]
                     ELSE [reload EXCEPT ![x].got[p] = disk[p], ![x].left = left,
                                         ![x].pc = IF left = {} THEN "built" ELSE "scan"]
    /\ UNCHANGED <<disk, fsEvents, index, debouncing, watcher, queue, runner, phase, edits,
                   reloads, raced, refused>>

\* Mutant: the new index is not submitted.
MutantInstall(x) ==
    /\ Running /\ reload[x].pc = "built"
    /\ index' = reload[x].got
    /\ reload' = [reload EXCEPT ![x] = NoReload]
    /\ UNCHANGED <<disk, fsEvents, debouncing, watcher, queue, runner, phase, edits,
                   reloads, raced, refused>>

\* *guard = index, under the write lock.
install(x) ==
    /\ Running
    /\ reload[x].pc = "built"
    /\ index' = reload[x].got
    /\ reload' = [y \in Reloaders |->
                    IF y = x THEN [reload[x] EXCEPT !.pc = "swapped"]
                    ELSE [reload[y] EXCEPT !.crossed = reload[y].pc # "idle"]]
    /\ raced' = \E y \in Reloaders \ {x} : reload[y].pc = "swapped"
    /\ UNCHANGED <<disk, fsEvents, debouncing, watcher, queue, runner, phase, edits,
                   reloads, refused>>

\* runner_proxy.submit, after which the handler answers with its own index.
submit(x) ==
    /\ Running
    /\ reload[x].pc = "swapped"
    /\ queue' = Append(queue, reload[x].got)
    /\ reload' = [reload EXCEPT ![x] = NoReload]
    /\ UNCHANGED <<disk, fsEvents, index, debouncing, watcher, runner, phase, edits,
                   reloads, raced, refused>>

-----------------------------------------------------------------------------
(* watch_packs                                                             *)

\* The watch is put in place, or cannot be and the task ends with a warning.
watch_start ==
    /\ Running
    /\ watcher = "starting"
    /\ watcher' \in {"watching", "ended"}
    /\ UNCHANGED <<disk, fsEvents, index, reload, debouncing, queue, runner, phase, edits,
                   reloads, raced, refused>>

\* Mutant: the debounce the wrong way round.
MutantWatchEvent ==
    /\ Running /\ watcher = "watching" /\ reload[Watcher].pc = "idle"
    /\ fsEvents > 0
    /\ fsEvents' = fsEvents - 1
    /\ IF debouncing THEN Begin(Watcher) ELSE UNCHANGED reload
    /\ debouncing' = TRUE
    /\ UNCHANGED <<disk, index, watcher, queue, runner, phase, edits, reloads, raced, refused>>

\* rx.recv: an event within 500 ms of the start of the last reload is dropped.
watch_event ==
    /\ Running
    /\ watcher = "watching" /\ reload[Watcher].pc = "idle"
    /\ fsEvents > 0
    /\ fsEvents' = fsEvents - 1
    /\ \/ debouncing /\ UNCHANGED <<debouncing, reload>>
       \/ ~debouncing /\ debouncing' = TRUE /\ Begin(Watcher)
    /\ UNCHANGED <<disk, index, watcher, queue, runner, phase, edits, reloads, raced, refused>>

window_over ==
    /\ debouncing
    /\ debouncing' = FALSE
    /\ UNCHANGED <<disk, fsEvents, index, reload, watcher, queue, runner, phase, edits,
                   reloads, raced, refused>>

-----------------------------------------------------------------------------
(* proxy_runner_loop                                                       *)

\* One command is taken and forwarded; a forward that fails is logged and
\* not tried again.
proxy_runner_loop ==
    /\ Running
    /\ queue # <<>>
    /\ queue' = Tail(queue)
    /\ \E accepted \in BOOLEAN :
         /\ runner' = IF RunnerBase /\ accepted THEN Head(queue) ELSE runner
         /\ refused' = (RunnerBase /\ ~accepted)
    /\ UNCHANGED <<disk, fsEvents, index, reload, debouncing, watcher, phase, edits,
                   reloads, raced>>

-----------------------------------------------------------------------------
(* The end of serve                                                        *)

\* ctrl-c: no new request is accepted.
shutdown_signal ==
    /\ phase = "serving"
    /\ phase' = "draining"
    /\ UNCHANGED <<disk, fsEvents, index, reload, debouncing, watcher, queue, runner,
                   edits, reloads, raced, refused>>

\* Mutant: the watch task is spawned even without --watch.
MutantJoined == watcher = "ended"

\* tasks.join_next returned None: the watch task, if any, has ended.
Joined == watcher \in {"none", "ended"}

\* serve returns, and the runtime goes down with whatever is still queued.
exit ==
    /\ phase = "draining"
    /\ \A r \in Requests : reload[r].pc = "idle"
    /\ Joined
    /\ phase' = "exited"
    /\ UNCHANGED <<disk, fsEvents, index, reload, debouncing, watcher, queue, runner,
                   edits, reloads, raced, refused>>

Next ==
    \/ \E p \in Packs, kind \in {"absent", "bad", "ok"} : edit(p, kind)
    \/ \E r \in Requests : reload_packs_http(r)
    \/ \E x \in Reloaders, p \in Packs : build_step(x, p)
    \/ \E x \in Reloaders : install(x)
    \/ \E x \in Reloaders : submit(x)
    \/ watch_start
    \/ watch_event
    \/ window_over
    \/ proxy_runner_loop
    \/ shutdown_signal
    \/ exit

\* A started reload runs on, the watch task is scheduled, time passes, and a
\* shut-down server that can exit does.  Edits, requests, ctrl-c and the
\* runner host's answers are not assumed.
Fairness ==
    /\ \A x \in Reloaders :
         /\ WF_vars(\E p \in Packs : build_step(x, p))
         /\ WF_vars(install(x))
         /\ WF_vars(submit(x))
    /\ WF_vars(watch_start)
    /\ WF_vars(watch_event)
    /\ WF_vars(window_over)
    /\ WF_vars(exit)

Safety == Init /\ [][Next]_vars
Spec == Safety /\ Fairness

-----------------------------------------------------------------------------
(* Properties                                                              *)

\* GET /packs never goes back to an older state of a pack, except by a reload
\* whose scan another reload's index overtook.
IndexGoesBackOnlyWhenCrossed ==
    [][(\E p \in Packs : index'[p].n < index[p].n)
         => \E x \in Reloaders : reload[x].pc = "built" /\ reload[x].crossed]_vars

\* When nothing is queued or about to be, the runner host works with the
\* index the server shows, unless the host refused it or two reloads
\* installed and submitted in opposite orders.
Settled == queue = <<>> /\ \A x \in Reloaders : reload[x].pc # "swapped"
RunnerHasServerIndex ==
    RunnerBase /\ Settled /\ ~raced /\ ~refused => runner = index

\* A change the watcher is told of while it is idle and out of its debounce
\* window is picked up, unless another change follows or a manifest is bad.
Readable == \A p \in Packs : disk[p].kind # "bad"
NoticedEdit(n) ==
    /\ phase = "serving" /\ watcher = "watching" /\ reload[Watcher].pc = "idle"
    /\ ~debouncing /\ fsEvents > 0
    /\ n > 0 /\ n = edits /\ Readable
Shown(n) == \A p \in Packs : disk[p].n = n => index[p] = disk[p]
LoneEditIsPickedUp ==
    \A n \in 1..MaxEdits : NoticedEdit(n) ~> (Shown(n) \/ edits > n \/ phase = "exited")

\* Without --watch a ctrl-c ends the server once its requests are answered.
ShutdownWithoutWatchEnds ==
    (phase = "draining" /\ watcher = "none") ~> phase = "exited"

\* "running servers must call /packs/reload or run with --watch to pick up
\* changes" (main.rs:1187): a readable change that the watcher is told of
\* shows.  The event of the n-th change, or of one before it, is still unread,
\* so the n-th was made with the watch in place.
WatchPicksUpChanges ==
    \A n \in 1..MaxEdits :
        (phase = "serving" /\ watcher = "watching" /\ fsEvents > 0 /\ edits = n /\ Readable)
          ~> (Shown(n) \/ edits > n \/ phase # "serving")

\* After the log line "shutdown signal received" comes "server shut down
\* cleanly" (main.rs:1427, 696): a draining server exits.
ShutdownEnds == phase = "draining" ~> phase = "exited"
=============================================================================
