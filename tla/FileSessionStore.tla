-------------------------- MODULE FileSessionStore --------------------------
(***************************************************************************)
(* FileSessionStore: a map in memory, rewritten to one JSON file after     *)
(* each change.  A process reads the file once, when it opens the store,   *)
(* and from then on believes its own map.  The server is one process; each *)
(* `sessions purge` on the command line is another one on the same file.   *)
(*                                                                         *)
(* fs::write truncates the file and then writes it, so a reader or a crash *)
(* can meet the file in between, and two processes' writes can mix.        *)
(***************************************************************************)
EXTENDS SessionFilters, Naturals

CONSTANTS
    Server,        \* the server process
    Clis,          \* one-shot `sessions purge` processes
    UpsertInputs,  \* [key, tenant, team, user] of the upserts tried
    Filters,       \* the filters of the purges tried
    MaxUpserts     \* bound: upserts in a behaviour

Processes == {Server} \cup Clis

ASSUME FileAssumption ==
    /\ Server \notin Clis
    /\ Filters \subseteq SessionFilter
    /\ UpsertInputs \subseteq
         [key: Text, tenant: Text, team: Option(Text), user: Option(Text)]
    /\ MaxUpserts \in Nat

VARIABLES
    disk,   \* what the file holds
    mem,    \* each process's map
    pc,     \* "down", "up", "writing" (between truncating the file and filling
            \* it), or "done": a command that has purged
    clock   \* upserts so far; the stamp of the last one

\* History variables: read by properties, never by a guard.
VARIABLES
    disturbed,  \* the server's map and the file may differ (DurableSessions)
    alone,      \* command-line processes that have been alone on the file
    target,     \* what the purge of a command takes away
    purged,     \* records a command purged and persisted
    gone        \* those purged by a command that was alone on the file

history == <<disturbed, alone, target, purged, gone>>
vars    == <<disk, mem, pc, clock, history>>

Record ==
    [key: Text, tenant: Text, team: Option(Text), user: Option(Text),
     stamp: 1..MaxUpserts]

\* Mutant: the entry goes under its user id.
MutantStamped(u, n) ==
    [key |-> u.user, tenant |-> u.tenant, team |-> u.team, user |-> u.user, stamp |-> n]

\* The record made of an upsert; n stands for updated_at.
Stamped(u, n) ==
    [key |-> u.key, tenant |-> u.tenant, team |-> u.team, user |-> u.user, stamp |-> n]

\* The file: absent, truncated, partly written (not JSON), or a JSON array.
Missing == [kind |-> "missing", rows |-> {}]
Empty0  == [kind |-> "empty",   rows |-> {}]
Torn    == [kind |-> "torn",    rows |-> {}]
File(S) == [kind |-> "rows",    rows |-> S]

\* load_from_disk, with the error FileSessionStore::new turns into an empty map.
Loaded(f) == f.rows

TypeOK ==
    /\ disk.kind \in {"missing", "empty", "torn", "rows"}
    /\ disk.rows \in SUBSET Record
    /\ disk.kind # "rows" => disk.rows = {}
    /\ mem \in [Processes -> SUBSET Record]
    /\ pc \in [Processes -> {"down", "up", "writing", "done"}]
    /\ clock \in 0..MaxUpserts
    /\ disturbed \in BOOLEAN
    /\ alone \subseteq Clis
    /\ target \in [Processes -> SUBSET Record]
    /\ gone \subseteq purged /\ purged \subseteq Record

Init ==
    /\ disk = Missing
    /\ mem = [p \in Processes |-> {}]
    /\ pc = [p \in Processes |-> "down"]
    /\ clock = 0
    /\ disturbed = FALSE /\ alone = {} /\ purged = {} /\ gone = {}
    /\ target = [p \in Processes |-> {}]

OthersDown(p) == \A q \in Processes \ {p} : pc[q] = "down"
Writing == {p \in Processes : pc[p] = "writing"}

\* Where a process stands after a change: the server serves on, a command
\* has done its one purge.
Changed(p) == IF p = Server THEN "up" ELSE "done"

-----------------------------------------------------------------------------
(* Opening the store                                                       *)

\* FileSessionStore::new.  A missing file is created; one that cannot be
\* created, read or parsed gives an empty map and no error.
Open(p) ==
    /\ pc[p] = "down"
    /\ pc' = [pc EXCEPT ![p] = "up"]
    /\ \E readable \in BOOLEAN :
         /\ mem' = [mem EXCEPT ![p] = IF readable THEN Loaded(disk) ELSE {}]
         /\ disk' = IF disk.kind = "missing" /\ readable THEN File({}) ELSE disk
         /\ disturbed' = IF p = Server
                         THEN Writing # {} \/ mem'[p] # Loaded(disk) ELSE disturbed
    /\ alone' = IF p # Server /\ OthersDown(p) THEN {p} ELSE {}
    /\ UNCHANGED <<clock, target, purged, gone>>

-----------------------------------------------------------------------------
(* Changing it.  The mutex is held from here to the end of the write.      *)

\* persist, up to the truncation: create_dir_all or the open may fail, which
\* leaves the file as it was and the map changed.
Change(p, new) ==
    /\ pc[p] = "up"
    /\ mem' = [mem EXCEPT ![p] = new]
    /\ target' = IF p = Server THEN target ELSE [target EXCEPT ![p] = mem[p] \ new]
    /\ \/ /\ pc' = [pc EXCEPT ![p] = "writing"]
          /\ disk' = Empty0
          /\ disturbed' = (disturbed \/ p # Server)
          /\ alone' = alone \ (Clis \ {p})
       \/ /\ pc' = [pc EXCEPT ![p] = Changed(p)]
          /\ disturbed' = (disturbed \/ (p = Server /\ new # mem[p]))
          /\ UNCHANGED <<disk, alone>>
    /\ UNCHANGED <<purged, gone>>

\* Mutant: the entry already under the key stays.
MutantUpsert(p, u) ==
    /\ clock < MaxUpserts
    /\ clock' = clock + 1
    /\ Change(p, mem[p] \cup {Stamped(u, clock + 1)})

upsert(p, u) ==
    /\ clock < MaxUpserts
    /\ clock' = clock + 1
    /\ LET record == Stamped(u, clock + 1)
       IN  Change(p, {s \in mem[p] : s.key # record.key} \cup {record})

\* Mutant: the map changes and the file is not rewritten.
MutantRemove(p, key) ==
    /\ pc[p] = "up"
    /\ mem' = [mem EXCEPT ![p] = {s \in @ : s.key # key}]
    /\ UNCHANGED <<disk, pc, clock, history>>

\* remove rewrites the file even when the key was not there.
remove(p, key) == Change(p, {s \in mem[p] : s.key # key}) /\ UNCHANGED clock

\* purge rewrites it only when something was removed.
purge(p, filter) ==
    LET kept == {s \in mem[p] : ~matches(filter, s)}
    IN  kept # mem[p] /\ Change(p, kept) /\ UNCHANGED clock

\* Mutant: the rows written are those of the map before the change.
MutantFinishWrite(p) ==
    /\ pc[p] = "writing"
    /\ pc' = [pc EXCEPT ![p] = Changed(p)]
    /\ disk' \in IF disk.kind = "empty" THEN {File(mem[p] \cup target[p])} ELSE {File(mem[p] \cup target[p]), Torn}
    /\ disturbed' = IF p = Server THEN disk' # File(mem[p] \cup target[p]) \/ Writing # {p} ELSE TRUE
    /\ purged' = IF p = Server THEN purged ELSE purged \cup target[p]
    /\ gone' = IF p \in alone THEN gone \cup target[p] ELSE gone
    /\ UNCHANGED <<mem, clock, alone, target>>

\* The rest of fs::write.  On a file another process has filled since the
\* truncation, the bytes of the two writes may mix.
FinishWrite(p) ==
    /\ pc[p] = "writing"
    /\ pc' = [pc EXCEPT ![p] = Changed(p)]
    /\ disk' \in IF disk.kind = "empty" THEN {File(mem[p])} ELSE {File(mem[p]), Torn}
    /\ disturbed' = IF p = Server THEN disk' # File(mem[p]) \/ Writing # {p} ELSE TRUE
    /\ purged' = IF p = Server THEN purged ELSE purged \cup target[p]
    /\ gone' = IF p \in alone THEN gone \cup target[p] ELSE gone
    /\ UNCHANGED <<mem, clock, alone, target>>

\* fs::write fails after the truncation (no space): the caller gets an error.
FailWrite(p) ==
    /\ pc[p] = "writing"
    /\ pc' = [pc EXCEPT ![p] = Changed(p)]
    /\ disk' \in {disk, Torn}
    /\ disturbed' = TRUE
    /\ UNCHANGED <<mem, clock, alone, target, purged, gone>>

-----------------------------------------------------------------------------
\* The process ends: the server is stopped or dies, the command is done.
Exit(p) ==
    /\ pc[p] # "down"
    /\ pc' = [pc EXCEPT ![p] = "down"]
    /\ mem' = [mem EXCEPT ![p] = {}]
    /\ disk' \in IF pc[p] = "writing" THEN {disk, Torn} ELSE {disk}
    /\ disturbed' = (disturbed \/ pc[p] = "writing")
    /\ alone' = alone \ {p}
    /\ target' = [target EXCEPT ![p] = {}]
    /\ UNCHANGED <<clock, purged, gone>>

Next ==
    \/ \E p \in Processes : Open(p)
    \/ \E u \in UpsertInputs : upsert(Server, u)
    \/ \E u \in UpsertInputs : remove(Server, u.key)
    \/ \E p \in Processes, f \in Filters : purge(p, f)
    \/ \E p \in Processes : FinishWrite(p)
    \/ \E p \in Processes : FailWrite(p)
    \/ \E p \in Processes : Exit(p)

Spec == Init /\ [][Next]_vars

-----------------------------------------------------------------------------
(* Properties                                                              *)

\* As long as nothing disturbed the store, the server's map and the file say
\* the same, so an error-free history leaves nothing to lose in a restart.
FileFollowsMap ==
    ~disturbed => CASE pc[Server] = "up"      -> Loaded(disk) = mem[Server]
                    [] pc[Server] = "writing" -> disk = Empty0
                    [] OTHER                  -> TRUE

\* The store is the durable set of sessions it stands for: seen from the
\* server, undisturbed contents change only by upsert, remove and purge, and
\* neither stopping nor starting the process is such a change.
Content == IF pc[Server] = "down" THEN Loaded(disk) ELSE mem[Server]
Durable == INSTANCE DurableSessions
           WITH Records <- {Stamped(u, n) : u \in UpsertInputs, n \in 1..MaxUpserts},
                content <- Content, disturbed <- disturbed, Selects <- matches
ImplementsDurableSessions == Durable!Spec

\* A purge by a process that was alone on the file from opening it to the
\* end of its write is final: nothing brings those records back.
LonePurgeIsFinal == gone \cap (disk.rows \cup UNION {mem[p] : p \in Processes}) = {}

\* `greentic-integration sessions purge` is "Used by end-to-end tests to
\* guarantee a clean slate" (docs/APP_DESIGN.md:60): what a purge that
\* succeeded took out of the file does not come back.
PurgeGivesCleanSlate == purged \cap disk.rows = {}
=============================================================================
