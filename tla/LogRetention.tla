----------------------------- MODULE LogRetention -----------------------------
(***************************************************************************)
(* Diagnostic logs: rows are appended by every part of the service, removed *)
(* by a user's selection, and swept by age and quota, both when a policy   *)
(* is configured and each time a process opens the data root               *)
(* (QuantDomain.__init__ calls apply_log_retention).  Service and worker   *)
(* are processes of their own over one database.  The opening sweep reads  *)
(* the policies first and deletes afterwards, project by project, a        *)
(* transaction each.  Readers page through the logs meanwhile.             *)
(***************************************************************************)
EXTENDS Naturals, Sequences, FiniteSets, FiniteSetsExt, SequencesExt

CONSTANTS
    Processes,      \* processes that open the data root
    Projects,
    Shapes,         \* [level, priority, size] of the rows that are written
    Policies,       \* [debug, info, warn, quota] that users configure
    DefaultPolicy,  \* of a project that has no diagnostic_log_retention row
    PageSize,       \* limit of log_page
    MaxVariables,   \* SQLITE_MAX_VARIABLE_NUMBER of the SQLite build
    MaxLogs,        \* bound: rows written
    MaxDay,         \* bound: days that pass
    MaxCrashes,     \* bound: processes that stop
    None

Levels == {"debug", "info", "warn", "error"}
Priorities == {"p1", "p2", "p3", "p4"}
Policy == [debug : Nat, info : Nat, warn : Nat, quota : Nat]

\* What the constants have to be.
Constants ==
    /\ Shapes \subseteq [level : Levels, priority : Priorities, size : Nat]
    /\ Policies \cup {DefaultPolicy} \subseteq Policy /\ None \notin Policy
    /\ PageSize \in Nat \ {0} /\ MaxVariables \in Nat \ {0}
    /\ MaxLogs \in Nat /\ MaxDay \in Nat /\ MaxCrashes \in Nat

VARIABLES
    today,      \* the clock, in days
    logs,       \* rows of diagnostic_logs
    written,    \* the log_seq of the latest row, which AUTOINCREMENT never reuses
    policies,   \* diagnostic_log_retention
    processes,  \* what each process is doing, and the policies it has read
    inForce,    \* policies in force for a project since a process read its own
    listing,    \* a reader's pages of a project's logs
    crashes

vars == <<today, logs, written, policies, processes, inForce, listing, crashes>>

Effective(q) == IF policies[q] = None THEN DefaultPolicy ELSE policies[q]

Down == [pc |-> "down", read |-> None, todo |-> {}]
NoListing == [pc |-> "idle", project |-> None, cursor |-> 0, seen |-> <<>>, there |-> {}]

Init ==
    /\ today = 0
    /\ logs = {}
    /\ written = 0
    /\ policies = [q \in Projects |-> None]
    /\ processes = [p \in Processes |-> Down]
    /\ inForce = [p \in Processes |-> [q \in Projects |-> {}]]
    /\ listing = NoListing
    /\ crashes = 0

-----------------------------------------------------------------------------
(* _delete_expired_logs *)

Of(q) == {row \in logs : row.project = q}

Protected(row) == row.level = "error" \/ row.priority = "p1"

Expired(q, policy) ==
    {row \in Of(q) : /\ ~Protected(row)
                     /\ row.day + policy[row.level] < today}

Bytes(rows) == MapThenSumSet(LAMBDA row : row.size, rows)

Rank(level) == CASE level = "debug" -> 0 [] level = "info" -> 1 [] OTHER -> 2

\* ORDER BY level, timestamp, log_seq
Before(a, b) ==
    \/ Rank(a.level) < Rank(b.level)
    \/ Rank(a.level) = Rank(b.level) /\ a.day < b.day
    \/ Rank(a.level) = Rank(b.level) /\ a.day = b.day /\ a.seq < b.seq

\* Fault: the second query forgets that P1 rows are kept.
QuotaCandidatesWithP1(rows) == {row \in rows : row.level # "error"}

QuotaCandidates(rows) == {row \in rows : ~Protected(row)}

\* Fault: once over the quota every candidate goes.
NeededAlways(rows, row, quota) == Bytes(rows) > quota

\* A candidate goes while what is left after those before it is over the quota.
Needed(rows, row, quota) ==
    Bytes(rows) > quota + Bytes({other \in QuotaCandidates(rows) : Before(other, row)})

OverQuota(rows, quota) == {row \in QuotaCandidates(rows) : Needed(rows, row, quota)}

\* What a sweep of project q under a policy removes.
Swept(q, policy) ==
    LET old == Expired(q, policy) IN
    old \cup OverQuota(Of(q) \ old, policy.quota)

\* Fault: the protected rows are named too.
DeletableAll(q, policy) == Cardinality(Of(q)) <= MaxVariables

\* A statement takes at most MaxVariables placeholders; with more the whole
\* transaction fails.
Deletable(q, policy) ==
    LET old == Expired(q, policy) IN
    /\ Cardinality(old) <= MaxVariables
    /\ Cardinality(OverQuota(Of(q) \ old, policy.quota)) <= MaxVariables

-----------------------------------------------------------------------------
(* Writing, deleting and configuring *)

\* Fault: rows are numbered by how many there are.
NextLogSeqCounted == Cardinality(logs) + 1

NextLogSeq == written + 1

\* _insert_log, as part of whatever is being recorded.
InsertLog(q, shape) ==
    /\ written < MaxLogs
    /\ written' = NextLogSeq
    /\ logs' = logs \cup {[seq |-> NextLogSeq, project |-> q, day |-> today,
                           level |-> shape.level, priority |-> shape.priority,
                           size |-> shape.size]}
    /\ UNCHANGED <<today, policies, processes, inForce, listing, crashes>>

\* diagnostic.log_delete: by ids or by predicates, always within the project, in one
\* statement that names them all.
DeleteLogs(q, selected) ==
    /\ selected \subseteq Of(q)
    /\ Cardinality(selected) <= MaxVariables
    /\ logs' = logs \ selected
    /\ UNCHANGED <<today, written, policies, processes, inForce, listing, crashes>>

\* diagnostic.log_retention_configure stores the policy and sweeps at once; it fails
\* as a whole when a statement is too long.
Configure(q, policy) ==
    /\ Deletable(q, policy)
    /\ policies' = [policies EXCEPT ![q] = policy]
    /\ logs' = logs \ Swept(q, policy)
    /\ inForce' = [p \in Processes |->
           [inForce[p] EXCEPT ![q] = IF processes[p].pc = "sweep" THEN @ \cup {policy} ELSE @]]
    /\ UNCHANGED <<today, written, processes, listing, crashes>>

-----------------------------------------------------------------------------
(* apply_log_retention: a process opens the data root *)

\* One query, outside any transaction, reads the policies of all projects.
ReadPolicies(p) ==
    /\ processes[p].pc = "down"
    /\ processes' = [processes EXCEPT ![p] =
           [pc |-> "sweep", read |-> [q \in Projects |-> Effective(q)], todo |-> Projects]]
    /\ inForce' = [inForce EXCEPT ![p] = [q \in Projects |-> {Effective(q)}]]
    /\ UNCHANGED <<today, logs, written, policies, listing, crashes>>

\* A transaction for the next project, under the policy that was read; a statement
\* that is too long ends the process instead.
SweepProject(p, q) ==
    LET policy == processes[p].read[q] IN
    /\ processes[p].pc = "sweep"
    /\ q \in processes[p].todo
    /\ IF Deletable(q, policy)
         THEN /\ logs' = logs \ Swept(q, policy)
              /\ processes' = [processes EXCEPT ![p].todo = @ \ {q}]
         ELSE /\ processes' = [processes EXCEPT ![p] = Down]
              /\ UNCHANGED logs
    /\ UNCHANGED <<today, written, policies, inForce, listing, crashes>>

Serve(p) ==
    /\ processes[p].pc = "sweep"
    /\ processes[p].todo = {}
    /\ processes' = [processes EXCEPT ![p] = [Down EXCEPT !.pc = "up"]]
    /\ inForce' = [inForce EXCEPT ![p] = [q \in Projects |-> {}]]
    /\ UNCHANGED <<today, logs, written, policies, listing, crashes>>

\* A process stops, before or after it serves.
Crash(p) ==
    /\ processes[p].pc # "down"
    /\ crashes < MaxCrashes
    /\ crashes' = crashes + 1
    /\ processes' = [processes EXCEPT ![p] = Down]
    /\ inForce' = [inForce EXCEPT ![p] = [q \in Projects |-> {}]]
    /\ UNCHANGED <<today, logs, written, policies, listing>>

Tomorrow ==
    /\ today < MaxDay
    /\ today' = today + 1
    /\ UNCHANGED <<logs, written, policies, processes, inForce, listing, crashes>>

-----------------------------------------------------------------------------
(* log_page *)

\* ORDER BY log_seq: the row that stands at the i-th place.
Nth(rows, i) == CHOOSE row \in rows : Cardinality({other \in rows : other.seq <= row.seq}) = i

\* The first rows of the project after the cursor, in order of log_seq.
Page(q, cursor) ==
    LET after == {row \in Of(q) : row.seq > cursor} IN
    [i \in 1..Min({PageSize, Cardinality(after)}) |-> Nth(after, i)]

LogSeqs(rows) == {row.seq : row \in rows}

Seqs(page) == [i \in DOMAIN page |-> page[i].seq]

List(q) ==
    /\ listing.pc = "idle"
    /\ listing' = [pc |-> "paging", project |-> q, cursor |-> 0, seen |-> <<>>,
                   there |-> LogSeqs(Of(q))]
    /\ UNCHANGED <<today, logs, written, policies, processes, inForce, crashes>>

\* Fault: the next page begins after as many rows as were seen, not after the last.
NextCursorByOffset(page) == listing.cursor + Len(page)

NextCursor(page) == page[Len(page)].seq

\* next_after_log_seq is the last row's of a full page; a page that is not full is
\* the last one.
ReadPage ==
    LET page == Page(listing.project, listing.cursor) IN
    /\ listing.pc = "paging"
    /\ listing' =
           IF Len(page) = PageSize
             THEN [listing EXCEPT !.seen = @ \o Seqs(page), !.there = @ \cap LogSeqs(logs),
                                  !.cursor = NextCursor(page)]
             ELSE NoListing
    /\ UNCHANGED <<today, logs, written, policies, processes, inForce, crashes>>

-----------------------------------------------------------------------------
User(q) ==
    \/ \E selected \in SUBSET Of(q) : selected # {} /\ DeleteLogs(q, selected)
    \/ \E policy \in Policies : Configure(q, policy)
    \/ List(q)

Start(p) ==
    \/ ReadPolicies(p)
    \/ \E q \in Projects : SweepProject(p, q)
    \/ Serve(p)

Next ==
    \/ \E q \in Projects : User(q) \/ \E shape \in Shapes : InsertLog(q, shape)
    \/ \E p \in Processes : Start(p) \/ Crash(p)
    \/ ReadPage
    \/ Tomorrow

Spec == Init /\ [][Next]_vars

\* A process that is started runs on.
FairSpec == Spec /\ \A p \in Processes : WF_vars(Start(p))

-----------------------------------------------------------------------------
(* Properties *)

Rows ==
    [seq : 1..MaxLogs, project : Projects, day : 0..MaxDay, level : Levels,
     priority : Priorities, size : Nat]

\* Every variable holds what the code can put there, and log_seq identifies a row.
TypeOK ==
    /\ today \in 0..MaxDay /\ written \in 0..MaxLogs /\ crashes \in 0..MaxCrashes
    /\ logs \subseteq Rows
    /\ \A row \in logs : row.seq <= written
    /\ \A a, b \in logs : a.seq = b.seq => a = b
    /\ policies \in [Projects -> Policy \cup {None}]
    /\ \A p \in Processes :
          /\ processes[p].pc \in {"down", "sweep", "up"}
          /\ processes[p].pc = "sweep" => processes[p].read \in [Projects -> Policy]
          /\ processes[p].todo \subseteq Projects
    /\ inForce \in [Processes -> [Projects -> SUBSET Policy]]
    /\ listing.pc \in {"idle", "paging"}
    /\ listing.there \subseteq 1..MaxLogs /\ listing.seen \in Seq(1..MaxLogs)

\* The rows a step takes away, and whether a user selected them.
Removed == logs \ logs'

ByUser == \E q \in Projects : Removed \subseteq Of(q) /\ DeleteLogs(q, Removed)

\* What a sweep takes from a project and leaves of it, judged by what a policy promises
\* (docs/05_LOGGING_AND_RETENTION.md:25): error and P1 rows stay, over the quota or not;
\* nothing unprotected stays beyond its age; less than the quota, unless all that is left is
\* protected; and of the rows that went before their age, each was lower in level or
\* older than every unprotected row that stayed, and went while the rest was over.
Permitted(q, policy) ==
    LET left == Of(q) \cap logs'
        evicted == {row \in Removed : row.day + policy[row.level] >= today}
    IN
    /\ \A row \in Removed : ~Protected(row)
    /\ \A row \in left : ~Protected(row) => row.day + policy[row.level] >= today
    /\ Bytes(left) <= policy.quota \/ \A row \in left : Protected(row)
    /\ \A row \in evicted, kept \in left : ~Protected(kept) => Before(row, kept)
    /\ \A row \in evicted :
          Bytes(left) + Bytes({other \in evicted : ~Before(other, row)}) > policy.quota

\* Every sweep of a project follows a policy that was in force for it at some moment
\* since the sweep began: the one just configured, or one that stood while the opening
\* process was under way, for apply_log_retention reads before it deletes.
SweptByAPolicy ==
    [][Removed # {} =>
          \/ ByUser
          \/ \E q \in Projects :
                /\ Removed \subseteq Of(q)
                /\ \/ policies'[q] # None /\ Permitted(q, policies'[q])
                   \/ \E p \in Processes : \E policy \in inForce[p][q] : Permitted(q, policy)
      ]_vars

\* A listing that has come to its end shows, in order and once each, every row that was
\* there from its first page to its last, whatever was written, deleted and swept in
\* between (log_page hands out the last log_seq, not an offset).
PagesComplete ==
    [][listing.pc = "paging" /\ listing'.pc = "idle" =>
          LET seen == listing.seen \o Seqs(Page(listing.project, listing.cursor)) IN
          /\ \A i, k \in DOMAIN seen : i < k => seen[i] < seen[k]
          /\ listing.there \cap LogSeqs(logs) \subseteq ToSet(seen)]_vars

\* A process that is started again whenever it ends serves again and again, unless from
\* some moment on a project holds more rows a sweep may take than one statement can
\* name: then no process ever opens the data root.
Opens ==
    \A p \in Processes :
        \/ []<>(processes[p].pc = "up")
        \/ <>[](\E q \in Projects :
                  Cardinality({row \in Of(q) : ~Protected(row)}) > MaxVariables)
=============================================================================
