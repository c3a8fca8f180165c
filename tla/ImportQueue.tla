---------------------------- MODULE ImportQueue ----------------------------
(***************************************************************************)
(* The approval queue.  `splora-queue` appends the rows clients post, and  *)
(* the operator's `splora-import` moves an npub from the queue file to the *)
(* allowlist file, rejects it, or removes it from the allowlist.           *)
(*                                                                         *)
(* Every change of a file is a read of the whole file, a write of its      *)
(* sibling `.tmp` and a rename over the file.  Threads of `splora-queue`   *)
(* do all three under `disk`; `splora-import` is another process and takes *)
(* no lock.  A file of rows is a function from npubs to what the row says; *)
(* the order of lines is left out, and the email of a row is represented   *)
(* by the length of the line.  Requests that validation or the rate limit  *)
(* refuses touch no file and are left out.                                 *)
(***************************************************************************)
EXTENDS FiniteSetsExt

CONSTANTS
    Npubs,
    Emails,       \* line lengths a post may have
    NoRow,        \* the npub has no line
    NoFile,       \* there is no .tmp file
    NoJob,        \* a process that was never started
    Posters,      \* concurrent POST requests of splora-queue
    Operators,    \* splora-import processes
    Nobody,       \* the mutex is free
    MaxRows, MaxBytes

Procs == Posters \cup Operators
Row == Emails \cup {NoRow}
QueueFile == [Npubs -> Row]
Job == [op : {"submit", "approve", "reject", "remove"}, npub : Npubs, row : Row]

ASSUME QueueAssumption ==
    /\ Emails \subseteq Nat
    /\ NoRow \notin Emails
    /\ Nobody \notin Procs
    /\ Posters \cap Operators = {}
    /\ IsFiniteSet(Npubs)
    /\ MaxRows \in Nat /\ MaxBytes \in Nat

VARIABLES
    queue, queueTmp,   \* the queue file and its .tmp
    allow, allowTmp,   \* the allowlist file and its .tmp
    disk,              \* QueueStore::disk: who holds it
    pc,                \* where a process is
    job,               \* what it was asked to do
    rows,              \* the queue file it is about to write
    keys,              \* the allowlist it is about to write
    accepted,          \* the queue as the answers given so far say it is
    approved           \* the allowlist as the answers given so far say it is

files == <<queue, queueTmp, allow, allowTmp>>
answers == <<accepted, approved>>
vars == <<files, disk, pc, job, rows, keys, answers>>

EmptyQueue == [n \in Npubs |-> NoRow]
Lines(q) == {n \in Npubs : q[n] # NoRow}
Bytes(q) == MapThenSumSet(LAMBDA n : q[n], Lines(q))

Init ==
    /\ queue = EmptyQueue /\ queueTmp = NoFile
    /\ allow = {} /\ allowTmp = NoFile
    /\ disk = Nobody
    /\ pc = [p \in Procs |-> "idle"]
    /\ job = [p \in Procs |-> NoJob]
    /\ rows = [p \in Procs |-> EmptyQueue]
    /\ keys = [p \in Procs |-> {}]
    /\ accepted = EmptyQueue /\ approved = {}

Goto(p, l) == pc' = [pc EXCEPT ![p] = l]

EndHolding(S) ==
    /\ pc' = [p \in Procs |-> IF p \in S THEN "idle" ELSE pc[p]]
    /\ job' = [p \in Procs |-> IF p \in S THEN NoJob ELSE job[p]]
    /\ rows' = [p \in Procs |-> IF p \in S THEN EmptyQueue ELSE rows[p]]
    /\ keys' = [p \in Procs |-> IF p \in S THEN {} ELSE keys[p]]
    /\ UNCHANGED disk

(* The processes of S end: their locals and the guard of `disk` die.       *)
End(S) ==
    /\ pc' = [p \in Procs |-> IF p \in S THEN "idle" ELSE pc[p]]
    /\ job' = [p \in Procs |-> IF p \in S THEN NoJob ELSE job[p]]
    /\ rows' = [p \in Procs |-> IF p \in S THEN EmptyQueue ELSE rows[p]]
    /\ keys' = [p \in Procs |-> IF p \in S THEN {} ELSE keys[p]]
    /\ disk' = IF disk \in S THEN Nobody ELSE disk

Begin(p, j, l) ==
    /\ pc[p] = "idle"
    /\ job' = [job EXCEPT ![p] = j]
    /\ Goto(p, l)
    /\ UNCHANGED <<files, disk, rows, keys, answers>>

-----------------------------------------------------------------------------
(* submit_impl, one action per file access.                                *)

Submit(p, n, e) == Begin(p, [op |-> "submit", npub |-> n, row |-> e], "lock")

MayLockAnyway(p) == TRUE
MayLock(p) == disk = Nobody

LockDisk(p) ==
    /\ pc[p] = "lock" /\ MayLock(p)
    /\ disk' = p
    /\ Goto(p, "load")
    /\ UNCHANGED <<files, job, rows, keys, answers>>

HasRoomOffByOne(q, n, e) ==
    \/ n \in Lines(q)
    \/ Cardinality(Lines(q)) <= MaxRows /\ Bytes(q) + e <= MaxBytes

(* A new npub needs room; an npub that has a line is always updated.       *)
HasRoom(q, n, e) ==
    \/ n \in Lines(q)
    \/ Cardinality(Lines(q)) < MaxRows /\ Bytes(q) + e <= MaxBytes

(* load_queue, then the row the job is about is set, or dropped.  reject   *)
(* fails when there is no such row.                                        *)
Fails(p) ==
    \/ job[p].op = "submit" /\ ~HasRoom(queue, job[p].npub, job[p].row)
    \/ job[p].op = "reject" /\ job[p].npub \notin Lines(queue)

LoadQueue(p) ==
    /\ pc[p] = "load"
    /\ ~Fails(p)
    /\ rows' = [rows EXCEPT ![p] = [queue EXCEPT ![job[p].npub] = job[p].row]]
    /\ Goto(p, "stage")
    /\ UNCHANGED <<files, disk, job, keys, answers>>

Refuse(p) ==
    /\ pc[p] = "load"
    /\ Fails(p)
    /\ End({p})
    /\ UNCHANGED <<files, answers>>

(* write_queue: the .tmp file, then the rename.  The rename fails when     *)
(* another process has renamed the shared .tmp already.                    *)
StageQueue(p) ==
    /\ pc[p] = "stage"
    /\ queueTmp' = rows[p]
    /\ Goto(p, "rename")
    /\ UNCHANGED <<queue, allow, allowTmp, disk, job, rows, keys, answers>>

RenameQueue(p) ==
    /\ pc[p] = "rename" /\ queueTmp # NoFile
    /\ queue' = queueTmp /\ queueTmp' = NoFile
    /\ accepted' = [accepted EXCEPT ![job[p].npub] = job[p].row]
    /\ IF job[p].op = "approve"
         THEN Goto(p, "load allowlist") /\ UNCHANGED <<disk, job, rows, keys>>
         ELSE End({p})
    /\ UNCHANGED <<allow, allowTmp, approved>>

RenameFails(p) ==
    /\ \/ pc[p] = "rename" /\ queueTmp = NoFile
       \/ pc[p] = "rename allowlist" /\ allowTmp = NoFile
    /\ End({p})
    /\ UNCHANGED <<files, answers>>

-----------------------------------------------------------------------------
(* splora-import.                                                          *)

Approve(p, n) == Begin(p, [op |-> "approve", npub |-> n, row |-> NoRow], "load")
Reject(p, n)  == Begin(p, [op |-> "reject", npub |-> n, row |-> NoRow], "load")
RemoveNpub(p, n) == Begin(p, [op |-> "remove", npub |-> n, row |-> NoRow], "load allowlist")

Truncated(S, j) == IF j.op = "approve" THEN {j.npub} ELSE S \ {j.npub}

(* upsert_allowlist and remove_npub.                                       *)
Upserted(S, j) == IF j.op = "approve" THEN S \cup {j.npub} ELSE S \ {j.npub}

LoadAllowlist(p) ==
    /\ pc[p] = "load allowlist"
    /\ keys' = [keys EXCEPT ![p] = Upserted(allow, job[p])]
    /\ Goto(p, "stage allowlist")
    /\ UNCHANGED <<files, disk, job, rows, answers>>

(* fsync_lines.                                                            *)
StageAllowlist(p) ==
    /\ pc[p] = "stage allowlist"
    /\ allowTmp' = keys[p]
    /\ Goto(p, "rename allowlist")
    /\ UNCHANGED <<queue, queueTmp, allow, disk, job, rows, keys, answers>>

RenameAllowlist(p) ==
    /\ pc[p] = "rename allowlist" /\ allowTmp # NoFile
    /\ allow' = allowTmp /\ allowTmp' = NoFile
    /\ approved' = IF job[p].op = "approve" THEN approved \cup {job[p].npub}
                                            ELSE approved \ {job[p].npub}
    /\ End({p})
    /\ UNCHANGED <<queue, queueTmp, accepted>>

-----------------------------------------------------------------------------
(* splora-queue dies and its unit starts it again: every request is lost,  *)
(* the mutex is new.  A splora-import process dies alone.                  *)
RestartQueue ==
    /\ \E p \in Posters : pc[p] # "idle"
    /\ End(Posters)
    /\ UNCHANGED <<files, answers>>

Die(p) ==
    /\ pc[p] # "idle"
    /\ End({p})
    /\ UNCHANGED <<files, answers>>

Step(p) ==
    \/ LockDisk(p)
    \/ LoadQueue(p)
    \/ Refuse(p)
    \/ StageQueue(p)
    \/ RenameQueue(p)
    \/ RenameFails(p)
    \/ LoadAllowlist(p)
    \/ StageAllowlist(p)
    \/ RenameAllowlist(p)

Next ==
    \/ \E p \in Posters, n \in Npubs, e \in Emails : Submit(p, n, e)
    \/ \E p \in Operators, n \in Npubs : Approve(p, n) \/ Reject(p, n) \/ RemoveNpub(p, n)
    \/ \E p \in Procs : Step(p)
    \/ RestartQueue
    \/ \E p \in Operators : Die(p)

(* A running process takes its next step; a thread that waits for the      *)
(* mutex while others come and go is served in the end.                    *)
Fairness == \A p \in Procs : WF_vars(Step(p)) /\ SF_vars(LockDisk(p))

Spec == Init /\ [][Next]_vars /\ Fairness

-----------------------------------------------------------------------------
Places == {"idle", "lock", "load", "stage", "rename",
           "load allowlist", "stage allowlist", "rename allowlist"}

(* Every variable has its type, and an idle process does not hold the      *)
(* mutex of the queue.                                                     *)
TypeOK ==
    /\ queue \in QueueFile
    /\ queueTmp = NoFile \/ queueTmp \in QueueFile
    /\ allow \subseteq Npubs
    /\ allowTmp = NoFile \/ allowTmp \subseteq Npubs
    /\ disk \in Posters \cup {Nobody}
    /\ pc \in [Procs -> Places]
    /\ job \in [Procs -> Job \cup {NoJob}]
    /\ \A p \in Procs : pc[p] = "idle" \/ job[p] \in Job
    /\ rows \in [Procs -> QueueFile]
    /\ keys \in [Procs -> SUBSET Npubs]
    /\ accepted \in QueueFile
    /\ approved \subseteq Npubs
    /\ \A p \in Procs : disk = p => pc[p] # "idle"

(* With no splora-import at work, the queue file is what the answers to    *)
(* the posts say: concurrent submits and a crash between the .tmp file and *)
(* the rename lose, revive or mix no row.                                  *)
QueueExact == queue = accepted

(* The queue file never has more than max_rows lines, even when            *)
(* splora-import writes it behind the back of splora-queue.                *)
WithinCap == Cardinality(Lines(queue)) <= MaxRows

(* The allowlist file is what the results of splora-import say: approve    *)
(* adds exactly one npub, remove drops exactly one.                        *)
AllowExact == allow = approved

(* Every request and every command comes to an end.                        *)
Answered == \A p \in Procs : pc[p] # "idle" ~> pc[p] = "idle"
=============================================================================
