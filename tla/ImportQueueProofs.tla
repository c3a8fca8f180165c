------------------------- MODULE ImportQueueProofs -------------------------
(***************************************************************************)
(* Theorems about getting in and being let in: ImportQueue, for any number *)
(* of posts, npubs and crashes; RateLimit, the budget before the queue;    *)
(* and Access, the signed request and the gate.                            *)
(***************************************************************************)
EXTENDS ImportQueue, RateLimit, Access, FiniteSetTheorems, SequenceTheorems, TLAPS

(* Posters only submit and stay on the path of submit_impl; operators do   *)
(* everything else and never go for the mutex.                             *)
PathInv ==
    /\ \A p \in Posters :
         pc[p] # "idle" => /\ job[p].op = "submit"
                           /\ pc[p] \in {"lock", "load", "stage", "rename"}
    /\ \A p \in Operators :
         pc[p] # "idle" => job[p].op # "submit" /\ pc[p] # "lock"

TypeInv == TypeOK /\ PathInv

LEMMA InitType == Init => TypeInv
BY QueueAssumption DEF Init, TypeInv, TypeOK, PathInv, QueueFile, Row, EmptyQueue, Places, Procs

(* Starting a job.                                                         *)
LEMMA BeginType ==
    ASSUME TypeInv, NEW p \in Procs, NEW j \in Job, NEW l \in Places, Begin(p, j, l),
           p \in Posters => j.op = "submit" /\ l = "lock",
           p \in Operators => j.op # "submit" /\ l # "lock"
    PROVE  TypeInv'
<1>1. pc' \in [Procs -> Places] /\ job' \in [Procs -> Job \cup {NoJob}]
  BY DEF TypeInv, TypeOK, Begin, Goto
<1>2. \A q \in Procs : pc'[q] = "idle" \/ job'[q] \in Job
  BY DEF TypeInv, TypeOK, Begin, Goto
<1>3. \A q \in Procs : disk' = q => pc'[q] # "idle"
  <2>1. disk' = disk /\ disk # p
    BY QueueAssumption DEF TypeInv, TypeOK, Begin
  <2>2. \A q \in Procs : q # p => pc'[q] = pc[q]
    BY DEF TypeInv, TypeOK, Begin, Goto
  <2>. QED  BY <2>1, <2>2 DEF TypeInv, TypeOK
<1>4. PathInv'
  BY DEF TypeInv, TypeOK, PathInv, Begin, Goto, Procs
<1>. QED  BY <1>1, <1>2, <1>3, <1>4 DEF TypeInv, TypeOK, Begin, files, answers

(* Ending processes.                                                       *)
LEMMA EndType ==
    ASSUME TypeInv, NEW S \in SUBSET Procs, End(S),
           queue' \in QueueFile, queueTmp' = NoFile \/ queueTmp' \in QueueFile,
           allow' \subseteq Npubs, allowTmp' = NoFile \/ allowTmp' \subseteq Npubs,
           accepted' \in QueueFile, approved' \subseteq Npubs
    PROVE  TypeInv'
<1>1. pc' \in [Procs -> Places] /\ job' \in [Procs -> Job \cup {NoJob}]
  BY DEF TypeInv, TypeOK, End, Places
<1>2. rows' \in [Procs -> QueueFile] /\ keys' \in [Procs -> SUBSET Npubs]
  BY DEF TypeInv, TypeOK, End, EmptyQueue, QueueFile, Row
<1>3. disk' \in Posters \cup {Nobody} /\ \A q \in Procs : disk' = q => pc'[q] # "idle"
  BY QueueAssumption DEF TypeInv, TypeOK, End
<1>4. (\A q \in Procs : pc'[q] = "idle" \/ job'[q] \in Job) /\ PathInv'
  BY DEF TypeInv, TypeOK, PathInv, End, Procs
<1>. QED  BY <1>1, <1>2, <1>3, <1>4 DEF TypeInv, TypeOK

LEMMA NextType == TypeInv /\ [Next]_vars => TypeInv'
<1>. SUFFICES ASSUME TypeInv, [Next]_vars PROVE TypeInv'
  OBVIOUS
<1>. USE DEF TypeInv
<1>1. ASSUME NEW p \in Posters, NEW n \in Npubs, NEW e \in Emails, Submit(p, n, e)
      PROVE  TypeInv'
  <2>. DEFINE j == [op |-> "submit", npub |-> n, row |-> e]
  <2>1. j \in Job /\ j.op = "submit"
    BY DEF Job, Row
  <2>. HIDE DEF j
  <2>2. Begin(p, j, "lock")
    BY <1>1 DEF Submit, j
  <2>. QED  BY <2>1, <2>2, BeginType, QueueAssumption DEF Places, Procs
<1>2. ASSUME NEW p \in Operators, NEW n \in Npubs, Approve(p, n) \/ Reject(p, n) \/ RemoveNpub(p, n)
      PROVE  TypeInv'
  <2>1. PICK op \in {"approve", "reject", "remove"}, l \in {"load", "load allowlist"} :
          Begin(p, [op |-> op, npub |-> n, row |-> NoRow], l)
    BY <1>2 DEF Approve, Reject, RemoveNpub
  <2>. DEFINE j == [op |-> op, npub |-> n, row |-> NoRow]
  <2>2. j \in Job /\ j.op # "submit"
    BY DEF Job, Row
  <2>3. Begin(p, j, l)
    BY <2>1
  <2>. HIDE DEF j
  <2>. QED  BY <2>2, <2>3, BeginType, QueueAssumption DEF Places, Procs
<1>3. ASSUME NEW p \in Procs, LockDisk(p)
      PROVE  TypeInv'
  <2>1. p \in Posters
    BY <1>3 DEF LockDisk, PathInv, Procs
  <2>. QED  BY <1>3, <2>1 DEF LockDisk, Goto, TypeOK, PathInv, Places, Procs, files, answers
<1>4. ASSUME NEW p \in Procs, LoadQueue(p)
      PROVE  TypeInv'
  <2>1. job[p] \in Job /\ job[p].npub \in Npubs /\ job[p].row \in Row
    BY <1>4 DEF LoadQueue, TypeOK, Job
  <2>2. rows' \in [Procs -> QueueFile]
    BY <1>4, <2>1 DEF LoadQueue, TypeOK, QueueFile
  <2>. QED  BY <1>4, <2>2 DEF LoadQueue, Goto, TypeOK, PathInv, Places, Procs, files, answers
<1>5. ASSUME NEW p \in Procs, Refuse(p)
      PROVE  TypeInv'
  BY <1>5, EndType DEF Refuse, TypeOK, files, answers
<1>6. ASSUME NEW p \in Procs, StageQueue(p)
      PROVE  TypeInv'
  BY <1>6 DEF StageQueue, Goto, TypeOK, PathInv, Places, Procs, answers
<1>7. ASSUME NEW p \in Procs, RenameQueue(p)
      PROVE  TypeInv'
  <2>1. job[p] \in Job /\ job[p].npub \in Npubs /\ job[p].row \in Row
    BY <1>7 DEF RenameQueue, TypeOK, Job
  <2>2. /\ queue' \in QueueFile /\ queueTmp' = NoFile
        /\ accepted' \in QueueFile
        /\ UNCHANGED <<allow, allowTmp, approved>>
    BY <1>7, <2>1 DEF RenameQueue, TypeOK, QueueFile
  <2>3. CASE job[p].op = "approve"
    <3>1. p \in Operators
      BY <1>7, <2>3 DEF RenameQueue, PathInv, Procs
    <3>. QED  BY <1>7, <2>2, <2>3, <3>1, QueueAssumption
              DEF RenameQueue, Goto, TypeOK, PathInv, Places, Procs
  <2>4. CASE job[p].op # "approve"
    <3>1. End({p})
      BY <1>7, <2>4 DEF RenameQueue
    <3>. QED  BY <2>2, <3>1, EndType DEF TypeOK
  <2>. QED  BY <2>3, <2>4
<1>8. ASSUME NEW p \in Procs, RenameFails(p)
      PROVE  TypeInv'
  BY <1>8, EndType DEF RenameFails, TypeOK, files, answers
<1>9. ASSUME NEW p \in Procs, LoadAllowlist(p)
      PROVE  TypeInv'
  <2>1. Upserted(allow, job[p]) \subseteq Npubs
    BY <1>9 DEF LoadAllowlist, Upserted, TypeOK, Job
  <2>. QED  BY <1>9, <2>1 DEF LoadAllowlist, Goto, TypeOK, PathInv, Places, Procs, files, answers
<1>10. ASSUME NEW p \in Procs, StageAllowlist(p)
       PROVE  TypeInv'
  BY <1>10 DEF StageAllowlist, Goto, TypeOK, PathInv, Places, Procs, answers
<1>11. ASSUME NEW p \in Procs, RenameAllowlist(p)
       PROVE  TypeInv'
  <2>1. job[p] \in Job
    BY <1>11 DEF RenameAllowlist, TypeOK
  <2>2. approved' \subseteq Npubs /\ allow' \subseteq Npubs
    BY <1>11, <2>1 DEF RenameAllowlist, TypeOK, Job
  <2>. QED  BY <1>11, <2>2, EndType DEF RenameAllowlist, TypeOK
<1>12. CASE RestartQueue
  BY <1>12, EndType DEF RestartQueue, TypeOK, Procs, files, answers
<1>13. ASSUME NEW p \in Operators, Die(p)
       PROVE  TypeInv'
  BY <1>13, EndType DEF Die, TypeOK, Procs, files, answers
<1>14. CASE UNCHANGED vars
  BY <1>14 DEF vars, files, answers, TypeOK, PathInv
<1>. QED  BY <1>1, <1>2, <1>3, <1>4, <1>5, <1>6, <1>7, <1>8, <1>9, <1>10, <1>11, <1>12,
             <1>13, <1>14 DEF Next, Step

(* Every reachable state of the queue has its type: in particular only     *)
(* threads of splora-queue hold the mutex and none keeps it when it ends.  *)
THEOREM TypeCorrect == Spec => []TypeOK
<1>1. Spec => []TypeInv
  BY InitType, NextType, PTL DEF Spec
<1>2. TypeInv => TypeOK
  BY DEF TypeInv
<1>. QED  BY <1>1, <1>2, PTL

-----------------------------------------------------------------------------
(* What the holder of the mutex is about to write is the queue file with   *)
(* its own row changed, because nobody else writes the file meanwhile.     *)
LockInv ==
    \A p \in Posters :
        /\ pc[p] \in {"load", "stage", "rename"} => disk = p
        /\ pc[p] \in {"stage", "rename"} =>
             rows[p] = [queue EXCEPT ![job[p].npub] = job[p].row]
        /\ pc[p] = "rename" => queueTmp = rows[p]

ExactInv == TypeInv /\ LockInv /\ QueueExact

LEMMA EndExact ==
    ASSUME ExactInv, NEW S \in SUBSET Posters, End(S), UNCHANGED <<files, answers>>
    PROVE  (LockInv /\ QueueExact)'
<1>1. QueueExact'
  BY DEF ExactInv, QueueExact, files, answers
<1>2. ASSUME NEW q \in Posters, pc'[q] # "idle"
      PROVE  /\ q \notin S /\ pc'[q] = pc[q] /\ job'[q] = job[q] /\ rows'[q] = rows[q]
             /\ disk = q => disk' = q
  BY <1>2 DEF End, Procs
<1>. QED  BY <1>1, <1>2 DEF ExactInv, LockInv, files, answers

(* With no operator at work, a step of any other poster leaves what the    *)
(* holder of the mutex relies on.                                          *)
LEMMA NextExact ==
    ASSUME Operators = {}
    PROVE  ExactInv /\ [Next]_vars => ExactInv'
<1>. SUFFICES ASSUME ExactInv, [Next]_vars PROVE ExactInv'
  OBVIOUS
<1>. USE DEF ExactInv
<1>0. TypeInv' /\ Procs = Posters
  BY NextType DEF Procs
<1>t. /\ pc \in [Posters -> Places] /\ rows \in [Posters -> QueueFile] /\ queue \in QueueFile
      /\ disk \in Posters \cup {Nobody}
      /\ \A p \in Posters : pc[p] # "idle" => /\ job[p].op = "submit"
                                              /\ pc[p] \in {"lock", "load", "stage", "rename"}
                                              /\ job[p] \in Job
  BY <1>0 DEF TypeInv, TypeOK, PathInv
<1>1. ASSUME NEW p \in Posters, NEW n \in Npubs, NEW e \in Emails, Submit(p, n, e)
      PROVE  (LockInv /\ QueueExact)'
  <2>1. \A q \in Posters : q # p => pc'[q] = pc[q] /\ job'[q] = job[q]
    BY <1>1 DEF Submit, Begin, Goto
  <2>2. pc'[p] = "lock"
    BY <1>1, <1>t DEF Submit, Begin, Goto
  <2>. QED  BY <1>1, <2>1, <2>2 DEF Submit, Begin, LockInv, QueueExact, files, answers
<1>3. ASSUME NEW p \in Posters, LockDisk(p)
      PROVE  (LockInv /\ QueueExact)'
  <2>1. \A q \in Posters : q # p => pc'[q] = pc[q] /\ pc[q] \notin {"load", "stage", "rename"}
    BY <1>3, QueueAssumption, <1>0, <1>t DEF LockDisk, MayLock, Goto, LockInv
  <2>2. pc'[p] = "load" /\ disk' = p
    BY <1>3, <1>t DEF LockDisk, Goto
  <2>. QED  BY <1>3, <2>1, <2>2 DEF LockDisk, LockInv, QueueExact, files, answers
<1>4. ASSUME NEW p \in Posters, LoadQueue(p)
      PROVE  (LockInv /\ QueueExact)'
  <2>1. \A q \in Posters : q # p => pc'[q] = pc[q] /\ rows'[q] = rows[q]
    BY <1>4 DEF LoadQueue, Goto
  <2>2. pc'[p] = "stage" /\ rows'[p] = [queue EXCEPT ![job[p].npub] = job[p].row]
    BY <1>4, <1>t DEF LoadQueue, Goto
  <2>3. disk = p
    BY <1>4 DEF LoadQueue, LockInv
  <2>. QED  BY <1>4, <2>1, <2>2, <2>3 DEF LoadQueue, LockInv, QueueExact, files, answers
<1>5. ASSUME NEW p \in Posters, Refuse(p) \/ RenameFails(p)
      PROVE  (LockInv /\ QueueExact)'
  BY <1>5, EndExact DEF Refuse, RenameFails
<1>6. ASSUME NEW p \in Posters, StageQueue(p)
      PROVE  (LockInv /\ QueueExact)'
  <2>1. disk = p
    BY <1>6 DEF StageQueue, LockInv
  <2>2. \A q \in Posters : q # p => pc'[q] = pc[q] /\ pc[q] # "rename"
    BY <1>6, <2>1, <1>t DEF StageQueue, Goto, LockInv
  <2>3. pc'[p] = "rename"
    BY <1>6, <1>t DEF StageQueue, Goto
  <2>. QED  BY <1>6, <2>1, <2>2, <2>3 DEF StageQueue, LockInv, QueueExact, answers
<1>7. ASSUME NEW p \in Posters, RenameQueue(p)
      PROVE  (LockInv /\ QueueExact)'
  <2>1. disk = p /\ job[p].op = "submit"
    BY <1>7, <1>t DEF RenameQueue, LockInv
  <2>2. queue' = [queue EXCEPT ![job[p].npub] = job[p].row]
    BY <1>7 DEF RenameQueue, LockInv
  <2>3. QueueExact'
    BY <1>7, <2>2 DEF RenameQueue, QueueExact
  <2>4. End({p})
    BY <1>7, <2>1 DEF RenameQueue
  <2>5. \A q \in Posters : pc'[q] \notin {"load", "stage", "rename"}
    BY <2>1, <2>4, <1>0 DEF End, LockInv
  <2>. QED  BY <2>3, <2>5 DEF LockInv
<1>8. ASSUME NEW p \in Posters, LoadAllowlist(p) \/ StageAllowlist(p) \/ RenameAllowlist(p)
      PROVE  FALSE
  BY <1>8, <1>t DEF LoadAllowlist, StageAllowlist, RenameAllowlist
<1>12. CASE RestartQueue
  BY <1>12, <1>0, EndExact DEF RestartQueue
<1>14. CASE UNCHANGED vars
  BY <1>14, <1>0 DEF vars, files, answers, LockInv, QueueExact
<1>. QED  BY <1>0, <1>1, <1>3, <1>4, <1>5, <1>6, <1>7, <1>8, <1>12, <1>14 DEF Next, Step

(* As long as no splora-import runs, the queue file is exactly what the    *)
(* answers to the posts say, for any number of concurrent requests and     *)
(* restarts of splora-queue.                                               *)
THEOREM QueueExactAlways == ASSUME Operators = {} PROVE Spec => []QueueExact
<1>1. Init => ExactInv
  <2>1. Init => LockInv /\ QueueExact
    BY DEF Init, LockInv, QueueExact, Procs
  <2>. QED  BY <2>1, InitType DEF ExactInv
<1>2. ExactInv /\ [Next]_vars => ExactInv'
  BY NextExact
<1>3. ExactInv => QueueExact
  BY DEF ExactInv
<1>. QED  BY <1>1, <1>2, <1>3, PTL DEF Spec

-----------------------------------------------------------------------------
(* What the operator is about to write is the allowlist with one npub      *)
(* added or removed.                                                       *)
KeysInv ==
    \A p \in Operators :
        /\ pc[p] \in {"stage allowlist", "rename allowlist"} =>
             keys[p] = Upserted(allow, job[p])
        /\ pc[p] = "rename allowlist" => allowTmp = keys[p]

AllowInv == TypeInv /\ KeysInv /\ AllowExact

LEMMA NextAllow ==
    ASSUME \A p, q \in Operators : p = q
    PROVE  AllowInv /\ [Next]_vars => AllowInv'
<1>. SUFFICES ASSUME AllowInv, [Next]_vars PROVE AllowInv'
  OBVIOUS
<1>. USE DEF AllowInv
<1>0. TypeInv'
  BY NextType
<1>t. /\ pc \in [Procs -> Places] /\ keys \in [Procs -> SUBSET Npubs]
      /\ job \in [Procs -> Job \cup {NoJob}]
      /\ \A p \in Posters : pc[p] \in {"idle", "lock", "load", "stage", "rename"}
  BY DEF TypeInv, TypeOK, PathInv
<1>1. ASSUME NEW p \in Procs, NEW j, NEW l \in {"lock", "load", "load allowlist"}, Begin(p, j, l)
      PROVE  AllowInv'
  <2>1. \A q \in Procs : pc'[q] = l \/ (pc'[q] = pc[q] /\ job'[q] = job[q])
    BY <1>1, <1>t DEF Begin, Goto
  <2>. QED  BY <1>0, <1>1, <2>1 DEF Begin, KeysInv, AllowExact, Procs, files, answers
<1>2. ASSUME NEW p \in Procs, LockDisk(p) \/ LoadQueue(p) \/ StageQueue(p)
      PROVE  AllowInv'
  <2>1. \A q \in Procs : pc'[q] \in {"load", "stage", "rename"} \/ pc'[q] = pc[q]
    BY <1>2, <1>t DEF LockDisk, LoadQueue, StageQueue, Goto
  <2>2. UNCHANGED <<allow, allowTmp, keys, job, approved>>
    BY <1>2 DEF LockDisk, LoadQueue, StageQueue, files, answers
  <2>. QED  BY <1>0, <2>1, <2>2 DEF KeysInv, AllowExact, Procs
<1>3. ASSUME NEW S \in SUBSET Procs, End(S), UNCHANGED <<allow, allowTmp, approved>>
      PROVE  AllowInv'
  <2>1. \A q \in Procs : pc'[q] # "idle" => /\ pc'[q] = pc[q] /\ job'[q] = job[q]
                                            /\ keys'[q] = keys[q]
    BY <1>3 DEF End
  <2>. QED  BY <1>0, <1>3, <2>1 DEF KeysInv, AllowExact, Procs
<1>4. ASSUME NEW p \in Procs, RenameQueue(p)
      PROVE  AllowInv'
  <2>1. CASE job[p].op = "approve"
    <3>1. \A q \in Procs : pc'[q] = "load allowlist" \/ pc'[q] = pc[q]
      BY <1>4, <2>1, <1>t DEF RenameQueue, Goto
    <3>2. UNCHANGED <<allow, allowTmp, keys, job, approved>>
      BY <1>4, <2>1 DEF RenameQueue
    <3>. QED  BY <1>0, <3>1, <3>2 DEF KeysInv, AllowExact, Procs
  <2>2. CASE job[p].op # "approve"
    BY <1>3, <1>4, <2>2 DEF RenameQueue
  <2>. QED  BY <2>1, <2>2
<1>5. ASSUME NEW p \in Procs, LoadAllowlist(p)
      PROVE  AllowInv'
  <2>1. \A q \in Procs : q # p => pc'[q] = pc[q] /\ keys'[q] = keys[q]
    BY <1>5, <1>t DEF LoadAllowlist, Goto
  <2>2. pc'[p] = "stage allowlist" /\ keys'[p] = Upserted(allow, job[p])
    BY <1>5, <1>t DEF LoadAllowlist, Goto
  <2>3. UNCHANGED <<allow, allowTmp, job, approved>>
    BY <1>5 DEF LoadAllowlist, files, answers
  <2>. QED  BY <1>0, <2>1, <2>2, <2>3 DEF KeysInv, AllowExact, Procs, Upserted
<1>6. ASSUME NEW p \in Procs, StageAllowlist(p)
      PROVE  AllowInv'
  <2>1. p \in Operators
    BY <1>6, <1>t DEF StageAllowlist, Procs
  <2>2. pc'[p] = "rename allowlist" /\ allowTmp' = keys[p] /\ keys[p] = Upserted(allow, job[p])
    BY <1>6, <2>1, <1>t DEF StageAllowlist, Goto, KeysInv
  <2>3. UNCHANGED <<allow, keys, job, approved>>
    BY <1>6 DEF StageAllowlist, answers
  <2>4. \A q \in Operators : q = p
    BY <2>1
  <2>. QED  BY <1>0, <2>1, <2>2, <2>3, <2>4 DEF KeysInv, AllowExact, Upserted
<1>7. ASSUME NEW p \in Procs, RenameAllowlist(p)
      PROVE  AllowInv'
  <2>1. p \in Operators
    BY <1>7, <1>t DEF RenameAllowlist, Procs
  <2>2. allow' = Upserted(allow, job[p])
    BY <1>7, <2>1 DEF RenameAllowlist, KeysInv
  <2>3. AllowExact'
    BY <1>7, <2>2 DEF RenameAllowlist, AllowExact, Upserted
  <2>4. \A q \in Operators : pc'[q] = "idle"
    BY <1>7, <2>1 DEF RenameAllowlist, End, Procs
  <2>. QED  BY <1>0, <2>3, <2>4 DEF KeysInv
<1>8. ASSUME NEW p \in Procs, Refuse(p) \/ RenameFails(p)
      PROVE  AllowInv'
  BY <1>3, <1>8 DEF Refuse, RenameFails, files, answers
<1>9. CASE RestartQueue
  BY <1>3, <1>9 DEF RestartQueue, files, answers, Procs
<1>10. ASSUME NEW p \in Operators, Die(p)
       PROVE  AllowInv'
  BY <1>3, <1>10 DEF Die, files, answers, Procs
<1>11. CASE UNCHANGED vars
  BY <1>0, <1>11 DEF vars, files, answers, KeysInv, AllowExact
<1>12. ASSUME NEW p \in Posters, NEW n \in Npubs, NEW e \in Emails, Submit(p, n, e)
       PROVE  AllowInv'
  BY <1>1, <1>12 DEF Submit, Procs
<1>13. ASSUME NEW p \in Operators, NEW n \in Npubs, Approve(p, n) \/ Reject(p, n) \/ RemoveNpub(p, n)
       PROVE  AllowInv'
  BY <1>1, <1>13 DEF Approve, Reject, RemoveNpub, Procs
<1>. QED  BY <1>2, <1>4, <1>5, <1>6, <1>7, <1>8, <1>9, <1>10, <1>11, <1>12, <1>13 DEF Next, Step

(* With one splora-import at a time, the allowlist file is exactly what    *)
(* its results say, whatever splora-queue does and wherever splora-import  *)
(* is killed.                                                              *)
THEOREM AllowExactAlways ==
    ASSUME \A p, q \in Operators : p = q PROVE Spec => []AllowExact
<1>1. Init => AllowInv
  <2>1. Init => KeysInv /\ AllowExact
    BY DEF Init, KeysInv, AllowExact, Procs
  <2>. QED  BY <2>1, InitType DEF AllowInv
<1>2. AllowInv /\ [Next]_vars => AllowInv'
  BY NextAllow
<1>3. AllowInv => AllowExact
  BY DEF AllowInv
<1>. QED  BY <1>1, <1>2, <1>3, PTL DEF Spec

-----------------------------------------------------------------------------
(* Every version of the queue file, published or not, is within the cap.   *)
Small(q) == Cardinality(Lines(q)) <= MaxRows

CapInv ==
    /\ TypeInv
    /\ Small(queue)
    /\ queueTmp # NoFile => Small(queueTmp)
    /\ \A p \in Procs : Small(rows[p])
    /\ \A p \in Procs : pc[p] # "idle" /\ job[p].op # "submit" => job[p].row = NoRow

LEMMA LinesFinite == \A q : IsFiniteSet(Lines(q)) /\ Cardinality(Lines(q)) \in Nat
BY QueueAssumption, FS_Subset, FS_CardinalityType DEF Lines

(* Setting a row that there is room for, or dropping one.                  *)
LEMMA SetSmall ==
    ASSUME NEW q \in QueueFile, Small(q), NEW n \in Npubs, NEW r \in Row,
           r = NoRow \/ HasRoom(q, n, r)
    PROVE  Small([q EXCEPT ![n] = r])
<1>. DEFINE q2 == [q EXCEPT ![n] = r]
<1>1. CASE r = NoRow \/ n \in Lines(q)
  <2>1. Lines(q2) \subseteq Lines(q)
    BY <1>1 DEF Lines, QueueFile
  <2>2. Cardinality(Lines(q2)) <= Cardinality(Lines(q))
    BY <2>1, LinesFinite, FS_Subset
  <2>. QED  BY <2>2, LinesFinite, QueueAssumption DEF Small
<1>2. CASE r # NoRow /\ n \notin Lines(q)
  <2>1. Cardinality(Lines(q)) < MaxRows
    BY <1>2 DEF HasRoom
  <2>2. Lines(q2) = Lines(q) \cup {n}
    BY <1>2 DEF Lines, QueueFile
  <2>3. Cardinality(Lines(q2)) = Cardinality(Lines(q)) + 1
    BY <1>2, <2>2, LinesFinite, FS_AddElement
  <2>. QED  BY <2>1, <2>3, LinesFinite, QueueAssumption DEF Small
<1>. QED  BY <1>1, <1>2

LEMMA EmptySmall == Small(EmptyQueue)
<1>1. Lines(EmptyQueue) = {}
  BY DEF Lines, EmptyQueue
<1>. QED  BY <1>1, FS_EmptySet, QueueAssumption DEF Small

LEMMA EndCap ==
    ASSUME CapInv, TypeInv', NEW S \in SUBSET Procs, End(S),
           Small(queue'), queueTmp' # NoFile => Small(queueTmp')
    PROVE  CapInv'
<1>1. \A p \in Procs : Small(rows'[p])
  BY EmptySmall DEF CapInv, End
<1>2. \A p \in Procs : pc'[p] # "idle" => pc'[p] = pc[p] /\ job'[p] = job[p]
  BY DEF End
<1>3. Small(queue)' /\ (queueTmp # NoFile => Small(queueTmp))'
  BY DEF Small, Lines
<1>4. (\A p \in Procs : Small(rows[p]))'
  BY <1>1 DEF Small, Lines
<1>. QED  BY <1>2, <1>3, <1>4 DEF CapInv

LEMMA NextCap == CapInv /\ [Next]_vars => CapInv'
<1>. SUFFICES ASSUME CapInv, [Next]_vars PROVE CapInv'
  OBVIOUS
<1>0. TypeInv'
  BY NextType DEF CapInv
<1>t. /\ pc \in [Procs -> Places] /\ rows \in [Procs -> QueueFile] /\ queue \in QueueFile
      /\ job \in [Procs -> Job \cup {NoJob}]
      /\ \A p \in Procs : pc[p] # "idle" => job[p] \in Job
  BY DEF CapInv, TypeInv, TypeOK
<1>1. ASSUME NEW p \in Procs, NEW j, NEW l, Begin(p, j, l), j.op # "submit" => j.row = NoRow
      PROVE  CapInv'
  <2>1. \A q \in Procs : job'[q] = j \/ (pc'[q] = pc[q] /\ job'[q] = job[q])
    BY <1>1, <1>t DEF Begin, Goto
  <2>. QED  BY <1>0, <1>1, <2>1 DEF Begin, CapInv, Small, Lines, files
<1>2. ASSUME NEW p \in Procs, LockDisk(p)
      PROVE  CapInv'
  BY <1>0, <1>2, <1>t DEF LockDisk, Goto, CapInv, Small, Lines, files
<1>3. ASSUME NEW p \in Procs, LoadQueue(p)
      PROVE  CapInv'
  <2>1. job[p].npub \in Npubs /\ job[p].row \in Row
    BY <1>3, <1>t DEF LoadQueue, Job
  <2>2. job[p].row = NoRow \/ HasRoom(queue, job[p].npub, job[p].row)
    BY <1>3 DEF LoadQueue, Fails, CapInv
  <2>3. Small([queue EXCEPT ![job[p].npub] = job[p].row])
    BY <1>t, <2>1, <2>2, SetSmall DEF CapInv
  <2>4. \A q \in Procs : Small(rows'[q])
    BY <1>3, <1>t, <2>3 DEF LoadQueue, CapInv
  <2>5. \A q \in Procs : pc'[q] # "idle" => pc[q] # "idle"
    BY <1>3, <1>t DEF LoadQueue, Goto
  <2>. QED  BY <1>0, <1>3, <2>4, <2>5 DEF LoadQueue, CapInv, Small, Lines, files
<1>4. ASSUME NEW p \in Procs, StageQueue(p)
      PROVE  CapInv'
  <2>1. \A q \in Procs : pc'[q] # "idle" => pc[q] # "idle"
    BY <1>4, <1>t DEF StageQueue, Goto
  <2>. QED  BY <1>0, <1>4, <2>1 DEF StageQueue, CapInv, Small, Lines
<1>5. ASSUME NEW p \in Procs, RenameQueue(p)
      PROVE  CapInv'
  <2>1. Small(queue') /\ queueTmp' = NoFile
    BY <1>5 DEF RenameQueue, CapInv
  <2>2. CASE job[p].op = "approve"
    <3>1. \A q \in Procs : pc'[q] # "idle" => pc[q] # "idle"
      BY <1>5, <2>2, <1>t DEF RenameQueue, Goto
    <3>. QED  BY <1>0, <1>5, <2>1, <2>2, <3>1 DEF RenameQueue, CapInv, Small, Lines
  <2>3. CASE job[p].op # "approve"
    BY <1>0, <1>5, <2>1, <2>3, EndCap DEF RenameQueue
  <2>. QED  BY <2>2, <2>3
<1>6. ASSUME NEW p \in Procs, LoadAllowlist(p) \/ StageAllowlist(p)
      PROVE  CapInv'
  <2>1. \A q \in Procs : pc'[q] # "idle" => pc[q] # "idle"
    BY <1>6, <1>t DEF LoadAllowlist, StageAllowlist, Goto
  <2>2. UNCHANGED <<queue, queueTmp, rows, job>>
    BY <1>6 DEF LoadAllowlist, StageAllowlist, files
  <2>. QED  BY <1>0, <2>1, <2>2 DEF CapInv, Small, Lines
<1>7. ASSUME NEW S \in SUBSET Procs, End(S), UNCHANGED <<queue, queueTmp>>
      PROVE  CapInv'
  BY <1>0, <1>7, EndCap DEF CapInv
<1>8. ASSUME NEW p \in Procs, Refuse(p) \/ RenameFails(p) \/ RenameAllowlist(p)
      PROVE  CapInv'
  BY <1>7, <1>8 DEF Refuse, RenameFails, RenameAllowlist, files
<1>9. CASE RestartQueue
  BY <1>7, <1>9 DEF RestartQueue, files, Procs
<1>10. ASSUME NEW p \in Operators, Die(p)
       PROVE  CapInv'
  BY <1>7, <1>10 DEF Die, files, Procs
<1>11. CASE UNCHANGED vars
  BY <1>0, <1>11 DEF vars, files, CapInv, Small, Lines
<1>12. ASSUME NEW p \in Posters, NEW n \in Npubs, NEW e \in Emails, Submit(p, n, e)
       PROVE  CapInv'
  BY <1>1, <1>12 DEF Submit, Procs
<1>13. ASSUME NEW p \in Operators, NEW n \in Npubs, Approve(p, n) \/ Reject(p, n) \/ RemoveNpub(p, n)
       PROVE  CapInv'
  BY <1>1, <1>13 DEF Approve, Reject, RemoveNpub, Procs
<1>. QED  BY <1>2, <1>3, <1>4, <1>5, <1>6, <1>8, <1>9, <1>10, <1>11, <1>12, <1>13 DEF Next, Step

(* The queue file keeps to max_rows under every interleaving of posts and  *)
(* operators, although they do not share a lock.                           *)
THEOREM WithinCapAlways == Spec => []WithinCap
<1>1. Init => CapInv
  <2>1. Init => \A p \in Procs : rows[p] = EmptyQueue
    BY DEF Init
  <2>. QED  BY <2>1, InitType, EmptySmall DEF Init, CapInv
<1>2. CapInv => WithinCap
  BY DEF CapInv, WithinCap, Small
<1>. QED  BY <1>1, <1>2, NextCap, PTL DEF Spec

-----------------------------------------------------------------------------
(* The rate limit of splora-queue's posts: RateLimit, for any number of    *)
(* concurrent posts, addresses and npubs.                                  *)
(* QueueCaps are unsigned, and an address is not its absence.              *)
RateConstants ==
    /\ RateWindow \in Nat /\ PerIp \in Nat /\ PerNpub \in Nat /\ MaxClock \in Nat
    /\ NoIp \notin Ips

PostType ==
    /\ clock \in Nat
    /\ at \in [Posts -> {"idle", "ip", "npub"}]
    /\ post \in [Posts -> [ip : Ips \cup {NoIp}, npub : Senders \cup {NoIp}, time : Nat]]
    /\ \A p \in Posts : /\ at[p] = "ip" => post[p].ip \in Ips /\ post[p].npub \in Senders
                        /\ at[p] = "npub" => post[p].npub \in Senders

(* A set of hits numbers those of one second from 1 on.                    *)
Numbered(H) ==
    /\ H \subseteq Nat \X Nat /\ IsFiniteSet(H)
    /\ \A t \in Nat : \E n \in Nat : Ordinals(H, t) = 1..n

(* What was let through in order and is younger than a window, seen from   *)
(* the latest request, is still in the hit list.                           *)
Remembered(H, P, s) ==
    /\ s \in Nat /\ P \subseteq Nat \X Nat /\ IsFiniteSet(P)
    /\ \A h \in P : h[1] <= s /\ (s - h[1] < RateWindow => h \in H)

Fits(P, n) ==
    \A t \in 0..MaxClock : Cardinality({h \in P : h[1] \in t..(t + RateWindow - 1)}) <= n

RateInv ==
    /\ PostType
    /\ hits = [b \in Buckets |-> hits[b]] /\ passed = [b \in Buckets |-> passed[b]]
    /\ seen = [b \in Buckets |-> seen[b]]
    /\ \A b \in Buckets : /\ Numbered(hits[b])
                               /\ Remembered(hits[b], passed[b], seen[b])
                               /\ Fits(passed[b], Limit(b))

(* retain drops the hits of a second together.                             *)
LEMMA KeptNumbered ==
    ASSUME RateWindow \in Nat, NEW H, Numbered(H), NEW t \in Nat
    PROVE  Kept(H, t) \subseteq H /\ Numbered(Kept(H, t))
<1>. DEFINE K == Kept(H, t)
<1>1. K \subseteq H
  BY DEF Kept
<1>2. IsFiniteSet(K)
  BY <1>1, FS_Subset DEF Numbered
<1>3. ASSUME NEW u \in Nat PROVE \E n \in Nat : Ordinals(K, u) = 1..n
  <2>1. CASE Saturating(t, u) < RateWindow
    <3>1. Ordinals(K, u) = Ordinals(H, u)
      BY <2>1 DEF Kept, Ordinals
    <3>. QED  BY <3>1 DEF Numbered
  <2>2. CASE ~(Saturating(t, u) < RateWindow)
    <3>1. Ordinals(K, u) = 1..0
      BY <2>2 DEF Kept, Ordinals
    <3>. QED  BY <3>1
  <2>. QED  BY <2>1, <2>2
<1>. QED  BY <1>1, <1>2, <1>3 DEF Numbered

(* push adds one hit.                                                      *)
LEMMA PushNumbered ==
    ASSUME NEW H, Numbered(H), NEW t \in Nat
    PROVE  /\ Hit(H, t) \in Nat \X Nat /\ Hit(H, t)[1] = t /\ Hit(H, t) \notin H
           /\ Numbered(H \cup {Hit(H, t)})
<1>1. PICK n \in Nat : Ordinals(H, t) = 1..n
  BY DEF Numbered
<1>2. Cardinality(Ordinals(H, t)) = n
  <2>1. Cardinality(1..n) = IF 1 > n THEN 0 ELSE n - 1 + 1
    BY FS_Interval
  <2>2. Cardinality(1..n) = n
    BY <2>1
  <2>. QED  BY <1>1, <2>2
<1>o. \A S, u, k : k \in Ordinals(S, u) <=> \E h \in S : h[1] = u /\ h[2] = k
  BY DEF Ordinals
<1>. DEFINE x == <<t, n + 1>>  J == H \cup {x}
<1>3. Hit(H, t) = x
  BY <1>2 DEF Hit
<1>4. x \notin H
  <2>1. n + 1 \notin Ordinals(H, t)
    BY <1>1
  <2>. QED  BY <2>1 DEF Ordinals
<1>5. IsFiniteSet(J)
  BY FS_AddElement DEF Numbered
<1>x. x[1] = t /\ x[2] = n + 1 /\ x \in Nat \X Nat
  OBVIOUS
<1>. HIDE DEF x
<1>6. ASSUME NEW u \in Nat PROVE \E m \in Nat : Ordinals(J, u) = 1..m
  <2>1. CASE u = t
    <3>1. \A k : k \in Ordinals(J, u) <=> k \in 1..n \/ k = n + 1
      <4>1. \A k : k \in Ordinals(J, u) <=> k \in Ordinals(H, t) \cup {n + 1}
        BY <1>o, <1>x, <2>1
      <4>. HIDE DEF J
      <4>. QED  BY <1>1, <4>1
    <3>2. \A k : k \in 1..n \/ k = n + 1 <=> k \in 1..(n + 1)
      OBVIOUS
    <3>3. Ordinals(J, u) = 1..(n + 1)
      <4>. HIDE DEF J
      <4>. QED  BY <3>1, <3>2
    <3>. QED  BY <3>3
  <2>2. CASE u # t
    <3>1. Ordinals(J, u) = Ordinals(H, u)
      <4>1. \A k : k \in Ordinals(J, u) <=> k \in Ordinals(H, u)
        BY <1>o, <1>x, <2>2
      <4>. HIDE DEF J
      <4>. QED  BY <4>1
    <3>. QED  BY <3>1 DEF Numbered
  <2>. QED  BY <2>1, <2>2
<1>. QED  BY <1>3, <1>4, <1>5, <1>6, <1>x DEF Numbered

(* A request that was not overtaken and is let through: every earlier one  *)
(* of a window that holds its time is still in the list, whose length was  *)
(* below the limit.                                                        *)
LEMMA PushFits ==
    ASSUME RateConstants, NEW H, NEW P, NEW s, NEW t \in Nat, NEW n \in Nat,
           Numbered(H), Remembered(H, P, s), Fits(P, n), s <= t,
           Cardinality(Kept(H, t)) < n
    PROVE  Fits(P \cup {Hit(Kept(H, t), t)}, n)
<1>. DEFINE K == Kept(H, t)  x == Hit(K, t)
<1>1. K \subseteq H /\ Numbered(K)
  BY KeptNumbered DEF RateConstants
<1>2. x \in Nat \X Nat /\ x[1] = t /\ x \notin K
  BY <1>1, PushNumbered
<1>. HIDE DEF x
<1>3. ASSUME NEW u \in 0..MaxClock
      PROVE  Cardinality({h \in P \cup {x} : h[1] \in u..(u + RateWindow - 1)}) <= n
  <2>. DEFINE In(S) == {h \in S : h[1] \in u..(u + RateWindow - 1)}
  <2>1. CASE t \in u..(u + RateWindow - 1)
    <3>1. In(P) \subseteq K
      <4>1. SUFFICES ASSUME NEW h \in In(P) PROVE h \in K
        OBVIOUS
      <4>2. h \in P /\ h[1] \in Nat /\ h[1] <= s /\ u <= h[1] /\ s \in Nat
        BY <1>3 DEF Remembered, RateConstants
      <4>3. s - h[1] < RateWindow /\ t - h[1] < RateWindow /\ h[1] <= t
        BY <1>3, <2>1, <4>2 DEF RateConstants
      <4>4. h \in H
        BY <4>2, <4>3 DEF Remembered
      <4>5. Saturating(t, h[1]) < RateWindow
        BY <2>1, <4>2, <4>3 DEF Saturating, RateConstants
      <4>. QED  BY <4>4, <4>5 DEF Kept
    <3>2. In(P \cup {x}) = In(P) \cup {x} /\ In(P) \cup {x} \subseteq K \cup {x}
      BY <1>2, <2>1, <3>1
    <3>3. IsFiniteSet(K) /\ Cardinality(K) \in Nat /\ Cardinality(K \cup {x}) = Cardinality(K) + 1
          /\ IsFiniteSet(K \cup {x})
      BY <1>1, <1>2, FS_AddElement, FS_CardinalityType DEF Numbered
    <3>4. Cardinality(In(P) \cup {x}) <= Cardinality(K \cup {x})
      BY <3>2, <3>3, FS_Subset
    <3>5. Cardinality(In(P) \cup {x}) \in Nat
      BY <3>2, <3>3, FS_Subset, FS_CardinalityType
    <3>6. Cardinality(K) < n
      OBVIOUS
    <3>7. Cardinality(In(P \cup {x})) <= n
      <4>. HIDE DEF In, K
      <4>. QED  BY <3>2, <3>3, <3>4, <3>5, <3>6
    <3>. QED  BY <3>7
  <2>2. CASE t \notin u..(u + RateWindow - 1)
    <3>1. In(P \cup {x}) = In(P)
      BY <1>2, <2>2
    <3>. QED  BY <3>1 DEF Fits
  <2>. QED  BY <2>1, <2>2
<1>. QED  BY <1>3 DEF Fits, x

(* rate_ok, for the bucket b and a post of time t.                         *)
LEMMA RateOkStep ==
    ASSUME RateConstants, RateInv, NEW p \in Posts, NEW b \in Buckets,
           NEW l, RateOk(p, b, l)
    PROVE  /\ hits' = [c \in Buckets |-> hits'[c]] /\ passed' = [c \in Buckets |-> passed'[c]]
           /\ seen' = [c \in Buckets |-> seen'[c]]
           /\ \A c \in Buckets : /\ Numbered(hits'[c])
                                      /\ Remembered(hits'[c], passed'[c], seen'[c])
                                      /\ Fits(passed'[c], Limit(c))
<1>. DEFINE t == post[p].time  H == hits[b]  P == passed[b]  s == seen[b]
            K == Kept(H, t)  x == Hit(K, t)  ok == Cardinality(K) < Limit(b)
            s2 == IF t > s THEN t ELSE s
            H2 == IF ok THEN K \cup {x} ELSE K
            P2 == IF ok /\ t >= s THEN P \cup {x} ELSE P
<1>0. t \in Nat /\ s \in Nat /\ Limit(b) \in Nat
  BY DEF RateInv, PostType, Remembered, RateConstants, Limit
<1>1. hits' = [hits EXCEPT ![b] = H2] /\ seen' = [seen EXCEPT ![b] = s2] /\ passed' = [passed EXCEPT ![b] = P2]
  <2>1. hits' = [hits EXCEPT ![b] = H2] /\ seen' = [seen EXCEPT ![b] = s2]
    BY DEF RateOk
  <2>2. passed' = IF ok /\ t >= s THEN [passed EXCEPT ![b] = P \cup {x}] ELSE passed
    BY DEF RateOk
  <2>3. passed = [passed EXCEPT ![b] = P]
    BY DEF RateInv
  <2>. QED  BY <2>1, <2>2, <2>3
<1>2. Numbered(H) /\ Remembered(H, P, s) /\ Fits(P, Limit(b))
  BY DEF RateInv
<1>3. K \subseteq H /\ Numbered(K)
  BY <1>0, <1>2, KeptNumbered DEF RateConstants
<1>4. x \in Nat \X Nat /\ x[1] = t /\ x \notin K /\ Numbered(K \cup {x})
  BY <1>0, <1>3, PushNumbered
<1>5. ok /\ t >= s => Fits(P \cup {x}, Limit(b))
  BY <1>0, <1>2, PushFits
<1>6. \A h \in P : h[1] \in Nat /\ h[1] <= s /\ (s2 - h[1] < RateWindow => h \in K)
  <2>1. SUFFICES ASSUME NEW h \in P PROVE h[1] \in Nat /\ h[1] <= s /\ (s2 - h[1] < RateWindow => h \in K)
    OBVIOUS
  <2>2. h[1] \in Nat /\ h[1] <= s /\ (s - h[1] < RateWindow => h \in H)
    BY <1>2 DEF Remembered
  <2>3. ASSUME s2 - h[1] < RateWindow PROVE s - h[1] < RateWindow /\ Saturating(t, h[1]) < RateWindow
    BY <1>0, <2>2, <2>3 DEF Saturating, RateConstants
  <2>. QED  BY <2>2, <2>3 DEF Kept
<1>. HIDE DEF t, H, P, s, K, x, ok
<1>7. Numbered(H2)
  BY <1>3, <1>4
<1>8. Fits(P2, Limit(b))
  BY <1>2, <1>5
<1>9. Remembered(H2, P2, s2)
  <2>1. s2 \in Nat /\ s <= s2 /\ (t >= s => t <= s2)
    BY <1>0
  <2>2. P \subseteq Nat \X Nat /\ IsFiniteSet(P)
    BY <1>2 DEF Remembered
  <2>3. P2 \subseteq Nat \X Nat
    BY <1>4, <2>2
  <2>4. IsFiniteSet(P2)
    BY <2>2, FS_AddElement
  <2>5. K \subseteq H2
    OBVIOUS
  <2>6. \A h \in P : h[1] <= s2 /\ (s2 - h[1] < RateWindow => h \in H2)
    <3>. HIDE DEF s2, H2
    <3>. QED  BY <1>0, <1>6, <2>1, <2>5
  <2>7. ok /\ t >= s => x[1] <= s2 /\ x \in H2
    BY <1>4, <2>1
  <2>8. \A h \in P2 : h[1] <= s2 /\ (s2 - h[1] < RateWindow => h \in H2)
    <3>1. P2 = P \/ (ok /\ t >= s /\ P2 = P \cup {x})
      OBVIOUS
    <3>. HIDE DEF P2, s2, H2
    <3>. QED  BY <2>6, <2>7, <3>1
  <2>. QED  BY <2>1, <2>3, <2>4, <2>8 DEF Remembered
<1>. HIDE DEF H2, P2, s2
<1>10. /\ hits' = [c \in Buckets |-> hits'[c]] /\ passed' = [c \in Buckets |-> passed'[c]]
       /\ seen' = [c \in Buckets |-> seen'[c]]
       /\ hits'[b] = H2 /\ passed'[b] = P2 /\ seen'[b] = s2
       /\ \A c \in Buckets : c # b => hits'[c] = hits[c] /\ passed'[c] = passed[c] /\ seen'[c] = seen[c]
  BY <1>1 DEF RateInv
<1>. QED  BY <1>7, <1>8, <1>9, <1>10 DEF RateInv

LEMMA RateStep == ASSUME RateConstants, RateInv, [RateNext]_rateVars PROVE RateInv'
<1>1. ASSUME NEW p \in Posts, NEW i \in Ips \cup {NoIp}, NEW n \in Senders, Arrive(p, i, n)
      PROVE  RateInv'
  <2>1. UNCHANGED <<clock, hits, seen, passed>>
    BY <1>1 DEF Arrive
  <2>2. PostType'
    BY <1>1 DEF Arrive, RateInv, PostType, RateConstants
  <2>. QED  BY <2>1, <2>2 DEF RateInv, Buckets
<1>2. ASSUME NEW p \in Posts, CheckIp(p) PROVE RateInv'
  <2>1. post[p].ip \in Buckets /\ post[p].npub \in Senders /\ RateOk(p, post[p].ip, "npub")
    BY <1>2 DEF CheckIp, RateInv, PostType, Buckets
  <2>2. PostType'
    <3>1. at' = [at EXCEPT ![p] = at'[p]] /\ at'[p] \in {"npub", "idle"} /\ UNCHANGED <<clock, post>>
      BY <2>1 DEF RateOk, RateInv, PostType
    <3>. QED  BY <2>1, <3>1 DEF RateInv, PostType
  <2>. QED  BY <2>1, <2>2, RateOkStep DEF RateInv, Buckets
<1>3. ASSUME NEW p \in Posts, CheckNpub(p) PROVE RateInv'
  <2>1. post[p].npub \in Buckets /\ RateOk(p, post[p].npub, "idle")
    BY <1>3 DEF CheckNpub, RateInv, PostType, Buckets
  <2>2. PostType'
    <3>1. at' = [at EXCEPT ![p] = at'[p]] /\ at'[p] = "idle" /\ UNCHANGED <<clock, post>>
      BY <2>1 DEF RateOk, RateInv, PostType
    <3>. QED  BY <2>1, <3>1 DEF RateInv, PostType
  <2>. QED  BY <2>1, <2>2, RateOkStep DEF RateInv, Buckets
<1>4. CASE Second
  <2>1. clock' = clock + 1 /\ UNCHANGED <<hits, at, post, seen, passed>>
    BY <1>4 DEF Second
  <2>2. PostType'
    BY <2>1 DEF RateInv, PostType
  <2>. QED  BY <2>1, <2>2 DEF RateInv, Buckets
<1>5. CASE UNCHANGED rateVars
  BY <1>5 DEF rateVars, RateInv, PostType, Buckets
<1>. QED  BY <1>1, <1>2, <1>3, <1>4, <1>5 DEF RateNext

(* No bucket lets more than its limit through in any RateWindow seconds,   *)
(* for every window, every limit and any number of concurrent posts, as    *)
(* long as the requests it counts were not overtaken between reading the   *)
(* clock and taking the lock of rate_ok's list.                            *)
THEOREM WithinRateAlways ==
    ASSUME RateConstants
    PROVE  RateSpec => []WithinRate
<1>1. RateInit => RateInv
  <2>. SUFFICES ASSUME RateInit PROVE RateInv
    OBVIOUS
  <2>1. PostType
    BY DEF RateInit, PostType
  <2>2. IsFiniteSet({}) /\ Cardinality({}) = 0
    BY FS_EmptySet
  <2>3. Numbered({}) /\ Remembered({}, {}, 0)
    <3>1. \A t \in Nat : Ordinals({}, t) = 1..0
      BY DEF Ordinals
    <3>. QED  BY <2>2, <3>1 DEF Numbered, Remembered
  <2>4. \A n \in Nat : Fits({}, n)
    <3>1. \A t \in 0..MaxClock : {h \in {} : h[1] \in t..(t + RateWindow - 1)} = {}
      OBVIOUS
    <3>. QED  BY <2>2, <3>1 DEF Fits
  <2>5. \A b \in Buckets : Limit(b) \in Nat
    BY DEF Limit, RateConstants
  <2>. QED  BY <2>1, <2>3, <2>4, <2>5 DEF RateInit, RateInv
<1>2. RateInv /\ [RateNext]_rateVars => RateInv'
  BY RateStep
<1>3. RateInv => WithinRate
  BY DEF RateInv, Fits, WithinRate
<1>. QED  BY <1>1, <1>2, <1>3, PTL DEF RateSpec

-----------------------------------------------------------------------------
(* The gate: Access, for any keys, window, clock and clients.              *)
Strings == {"api", "v1", "ws", "blocks", "tip", "hash", "height", "tx", "txs", "test", "signet"}
             \cup Networks

LEMMA ConsSeq ==
    ASSUME NEW S, NEW a \in S, NEW q \in Seq(S)
    PROVE  /\ <<a>> \o q \in Seq(S) /\ <<a>> \o q # <<>>
           /\ Head(<<a>> \o q) = a /\ Tail(<<a>> \o q) = q
           /\ Len(<<a>> \o q) = Len(q) + 1
           /\ \A i \in 1..Len(q) : (<<a>> \o q)[i + 1] = q[i]
<1>. DEFINE s == <<a>> \o q
<1>1. <<a>> \in Seq(S) /\ Len(<<a>>) = 1 /\ <<a>>[1] = a
  OBVIOUS
<1>2. s \in Seq(S) /\ Len(s) = 1 + Len(q)
      /\ \A i \in 1..(1 + Len(q)) : s[i] = IF i <= 1 THEN <<a>>[i] ELSE q[i - 1]
  BY <1>1, ConcatProperties
<1>3. Len(q) \in Nat
  OBVIOUS
<1>. HIDE DEF s
<1>4. s # <<>> /\ s[1] = a /\ \A i \in 1..Len(q) : s[i + 1] = q[i]
  BY <1>1, <1>2, <1>3
<1>5. Head(s) = a
  BY <1>4
<1>6. Tail(s) = q
  <2>1. Tail(s) \in Seq(S) /\ Len(Tail(s)) = Len(q) /\ \A i \in 1..Len(q) : Tail(s)[i] = q[i]
    BY <1>2, <1>3, <1>4, HeadTailProperties
  <2>. QED  BY <2>1, SeqEqual
<1>. QED  BY <1>2, <1>3, <1>4, <1>5, <1>6 DEF s

(* A REST path, sent with the prefix of its network, reaches the indexer   *)
(* of that network without it.                                             *)
LEMMA RestRoute ==
    ASSUME NEW n \in Networks, NEW p \in Plain \cup Health
    PROVE  route(api_prefix(n) \o p) = [to |-> n, at |-> p]
<1>1. p \in Seq(Strings) /\ p # <<>> /\ p[1] # "v1" /\ Len(p) \in Nat /\ Len(p) >= 1
  <2>1. p \in Plain => p = <<"tx">> \/ p = <<"txs", "test">>
    BY DEF Plain
  <2>2. p \in Health => p = <<"blocks", "tip", "hash">> \/ p = <<"blocks", "tip", "height">>
    BY DEF Health
  <2>3. /\ "tx" \in Strings /\ "txs" \in Strings /\ "test" \in Strings /\ "blocks" \in Strings
        /\ "tip" \in Strings /\ "hash" \in Strings /\ "height" \in Strings
    BY DEF Strings
  <2>4. CASE p = <<"tx">>
    BY <2>3, <2>4
  <2>5. CASE p = <<"txs", "test">>
    BY <2>3, <2>5
  <2>6. CASE p = <<"blocks", "tip", "hash">>
    BY <2>3, <2>6
  <2>7. CASE p = <<"blocks", "tip", "height">>
    BY <2>3, <2>7
  <2>. QED  BY <2>1, <2>2, <2>4, <2>5, <2>6, <2>7
<1>. DEFINE s == <<"api">> \o p
<1>2. s \in Seq(Strings) /\ s # <<>> /\ Head(s) = "api" /\ Tail(s) = p /\ Len(s) = Len(p) + 1 /\ s[2] = p[1]
  <2>1. "api" \in Strings
    BY DEF Strings
  <2>2. 1 \in 1..Len(p) /\ s[1 + 1] = p[1]
    BY <1>1, <2>1, ConsSeq
  <2>. QED  BY <1>1, <2>1, <2>2, ConsSeq
<1>. HIDE DEF s
<1>3. ~IsPrefix(Ws, s)
  <2>1. SUFFICES ASSUME Len(Ws) <= Len(s), SubSeq(Ws, 1, Len(Ws)) = SubSeq(s, 1, Len(Ws))
                 PROVE  FALSE
    BY DEF IsPrefix
  <2>2. Len(Ws) = 3 /\ Ws[2] = "v1" /\ Ws \in Seq(Strings)
    BY DEF Ws, Strings
  <2>3. SubSeq(Ws, 1, 3)[2] = Ws[2] /\ SubSeq(s, 1, 3)[2] = s[2]
    BY <1>1, <1>2, <2>1, <2>2
  <2>. QED  BY <1>1, <1>2, <2>1, <2>2, <2>3
<1>4. \A m : proxy_after_network(m, s) = [to |-> m, at |-> p]
  BY <1>2, <1>3 DEF proxy_after_network, backend_path
<1>5. CASE n = "mainnet"
  <2>1. api_prefix(n) \o p = s
    BY <1>5 DEF api_prefix, s
  <2>2. "api" # "signet" /\ "api" \notin Networks
    BY DEF Networks
  <2>. QED  BY <1>2, <1>4, <1>5, <2>1, <2>2 DEF route
<1>6. CASE n # "mainnet"
  <2>1. n \in Strings /\ n # "signet" /\ n # "api"
    BY DEF Strings, Networks
  <2>2. api_prefix(n) \o p = <<n>> \o s
    <3>1. api_prefix(n) = <<n>> \o <<"api">>
      BY <1>6 DEF api_prefix
    <3>2. <<n>> \in Seq(Strings) /\ <<"api">> \in Seq(Strings)
      BY <2>1 DEF Strings
    <3>. QED  BY <1>1, <3>1, <3>2, ConcatAssociative DEF s
  <2>3. <<n>> \o s # <<>> /\ Head(<<n>> \o s) = n /\ Tail(<<n>> \o s) = s
    BY <1>2, <2>1, ConsSeq
  <2>. QED  BY <1>4, <1>6, <2>1, <2>2, <2>3 DEF route
<1>. QED  BY <1>5, <1>6

(* The websocket's path is the same with every network before it, and the  *)
(* public alias is sent to mutinynet.                                      *)
LEMMA SocketRoute ==
    /\ route(Ws) = [to |-> "mainnet", at |-> Ws]
    /\ \A n \in Networks \ {"mainnet"} : route(<<n>> \o Ws) = [to |-> n, at |-> Ws]
    /\ route(<<"signet">> \o Ws) = [to |-> "redirect", at |-> <<"mutinynet">> \o Ws]
<1>1. /\ Ws \in Seq(Strings) /\ Ws # <<>> /\ Head(Ws) = "api"
      /\ "api" # "signet" /\ "api" \notin Networks
  BY DEF Ws, Strings, Networks
<1>2. IsPrefix(Ws, Ws)
  BY <1>1 DEF IsPrefix
<1>3. \A m : proxy_after_network(m, Ws) = [to |-> m, at |-> Ws]
  BY <1>1, <1>2 DEF proxy_after_network, backend_path
<1>4. \A n \in Strings : /\ <<n>> \o Ws # <<>>
                         /\ Head(<<n>> \o Ws) = n /\ Tail(<<n>> \o Ws) = Ws
  BY <1>1, ConsSeq
<1>5. "signet" \in Strings /\ \A n \in Networks : n \in Strings /\ n # "signet"
  BY DEF Strings, Networks
<1>. QED  BY <1>1, <1>3, <1>4, <1>5 DEF route

GateConstants == MaxTime \in Nat /\ MaxRelists \in Nat

(* The front finds the network and the path that were asked for, at once   *)
(* or after the redirect.                                                  *)
Routed(r, s) == route(s) = [to |-> r.net, at |-> r.path]
Found(r) ==
    \/ Routed(r, r.seen)
    \/ route(r.seen).to = "redirect" /\ Routed(r, route(r.seen).at)

(* The event of the page and of the websocket client is for the path as    *)
(* the indexer sees it.                                                    *)
Signed(r) ==
    r.by \in {"web", "wallet"} =>
        /\ r.event # NoEvent /\ r.event.u = [proto |-> "https", path |-> r.path]
        /\ r.event.method = r.method /\ r.event.payload = "none"

Fields == {"by", "net", "method", "path", "body", "event", "seen", "to", "at"}

Shape(r) ==
    /\ r = [f \in Fields |-> r[f]]
    /\ r.by \in Clients /\ r.by # "none" /\ r.net \in Networks

GateInv ==
    /\ now \in 0..MaxTime /\ listed \subseteq Keys /\ relists \in 0..MaxRelists
    /\ place \in {"idle", "signing", "front", "body", "done"}
    /\ place = "idle" => req = NoReq
    /\ place # "idle" => Shape(req) /\ Signed(req)
    /\ place \in {"signing", "front"} => Found(req)
    /\ place = "body" => req.to = req.net /\ req.at = req.path
    /\ place # "done" => answer = NoAnswer
    /\ place = "done" =>
         /\ answer.status \in {101, 200, 401, 404, 408, 413, 502}
         /\ WebServed /\ ServedWhereAsked /\ UnsignedSeesTip

(* A request as a client sends it.                                         *)
LEMMA AskStep ==
    ASSUME GateInv, NEW r, NEW l \in {"signing", "front"}, Send(l, r),
           UNCHANGED <<now, listed, answer, relists>>, place = "idle",
           Shape(r), Signed(r), Found(r)
    PROVE  GateInv'
<1>1. place' = l /\ req' = r /\ answer' = NoAnswer
  BY DEF GateInv, Send
<1>2. place' # "idle" /\ place' # "done" /\ place' # "body"
  BY <1>1
<1>3. Shape(req') /\ Signed(req') /\ Found(req')
  BY <1>1
<1>. QED  BY <1>1, <1>2, <1>3 DEF GateInv

LEMMA RestAsked ==
    ASSUME NEW c \in Clients, c # "none", c # "wallet",
           NEW n \in Networks, NEW m, NEW p \in Plain \cup Health, NEW b, NEW r,
           r = Ask(c, n, m, p, b) \/ \E e : r = [Ask(c, n, m, p, b) EXCEPT !.event = e],
           c = "web" => Signed(r)
    PROVE  Shape(r) /\ Signed(r) /\ Found(r)
<1>. DEFINE a == Ask(c, n, m, p, b)
<1>1. /\ a.by = c /\ a.net = n /\ a.path = p /\ a.seen = api_prefix(n) \o p
      /\ a = [f \in Fields |-> a[f]]
  BY DEF Ask, Fields
<1>. HIDE DEF a
<1>2. /\ r.by = c /\ r.net = n /\ r.path = p /\ r.seen = api_prefix(n) \o p
      /\ r = [f \in Fields |-> r[f]]
  <2>1. r = a \/ \E e : r = [a EXCEPT !.event = e]
    BY DEF a
  <2>. QED  BY <1>1, <2>1 DEF Fields
<1>3. Shape(r)
  BY <1>2 DEF Shape
<1>4. Found(r)
  BY <1>2, RestRoute DEF Found, Routed
<1>5. Signed(r)
  BY <1>2 DEF Signed
<1>. QED  BY <1>3, <1>4, <1>5

LEMMA GateAsks ==
    ASSUME GateInv, NEW k \in Keys, NEW n \in Networks, NEW m \in {"GET", "POST"},
           NEW p \in Plain \cup Health,
           WebAsks(k, n, m, p) \/ DesktopAsks(n, m, p) \/ SignerAsks(k, n, m, p)
    PROVE  GateInv'
<1>. DEFINE b == IF m = "POST" THEN "hex" ELSE "none"
<1>1. CASE WebAsks(k, n, m, p)
  <2>. DEFINE e == Event(k, nip98_u_url(n, p), m, "none")
              r == [Ask("web", n, m, p, b) EXCEPT !.event = e]
  <2>1. "web" \in Clients /\ place = "idle" /\ Send("signing", r) /\ UNCHANGED <<now, listed, answer, relists>>
    BY <1>1 DEF WebAsks
  <2>2. r.event = e /\ r.path = p /\ r.method = m
    BY DEF Ask
  <2>3. e # NoEvent
    <3>1. "u" \in DOMAIN e /\ "u" \notin DOMAIN NoEvent
      BY DEF Event, NoEvent
    <3>. QED  BY <3>1
  <2>4. e.u = [proto |-> "https", path |-> p] /\ e.method = m /\ e.payload = "none"
    BY DEF Event, nip98_u_url
  <2>5. Signed(r)
    BY <2>2, <2>3, <2>4 DEF Signed
  <2>. HIDE DEF e, b
  <2>6. Shape(r) /\ Signed(r) /\ Found(r)
    BY <2>1, <2>5, RestAsked
  <2>. HIDE DEF r
  <2>. QED  BY <2>1, <2>6, AskStep
<1>2. CASE DesktopAsks(n, m, p)
  <2>. DEFINE r == Ask("desktop", n, m, p, b)
  <2>1. "desktop" \in Clients /\ place = "idle" /\ Send("front", r) /\ UNCHANGED <<now, listed, answer, relists>>
    BY <1>2 DEF DesktopAsks
  <2>. HIDE DEF b
  <2>3. Shape(r) /\ Signed(r) /\ Found(r)
    BY <2>1, RestAsked
  <2>. HIDE DEF r
  <2>. QED  BY <2>1, <2>3, AskStep
<1>3. CASE SignerAsks(k, n, m, p)
  <2>. DEFINE r == [Ask("signer", n, m, p, b) EXCEPT !.event = Event(k, WithPrefix(n, p), m, b)]
  <2>1. "signer" \in Clients /\ place = "idle" /\ Send("front", r) /\ UNCHANGED <<now, listed, answer, relists>>
    BY <1>3 DEF SignerAsks
  <2>. HIDE DEF b
  <2>3. Shape(r) /\ Signed(r) /\ Found(r)
    BY <2>1, RestAsked
  <2>. HIDE DEF r
  <2>. QED  BY <2>1, <2>3, AskStep
<1>. QED  BY <1>1, <1>2, <1>3

LEMMA GateWallet ==
    ASSUME GateInv, NEW k \in Keys, NEW n \in Networks, WalletAsks(k, n)
    PROVE  GateInv'
<1>. DEFINE a == Ask("wallet", n, "GET", Ws, "none")
            e == Event(k, nip98_u_url(n, Ws), "GET", "none")
            s == (IF n = "mainnet" THEN <<>> ELSE <<n>>) \o Ws
            t == <<"signet">> \o Ws
            r == [a EXCEPT !.event = e, !.seen = s]
            w == [r EXCEPT !.seen = t]
<1>1. /\ "wallet" \in Clients /\ place = "idle" /\ UNCHANGED <<now, listed, answer, relists>>
      /\ Send("front", r) \/ (n = "mutinynet" /\ Send("front", w))
  BY DEF WalletAsks
<1>2. /\ a.by = "wallet" /\ a.net = n /\ a.path = Ws /\ a.method = "GET"
      /\ a = [f \in Fields |-> a[f]]
  BY DEF Ask, Fields
<1>3. e # NoEvent
  <2>1. "u" \in DOMAIN e /\ "u" \notin DOMAIN NoEvent
    BY DEF Event, NoEvent
  <2>. QED  BY <2>1
<1>4. e.u = [proto |-> "https", path |-> Ws] /\ e.method = "GET" /\ e.payload = "none"
  BY DEF Event, nip98_u_url
<1>5. route(s) = [to |-> n, at |-> Ws]
  <2>1. CASE n = "mainnet"
    <3>1. Ws \in Seq(Strings)
      BY DEF Ws, Strings
    <3>2. s = Ws
      BY <2>1, <3>1, ConcatEmptySeq
    <3>. QED  BY <2>1, <3>2, SocketRoute
  <2>2. CASE n # "mainnet"
    BY <2>2, SocketRoute
  <2>. QED  BY <2>1, <2>2
<1>6. /\ route(t) = [to |-> "redirect", at |-> <<"mutinynet">> \o Ws]
      /\ route(<<"mutinynet">> \o Ws) = [to |-> "mutinynet", at |-> Ws]
  BY SocketRoute DEF Networks
<1>. HIDE DEF a, e, s, t
<1>7. /\ r.by = "wallet" /\ r.net = n /\ r.path = Ws /\ r.method = "GET"
      /\ r.event = e /\ r.seen = s /\ r = [f \in Fields |-> r[f]]
  BY <1>2 DEF Fields
<1>. HIDE DEF r
<1>8. /\ w.by = "wallet" /\ w.net = n /\ w.path = Ws /\ w.method = "GET"
      /\ w.event = e /\ w.seen = t /\ w = [f \in Fields |-> w[f]]
  BY <1>7 DEF Fields
<1>. HIDE DEF w
<1>9. Shape(r) /\ Signed(r) /\ Found(r)
  <2>1. Shape(r)
    BY <1>1, <1>7 DEF Shape
  <2>2. Signed(r)
    BY <1>3, <1>4, <1>7 DEF Signed
  <2>3. Found(r)
    BY <1>5, <1>7 DEF Found, Routed
  <2>. QED  BY <2>1, <2>2, <2>3
<1>10. n = "mutinynet" => Shape(w) /\ Signed(w) /\ Found(w)
  <2>1. Shape(w)
    BY <1>1, <1>8 DEF Shape
  <2>2. Signed(w)
    BY <1>3, <1>4, <1>8 DEF Signed
  <2>3. n = "mutinynet" => Found(w)
    <3>. DEFINE u == <<"mutinynet">> \o Ws
    <3>1. route(w.seen).to = "redirect" /\ route(w.seen).at = u
      BY <1>6, <1>8
    <3>2. n = "mutinynet" => route(u) = [to |-> w.net, at |-> w.path]
      BY <1>6, <1>8
    <3>. HIDE DEF u
    <3>3. n = "mutinynet" => Routed(w, u)
      BY <3>2 DEF Routed
    <3>. QED  BY <3>1, <3>3 DEF Found
  <2>. QED  BY <2>1, <2>2, <2>3
<1>11. CASE Send("front", r)
  BY <1>1, <1>9, <1>11, AskStep
<1>12. CASE n = "mutinynet" /\ Send("front", w)
  BY <1>1, <1>10, <1>12, AskStep
<1>. QED  BY <1>1, <1>11, <1>12

(* The front: a found request is redirected once, handed to its network,   *)
(* or answered because the network does not.                               *)
LEMMA GateDispatch == ASSUME GateInv, Dispatch PROVE GateInv'
<1>. DEFINE r == route(req.seen)
<1>1. /\ place = "front" /\ Shape(req) /\ Signed(req) /\ Found(req)
      /\ answer = NoAnswer /\ UNCHANGED <<now, listed, relists>>
  BY DEF GateInv, Dispatch
<1>2. /\ "none" \notin Networks /\ "redirect" \notin Networks
      /\ NotFound.to = "none" /\ req.net \in Networks
  BY <1>1 DEF Networks, NotFound, Shape
<1>3. /\ r # NotFound
      /\ r.to = "redirect" => Routed(req, r.at)
      /\ r.to \in Networks => r.to = req.net /\ r.at = req.path
  <2>1. CASE Routed(req, req.seen)
    BY <1>2, <2>1 DEF Routed
  <2>2. CASE r.to = "redirect" /\ Routed(req, r.at)
    BY <1>2, <2>2
  <2>. QED  BY <1>1, <2>1, <2>2 DEF Found
<1>4. \/ r.to = "redirect" /\ req' = [req EXCEPT !.seen = r.at] /\ UNCHANGED <<place, answer>>
      \/ r = NotFound
      \/ r.to \in Networks /\ Send("body", [req EXCEPT !.to = r.to, !.at = r.at]) /\ UNCHANGED answer
      \/ r.to \in Networks /\ Answer(502, "backend") /\ UNCHANGED req
  BY DEF Dispatch
<1>. HIDE DEF r
<1>5. CASE r.to = "redirect" /\ req' = [req EXCEPT !.seen = r.at] /\ UNCHANGED <<place, answer>>
  <2>1. /\ \A f \in Fields \ {"seen"} : req'[f] = req[f]
        /\ req'.seen = r.at /\ req' = [f \in Fields |-> req'[f]]
    BY <1>1, <1>5 DEF Shape, Fields
  <2>2. Shape(req')
    BY <1>1, <2>1 DEF Shape, Fields
  <2>3. Signed(req')
    BY <1>1, <2>1 DEF Signed, Fields
  <2>4. Found(req')
    <3>1. req'.net = req.net /\ req'.path = req.path /\ req'.seen = r.at
      BY <2>1 DEF Fields
    <3>2. Routed(req', r.at)
      BY <1>3, <1>5, <3>1 DEF Routed
    <3>. QED  BY <3>1, <3>2 DEF Found
  <2>. QED  BY <1>1, <1>5, <2>2, <2>3, <2>4 DEF GateInv
<1>6. CASE r.to \in Networks /\ Send("body", [req EXCEPT !.to = r.to, !.at = r.at]) /\ UNCHANGED answer
  <2>1. /\ \A f \in Fields \ {"to", "at"} : req'[f] = req[f]
        /\ req'.to = r.to /\ req'.at = r.at /\ req' = [f \in Fields |-> req'[f]] /\ place' = "body"
    <3>1. place' = "body" /\ req' = [req EXCEPT !.to = r.to, !.at = r.at]
      BY <1>6 DEF Send
    <3>2. req = [f \in Fields |-> req[f]] /\ "to" \in Fields /\ "at" \in Fields /\ "to" # "at"
      BY <1>1 DEF Shape, Fields
    <3>3. DOMAIN req = Fields
      BY <3>2
    <3>4. req' = [f \in Fields |-> IF f = "at" THEN r.at ELSE IF f = "to" THEN r.to ELSE req[f]]
      BY <3>1, <3>2, <3>3
    <3>5. \A f \in Fields \ {"to", "at"} : req'[f] = req[f]
      BY <3>4
    <3>6. req'["to"] = r.to /\ req'["at"] = r.at
      BY <3>2, <3>4
    <3>7. req' = [f \in Fields |-> req'[f]]
      BY <3>4
    <3>. QED  BY <3>1, <3>5, <3>6, <3>7
  <2>2. Shape(req')
    BY <1>1, <2>1 DEF Shape, Fields
  <2>3. Signed(req')
    BY <1>1, <2>1 DEF Signed, Fields
  <2>4. req'.to = req'.net /\ req'.at = req'.path
    BY <1>3, <1>6, <2>1 DEF Fields
  <2>. QED  BY <1>1, <1>6, <2>1, <2>2, <2>3, <2>4 DEF GateInv
<1>7. CASE r.to \in Networks /\ Answer(502, "backend") /\ UNCHANGED req
  <2>1. place' = "done" /\ answer'.status = 502
    BY <1>7 DEF Answer
  <2>2. WebServed' /\ ServedWhereAsked' /\ UnsignedSeesTip'
    BY <2>1 DEF WebServed, ServedWhereAsked, UnsignedSeesTip, Accepted, Refused
  <2>3. Shape(req') /\ Signed(req')
    BY <1>1, <1>7
  <2>. QED  BY <1>1, <1>7, <2>1, <2>2, <2>3 DEF GateInv
<1>. QED  BY <1>3, <1>4, <1>5, <1>6, <1>7

(* The indexer: the URL it rebuilds is the one that was signed.            *)
LEMMA GateServe == ASSUME GateInv, Serve PROVE GateInv'
<1>. DEFINE g == http_ws_auth_gate(req)
<1>1. /\ place = "body" /\ Shape(req) /\ Signed(req) /\ req.to = req.net /\ req.at = req.path
      /\ UNCHANGED <<now, listed, req, relists>>
  BY DEF GateInv, Serve
<1>2. req.event = NoEvent => g # "ok"
  BY DEF http_ws_auth_gate, verify_nip98
<1>3. g = "health" => PublicHealth /\ req.method = "GET" /\ req.path \in Health
  BY <1>1 DEF http_ws_auth_gate, verify_nip98
<1>4. req.by \in {"web", "wallet"} => g \in {"ok", "health", "Expired", "NotAllowlisted"}
  <2>. SUFFICES ASSUME req.by \in {"web", "wallet"} PROVE g \in {"ok", "health", "Expired", "NotAllowlisted"}
    OBVIOUS
  <2>1. /\ req.event # NoEvent /\ req.event.u = [proto |-> "https", path |-> req.path]
        /\ req.event.method = req.method /\ req.event.payload = "none"
    BY <1>1 DEF Signed
  <2>2. req.event.u = reconstruct_from_req(req)
    BY <1>1, <2>1 DEF reconstruct_from_req
  <2>. QED  BY <2>1, <2>2 DEF http_ws_auth_gate, verify_nip98
<1>5. \/ req.at = Ws /\ g = "ok" /\ Answer(101, "ok")
      \/ req.at # Ws /\ g \in {"ok", "health"} /\ Answer(200, g)
      \/ g \notin {"ok", "health"} /\ Answer(401, g)
  BY DEF Serve
<1>. HIDE DEF g
<1>6. /\ place' = "done" /\ answer'.status \in {101, 200, 401}
      /\ answer'.status \in {101, 200} => g \in {"ok", "health"}
      /\ answer'.status = 401 => answer'.why = g /\ g \notin {"ok", "health"}
  BY <1>5 DEF Answer
<1>7. WebServed'
  BY <1>1, <1>4, <1>6 DEF WebServed, Refused
<1>8. ServedWhereAsked'
  BY <1>1 DEF ServedWhereAsked
<1>9. UnsignedSeesTip'
  BY <1>1, <1>2, <1>3, <1>6 DEF UnsignedSeesTip, Accepted, Health
<1>10. Shape(req') /\ Signed(req')
  BY <1>1
<1>. QED  BY <1>1, <1>6, <1>7, <1>8, <1>9, <1>10 DEF GateInv

LEMMA GateBodyRefused == ASSUME GateInv, BodyRefused PROVE GateInv'
<1>1. /\ place = "body" /\ Shape(req) /\ Signed(req) /\ UNCHANGED <<now, listed, req, relists>>
      /\ place' = "done" /\ answer'.status \in {408, 413}
  BY DEF GateInv, BodyRefused, Answer
<1>2. WebServed' /\ ServedWhereAsked' /\ UnsignedSeesTip'
  BY <1>1 DEF WebServed, ServedWhereAsked, UnsignedSeesTip, Accepted, Refused
<1>3. Shape(req') /\ Signed(req')
  BY <1>1
<1>. QED  BY <1>1, <1>2, <1>3 DEF GateInv

(* The steps that leave the request alone: the clock, the allowlist and    *)
(* the extension's signature.                                              *)
LEMMA GateQuiet ==
    ASSUME GateInv, UNCHANGED <<req, answer>>,
           now' \in 0..MaxTime, listed' \subseteq Keys, relists' \in 0..MaxRelists,
           place' = place \/ (place = "signing" /\ place' = "front")
    PROVE  GateInv'
<1>1. /\ WebServed => WebServed'
      /\ ServedWhereAsked => ServedWhereAsked'
      /\ UnsignedSeesTip => UnsignedSeesTip'
  BY DEF WebServed, ServedWhereAsked, UnsignedSeesTip, Accepted, Refused
<1>2. /\ Shape(req) => Shape(req')
      /\ Signed(req) => Signed(req')
      /\ Found(req) => Found(req')
  OBVIOUS
<1>. QED  BY <1>1, <1>2 DEF GateInv

LEMMA GateStep == ASSUME GateConstants, GateInv, [AccessNext]_accessVars PROVE GateInv'
<1>0. now \in 0..MaxTime /\ listed \subseteq Keys /\ relists \in 0..MaxRelists
  BY DEF GateInv
<1>1. CASE Asks
  BY <1>1, GateAsks DEF Asks
<1>2. CASE WebSigned
  BY <1>0, <1>2, GateQuiet DEF WebSigned, Send
<1>3. CASE \E k \in Keys, n \in Networks : WalletAsks(k, n)
  BY <1>3, GateWallet
<1>4. CASE Dispatch
  BY <1>4, GateDispatch
<1>5. CASE Serve
  BY <1>5, GateServe
<1>6. CASE BodyRefused
  BY <1>6, GateBodyRefused
<1>7. CASE Again
  BY <1>7 DEF Again, Send, GateInv
<1>8. CASE Tick
  <2>1. now' \in 0..MaxTime
    BY <1>0, <1>8 DEF Tick, GateConstants
  <2>. QED  BY <1>0, <1>8, <2>1, GateQuiet DEF Tick
<1>9. CASE \E S \in SUBSET Keys : Relist(S)
  <2>1. relists' \in 0..MaxRelists /\ listed' \subseteq Keys
    BY <1>0, <1>9 DEF Relist, GateConstants
  <2>. QED  BY <1>0, <1>9, <2>1, GateQuiet DEF Relist
<1>10. CASE UNCHANGED accessVars
  BY <1>0, <1>10, GateQuiet DEF accessVars
<1>. QED  BY <1>1, <1>2, <1>3, <1>4, <1>5, <1>6, <1>7, <1>8, <1>9, <1>10 DEF AccessNext

(* GateExact always holds: the clients, the front and the gate agree on    *)
(* the URL of every request, so a 401 of the page or of a websocket client *)
(* means an old event or an unlisted key; what is served was asked of that *)
(* network for that path; and without an event only the tip is served,     *)
(* under --public-health (auth.rs, bin/splora-http.rs, rest.rs).           *)
THEOREM GateExactAlways == ASSUME GateConstants PROVE AccessSpec => []GateExact
<1>1. AccessInit => GateInv
  BY DEF AccessInit, GateInv, GateConstants
<1>2. GateInv /\ [AccessNext]_accessVars => GateInv'
  BY GateStep
<1>3. GateInv => GateExact
  <2>. SUFFICES ASSUME GateInv PROVE GateExact
    OBVIOUS
  <2>1. place = "idle" => req.by = "none"
    BY DEF GateInv, NoReq
  <2>2. place # "idle" => req.by \in Clients
    BY DEF GateInv, Shape
  <2>3. place # "done" => answer.status = 0
    BY DEF GateInv, NoAnswer
  <2>4. AccessTypeOK
    BY <2>1, <2>2, <2>3 DEF GateInv, AccessTypeOK
  <2>5. WebServed /\ ServedWhereAsked /\ UnsignedSeesTip
    <3>1. CASE place = "done"
      BY <3>1 DEF GateInv
    <3>2. CASE place # "done"
      BY <2>3, <3>2 DEF WebServed, ServedWhereAsked, UnsignedSeesTip, Accepted, Refused
    <3>. QED  BY <3>1, <3>2
  <2>. QED  BY <2>4, <2>5 DEF GateExact
<1>. QED  BY <1>1, <1>2, <1>3, PTL DEF AccessSpec
=============================================================================
