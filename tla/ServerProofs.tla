---------------------------- MODULE ServerProofs ----------------------------
(* Theorems about modules ThreadPool and Server for any finite set of      *)
(* threads and any set of validators.                                      *)
EXTENDS Server, FiniteSetTheorems, TLAPS

\* What appending to a queue and serving its head do to its entries.
LEMMA AppendEntries ==
  ASSUME NEW S, NEW s \in Seq(S), NEW e \in S, NEW i \in Nat
  PROVE  /\ Append(s, e) \in Seq(S) /\ Append(s, e) # <<>>
         /\ s # <<>> => Head(Append(s, e)) = Head(s)
         /\ i \in DOMAIN Append(s, e) <=> i \in DOMAIN s \/ i = Len(s) + 1
         /\ i \in DOMAIN s => Append(s, e)[i] = s[i] /\ i # Len(s) + 1
         /\ Append(s, e)[Len(s) + 1] = e
<1>1. /\ Append(s, e) \in Seq(S) /\ Len(s) \in Nat /\ Len(Append(s, e)) = Len(s) + 1
      /\ DOMAIN s = 1..Len(s) /\ DOMAIN Append(s, e) = 1..Len(s) + 1
      /\ \A k \in 1..Len(s) : Append(s, e)[k] = s[k]
      /\ Append(s, e)[Len(s) + 1] = e
  OBVIOUS
<1>2. Append(s, e) # <<>> /\ Head(Append(s, e)) = Append(s, e)[1]
  BY <1>1
<1>3. s # <<>> => 1 \in 1..Len(s) /\ Head(s) = s[1]
  BY <1>1
<1>4. i \in 1..Len(s) + 1 <=> i \in 1..Len(s) \/ i = Len(s) + 1
  BY <1>1
<1> QED BY <1>1, <1>2, <1>3, <1>4

LEMMA TailEntries ==
  ASSUME NEW S, NEW s \in Seq(S), s # <<>>, NEW i \in Nat
  PROVE  /\ Tail(s) \in Seq(S) /\ Head(s) \in S
         /\ 1 \in DOMAIN s /\ s[1] = Head(s)
         /\ i \in DOMAIN Tail(s) => i + 1 \in DOMAIN s /\ Tail(s)[i] = s[i + 1] /\ i + 1 # 1
<1>1. /\ Head(s) \in S /\ Tail(s) \in Seq(S) /\ Head(s) = s[1] /\ Len(s) \in Nat /\ Len(s) >= 1
      /\ DOMAIN s = 1..Len(s) /\ DOMAIN Tail(s) = 1..Len(s) - 1
      /\ \A k \in 1..Len(s) - 1 : Tail(s)[k] = s[k + 1]
  OBVIOUS
<1> QED BY <1>1

-----------------------------------------------------------------------------
(* One job per thread; the lock is held by the thread between its test and *)
(* its wait, and nobody tests any more once the pool is interrupted.       *)
JobsInv ==
  /\ work_queue <= queued
  /\ owner = "queue" => queued < Jobs

LeftInv ==
  /\ owner \in {"flagged", "join", "gone"} => interrupt
  /\ owner = "join" => \A t \in Threads : thread[t] \in {"tested", "wait"} => t \in missed

(* A request is in one place of one socket, from a validator that is       *)
(* asking.                                                                 *)
Holds(queue, i, v) == i \in DOMAIN queue /\ queue[i] = v

InboxInv ==
  /\ \A t \in Threads, i \in Nat, v \in Validators : Holds(inbox[t], i, v) => v \in asking
  /\ \A t, u \in Threads, i, j \in Nat, v \in Validators :
       Holds(inbox[t], i, v) /\ Holds(inbox[u], j, v) => t = u /\ i = j

(* The count a handler has read is no more than were registered, and is the*)
(* number of them unless another handler was between read and write.       *)
CountInv ==
  /\ IsFiniteSet(registered)
  /\ CountExactUnlessOverlapped
  /\ \A t \in Threads : loop[t] = "add" =>
       /\ inbox[t] # <<>> /\ Head(inbox[t]) \notin registered
       /\ loaded[t] <= Cardinality(registered)
       /\ ~overlapped => loaded[t] = Cardinality(registered)
  /\ ~overlapped => \A t, u \in Threads : loop[t] = "add" /\ loop[u] = "add" => t = u

PInv == PoolTypeOK /\ JobsInv /\ LeftInv

IInv == TypeOK /\ PInv /\ InboxInv /\ CountInv

-----------------------------------------------------------------------------
(* The thread pool.                                                        *)
LEMMA JobsType == Jobs \in Nat \ {0}
<1>1. Cardinality(Threads) \in Nat /\ Cardinality(Threads) # 0
  BY ThreadPoolAssumption, FS_CardinalityType, FS_EmptySet
<1> QED BY <1>1 DEF Jobs

LEMMA InitPInv == PoolInit => PInv
<1> SUFFICES ASSUME PoolInit PROVE PInv OBVIOUS
<1>1. JobsInv BY JobsType DEF PoolInit, JobsInv
<1>2. 0 \in 0..Jobs BY JobsType
<1>3. PoolTypeOK BY <1>2 DEF PoolInit, PoolTypeOK
<1>4. LeftInv BY DEF PoolInit, LeftInv
<1> QED BY <1>1, <1>3, <1>4 DEF PInv

LEMMA OwnerKeeps == ASSUME PInv, Owner PROVE PInv'
<1> USE JobsType DEF PInv
<1>1. CASE QueueJob
  BY <1>1 DEF QueueJob, PoolTypeOK, JobsInv, LeftInv
<1>2. CASE NotifyOne
  <2>1. thread' \in [Threads -> {"lock", "tested", "wait", "run", "left"}]
    BY <1>2 DEF NotifyOne, Wake, PoolTypeOK
  <2> QED BY <1>2, <2>1 DEF NotifyOne, MoreJobs, PoolTypeOK, JobsInv, LeftInv
<1>3. CASE SetInterrupt
  BY <1>3 DEF SetInterrupt, PoolTypeOK, JobsInv, LeftInv
<1>4. CASE NotifyAll
  <2>1. /\ thread' = [t \in Threads |-> IF thread[t] = "wait" THEN "lock" ELSE thread[t]]
        /\ missed' = {t \in Threads : thread[t] = "tested"}
        /\ owner = "flagged" /\ owner' = "join"
        /\ UNCHANGED <<work_queue, queue_lock, interrupt, queued>>
    BY <1>4 DEF NotifyAll, Wake, Notified, Waiting
  <2>2. PoolTypeOK' /\ JobsInv' BY <2>1 DEF PoolTypeOK, JobsInv
  <2>3. LeftInv' BY <2>1 DEF LeftInv
  <2> QED BY <2>2, <2>3
<1>5. CASE Join
  BY <1>5 DEF Join, PoolTypeOK, JobsInv, LeftInv
<1> QED BY <1>1, <1>2, <1>3, <1>4, <1>5 DEF Owner

LEMMA ThreadKeeps ==
  ASSUME PInv, NEW t \in Threads, Looping(t) \/ SpuriousWakeUp(t) \/ JobReturns(t)
  PROVE  PInv'
<1> USE JobsType DEF PInv, Goto
<1>1. CASE Leave(t) BY <1>1 DEF Leave, PoolTypeOK, JobsInv, LeftInv
<1>2. CASE TakeJob(t) BY <1>2 DEF TakeJob, PoolTypeOK, JobsInv, LeftInv
<1>3. CASE Test(t) BY <1>3 DEF Test, PoolTypeOK, JobsInv, LeftInv
<1>4. CASE Wait(t) BY <1>4 DEF Wait, PoolTypeOK, JobsInv, LeftInv
<1>5. CASE SpuriousWakeUp(t) BY <1>5 DEF SpuriousWakeUp, PoolTypeOK, JobsInv, LeftInv
<1>6. CASE JobReturns(t) BY <1>6 DEF JobReturns, PoolTypeOK, JobsInv, LeftInv
<1> QED BY <1>1, <1>2, <1>3, <1>4, <1>5, <1>6 DEF Looping

LEMMA PoolStands == ASSUME PInv, UNCHANGED poolVars PROVE PInv'
BY DEF poolVars, PInv, PoolTypeOK, JobsInv, LeftInv

-----------------------------------------------------------------------------
(* The loops and the count.                                                *)
LEMMA InitIInv == Init => IInv
<1> SUFFICES ASSUME Init PROVE IInv OBVIOUS
<1>1. PInv BY InitPInv DEF Init
<1>2. TypeOK
  <2>1. PoolTypeOK BY <1>1 DEF PInv
  <2>2. inbox \in [Threads -> Seq(Validators)] BY DEF Init
  <2>3. /\ loop \in [Threads -> {"off", "top", "recv", "add"}]
        /\ loaded \in [Threads -> Nat] /\ active_validators \in Nat
    BY DEF Init
  <2> QED BY <2>1, <2>2, <2>3 DEF Init, TypeOK
<1>3. InboxInv BY DEF Init, InboxInv, Holds
<1>4. CountInv BY FS_EmptySet DEF Init, CountInv, CountExactUnlessOverlapped
<1> QED BY <1>1, <1>2, <1>3, <1>4 DEF IInv


LEMMA StartKeeps ==
  ASSUME IInv, PInv', NEW t \in Threads, Start(t) \/ Continue(t)
  PROVE  IInv'
<1>1. /\ loop' = [loop EXCEPT ![t] = IF loop[t] = "off" THEN "top" ELSE "recv"]
      /\ UNCHANGED <<inbox, stopping, countVars>>
  BY DEF Start, Continue, At
<1>2. TypeOK' BY <1>1 DEF IInv, TypeOK, PInv, countVars
<1>3. InboxInv' BY <1>1 DEF IInv, InboxInv, countVars
<1>4. \A u \in Threads : loop'[u] = "add" => loop[u] = "add"
  BY <1>1 DEF IInv, TypeOK
<1>5. CountInv' BY <1>1, <1>4 DEF IInv, CountInv, CountExactUnlessOverlapped, countVars
<1> QED BY <1>2, <1>3, <1>5 DEF IInv

LEMMA ReturnKeeps ==
  ASSUME IInv, PInv', NEW t \in Threads, Return(t)
  PROVE  IInv'
<1>1. /\ loop' = [loop EXCEPT ![t] = "off"] /\ loop[t] = "top"
      /\ inbox' = [inbox EXCEPT ![t] = <<>>]
      /\ UNCHANGED <<stopping, countVars>>
  BY DEF Return, At
<1>2. TypeOK' BY <1>1 DEF IInv, TypeOK, PInv, countVars
<1>3. /\ inbox'[t] = <<>>
      /\ \A u \in Threads : u # t => inbox'[u] = inbox[u] /\ loop'[u] = loop[u]
      /\ loop'[t] = "off"
  BY <1>1 DEF IInv, TypeOK
<1>4. \A u \in Threads, i \in Nat, v \in Validators : Holds(inbox'[u], i, v) => Holds(inbox[u], i, v)
  BY <1>3 DEF Holds
<1>5. InboxInv' BY <1>1, <1>4 DEF IInv, InboxInv, countVars
<1>6. CountInv' BY <1>1, <1>3 DEF IInv, CountInv, CountExactUnlessOverlapped, countVars
<1> QED BY <1>2, <1>5, <1>6 DEF IInv

LEMMA RequestKeeps ==
  ASSUME IInv, PInv', NEW v \in Validators, Request(v)
  PROVE  IInv'
<1>1. PICK t \in Threads : loop[t] # "off" /\ inbox' = [inbox EXCEPT ![t] = Append(@, v)]
  BY DEF Request
<1>2. /\ v \notin asking /\ asking' = asking \cup {v}
      /\ UNCHANGED <<stopping, loop, active_validators, loaded, registered, overlapped>>
  BY DEF Request
<1>3. inbox[t] \in Seq(Validators) BY DEF IInv, TypeOK
<1>4. /\ inbox'[t] = Append(inbox[t], v)
      /\ \A u \in Threads : u # t => inbox'[u] = inbox[u]
  BY <1>1 DEF IInv, TypeOK
<1>5. Append(inbox[t], v) \in Seq(Validators) /\ Append(inbox[t], v) # <<>>
  BY <1>3, AppendEntries
<1>6. TypeOK' BY <1>1, <1>2, <1>5 DEF IInv, TypeOK, PInv
<1>7. ASSUME NEW u \in Threads, NEW i \in Nat, NEW w \in Validators, Holds(inbox'[u], i, w)
      PROVE  \/ Holds(inbox[u], i, w) /\ w # v
             \/ w = v /\ u = t /\ i = Len(inbox[t]) + 1
  <2>1. CASE u = t
    <3>1. \/ i \in DOMAIN inbox[t] /\ inbox'[t][i] = inbox[t][i]
          \/ i = Len(inbox[t]) + 1 /\ inbox'[t][i] = v
      BY <1>3, <1>4, <1>7, <2>1, AppendEntries DEF Holds
    <3>2. CASE i \in DOMAIN inbox[t] /\ inbox'[t][i] = inbox[t][i]
      <4>1. Holds(inbox[u], i, w) BY <1>7, <2>1, <3>2 DEF Holds
      <4> QED BY <1>2, <4>1 DEF IInv, InboxInv
    <3>3. CASE i = Len(inbox[t]) + 1 /\ inbox'[t][i] = v
      BY <1>7, <2>1, <3>3 DEF Holds
    <3> QED BY <3>1, <3>2, <3>3
  <2>2. CASE u # t
    <3>1. Holds(inbox[u], i, w) BY <1>4, <1>7, <2>2
    <3> QED BY <1>2, <3>1 DEF IInv, InboxInv
  <2> QED BY <2>1, <2>2
<1>8. InboxInv' BY <1>2, <1>7 DEF IInv, InboxInv
<1>9. \A u \in Threads : inbox[u] # <<>> => inbox'[u] # <<>> /\ Head(inbox'[u]) = Head(inbox[u])
  BY <1>3, <1>4, <1>5, AppendEntries
<1>10. CountInv' BY <1>2, <1>9 DEF IInv, CountInv, CountExactUnlessOverlapped
<1> QED BY <1>6, <1>8, <1>10 DEF IInv

LEMMA RegisterReadKeeps ==
  ASSUME IInv, PInv', NEW t \in Threads, RegisterRead(t)
  PROVE  IInv'
<1>1. /\ loop[t] = "recv" /\ inbox[t] # <<>> /\ Head(inbox[t]) \notin registered
      /\ loaded' = [loaded EXCEPT ![t] = active_validators]
      /\ overlapped' = (overlapped \/ \E u \in Threads : loop[u] = "add")
      /\ loop' = [loop EXCEPT ![t] = "add"]
      /\ UNCHANGED <<stopping, inbox, active_validators, asking, registered>>
  BY DEF RegisterRead, At
<1>2. TypeOK' BY <1>1 DEF IInv, TypeOK, PInv
<1>3. InboxInv' BY <1>1 DEF IInv, InboxInv
<1>4. /\ loop'[t] = "add" /\ loaded'[t] = active_validators
      /\ \A u \in Threads : u # t => loop'[u] = loop[u] /\ loaded'[u] = loaded[u]
  BY <1>1 DEF IInv, TypeOK
<1>5. ~overlapped' => ~overlapped /\ \A u \in Threads : loop[u] # "add"
  BY <1>1
<1>6. CountExactUnlessOverlapped' /\ IsFiniteSet(registered)'
  BY <1>1, <1>5 DEF IInv, CountInv, CountExactUnlessOverlapped
<1>7. \A u \in Threads : loop'[u] = "add" =>
        /\ inbox'[u] # <<>> /\ Head(inbox'[u]) \notin registered'
        /\ loaded'[u] <= Cardinality(registered')
        /\ ~overlapped' => u = t /\ loaded'[u] = Cardinality(registered')
  <2> SUFFICES ASSUME NEW u \in Threads, loop'[u] = "add"
               PROVE  /\ inbox'[u] # <<>> /\ Head(inbox'[u]) \notin registered'
                      /\ loaded'[u] <= Cardinality(registered')
                      /\ ~overlapped' => u = t /\ loaded'[u] = Cardinality(registered')
    OBVIOUS
  <2>1. CASE u = t BY <1>1, <1>4, <1>5, <2>1 DEF IInv, CountInv, CountExactUnlessOverlapped
  <2>2. CASE u # t BY <1>1, <1>4, <1>5, <2>2 DEF IInv, CountInv
  <2> QED BY <2>1, <2>2
<1>8. CountInv' BY <1>6, <1>7 DEF CountInv
<1> QED BY <1>2, <1>3, <1>8 DEF IInv

(* A handler has served the head of its queue.                             *)
LEMMA HeadServed ==
  ASSUME IInv, NEW t \in Threads, inbox[t] # <<>>,
         inbox' = [inbox EXCEPT ![t] = Tail(@)],
         asking' = asking \ {Head(inbox[t])}
  PROVE  /\ inbox' \in [Threads -> Seq(Validators)] /\ Head(inbox[t]) \in Validators
         /\ \A u \in Threads : u # t => inbox'[u] = inbox[u]
         /\ \A u \in Threads : u # t /\ inbox[u] # <<>> => Head(inbox[u]) # Head(inbox[t])
         /\ InboxInv'
<1> DEFINE v == Head(inbox[t])
<1>1. \A u \in Threads : inbox[u] \in Seq(Validators)
  BY DEF IInv, TypeOK
<1>2. /\ Tail(inbox[t]) \in Seq(Validators) /\ v \in Validators /\ Holds(inbox[t], 1, v)
      /\ \A i \in Nat : i \in DOMAIN Tail(inbox[t]) =>
           i + 1 \in DOMAIN inbox[t] /\ Tail(inbox[t])[i] = inbox[t][i + 1] /\ i + 1 # 1
  BY <1>1, TailEntries DEF Holds
<1>3. asking' = asking \ {v} OBVIOUS
<1> HIDE DEF v
<1>4. /\ inbox'[t] = Tail(inbox[t]) /\ inbox' \in [Threads -> Seq(Validators)]
      /\ \A u \in Threads : u # t => inbox'[u] = inbox[u]
  BY <1>2 DEF IInv, TypeOK
<1>5. ASSUME NEW u \in Threads, u # t, inbox[u] # <<>> PROVE Head(inbox[u]) # v
  <2>1. Holds(inbox[u], 1, Head(inbox[u])) /\ Head(inbox[u]) \in Validators
    BY <1>1, <1>5, TailEntries DEF Holds
  <2> QED BY <1>2, <1>5, <2>1 DEF IInv, InboxInv
<1> DEFINE was(u, i) == IF u = t THEN i + 1 ELSE i
<1>6. ASSUME NEW u \in Threads, NEW i \in Nat, NEW w \in Validators, Holds(inbox'[u], i, w)
      PROVE  was(u, i) \in Nat /\ Holds(inbox[u], was(u, i), w) /\ w # v
  <2>1. CASE u = t
    <3>1. i \in DOMAIN Tail(inbox[t]) /\ Tail(inbox[t])[i] = w
      BY <1>4, <1>6, <2>1 DEF Holds
    <3>2. i + 1 # 1 /\ Holds(inbox[t], i + 1, w)
      BY <1>2, <3>1 DEF Holds
    <3>3. i + 1 \in Nat OBVIOUS
    <3>4. w # v
      <4> SUFFICES ASSUME w = v PROVE FALSE OBVIOUS
      <4>1. i + 1 = 1 BY <1>2, <3>2, <3>3 DEF IInv, InboxInv
      <4> QED BY <3>2, <4>1
    <3> QED BY <2>1, <3>2, <3>3, <3>4
  <2>2. CASE u # t
    <3>1. Holds(inbox[u], i, w) BY <1>4, <1>6, <2>2
    <3>2. w # v BY <1>2, <2>2, <3>1 DEF IInv, InboxInv
    <3> QED BY <2>2, <3>1, <3>2
  <2> QED BY <2>1, <2>2
<1>7. InboxInv'
  <2>1. ASSUME NEW u \in Threads, NEW i \in Nat, NEW w \in Validators, Holds(inbox'[u], i, w)
        PROVE  w \in asking'
    <3> HIDE DEF was
    <3>1. was(u, i) \in Nat /\ Holds(inbox[u], was(u, i), w) /\ w # v BY <1>6, <2>1
    <3> QED BY <1>3, <3>1 DEF IInv, InboxInv
  <2>2. ASSUME NEW u \in Threads, NEW r \in Threads, NEW i \in Nat, NEW j \in Nat, NEW w \in Validators,
               Holds(inbox'[u], i, w), Holds(inbox'[r], j, w)
        PROVE  u = r /\ i = j
    <3>1. u = r /\ was(u, i) = was(r, j)
      <4> HIDE DEF was
      <4>1. /\ was(u, i) \in Nat /\ Holds(inbox[u], was(u, i), w)
            /\ was(r, j) \in Nat /\ Holds(inbox[r], was(r, j), w)
        BY <1>6, <2>2
      <4> QED BY <4>1 DEF IInv, InboxInv
    <3> QED BY <3>1
  <2> QED BY <2>1, <2>2 DEF InboxInv
<1> QED BY <1>2, <1>4, <1>5, <1>7 DEF v

LEMMA RegisterWriteKeeps ==
  ASSUME IInv, PInv', NEW t \in Threads, RegisterWrite(t)
  PROVE  IInv'
<1> DEFINE v == Head(inbox[t])
<1>1. /\ loop[t] = "add" /\ active_validators' = loaded[t] + 1
      /\ inbox' = [inbox EXCEPT ![t] = Tail(@)]
      /\ asking' = asking \ {v} /\ registered' = registered \cup {v}
      /\ loop' = [loop EXCEPT ![t] = "top"]
      /\ UNCHANGED <<stopping, loaded, overlapped>>
  BY DEF RegisterWrite, At, NextCount
<1>2. inbox[t] # <<>> /\ v \notin registered
  BY <1>1 DEF IInv, CountInv
<1>3. /\ inbox' \in [Threads -> Seq(Validators)] /\ v \in Validators
      /\ \A u \in Threads : u # t => inbox'[u] = inbox[u]
      /\ \A u \in Threads : u # t /\ inbox[u] # <<>> => Head(inbox[u]) # v
      /\ InboxInv'
  BY <1>1, <1>2, HeadServed
<1> HIDE DEF v
<1>4. loop'[t] = "top" /\ \A u \in Threads : u # t => loop'[u] = loop[u]
  BY <1>1 DEF IInv, TypeOK
<1>5. TypeOK' BY <1>1, <1>3 DEF IInv, TypeOK, PInv
<1>6. /\ IsFiniteSet(registered') /\ Cardinality(registered) \in Nat
      /\ Cardinality(registered') = Cardinality(registered) + 1
  BY <1>1, <1>2, FS_AddElement, FS_CardinalityType DEF IInv, CountInv
<1>7. loaded[t] \in Nat BY DEF IInv, TypeOK
<1>8. CountExactUnlessOverlapped'
  BY <1>1, <1>6, <1>7 DEF IInv, CountInv, CountExactUnlessOverlapped
<1>9. ~overlapped' => \A u \in Threads : loop'[u] # "add"
  BY <1>1, <1>4 DEF IInv, CountInv
<1>10. \A u \in Threads : loop'[u] = "add" =>
         /\ inbox'[u] # <<>> /\ Head(inbox'[u]) \notin registered'
         /\ loaded'[u] <= Cardinality(registered')
  <2> SUFFICES ASSUME NEW u \in Threads, loop'[u] = "add"
               PROVE  /\ inbox'[u] # <<>> /\ Head(inbox'[u]) \notin registered'
                      /\ loaded'[u] <= Cardinality(registered')
    OBVIOUS
  <2>1. u # t /\ loop[u] = "add" /\ inbox'[u] = inbox[u] BY <1>3, <1>4
  <2>2. /\ inbox[u] # <<>> /\ Head(inbox[u]) \notin registered
        /\ loaded[u] <= Cardinality(registered) /\ loaded[u] \in Nat
    BY <2>1 DEF IInv, CountInv, TypeOK
  <2> QED BY <1>1, <1>3, <1>6, <2>1, <2>2
<1>11. CountInv' BY <1>6, <1>8, <1>9, <1>10 DEF CountInv
<1> QED BY <1>3, <1>5, <1>11 DEF IInv

(* A block leaves the count and whoever is adding to it alone.             *)
LEMMA HandleBlockKeeps ==
  ASSUME IInv, PInv', NEW t \in Threads, HandleBlock(t)
  PROVE  IInv'
<1>1. /\ loop[t] = "recv" /\ inbox[t] # <<>>
      /\ inbox' = [inbox EXCEPT ![t] = Tail(@)]
      /\ asking' = asking \ {Head(inbox[t])}
      /\ loop' = [loop EXCEPT ![t] = "top"]
      /\ UNCHANGED <<stopping, active_validators, loaded, registered, overlapped>>
  BY DEF HandleBlock, At, CountAfterBlock
<1>2. /\ inbox' \in [Threads -> Seq(Validators)] /\ InboxInv'
      /\ \A u \in Threads : u # t => inbox'[u] = inbox[u]
  BY <1>1, HeadServed
<1>3. TypeOK' BY <1>1, <1>2 DEF IInv, TypeOK, PInv
<1>4. \A u \in Threads : loop'[u] = "add" => loop[u] = "add" /\ inbox'[u] = inbox[u]
  BY <1>1, <1>2 DEF IInv, TypeOK
<1>5. CountInv' BY <1>1, <1>4 DEF IInv, CountInv, CountExactUnlessOverlapped
<1> QED BY <1>2, <1>3, <1>5 DEF IInv

LEMMA LoopsStand ==
  ASSUME IInv, PInv', UNCHANGED <<inbox, loop, countVars>>, stopping' \in BOOLEAN
  PROVE  IInv'
BY DEF IInv, PInv, TypeOK, InboxInv, CountInv, CountExactUnlessOverlapped, countVars

LEMMA IInvStep == ASSUME IInv, [Next]_vars PROVE IInv'
<1>1. PInv'
  <2>1. PInv BY DEF IInv
  <2>2. CASE UNCHANGED vars BY <2>1, <2>2, PoolStands DEF vars
  <2>3. CASE OwnerStep BY <2>1, <2>3, OwnerKeeps DEF OwnerStep
  <2>4. CASE Shutdown BY <2>1, <2>4, PoolStands DEF Shutdown
  <2>5. CASE Spurious BY <2>1, <2>5, ThreadKeeps DEF Spurious
  <2>6. ASSUME NEW t \in Threads, ThreadStep(t) PROVE PInv'
    BY <2>1, <2>6, ThreadKeeps, PoolStands
       DEF ThreadStep, Serving, Start, Continue, Return, RegisterRead, RegisterWrite, HandleBlock
  <2>7. ASSUME NEW v \in Validators, Request(v) PROVE PInv'
    BY <2>1, <2>7, PoolStands DEF Request
  <2> QED BY <2>2, <2>3, <2>4, <2>5, <2>6, <2>7 DEF Next
<1>2. stopping \in BOOLEAN BY DEF IInv, TypeOK
<1>3. CASE UNCHANGED vars
  BY <1>1, <1>2, <1>3, LoopsStand DEF vars, loopVars
<1>4. CASE OwnerStep BY <1>1, <1>2, <1>4, LoopsStand DEF OwnerStep, loopVars
<1>5. CASE Shutdown BY <1>1, <1>5, LoopsStand DEF Shutdown
<1>6. CASE Spurious BY <1>1, <1>2, <1>6, LoopsStand DEF Spurious, loopVars
<1>7. ASSUME NEW t \in Threads, ThreadStep(t) PROVE IInv'
  <2>1. CASE Serving(t)
    BY <1>1, <2>1, StartKeeps, ReturnKeeps, RegisterReadKeeps, RegisterWriteKeeps,
       HandleBlockKeeps DEF Serving
  <2>2. CASE UNCHANGED <<loopVars, countVars>>
    BY <1>1, <1>2, <2>2, LoopsStand DEF loopVars
  <2> QED BY <1>7, <2>1, <2>2 DEF ThreadStep
<1>8. ASSUME NEW v \in Validators, Request(v) PROVE IInv'
  BY <1>1, <1>8, RequestKeeps
<1> QED BY <1>3, <1>4, <1>5, <1>6, <1>7, <1>8 DEF Next

THEOREM ServerInvariance == Spec => []IInv
BY InitIInv, IInvStep, PTL DEF Spec

(* Every variable keeps its type: one job per thread at most.              *)
THEOREM ServerTypeCorrect == Spec => []TypeOK
BY ServerInvariance, PTL DEF IInv

(* Only the flag the destructor sets without queue_lock leaves a thread    *)
(* behind, with any number of threads.                                     *)
THEOREM OnlyMissedAreLeft == Spec => []LeftBehindOnlyIfMissed
<1>1. IInv => LeftBehindOnlyIfMissed
  BY DEF IInv, PInv, LeftInv, LeftBehindOnlyIfMissed, Waiting
<1> QED BY <1>1, ServerInvariance, PTL

(* The count of validators is that of all registered since the start,      *)
(* through every block; it is wrong only if two were registered at once,   *)
(* and is then too small (register_validator, handle_block).               *)
THEOREM CountIsExact == Spec => []CountExactUnlessOverlapped
BY ServerInvariance, PTL DEF IInv, CountInv

-----------------------------------------------------------------------------
(* No lost wakeup before the destructor.  While a thread waits there are as*)
(* many threads on their way to queue_lock as jobs, but for the one whose  *)
(* notification is still to come.                                          *)
AtLock == {t \in Threads : thread[t] = "lock"}

NoJobForgotten ==
  ~interrupt /\ Waiting # {} =>
    work_queue <= Cardinality(AtLock) + (IF owner = "notify" THEN 1 ELSE 0)

\* Who is between test and wait holds the lock, so no job can have come.
TestedInv == \A t \in Threads : thread[t] = "tested" => queue_lock = t /\ work_queue = 0

WakeInv == TestedInv /\ NoJobForgotten

LEMMA AtLockCount ==
  ASSUME NEW t \in Threads
  PROVE  /\ IsFiniteSet(AtLock) /\ Cardinality(AtLock) \in Nat
         /\ t \notin AtLock => Cardinality(AtLock \cup {t}) = Cardinality(AtLock) + 1
         /\ t \in AtLock => Cardinality(AtLock \ {t}) = Cardinality(AtLock) - 1
<1>1. IsFiniteSet(AtLock)
  BY ThreadPoolAssumption, FS_Subset DEF AtLock
<1> QED BY <1>1, FS_CardinalityType, FS_AddElement, FS_RemoveElement

LEMMA InitWakeInv == PoolInit => WakeInv
BY DEF PoolInit, WakeInv, TestedInv, NoJobForgotten, Waiting

LEMMA OwnerWakes == ASSUME PInv, WakeInv, Owner PROVE WakeInv'
<1>1. /\ work_queue \in 0..Jobs /\ Jobs \in Nat /\ thread \in [Threads -> {"lock", "tested", "wait", "run", "left"}]
      /\ \A t \in Threads : t # None
  BY JobsType, ThreadPoolAssumption DEF PInv, PoolTypeOK
<1>2. Cardinality(AtLock) \in Nat
  BY ThreadPoolAssumption, AtLockCount
<1>3. CASE QueueJob
  <2>1. /\ queue_lock = None /\ work_queue' = work_queue + 1 /\ owner = "queue" /\ owner' = "notify"
        /\ UNCHANGED <<interrupt, thread>>
    BY <1>3 DEF QueueJob
  <2>2. TestedInv' BY <1>1, <2>1 DEF WakeInv, TestedInv
  <2>3. Waiting' = Waiting /\ AtLock' = AtLock BY <2>1 DEF Waiting, AtLock
  <2>4. NoJobForgotten' BY <1>1, <1>2, <2>1, <2>3 DEF WakeInv, NoJobForgotten
  <2> QED BY <2>2, <2>4 DEF WakeInv
<1>4. CASE NotifyOne
  <2>1. /\ owner = "notify" /\ owner' # "notify" /\ UNCHANGED <<work_queue, queue_lock, interrupt>>
        /\ IF Waiting = {} THEN thread' = thread ELSE \E t \in Waiting : Wake({t})
    BY <1>4 DEF NotifyOne, Notifiable
  <2>2. CASE Waiting = {}
    <3>1. thread' = thread BY <2>1, <2>2
    <3>2. Waiting' = {} BY <2>2, <3>1 DEF Waiting
    <3> QED BY <2>1, <3>1, <3>2 DEF WakeInv, TestedInv, NoJobForgotten
  <2>3. CASE Waiting # {}
    <3>1. PICK t \in Waiting : Wake({t}) BY <2>1, <2>3
    <3>2. t \in Threads /\ thread[t] = "wait" /\ t \notin AtLock
      BY <3>1 DEF Waiting, AtLock
    <3>3. thread' = [u \in Threads |-> IF u = t THEN "lock" ELSE thread[u]]
      BY <3>1 DEF Wake
    <3>4. AtLock' = AtLock \cup {t} BY <3>2, <3>3 DEF AtLock
    <3>5. Cardinality(AtLock') = Cardinality(AtLock) + 1
      BY <3>2, <3>4, AtLockCount
    <3>6. TestedInv' BY <2>1, <3>3 DEF WakeInv, TestedInv
    <3>7. NoJobForgotten' BY <1>1, <1>2, <2>1, <2>3, <3>5 DEF WakeInv, NoJobForgotten
    <3> QED BY <3>6, <3>7 DEF WakeInv
  <2> QED BY <2>2, <2>3
<1>5. CASE SetInterrupt
  BY <1>5 DEF SetInterrupt, WakeInv, TestedInv, NoJobForgotten
<1>6. CASE NotifyAll
  <2>1. /\ thread' = [t \in Threads |-> IF t \in Waiting THEN "lock" ELSE thread[t]]
        /\ UNCHANGED <<work_queue, queue_lock>>
    BY <1>6 DEF NotifyAll, Notified, Wake
  <2>2. TestedInv' BY <2>1 DEF WakeInv, TestedInv
  <2>3. Waiting' = {} BY <2>1 DEF Waiting
  <2> QED BY <2>2, <2>3 DEF WakeInv, NoJobForgotten
<1>7. CASE Join
  <2>1. interrupt' /\ work_queue' = 0 /\ UNCHANGED <<queue_lock, thread>>
    BY <1>7 DEF Join, PInv, LeftInv
  <2> QED BY <2>1 DEF WakeInv, TestedInv, NoJobForgotten
<1> QED BY <1>3, <1>4, <1>5, <1>6, <1>7 DEF Owner

LEMMA ThreadWakes ==
  ASSUME PInv, WakeInv, NEW t \in Threads, Looping(t) \/ SpuriousWakeUp(t) \/ JobReturns(t)
  PROVE  WakeInv'
<1>1. /\ work_queue \in 0..Jobs /\ Jobs \in Nat /\ thread \in [Threads -> {"lock", "tested", "wait", "run", "left"}]
      /\ \A u \in Threads : u # None
  BY JobsType, ThreadPoolAssumption DEF PInv, PoolTypeOK
<1>2. /\ Cardinality(AtLock) \in Nat
      /\ t \notin AtLock => Cardinality(AtLock \cup {t}) = Cardinality(AtLock) + 1
      /\ t \in AtLock => Cardinality(AtLock \ {t}) = Cardinality(AtLock) - 1
  BY AtLockCount
<1>3. CASE Leave(t)
  <2>1. /\ queue_lock = None /\ interrupt' /\ thread' = [thread EXCEPT ![t] = "left"]
        /\ UNCHANGED <<work_queue, queue_lock>>
    BY <1>3 DEF Leave, Goto
  <2>2. TestedInv' BY <1>1, <2>1 DEF WakeInv, TestedInv
  <2> QED BY <2>1, <2>2 DEF WakeInv, NoJobForgotten
<1>4. CASE TakeJob(t)
  <2>1. /\ thread[t] = "lock" /\ queue_lock = None /\ work_queue > 0 /\ work_queue' = work_queue - 1
        /\ thread' = [thread EXCEPT ![t] = "run"]
        /\ UNCHANGED <<queue_lock, interrupt, owner>>
    BY <1>4 DEF TakeJob, Goto
  <2>2. TestedInv' BY <1>1, <2>1 DEF WakeInv, TestedInv
  <2>3. Waiting' = Waiting BY <1>1, <2>1 DEF Waiting
  <2>4. t \in AtLock /\ AtLock' = AtLock \ {t} BY <1>1, <2>1 DEF AtLock
  <2>5. Cardinality(AtLock') = Cardinality(AtLock) - 1 BY <1>2, <2>4
  <2>6. NoJobForgotten' BY <1>1, <1>2, <2>1, <2>3, <2>5 DEF WakeInv, NoJobForgotten
  <2> QED BY <2>2, <2>6 DEF WakeInv
<1>5. CASE Test(t)
  <2>1. /\ queue_lock = None /\ work_queue = 0 /\ queue_lock' = t /\ work_queue' = 0
        /\ thread' = [thread EXCEPT ![t] = "tested"]
    BY <1>5 DEF Test, Goto
  <2>2. TestedInv' BY <1>1, <2>1 DEF WakeInv, TestedInv
  <2>3. (Cardinality(AtLock) \in Nat)'
    <3>1. (IsFiniteSet(AtLock))' BY ThreadPoolAssumption, FS_Subset DEF AtLock
    <3> QED BY <3>1, FS_CardinalityType
  <2>4. NoJobForgotten' BY <2>1, <2>3 DEF NoJobForgotten
  <2> QED BY <2>2, <2>4 DEF WakeInv
<1>6. CASE Wait(t)
  <2>1. /\ thread[t] = "tested" /\ work_queue' = work_queue
        /\ thread' = [thread EXCEPT ![t] = "wait"]
    BY <1>6 DEF Wait, Goto
  <2>2. work_queue' = 0 /\ queue_lock = t BY <2>1 DEF WakeInv, TestedInv
  <2>3. TestedInv' BY <1>1, <2>1, <2>2 DEF WakeInv, TestedInv
  <2>4. (Cardinality(AtLock) \in Nat)'
    <3>1. (IsFiniteSet(AtLock))' BY ThreadPoolAssumption, FS_Subset DEF AtLock
    <3> QED BY <3>1, FS_CardinalityType
  <2>5. NoJobForgotten' BY <2>2, <2>4 DEF NoJobForgotten
  <2> QED BY <2>3, <2>5 DEF WakeInv
<1>7. CASE SpuriousWakeUp(t) \/ JobReturns(t)
  <2>1. /\ thread[t] \in {"wait", "run"} /\ thread' = [thread EXCEPT ![t] = "lock"]
        /\ UNCHANGED <<work_queue, queue_lock, interrupt, owner>>
    BY <1>7 DEF SpuriousWakeUp, JobReturns, Goto
  <2>2. TestedInv' BY <1>1, <2>1 DEF WakeInv, TestedInv
  <2>3. Waiting' \subseteq Waiting BY <1>1, <2>1 DEF Waiting
  <2>4. t \notin AtLock /\ AtLock' = AtLock \cup {t} BY <1>1, <2>1 DEF AtLock
  <2>5. Cardinality(AtLock') = Cardinality(AtLock) + 1 BY <1>2, <2>4
  <2>6. Waiting' # {} => Waiting # {} BY <2>3
  <2>7. NoJobForgotten' BY <1>1, <1>2, <2>1, <2>5, <2>6 DEF WakeInv, NoJobForgotten
  <2> QED BY <2>2, <2>7 DEF WakeInv
<1> QED BY <1>3, <1>4, <1>5, <1>6, <1>7 DEF Looping

LEMMA WakeStands == ASSUME WakeInv, UNCHANGED poolVars PROVE WakeInv'
BY DEF poolVars, WakeInv, TestedInv, NoJobForgotten, Waiting, AtLock

LEMMA WakeStep == ASSUME PInv, WakeInv, [Next]_vars PROVE WakeInv'
<1>1. CASE UNCHANGED vars BY <1>1, WakeStands DEF vars
<1>2. CASE OwnerStep BY <1>2, OwnerWakes DEF OwnerStep
<1>3. CASE Shutdown BY <1>3, WakeStands DEF Shutdown
<1>4. CASE Spurious BY <1>4, ThreadWakes DEF Spurious
<1>5. ASSUME NEW t \in Threads, ThreadStep(t) PROVE WakeInv'
  BY <1>5, ThreadWakes, WakeStands
     DEF ThreadStep, Serving, Start, Continue, Return, RegisterRead, RegisterWrite, HandleBlock
<1>6. ASSUME NEW v \in Validators, Request(v) PROVE WakeInv'
  BY <1>6, WakeStands DEF Request
<1> QED BY <1>1, <1>2, <1>3, <1>4, <1>5, <1>6 DEF Next

(* Until the destructor sets its flag no job is forgotten: not when a      *)
(* notification finds nobody waiting, nor when the thread it wakes finds   *)
(* its job taken by one that came by, nor when a thread wakes for nothing. *)
THEOREM NoJobIsForgotten == Spec => []NoJobForgotten
<1>1. Init => WakeInv BY InitWakeInv DEF Init
<1>2. IInv /\ WakeInv /\ [Next]_vars => WakeInv' BY WakeStep DEF IInv
<1>3. WakeInv => NoJobForgotten BY DEF WakeInv
<1> QED BY <1>1, <1>2, <1>3, ServerInvariance, PTL DEF Spec
=============================================================================
