------------------------ MODULE InferenceEngineProofs ------------------------
(***************************************************************************)
(* What a client is told by the inference engine, for any number of        *)
(* threads, processes, versions and requests and any time to live.         *)
(*                                                                         *)
(* The cache levels hand predictions on by reference and by copy, so the   *)
(* invariant says of every place a prediction can be in what it is, and of *)
(* every request that has none yet that nobody uses the object it is going *)
(* to fill.                                                                *)
(***************************************************************************)
EXTENDS InferenceEngine, TLAPS

\* Requests without a prediction, and with one.
Early == {"get", "disk", "expire", "load", "compute"}
Late  == {"promote", "hit", "open", "dump", "reply"}

Object == [key : Keys \cup {<<>>}, by : Nat, born : Nat, from_cache : BOOLEAN]
Thread == [pc : Early \cup Late \cup {"idle"}, id : Nat, key : Keys \cup {<<>>},
           now : Nat, val : Nat, ts : Nat]
File   == [state : {"none", "torn", "full"}, val : Object, ts : Nat,
           writers : SUBSET Threads]

CountsOK   == clock \in 0..MaxClock /\ requests \in 0..MaxRequests /\ faults \in 0..MaxFaults
ThreadType == thread \in [Threads -> Thread]
ObjectType == object \in [1..MaxRequests -> Object]
DiskType   == disk \in [Keys -> File]
MemType    == DOMAIN mem = Procs

\* The versions of a ticker are numbered from 1, the pointers name one or none.
Known(d) ==
    /\ DOMAIN d = Tickers
    /\ \A tk \in Tickers :
          /\ DOMAIN d[tk] = {"latest", "best", "versions"}
          /\ d[tk].versions \in Seq(Record)
          /\ Len(d[tk].versions) <= MaxVersions
          /\ d[tk].latest \in 0..MaxVersions /\ d[tk].best \in 0..MaxVersions

RegistryOK == Known(registry)

\* Object i is a complete prediction for key k.
Answer(i, k) ==
    i \in 1..requests /\ object[i].key = k /\ object[i].by \in 1..requests

RequestOK ==
    \A t \in Threads :
        /\ thread[t].id \in 0..requests /\ thread[t].val \in 0..requests
        /\ thread[t].pc # "idle" => /\ thread[t].id \in 1..requests
                                   /\ thread[t].key \in Keys
                                   /\ thread[t].now <= clock

DistinctIds ==
    \A t, u \in Threads :
        t # u /\ thread[t].pc # "idle" /\ thread[u].pc # "idle" =>
            thread[t].id # thread[u].id

\* A thread in state th has what it asked for, and knows where it is from.
Served(th) ==
    th.pc \in Late =>
        /\ Answer(th.val, th.key)
        /\ Fresh(th.now, object[th.val].born)
        /\ th.pc \in {"promote", "open", "dump"} =>
              th.val = th.id /\ th.ts = object[th.val].born
        /\ th.pc \in {"open", "dump"} => object[th.val].by = th.id
        /\ th.pc = "reply" /\ ~object[th.val].from_cache => object[th.val].by = th.id

LateOK == \A t \in Threads : Served(thread[t])

MemOK ==
    \A p \in Procs : \A k \in DOMAIN mem[p] :
        /\ Answer(mem[p][k].val, k)
        /\ mem[p][k].ts = object[mem[p][k].val].born

DiskOK ==
    \A k \in Keys : disk[k].state = "full" =>
        /\ disk[k].val.key = k
        /\ disk[k].val.by \in 1..requests
        /\ disk[k].ts = disk[k].val.born

Unused ==
    \A t \in Threads : thread[t].pc \in Early =>
        /\ \A p \in Procs : \A k \in DOMAIN mem[p] : mem[p][k].val # thread[t].id
        /\ \A u \in Threads : thread[u].pc \in Late => thread[u].val # thread[t].id

IInv ==
    /\ CountsOK /\ ThreadType /\ ObjectType /\ DiskType /\ MemType
    /\ RegistryOK /\ RequestOK /\ DistinctIds
    /\ LateOK /\ MemOK /\ DiskOK /\ Unused

-------------------------------------------------------------------------------
\* What all steps of one request have in common.  It goes on with the same
\* request or ends it; it writes its own object, and only while it has no
\* prediction; and what it adds to the memory level is the prediction it holds.
Continues(t, r) ==
    /\ r.pc # "idle" /\ thread[t].pc # "idle"
    /\ r.id = thread[t].id /\ r.key = thread[t].key /\ r.now = thread[t].now
    /\ r.val \in 0..requests

ThreadStep(t, r) ==
    /\ thread' = [thread EXCEPT ![t] = r]
    /\ UNCHANGED <<clock, registry, requests, faults>>
    /\ r = Idle \/ Continues(t, r)
    /\ r.pc \in Early => thread[t].pc \in Early
    /\ Served(r)'
    /\ \A u \in Threads : u # t /\ thread[u].pc \in Early /\ r.pc \in Late =>
          r.val # thread[u].id

ObjectStep(t, r) ==
    /\ ObjectType'
    /\ \A j \in 1..MaxRequests : object'[j] # object[j] =>
          thread[t].pc \in Early /\ j = thread[t].id

MemStep(r) ==
    /\ MemType'
    /\ \A p \in Procs : \A k \in DOMAIN mem'[p] :
          \/ k \in DOMAIN mem[p] /\ mem'[p][k] = mem[p][k]
          \/ /\ r.pc \in {"hit", "open"} /\ k = r.key
             /\ mem'[p][k].val = r.val /\ mem'[p][k].ts = object'[r.val].born

DiskStep == DiskType' /\ DiskOK'

LEMMA RequestStep ==
    ASSUME IInv, NEW t \in Threads, NEW r \in Thread,
           ThreadStep(t, r), ObjectStep(t, r), MemStep(r), DiskStep
    PROVE  IInv'
<1> USE DEF Continues, ThreadStep, ObjectStep, MemStep, DiskStep
<1>1. /\ thread'[t] = r
      /\ \A u \in Threads : u # t => thread'[u] = thread[u]
      /\ ThreadType'
  BY DEF IInv, ThreadType
<1>2. CountsOK' /\ RegistryOK'
  BY DEF IInv, CountsOK, RegistryOK
<1>3. RequestOK'
  BY <1>1 DEF IInv, RequestOK, CountsOK, Idle
<1>4. DistinctIds'
  BY <1>1 DEF IInv, DistinctIds, Idle
<1>5. \A j \in 1..requests : j \in 1..MaxRequests
  BY EngineAssumption DEF IInv, CountsOK
<1>6. LateOK'
  <2> SUFFICES ASSUME NEW u \in Threads, u # t PROVE Served(thread[u])'
    BY <1>1 DEF LateOK
  <2>1. thread'[u] = thread[u] /\ Served(thread[u])
    BY <1>1 DEF IInv, LateOK
  <2>2. CASE thread[u].pc \in Late
    <3>1. thread[u].val \in 1..MaxRequests
      BY <1>5, <2>1, <2>2 DEF Served, Answer
    <3>2. object'[thread[u].val] = object[thread[u].val]
      BY <2>2, <3>1 DEF IInv, Unused
    <3> QED
      BY <2>1, <2>2, <3>2 DEF Served, Answer
  <2>3. CASE thread[u].pc \notin Late
    BY <2>1, <2>3 DEF Served
  <2> QED
    BY <2>2, <2>3
<1>7. MemOK'
  <2> SUFFICES ASSUME NEW p \in Procs, NEW k \in DOMAIN mem'[p]
               PROVE  /\ Answer(mem[p][k].val, k)'
                      /\ mem'[p][k].ts = object'[mem'[p][k].val].born
    BY DEF MemOK
  <2>1. CASE k \in DOMAIN mem[p] /\ mem'[p][k] = mem[p][k]
    <3>1. /\ Answer(mem[p][k].val, k)
          /\ mem[p][k].ts = object[mem[p][k].val].born
      BY <2>1 DEF IInv, MemOK
    <3>2. mem[p][k].val \in 1..MaxRequests
      BY <1>5, <3>1 DEF Answer
    <3>3. object'[mem[p][k].val] = object[mem[p][k].val]
      BY <2>1, <3>2 DEF IInv, Unused
    <3> QED
      BY <2>1, <3>1, <3>3 DEF Answer
  <2>2. CASE /\ r.pc \in {"hit", "open"} /\ k = r.key
             /\ mem'[p][k].val = r.val /\ mem'[p][k].ts = object'[r.val].born
    BY <2>2 DEF Served, Late, Answer
  <2> QED
    BY <2>1, <2>2
<1>8. Unused'
  <2> SUFFICES ASSUME NEW u \in Threads, thread'[u].pc \in Early
               PROVE  /\ \A p \in Procs : \A k \in DOMAIN mem'[p] :
                            mem'[p][k].val # thread'[u].id
                      /\ \A w \in Threads : thread'[w].pc \in Late =>
                            thread'[w].val # thread'[u].id
    BY DEF Unused
  <2>1. thread[u].pc \in Early /\ thread'[u].id = thread[u].id
    BY <1>1 DEF Idle, Early
  <2>2. ASSUME NEW p \in Procs, NEW k \in DOMAIN mem'[p]
        PROVE  mem'[p][k].val # thread'[u].id
    <3>1. CASE k \in DOMAIN mem[p] /\ mem'[p][k] = mem[p][k]
      BY <2>1, <3>1 DEF IInv, Unused
    <3>2. CASE r.pc \in {"hit", "open"} /\ mem'[p][k].val = r.val
      BY <1>1, <2>1, <3>2 DEF Early, Late
    <3> QED
      BY <3>1, <3>2
  <2>3. ASSUME NEW w \in Threads, thread'[w].pc \in Late
        PROVE  thread'[w].val # thread'[u].id
    <3>1. CASE w = t
      BY <1>1, <2>1, <2>3, <3>1 DEF Early, Late
    <3>2. CASE w # t
      BY <1>1, <2>1, <2>3, <3>2 DEF IInv, Unused
    <3> QED
      BY <3>1, <3>2
  <2> QED
    BY <2>2, <2>3
<1> QED
  BY <1>1, <1>2, <1>3, <1>4, <1>6, <1>7, <1>8 DEF IInv

\* What a step of a request may assume of it.
LEMMA Busy ==
    ASSUME IInv, NEW t \in Threads, thread[t].pc # "idle"
    PROVE  /\ thread[t] \in Thread /\ thread[t].key \in Keys /\ Key(t) = thread[t].key
           /\ thread[t].id \in 1..requests /\ thread[t].id \in 1..MaxRequests
           /\ thread[t].val \in 0..requests /\ thread[t].now <= clock
           /\ Home(t) \in Procs /\ clock \in Nat
           /\ Served(thread[t])
<1>1. thread[t] \in Thread /\ thread[t].key \in Keys /\ Served(thread[t])
  BY DEF IInv, ThreadType, RequestOK, LateOK
<1>2. Key(t) = thread[t].key
  BY <1>1 DEF Key, cache_key, Keys
<1>3. /\ thread[t].id \in 1..requests /\ thread[t].id \in 1..MaxRequests
      /\ thread[t].val \in 0..requests /\ thread[t].now <= clock /\ clock \in Nat
  BY EngineAssumption DEF IInv, RequestOK, CountsOK
<1>4. Home(t) \in Procs
  BY EngineAssumption DEF Home
<1> QED
  BY <1>1, <1>2, <1>3, <1>4

\* The thread's next state, for a step that takes it to pc and maybe sets val.
LEMMA Next1 ==
    ASSUME NEW th \in Thread, NEW pc \in Early \cup Late, NEW val \in Nat, NEW ts \in Nat
    PROVE  /\ [th EXCEPT !.pc = pc] \in Thread
           /\ [th EXCEPT !.pc = pc, !.val = val] \in Thread
           /\ [th EXCEPT !.pc = pc, !.val = val, !.ts = ts] \in Thread
           /\ [th EXCEPT !.pc = pc, !.ts = ts, !.val = val] \in Thread
BY DEF Thread

\* Nothing is written.
LEMMA Unwritten ==
    ASSUME IInv, NEW t, NEW r
    PROVE  /\ object' = object => ObjectStep(t, r)
           /\ mem' = mem => MemStep(r)
           /\ UNCHANGED <<disk, requests>> => DiskStep
BY DEF IInv, ObjectStep, MemStep, DiskStep, ObjectType, MemType, DiskType, DiskOK

\* A fresh entry of the memory level is what the request asked for.
LEMMA StepGetMem ==
    ASSUME IInv, NEW t \in Threads, GetMem(t)
    PROVE  IInv'
<1> DEFINE m == mem[Home(t)]
           k == thread[t].key
           hit == k \in DOMAIN m /\ Fresh(thread[t].now, m[k].ts)
<1>1. /\ thread[t].pc = "get" /\ Key(t) = k /\ Home(t) \in Procs
      /\ thread[t] \in Thread /\ thread[t].val \in 0..requests
  BY Busy DEF GetMem, At
<1>2. UNCHANGED <<clock, registry, requests, faults, disk, object>>
  BY DEF GetMem
<1>3. CASE hit
  <2> DEFINE val == m[k].val
  <2>1. /\ Answer(val, k) /\ m[k].ts = object[val].born /\ val \in 0..requests /\ val \in Nat
        /\ \A u \in Threads : thread[u].pc \in Early => val # thread[u].id
    BY <1>1, <1>3 DEF IInv, MemOK, Answer, CountsOK, Unused
  <2>2. PICK r \in Thread : /\ thread' = [thread EXCEPT ![t] = r]
                            /\ r = [thread[t] EXCEPT !.pc = "hit", !.val = val]
    BY <1>1, <1>3, <2>1, Next1 DEF GetMem, Late
  <2>3. /\ r.pc = "hit" /\ r.id = thread[t].id /\ r.key = k
        /\ r.now = thread[t].now /\ r.val = val
    BY <1>1, <2>2 DEF Thread
  <2>4. Served(r)'
    BY <1>2, <1>3, <2>1, <2>3 DEF Served, Answer
  <2>5. mem' = mem
    BY <1>1, <1>3 DEF GetMem
  <2>6. ThreadStep(t, r)
    BY <1>1, <1>2, <2>1, <2>2, <2>3, <2>4 DEF ThreadStep, Continues, Early
  <2> QED
    BY <1>2, <2>5, <2>6, Unwritten, RequestStep
<1>4. CASE ~hit
  <2>1. PICK r \in Thread : /\ thread' = [thread EXCEPT ![t] = r]
                            /\ r = [thread[t] EXCEPT !.pc = "disk"]
    BY <1>1, <1>4, Next1 DEF GetMem, Early
  <2>2. /\ r.pc = "disk" /\ r.id = thread[t].id /\ r.key = k
        /\ r.now = thread[t].now /\ r.val \in 0..requests
    BY <1>1, <2>1 DEF Thread
  <2>3. mem' = [mem EXCEPT ![Home(t)] = Without(m, k)]
    BY <1>1, <1>4 DEF GetMem
  <2>4. MemStep(r)
    BY <1>1, <2>3 DEF IInv, MemType, MemStep, Without
  <2>5. ThreadStep(t, r)
    BY <1>1, <1>2, <2>1, <2>2 DEF ThreadStep, Continues, Served, Early, Late
  <2> QED
    BY <1>2, <2>4, <2>5, Unwritten, RequestStep
<1> QED
  BY <1>3, <1>4

\* A step of Goto: the place changes, nothing else.
LEMMA Goes ==
    ASSUME IInv, NEW t \in Threads, NEW pc \in Early \cup Late,
           thread[t].pc # "idle", Goto(t, pc)
    PROVE  \E r \in Thread :
              /\ thread' = [thread EXCEPT ![t] = r]
              /\ Continues(t, r) /\ r.pc = pc
              /\ r.val = thread[t].val /\ r.ts = thread[t].ts
<1> DEFINE r == [thread[t] EXCEPT !.pc = pc]
<1>1. thread[t] \in Thread /\ thread[t].val \in 0..requests
  BY Busy
<1>2. r \in Thread
  BY <1>1, Next1
<1>3. r.pc = pc /\ r.id = thread[t].id /\ r.key = thread[t].key /\ r.now = thread[t].now
      /\ r.val = thread[t].val /\ r.ts = thread[t].ts
  BY <1>1 DEF Thread
<1>4. pc # "idle"
  BY DEF Early, Late
<1>5. thread' = [thread EXCEPT ![t] = r]
  BY DEF Goto
<1> HIDE DEF r
<1> QED
  BY <1>1, <1>2, <1>3, <1>4, <1>5 DEF Continues

\* A copy from a file is what the file says it is, and nobody has it yet.
LEMMA StepGetDisk ==
    ASSUME IInv, NEW t \in Threads, GetDisk(t)
    PROVE  IInv'
<1> DEFINE k == thread[t].key
           i == thread[t].id
           f == disk[k]
           hit == Readable(f) /\ Fresh(thread[t].now, f.ts)
<1>1. /\ thread[t].pc = "disk" /\ Key(t) = k /\ k \in Keys
      /\ thread[t] \in Thread /\ thread[t].val \in 0..requests
      /\ i \in 1..requests /\ i \in 1..MaxRequests /\ requests \in Nat
  BY Busy DEF GetDisk, At, IInv, CountsOK
<1>2. UNCHANGED <<clock, registry, requests, faults, disk, mem>>
  BY DEF GetDisk
<1>3. CASE hit
  <2>1. /\ f \in File /\ f.ts \in Nat /\ f.val \in Object
        /\ f.val.key = k /\ f.val.by \in 1..requests /\ f.ts = f.val.born
    BY <1>1, <1>3 DEF IInv, DiskType, DiskOK, Readable, File
  <2>2. object' = [object EXCEPT ![i] = f.val]
    BY <1>1, <1>3 DEF GetDisk
  <2>3. /\ object'[i] = f.val /\ ObjectType'
        /\ \A j \in 1..MaxRequests : j # i => object'[j] = object[j]
    BY <1>1, <2>1, <2>2 DEF IInv, ObjectType
  <2>4. thread' = [thread EXCEPT ![t].pc = "promote", ![t].ts = f.ts, ![t].val = i]
    BY <1>1, <1>3 DEF GetDisk
  <2>5. i \in Nat
    BY <1>1
  <2>6. PICK r \in Thread : /\ thread' = [thread EXCEPT ![t] = r]
                            /\ r = [thread[t] EXCEPT !.pc = "promote", !.ts = f.ts, !.val = i]
    BY <1>1, <2>1, <2>4, <2>5, Next1 DEF Late
  <2>7. /\ r.pc = "promote" /\ r.id = i /\ r.key = k
        /\ r.now = thread[t].now /\ r.val = i /\ r.ts = f.ts
    BY <1>1, <2>6 DEF Thread
  <2>8. Served(r)'
    BY <1>1, <1>2, <1>3, <2>1, <2>3, <2>7 DEF Served, Answer
  <2>9. \A u \in Threads : u # t /\ thread[u].pc \in Early => i # thread[u].id
    BY <1>1 DEF IInv, DistinctIds, Early
  <2>10. ThreadStep(t, r)
    BY <1>1, <1>2, <2>6, <2>7, <2>8, <2>9 DEF ThreadStep, Continues, Early
  <2>11. ObjectStep(t, r)
    BY <1>1, <2>3 DEF ObjectStep, Early
  <2> QED
    BY <1>2, <2>10, <2>11, Unwritten, RequestStep
<1>4. CASE ~hit
  <2>1. PICK pc \in {"expire", "load"} : Goto(t, pc)
    BY <1>1, <1>4 DEF GetDisk
  <2>2. PICK r \in Thread : /\ thread' = [thread EXCEPT ![t] = r]
                            /\ Continues(t, r) /\ r.pc = pc
    BY <1>1, <2>1, Goes DEF Early
  <2>3. ThreadStep(t, r)
    BY <1>1, <1>2, <2>2 DEF ThreadStep, Served, Early, Late
  <2>4. object' = object
    BY <1>1, <1>4 DEF GetDisk
  <2> QED
    BY <1>2, <2>3, <2>4, Unwritten, RequestStep
<1> QED
  BY <1>3, <1>4

\* The entry is the copy that the file yielded, as old as the file says.
LEMMA StepPromote ==
    ASSUME IInv, NEW t \in Threads, Promote(t)
    PROVE  IInv'
<1> DEFINE th == thread[t]
<1>1. /\ th.pc = "promote" /\ Key(t) = th.key /\ Home(t) \in Procs /\ Served(th)
  BY Busy DEF Promote, At
<1>2. UNCHANGED <<clock, registry, requests, faults, disk, object>> /\ Goto(t, "hit")
  BY DEF Promote
<1>3. PICK r \in Thread : /\ thread' = [thread EXCEPT ![t] = r]
                          /\ Continues(t, r) /\ r.pc = "hit"
                          /\ r.val = th.val /\ r.ts = th.ts
  BY <1>1, <1>2, Goes DEF Late
<1>4. Answer(r.val, r.key) /\ Fresh(r.now, object[r.val].born) /\ r.ts = object[r.val].born
      /\ r.val = th.id
  BY <1>1, <1>3 DEF Served, Continues, Late
<1>5. Served(r)'
  BY <1>2, <1>3, <1>4 DEF Served, Answer
<1>6. \A u \in Threads : u # t /\ thread[u].pc \in Early => r.val # thread[u].id
  BY <1>1, <1>4 DEF IInv, DistinctIds, Early
<1>7. ThreadStep(t, r)
  BY <1>2, <1>3, <1>5, <1>6 DEF ThreadStep, Early
<1>8. mem' = [mem EXCEPT ![Home(t)] = With(@, th.key, [val |-> r.val, ts |-> r.ts])]
  BY <1>1, <1>3 DEF Promote, EntryTs
<1>9. MemStep(r)
  BY <1>1, <1>2, <1>3, <1>4, <1>8 DEF MemStep, IInv, MemType, With, Continues
<1> QED
  BY <1>2, <1>7, <1>9, Unwritten, RequestStep

\* Removing a file makes nothing wrong.
LEMMA Removed ==
    ASSUME IInv, NEW k \in Keys, disk' = [disk EXCEPT ![k] = NoFile], requests' = requests
    PROVE  DiskStep
<1>1. NoFile \in File /\ NoFile.state = "none"
  BY DEF NoFile, NoObject, File, Object
<1> QED
  BY <1>1 DEF IInv, DiskStep, DiskType, DiskOK

LEMMA StepExpire ==
    ASSUME IInv, NEW t \in Threads, Expire(t)
    PROVE  IInv'
<1>1. thread[t].pc = "expire" /\ Key(t) \in Keys
  BY Busy DEF Expire, At
<1>2. UNCHANGED <<clock, registry, requests, faults, mem, object>> /\ Goto(t, "load")
  BY DEF Expire
<1>3. PICK r \in Thread : /\ thread' = [thread EXCEPT ![t] = r]
                          /\ Continues(t, r) /\ r.pc = "load"
  BY <1>1, <1>2, Goes DEF Early
<1>4. ThreadStep(t, r)
  BY <1>1, <1>2, <1>3 DEF ThreadStep, Served, Early, Late
<1>5. DiskStep
  BY <1>1, <1>2, Removed DEF Expire
<1> QED
  BY <1>2, <1>4, <1>5, Unwritten, RequestStep

\* A hit is marked as cached: that changes no key, author or date.
LEMMA StepHit ==
    ASSUME IInv, NEW t \in Threads, Hit(t)
    PROVE  IInv'
<1> DEFINE th == thread[t]
<1>1. /\ th.pc = "hit" /\ Served(th) /\ th.val \in 1..requests /\ th.val \in 1..MaxRequests
      /\ requests \in Nat
  BY Busy, EngineAssumption DEF Hit, At, Served, Answer, Late, IInv, CountsOK
<1>2. /\ UNCHANGED <<clock, registry, requests, faults, mem, disk>> /\ Goto(t, "reply")
      /\ object' = [object EXCEPT ![th.val].from_cache = TRUE]
  BY DEF Hit, MarkCached
<1>3. PICK r \in Thread : /\ thread' = [thread EXCEPT ![t] = r]
                          /\ Continues(t, r) /\ r.pc = "reply" /\ r.val = th.val
  BY <1>1, <1>2, Goes DEF Late
<1>4. /\ ObjectType'
      /\ object'[th.val].from_cache = TRUE
      /\ \A j \in 1..MaxRequests :
            /\ object'[j].key = object[j].key /\ object'[j].by = object[j].by
            /\ object'[j].born = object[j].born
            /\ object[j].from_cache => object'[j].from_cache
  BY <1>1, <1>2 DEF IInv, ObjectType, Object
<1>5. /\ thread'[t] = r
      /\ \A u \in Threads : u # t => thread'[u] = thread[u]
      /\ ThreadType'
  BY <1>3 DEF IInv, ThreadType
<1>6. CountsOK' /\ RegistryOK' /\ DiskType' /\ DiskOK' /\ MemType'
  BY <1>2 DEF IInv, CountsOK, RegistryOK, DiskType, DiskOK, MemType
<1>7. RequestOK' /\ DistinctIds'
  BY <1>1, <1>2, <1>3, <1>5 DEF IInv, RequestOK, DistinctIds, Continues
<1>8. \A j \in 1..requests : j \in 1..MaxRequests
  BY EngineAssumption DEF IInv, CountsOK
<1>9. LateOK'
  <2>1. Served(r)'
    BY <1>1, <1>2, <1>3, <1>4 DEF Served, Answer, Continues, Late
  <2>2. ASSUME NEW u \in Threads, u # t PROVE Served(thread[u])'
    <3>1. thread'[u] = thread[u] /\ Served(thread[u])
      BY <1>5, <2>2 DEF IInv, LateOK
    <3>2. thread[u].pc \in Late => thread[u].val \in 1..MaxRequests
      BY <1>8, <3>1 DEF Served, Answer
    <3> QED
      BY <1>2, <1>4, <3>1, <3>2 DEF Served, Answer
  <2> QED
    BY <1>5, <2>1, <2>2 DEF LateOK
<1>10. MemOK'
  <2> SUFFICES ASSUME NEW p \in Procs, NEW k \in DOMAIN mem[p]
               PROVE  Answer(mem[p][k].val, k)' /\ mem[p][k].ts = object'[mem[p][k].val].born
    BY <1>2 DEF MemOK
  <2>1. Answer(mem[p][k].val, k) /\ mem[p][k].ts = object[mem[p][k].val].born
    BY DEF IInv, MemOK
  <2>2. mem[p][k].val \in 1..MaxRequests
    BY <1>8, <2>1 DEF Answer
  <2> QED
    BY <1>2, <1>4, <2>1, <2>2 DEF Answer
<1>11. Unused'
  BY <1>1, <1>2, <1>3, <1>5 DEF IInv, Unused, Early, Late
<1> QED
  BY <1>4, <1>5, <1>6, <1>7, <1>9, <1>10, <1>11 DEF IInv

LEMMA IdleThread == Idle \in Thread /\ Idle.pc = "idle" /\ Idle.val = 0
BY DEF Idle, Thread

\* The request is over: nothing is left of it.
LEMMA Over ==
    ASSUME IInv, NEW t \in Threads, thread' = [thread EXCEPT ![t] = Idle],
           UNCHANGED <<clock, registry, requests, faults, object, mem, disk>>
    PROVE  IInv'
<1>1. Idle \in Thread /\ Idle.pc = "idle"
  BY IdleThread
<1>2. ThreadStep(t, Idle)
  BY <1>1 DEF ThreadStep, Served, Early, Late
<1> QED
  BY <1>1, <1>2, Unwritten, RequestStep

LEMMA StepLoad ==
    ASSUME IInv, NEW t \in Threads, _load_artifacts(t)
    PROVE  IInv'
<1>1. /\ thread[t].pc = "load"
      /\ UNCHANGED <<clock, registry, requests, faults, object, mem, disk>>
  BY DEF _load_artifacts, At
<1>2. CASE Loadable(thread[t].key)
  <2>1. Goto(t, "compute")
    BY <1>2 DEF _load_artifacts, Goto
  <2>2. PICK r \in Thread : /\ thread' = [thread EXCEPT ![t] = r]
                            /\ Continues(t, r) /\ r.pc = "compute"
    BY <1>1, <2>1, Goes DEF Early
  <2>3. ThreadStep(t, r)
    BY <1>1, <2>2 DEF ThreadStep, Served, Early, Late
  <2> QED
    BY <1>1, <2>3, Unwritten, RequestStep
<1>3. CASE ~Loadable(thread[t].key)
  BY <1>1, <1>3, Over DEF _load_artifacts
<1> QED
  BY <1>2, <1>3

\* What is computed is written to the request's own object.
LEMMA StepCompute ==
    ASSUME IInv, NEW t \in Threads, Compute(t)
    PROVE  IInv'
<1> DEFINE th == thread[t]
           o == [key |-> th.key, by |-> th.id, born |-> clock, from_cache |-> FALSE]
<1>1. /\ th.pc = "compute" /\ Key(t) = th.key /\ th.key \in Keys /\ Home(t) \in Procs
      /\ th \in Thread /\ th.id \in 1..requests /\ th.id \in 1..MaxRequests
      /\ requests \in Nat /\ clock \in Nat /\ th.now \in Nat /\ th.now <= clock /\ th.id \in Nat
  BY Busy DEF Compute, At, IInv, CountsOK, Thread
<1>2. UNCHANGED <<clock, registry, requests, faults, disk>>
  BY DEF Compute
<1>3. CASE /\ object' = [object EXCEPT ![th.id] = o]
           /\ thread' = [thread EXCEPT ![t].pc = "open", ![t].val = th.id, ![t].ts = clock]
           /\ mem' = [mem EXCEPT ![Home(t)] =
                         With(@, Key(t), [val |-> th.id, ts |-> clock])]
  <2>1. o \in Object /\ o.key = th.key /\ o.by = th.id /\ o.born = clock
    BY <1>1 DEF Object
  <2>2. /\ object'[th.id] = o /\ ObjectType'
        /\ \A j \in 1..MaxRequests : j # th.id => object'[j] = object[j]
    BY <1>1, <1>3, <2>1 DEF IInv, ObjectType
  <2> HIDE DEF o
  <2>3. PICK r \in Thread :
            /\ thread' = [thread EXCEPT ![t] = r]
            /\ r = [th EXCEPT !.pc = "open", !.val = th.id, !.ts = clock]
    BY <1>1, <1>3, Next1 DEF Late
  <2>4. /\ r.pc = "open" /\ r.id = th.id /\ r.key = th.key /\ r.now = th.now
        /\ r.val = th.id /\ r.ts = clock
    BY <1>1, <2>3 DEF Thread
  <2>5. Fresh(th.now, clock)
    BY <1>1, EngineAssumption DEF Fresh
  <2>6. Served(r)'
    BY <1>1, <1>2, <2>1, <2>2, <2>4, <2>5 DEF Served, Answer
  <2>7. \A u \in Threads : u # t /\ thread[u].pc \in Early => r.val # thread[u].id
    BY <1>1, <2>4 DEF IInv, DistinctIds, Early
  <2>8. ThreadStep(t, r)
    BY <1>1, <1>2, <2>3, <2>4, <2>6, <2>7 DEF ThreadStep, Continues, Early
  <2>9. ObjectStep(t, r)
    BY <1>1, <2>2 DEF ObjectStep, Early
  <2>10. MemStep(r)
    BY <1>1, <1>3, <2>1, <2>2, <2>4 DEF MemStep, IInv, MemType, With
  <2> QED
    BY <1>2, <2>8, <2>9, <2>10, Unwritten, RequestStep
<1>4. CASE thread' = [thread EXCEPT ![t] = Idle] /\ UNCHANGED <<object, mem>>
  BY <1>2, <1>4, Over
<1> QED
  BY <1>3, <1>4 DEF Compute

\* A file is torn from the moment it is opened.
LEMMA StepOpen ==
    ASSUME IInv, NEW t \in Threads, OpenFile(t)
    PROVE  IInv'
<1> DEFINE th == thread[t]
           k == th.key
           f == [NoFile EXCEPT !.state = "torn", !.writers = disk[k].writers \cup {t}]
<1>1. th.pc = "open" /\ Key(t) = k /\ k \in Keys /\ Served(th)
  BY Busy DEF OpenFile, At
<1>2. UNCHANGED <<clock, registry, requests, faults, mem, object>> /\ Goto(t, "dump")
  BY DEF OpenFile
<1>3. disk' = [disk EXCEPT ![k] = f]
  BY <1>1 DEF OpenFile
<1>4. PICK r \in Thread : /\ thread' = [thread EXCEPT ![t] = r]
                          /\ Continues(t, r) /\ r.pc = "dump"
                          /\ r.val = th.val /\ r.ts = th.ts
  BY <1>1, <1>2, Goes DEF Late
<1>5. r.val = r.id
  BY <1>1, <1>4 DEF Served, Continues, Late
<1>6. Served(r)'
  BY <1>1, <1>2, <1>4 DEF Served, Answer, Continues, Late
<1>7. \A u \in Threads : u # t /\ thread[u].pc \in Early => r.val # thread[u].id
  BY <1>1, <1>4, <1>5 DEF IInv, DistinctIds, Early, Continues
<1>8. ThreadStep(t, r)
  BY <1>2, <1>4, <1>6, <1>7 DEF ThreadStep, Early
<1>9. f \in File /\ f.state = "torn"
  BY <1>1 DEF NoFile, NoObject, File, Object, IInv, DiskType
<1>10. DiskStep
  BY <1>1, <1>2, <1>3, <1>9 DEF DiskStep, IInv, DiskType, DiskOK
<1> QED
  BY <1>2, <1>8, <1>10, Unwritten, RequestStep

\* What is pickled is the prediction of this request, with its date, even if
\* a hit has marked it as cached by then.
LEMMA StepDump ==
    ASSUME IInv, NEW t \in Threads, Dump(t)
    PROVE  IInv'
<1> DEFINE th == thread[t]
           k == th.key
           f == disk[k]
           written == [state |-> "full", val |-> object[th.val], ts |-> th.ts,
                       writers |-> f.writers \ {t}]
<1>1. /\ th.pc = "dump" /\ Key(t) = k /\ k \in Keys /\ Served(th) /\ th \in Thread
      /\ th.val \in 1..requests /\ th.val \in 1..MaxRequests
  BY Busy, EngineAssumption DEF Dump, At, Served, Answer, Late, IInv, CountsOK
<1>2. UNCHANGED <<clock, registry, requests, faults, mem, object>> /\ Goto(t, "reply")
  BY DEF Dump
<1>3. PICK r \in Thread : /\ thread' = [thread EXCEPT ![t] = r]
                          /\ Continues(t, r) /\ r.pc = "reply" /\ r.val = th.val
  BY <1>1, <1>2, Goes DEF Late
<1>4. r.val = r.id
  BY <1>1, <1>3 DEF Served, Continues, Late
<1>5. Served(r)'
  BY <1>1, <1>2, <1>3 DEF Served, Answer, Continues, Late
<1>6. \A u \in Threads : u # t /\ thread[u].pc \in Early => r.val # thread[u].id
  BY <1>1, <1>3, <1>4 DEF IInv, DistinctIds, Early, Continues
<1>7. ThreadStep(t, r)
  BY <1>2, <1>3, <1>5, <1>6 DEF ThreadStep, Early
<1>8. f \in File /\ object[th.val] \in Object
  BY <1>1 DEF IInv, DiskType, ObjectType
<1>9. /\ object[th.val].key = k /\ object[th.val].by \in 1..requests
      /\ th.ts = object[th.val].born
  BY <1>1 DEF Served, Answer, Late
<1>10. written \in File /\ [f EXCEPT !.state = "torn"] \in File
  BY <1>1, <1>8 DEF File, Thread
<1>11. PICK g \in {written, [f EXCEPT !.state = "torn"], f} : disk' = [disk EXCEPT ![k] = g]
  BY <1>1 DEF Dump
<1>12. /\ g \in File
       /\ g.state = "full" => /\ g.val.key = k /\ g.val.by \in 1..requests
                              /\ g.ts = g.val.born
  <2>1. CASE g = written
    BY <1>9, <1>10, <2>1
  <2>2. CASE g = [f EXCEPT !.state = "torn"]
    BY <1>8, <1>10, <2>2 DEF File
  <2>3. CASE g = f
    BY <1>1, <1>8, <2>3 DEF IInv, DiskOK
  <2> QED
    BY <1>11, <2>1, <2>2, <2>3
<1>13. DiskStep
  BY <1>1, <1>2, <1>11, <1>12 DEF DiskStep, IInv, DiskType, DiskOK
<1> QED
  BY <1>2, <1>7, <1>13, Unwritten, RequestStep

\* A new request has a number that nothing refers to.
LEMMA StepPredict ==
    ASSUME IInv, NEW t \in Threads, predict(t)
    PROVE  IInv'
<1>1. /\ thread[t].pc = "idle" /\ requests' = requests + 1
      /\ requests \in Nat /\ requests' \in 0..MaxRequests /\ clock \in Nat
      /\ UNCHANGED <<clock, registry, mem, disk, object, faults>>
  BY EngineAssumption DEF predict, At, IInv, CountsOK
<1>2. PICK tk \in Tickers, force_refresh \in BOOLEAN :
          \E v \in Versions(registry, tk)
                     \cup {get_best(registry, tk), get_latest(registry, tk)} :
              /\ IsReady(registry, tk, v)
              /\ thread' = [thread EXCEPT ![t] =
                    [Idle EXCEPT !.pc = IF force_refresh THEN "load" ELSE "get",
                                 !.id = requests + 1, !.key = <<tk, v>>, !.now = clock]]
  BY DEF predict
<1>v. PICK v \in Versions(registry, tk)
                     \cup {get_best(registry, tk), get_latest(registry, tk)} :
              /\ IsReady(registry, tk, v)
              /\ thread' = [thread EXCEPT ![t] =
                    [Idle EXCEPT !.pc = IF force_refresh THEN "load" ELSE "get",
                                 !.id = requests + 1, !.key = <<tk, v>>, !.now = clock]]
  BY <1>2
<1>3. v \in 0..MaxVersions
  <2>1. /\ registry[tk].versions \in Seq(Record)
        /\ Len(registry[tk].versions) <= MaxVersions /\ MaxVersions \in Nat
        /\ registry[tk].latest \in 0..MaxVersions /\ registry[tk].best \in 0..MaxVersions
    BY EngineAssumption DEF IInv, RegistryOK, Known
  <2>2. DOMAIN registry[tk].versions = 1..Len(registry[tk].versions)
    BY <2>1
  <2> QED
    BY <2>1, <2>2 DEF Versions, get_best, get_latest
<1>4. <<tk, v>> \in Keys
  BY <1>v, <1>3 DEF IsReady, Keys
<1>5. PICK r \in Thread :
          /\ thread' = [thread EXCEPT ![t] = r]
          /\ r.pc \in {"get", "load"} /\ r.id = requests + 1 /\ r.key \in Keys
          /\ r.now = clock /\ r.val = 0
  <2> DEFINE pc == IF force_refresh THEN "load" ELSE "get"
             id == requests + 1
             key == <<tk, v>>
             r == [Idle EXCEPT !.pc = pc, !.id = id, !.key = key, !.now = clock]
  <2>1. thread' = [thread EXCEPT ![t] = r]
    BY <1>v
  <2>2. pc \in Early /\ pc \in {"get", "load"} /\ id \in Nat /\ key \in Keys
    BY <1>1, <1>4 DEF Early
  <2>3. r \in Thread /\ r.pc = pc /\ r.id = id /\ r.key = key /\ r.now = clock /\ r.val = 0
    <3> HIDE DEF pc, id, key
    <3> QED
      BY <1>1, <2>2, IdleThread DEF Thread
  <2>4. id = requests + 1
    OBVIOUS
  <2> HIDE DEF r, pc, id, key
  <2> QED
    BY <2>1, <2>2, <2>3, <2>4
<1>6. /\ thread'[t] = r
      /\ \A u \in Threads : u # t => thread'[u] = thread[u]
      /\ ThreadType'
  BY <1>5 DEF IInv, ThreadType
<1>7. \A i \in 1..requests : i \in 1..requests'
  BY <1>1
<1>8. CountsOK' /\ RegistryOK' /\ ObjectType' /\ DiskType' /\ MemType'
  BY <1>1 DEF IInv, CountsOK, RegistryOK, ObjectType, DiskType, MemType
<1>9. RequestOK'
  BY <1>1, <1>5, <1>6 DEF IInv, RequestOK
<1>10. DistinctIds'
  <2>1. \A u \in Threads : u # t => thread[u].id \in 0..requests
    BY DEF IInv, RequestOK
  <2> QED
    BY <1>1, <1>5, <1>6, <2>1 DEF IInv, DistinctIds
<1>11. MemOK' /\ DiskOK'
  BY <1>1, <1>7 DEF IInv, MemOK, DiskOK, Answer
<1>12. LateOK'
  BY <1>1, <1>5, <1>6, <1>7 DEF IInv, LateOK, Served, Answer, Late
<1>13. Unused'
  <2>1. \A p \in Procs : \A k \in DOMAIN mem[p] : mem[p][k].val # r.id
    BY <1>1, <1>5 DEF IInv, MemOK, Answer
  <2>2. \A u \in Threads : thread[u].pc \in Late => thread[u].val # r.id
    BY <1>1, <1>5 DEF IInv, LateOK, Served, Answer
  <2> QED
    BY <1>1, <1>5, <1>6, <2>1, <2>2 DEF IInv, Unused, Early, Late
<1> QED
  BY <1>6, <1>8, <1>9, <1>10, <1>11, <1>12, <1>13 DEF IInv

LEMMA StepReply ==
    ASSUME IInv, NEW t \in Threads, Reply(t)
    PROVE  IInv'
BY Over DEF Reply

-------------------------------------------------------------------------------
(* Steps that are not of a request.                                        *)

LEMMA StepTick ==
    ASSUME IInv, Tick
    PROVE  IInv'
<1>1. /\ clock \in Nat /\ clock' = clock + 1 /\ CountsOK'
      /\ UNCHANGED <<registry, mem, disk, object, thread, requests>>
  BY EngineAssumption DEF Tick, IInv, CountsOK
<1>2. RequestOK'
  <2>1. \A t \in Threads : thread[t].now \in Nat
    BY DEF IInv, ThreadType, Thread
  <2> QED
    BY <1>1, <2>1 DEF IInv, RequestOK
<1>3. ThreadType' /\ ObjectType' /\ DiskType' /\ MemType' /\ RegistryOK'
  BY <1>1 DEF IInv, ThreadType, ObjectType, DiskType, MemType, RegistryOK
<1>4. DistinctIds' /\ LateOK' /\ MemOK' /\ DiskOK' /\ Unused'
  BY <1>1 DEF IInv, DistinctIds, LateOK, Served, MemOK, DiskOK, Unused, Answer
<1> QED
  BY <1>1, <1>2, <1>3, <1>4 DEF IInv

\* Training and aging only touch the registry.
LEMMA RegistryStep ==
    ASSUME IInv, Known(registry'), faults' \in 0..MaxFaults,
           UNCHANGED <<clock, mem, disk, object, thread, requests>>
    PROVE  IInv'
<1>1. CountsOK' /\ ThreadType' /\ ObjectType' /\ DiskType' /\ MemType' /\ RegistryOK'
  BY DEF IInv, CountsOK, ThreadType, ObjectType, DiskType, MemType, RegistryOK
<1>2. RequestOK' /\ DistinctIds' /\ LateOK' /\ MemOK' /\ DiskOK' /\ Unused'
  BY DEF IInv, RequestOK, DistinctIds, LateOK, Served, MemOK, DiskOK, Unused, Answer
<1> QED
  BY <1>1, <1>2 DEF IInv

LEMMA StepTrain ==
    ASSUME IInv, NEW tk \in Tickers, Train(tk)
    PROVE  IInv'
<1> DEFINE v == _next_version(registry, tk)
           d == register(registry, tk)
           s == Append(registry[tk].versions, [status |-> "queued", rmse |-> NoScore])
<1>1. /\ Known(registry) /\ MaxVersions \in Nat /\ Len(registry[tk].versions) < MaxVersions
      /\ UNCHANGED <<clock, mem, disk, object, thread, requests>>
      /\ faults' \in 0..MaxFaults
  BY EngineAssumption DEF Train, Disturb, IInv, RegistryOK, CountsOK
<1>2. PICK rmse \in Rmse : registry' = update_ready(d, tk, v, rmse)
  BY DEF Train
<1>3. /\ registry[tk].versions \in Seq(Record)
      /\ v \in 1..MaxVersions /\ v = Len(registry[tk].versions) + 1
  BY <1>1 DEF Known, _next_version
<1>4. [status |-> "queued", rmse |-> NoScore] \in Record
  BY DEF Record, VALID_STATUSES
<1>5. s \in Seq(Record) /\ Len(s) = v
  BY <1>3, <1>4
<1>6. /\ d = [registry EXCEPT ![tk].versions = s]
      /\ d[tk].versions = s /\ d[tk].best = registry[tk].best
      /\ d[tk].latest = registry[tk].latest
      /\ DOMAIN d[tk] = {"latest", "best", "versions"}
      /\ DOMAIN d = Tickers /\ \A u \in Tickers : u # tk => d[u] = registry[u]
  <2>1. d = [registry EXCEPT ![tk].versions = s]
    BY DEF register
  <2> HIDE DEF d, s
  <2> QED
    BY <1>1, <2>1 DEF Known
<1>7. Known(update_ready(d, tk, v, rmse))
  <2> DEFINE rec == [status |-> "ready", rmse |-> rmse]
             best == NewBest(d, tk, v, rmse)
             s2 == [s EXCEPT ![v] = rec]
  <2>1. rec \in Record
    BY DEF Record, VALID_STATUSES
  <2>2. s2 \in Seq(Record) /\ Len(s2) = v
    <3> HIDE DEF rec, s
    <3> QED
      BY <1>3, <1>5, <2>1
  <2>3. best \in 0..MaxVersions
    BY <1>1, <1>3, <1>6 DEF NewBest, Known
  <2>4. update_ready(d, tk, v, rmse) =
            [d EXCEPT ![tk].versions[v] = rec, ![tk].latest = v, ![tk].best = best]
    BY DEF update_ready
  <2> HIDE DEF d, v, s, rec, best
  <2> DEFINE e == [d EXCEPT ![tk].versions[v] = rec, ![tk].latest = v, ![tk].best = best]
  <2>5. /\ DOMAIN e = Tickers /\ \A u \in Tickers : u # tk => e[u] = registry[u]
        /\ DOMAIN e[tk] = {"latest", "best", "versions"}
        /\ e[tk].versions = s2 /\ e[tk].latest = v /\ e[tk].best = best
    BY <1>6
  <2> HIDE DEF e, s2
  <2>6. Known(e)
    BY <1>1, <1>3, <2>2, <2>3, <2>5 DEF Known
  <2> QED
    BY <2>4, <2>6 DEF e
<1> QED
  BY <1>1, <1>2, <1>7, RegistryStep

LEMMA StepStale ==
    ASSUME IInv, NEW tk \in Tickers, NEW v \in Versions(registry, tk), Stale(tk, v)
    PROVE  IInv'
<1> DEFINE s == registry[tk].versions
           rec == [s[v] EXCEPT !.status = "stale"]
           s2 == [s EXCEPT ![v] = rec]
<1>1. /\ Known(registry) /\ registry' = mark_stale(registry, tk, v)
      /\ UNCHANGED <<clock, mem, disk, object, thread, requests>>
      /\ faults' \in 0..MaxFaults
  BY EngineAssumption DEF Stale, Disturb, IInv, RegistryOK, CountsOK
<1>2. s \in Seq(Record) /\ v \in 1..Len(s) /\ s[v] \in Record
  BY <1>1 DEF Known, Versions
<1>3. rec \in Record
  BY <1>2 DEF Record, VALID_STATUSES
<1>4. s2 \in Seq(Record) /\ Len(s2) = Len(s)
  <2> HIDE DEF rec, s
  <2> QED
    BY <1>2, <1>3
<1>5. /\ DOMAIN registry' = Tickers
      /\ \A u \in Tickers : u # tk => registry'[u] = registry[u]
      /\ DOMAIN registry'[tk] = {"latest", "best", "versions"}
      /\ registry'[tk].versions = s2 /\ registry'[tk].latest = registry[tk].latest
      /\ registry'[tk].best = registry[tk].best
  BY <1>1, <1>2 DEF mark_stale, Known
<1>6. Known(registry')
  <2> HIDE DEF s, s2
  <2>1. Len(s) <= MaxVersions
    BY <1>1 DEF Known, s
  <2> QED
    BY <1>1, <1>4, <1>5, <2>1 DEF Known
<1> QED
  BY <1>1, <1>6, RegistryStep

LEMMA StepRestart ==
    ASSUME IInv, NEW p \in Procs, Restart(p)
    PROVE  IInv'
<1>1. /\ UNCHANGED <<clock, registry, disk, object, requests>>
      /\ faults' \in 0..MaxFaults
      /\ mem' = [mem EXCEPT ![p] = Empty]
      /\ thread' = [t \in Threads |-> IF Home(t) = p THEN Idle ELSE thread[t]]
  BY EngineAssumption DEF Restart, Disturb, IInv, CountsOK
<1>2. \A t \in Threads : thread'[t] = Idle \/ thread'[t] = thread[t]
  BY <1>1
<1>3. MemType' /\ \A q \in Procs : \A k \in DOMAIN mem'[q] :
          k \in DOMAIN mem[q] /\ mem'[q][k] = mem[q][k]
  BY <1>1 DEF IInv, MemType, Empty
<1>4. ThreadType'
  BY <1>1, IdleThread DEF IInv, ThreadType
<1>5. CountsOK' /\ ObjectType' /\ DiskType' /\ DiskOK' /\ RegistryOK'
  BY <1>1 DEF IInv, CountsOK, ObjectType, DiskType, DiskOK, RegistryOK
<1>6. RequestOK' /\ DistinctIds'
  BY <1>1, <1>2 DEF IInv, RequestOK, DistinctIds, Idle, CountsOK
<1>7. LateOK'
  BY <1>1, <1>2 DEF IInv, LateOK, Served, Answer, Idle, Late
<1>8. MemOK'
  BY <1>1, <1>3 DEF IInv, MemOK, Answer
<1>9. Unused'
  BY <1>2, <1>3 DEF IInv, Unused, Idle, Early, Late
<1> QED
  BY <1>3, <1>4, <1>5, <1>6, <1>7, <1>8, <1>9 DEF IInv

\* The steps of a flush empty one memory level and remove files.
LEMMA Flushed ==
    ASSUME IInv, UNCHANGED <<clock, registry, object, thread, requests>>,
           faults' \in 0..MaxFaults, DiskStep,
           mem' = mem \/ \E p \in Procs : mem' = [mem EXCEPT ![p] = Empty]
    PROVE  IInv'
<1>1. MemType' /\ \A q \in Procs : \A k \in DOMAIN mem'[q] :
          k \in DOMAIN mem[q] /\ mem'[q][k] = mem[q][k]
  BY DEF IInv, MemType, Empty
<1>2. CountsOK' /\ ThreadType' /\ ObjectType' /\ RegistryOK'
  BY DEF IInv, CountsOK, ThreadType, ObjectType, RegistryOK
<1>3. RequestOK' /\ DistinctIds' /\ LateOK'
  BY DEF IInv, RequestOK, DistinctIds, LateOK, Served, Answer
<1>4. MemOK' /\ Unused'
  BY <1>1 DEF IInv, MemOK, Unused, Answer
<1> QED
  BY <1>1, <1>2, <1>3, <1>4 DEF IInv, DiskStep

LEMMA StepFlush ==
    ASSUME IInv, (\E p \in Procs : FlushMem(p)) \/ ListFiles \/ RemoveFile
    PROVE  IInv'
<1>1. faults \in 0..MaxFaults
  BY DEF IInv, CountsOK
<1>2. ASSUME NEW p \in Procs, FlushMem(p) PROVE IInv'
  <2>1. /\ UNCHANGED <<clock, registry, object, thread, requests, disk>>
        /\ mem' = [mem EXCEPT ![p] = Empty]
    BY <1>2 DEF FlushMem
  <2>2. faults' \in 0..MaxFaults
    <3>1. Disturb
      BY <1>2 DEF FlushMem
    <3> QED
      BY <1>1, <3>1, EngineAssumption DEF Disturb
  <2>3. DiskStep
    BY <2>1 DEF DiskStep, IInv, DiskType, DiskOK
  <2> QED
    BY <2>1, <2>2, <2>3, Flushed
<1>3. ASSUME ListFiles PROVE IInv'
  <2>1. UNCHANGED <<clock, registry, object, thread, requests, disk, mem, faults>>
    BY <1>3 DEF ListFiles
  <2>2. DiskStep
    BY <2>1 DEF DiskStep, IInv, DiskType, DiskOK
  <2> QED
    BY <1>1, <2>1, <2>2, Flushed
<1>4. ASSUME RemoveFile PROVE IInv'
  <2>1. /\ UNCHANGED <<clock, registry, object, thread, requests, mem, faults>>
        /\ \E k \in flush.files : disk' = [disk EXCEPT ![k] = NoFile]
    BY <1>4 DEF RemoveFile
  <2>2. DiskStep
    <3>1. PICK k : disk' = [disk EXCEPT ![k] = NoFile]
      BY <2>1
    <3>2. CASE k \in Keys
      BY <2>1, <3>1, <3>2, Removed
    <3>3. CASE k \notin Keys
      <4>1. disk' = disk
        BY <3>1, <3>3 DEF IInv, DiskType
      <4> QED
        BY <2>1, <4>1 DEF DiskStep, IInv, DiskType, DiskOK
    <3> QED
      BY <3>2, <3>3
  <2> QED
    BY <1>1, <2>1, <2>2, Flushed
<1> QED
  BY <1>2, <1>3, <1>4

-------------------------------------------------------------------------------
(* The invariant, and what it says to a client.                            *)

LEMMA Initial == Init => IInv
<1> SUFFICES ASSUME Init PROVE IInv
  OBVIOUS
<1> USE EngineAssumption
<1>1. NoObject \in Object /\ NoFile \in File /\ NoFile.state = "none"
  BY DEF NoObject, NoFile, Object, File
<1>2. CountsOK /\ ThreadType /\ ObjectType /\ DiskType /\ MemType
  BY <1>1, IdleThread DEF Init, CountsOK, ThreadType, ObjectType, DiskType, MemType
<1>3. RegistryOK
  <2> DEFINE e == [latest |-> 0, best |-> 0, versions |-> <<>>]
  <2>1. /\ DOMAIN e = {"latest", "best", "versions"}
        /\ e.versions \in Seq(Record) /\ Len(e.versions) = 0
        /\ e.latest = 0 /\ e.best = 0
    OBVIOUS
  <2>2. registry = [tk \in Tickers |-> e]
    BY DEF Init, EmptyRegistry
  <2> HIDE DEF e
  <2> QED
    BY <2>1, <2>2 DEF RegistryOK, Known
<1>4. RequestOK /\ DistinctIds /\ LateOK /\ Unused
  BY DEF Init, RequestOK, DistinctIds, LateOK, Served, Unused, Idle, Early, Late
<1>5. MemOK /\ DiskOK
  BY <1>1 DEF Init, MemOK, DiskOK, Empty
<1> QED
  BY <1>2, <1>3, <1>4, <1>5 DEF IInv

LEMMA StepServe ==
    ASSUME IInv, NEW t \in Threads, Serve(t)
    PROVE  IInv'
BY StepPredict, StepGetMem, StepGetDisk, StepPromote, StepExpire, StepHit, StepLoad,
   StepCompute, StepOpen, StepDump, StepReply DEF Serve

LEMMA Inductive == IInv /\ [Next]_vars => IInv'
<1> SUFFICES ASSUME IInv, [Next]_vars PROVE IInv'
  OBVIOUS
<1>1. CASE Next
  BY <1>1, StepTick, StepTrain, StepStale, StepRestart, StepServe, StepFlush DEF Next
<1>2. CASE UNCHANGED vars
  <2>1. CountsOK' /\ ThreadType' /\ ObjectType' /\ DiskType' /\ MemType' /\ RegistryOK'
    BY <1>2 DEF vars, IInv, CountsOK, ThreadType, ObjectType, DiskType, MemType, RegistryOK
  <2>2. RequestOK' /\ DistinctIds' /\ LateOK' /\ MemOK' /\ DiskOK' /\ Unused'
    BY <1>2
    DEF vars, IInv, RequestOK, DistinctIds, LateOK, Served, MemOK, DiskOK, Unused, Answer
  <2> QED
    BY <2>1, <2>2 DEF IInv
<1> QED
  BY <1>1, <1>2

LEMMA Invariance == Spec => []IInv
BY Initial, Inductive, PTL DEF Spec

\* Threads, entries and files stay well formed: no torn file is ever taken for
\* a prediction.
THEOREM Typing == Spec => []TypeOK
<1>1. IInv => TypeOK
  <2> SUFFICES ASSUME IInv PROVE TypeOK
    OBVIOUS
  <2>1. CountsOK /\ \A t \in Threads : thread[t].id \in 0..requests /\ thread[t].val \in 0..requests
    BY DEF IInv, RequestOK
  <2>2. \A p \in Procs : \A k \in DOMAIN mem[p] : object[mem[p][k].val].by \in 1..requests
    BY DEF IInv, MemOK, Answer
  <2>3. \A k \in Keys : disk[k].state \in {"none", "torn", "full"}
    BY DEF IInv, DiskType, File
  <2> QED
    BY <2>1, <2>2, <2>3 DEF TypeOK, CountsOK
<1> QED
  BY <1>1, Invariance, PTL

\* No answer is older than TTL when the request starts, whichever way it took
\* through the cache levels of whichever process.
THEOREM Freshness == Spec => []AnswersAreFresh
<1>1. IInv => AnswersAreFresh
  BY DEF IInv, LateOK, Served, Late, AnswersAreFresh, At
<1> QED
  BY <1>1, Invariance, PTL

\* No request is answered with the prediction of another ticker or version.
THEOREM Matching == Spec => []AnswersMatchRequest
<1>1. IInv => AnswersMatchRequest
  BY DEF IInv, LateOK, Served, Answer, Late, AnswersMatchRequest, At
<1> QED
  BY <1>1, Invariance, PTL

\* What is labelled as computed live was computed by this request.
THEOREM Labels == Spec => []LiveMeansLive
<1>1. IInv => LiveMeansLive
  BY DEF IInv, LateOK, Served, Late, LiveMeansLive, At
<1> QED
  BY <1>1, Invariance, PTL
==============================================================================
