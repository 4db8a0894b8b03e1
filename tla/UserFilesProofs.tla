--------------------------- MODULE UserFilesProofs ---------------------------
(***************************************************************************)
(* The user-data files keep their promise for any number of threads, users *)
(* and calls: where the threads belong to one server process, reading a    *)
(* file, changing the copy and replacing the file under the lock of its    *)
(* path is one atomic step, and a failing write or a restart leaves no     *)
(* trace.  A failing read deceives the method it happens to and no other.  *)
(* For any number of processes, locks and contents keep their form.        *)
(***************************************************************************)
EXTENDS UserFiles, SequenceTheorems, TLAPS

\* The variables are functions on the threads and files there are.
Shape ==
    /\ file = [f \in Files |-> file[f]]
    /\ DOMAIN lock = Procs
    /\ \A p \in Procs : DOMAIN lock[p] = Files
    /\ DOMAIN pc = Threads
    /\ DOMAIN call = Threads
    /\ DOMAIN seen = Threads
    /\ DOMAIN result = Threads

\* A thread inside a method holds the lock of the file it works on.
Holds == \A t \in Threads : pc[t] = "locked" => lock[Home(t)][File(t)] = t

\* Its copy is what the file still contains, unless its read failed.
Visible(t) == IF t \in blind THEN Empty ELSE file[File(t)]
CopyIsCurrent == \A t \in Threads : pc[t] = "locked" => seen[t] = Visible(t)

\* What a method that sees d leaves in its file.
Left(t, d) ==
    LET new == Do(call[t], d, clock).data IN IF new = d THEN file[File(t)] ELSE new

\* An account has the three fields register() gives it.
Account == {"password", "role", "last_login"}
AccountsShaped(d) == \A u \in DOMAIN d : DOMAIN d[u] = Account

\* Only a thread inside a method has a copy that is not the file's.
BlindInside == \A t \in Threads : t \in blind => pc[t] = "locked"

IInv == Shape /\ Holds /\ CopyIsCurrent /\ BlindInside /\ AccountsShaped(file["users"])

-------------------------------------------------------------------------------
(* The methods.                                                            *)

LEMMA FileOfType == ASSUME NEW r PROVE FileOf(r) \in Files
  BY DEF FileOf, Files

\* The accounts of d are in e, with their passwords and roles.
Kept(d, e) ==
    \A u \in DOMAIN d : /\ u \in DOMAIN e
                        /\ e[u].password = d[u].password
                        /\ e[u].role = d[u].role

\* The methods on users.json keep the accounts there are.
LEMMA AccountMethods ==
    ASSUME NEW r, NEW d, NEW now, AccountsShaped(d), FileOf(r) = "users"
    PROVE  AccountsShaped(Do(r, d, now).data) /\ Kept(d, Do(r, d, now).data)
<1>1. r.do \in {"register", "authenticate", "update_last_login", "get_user"}
  BY DEF FileOf
<1>2. CASE r.do = "register"
  <2>1. Do(r, d, now) = register(d, r)
    BY <1>2 DEF Do
  <2>2. CASE r.user \in DOMAIN d
    BY <2>1, <2>2 DEF register, Result, Kept
  <2>3. CASE r.user \notin DOMAIN d
    <3> DEFINE new == [password |-> r.password, role |-> r.role, last_login |-> 0]
    <3>1. Do(r, d, now).data = With(d, r.user, new)
      BY <2>1, <2>3 DEF register, Result
    <3>2. DOMAIN new = Account
      BY DEF Account
    <3> HIDE DEF new
    <3> QED
      BY <2>3, <3>1, <3>2 DEF With, AccountsShaped, Kept
  <2> QED
    BY <2>2, <2>3
<1>3. CASE r.do = "authenticate"
  BY <1>3 DEF Do, authenticate, Result, Kept
<1>4. CASE r.do = "update_last_login"
  <2>1. Do(r, d, now) = update_last_login(d, r, now)
    BY <1>4 DEF Do
  <2>2. CASE r.user \in DOMAIN d
    <3>1. Do(r, d, now).data = [d EXCEPT ![r.user].last_login = now]
      BY <2>1, <2>2 DEF update_last_login, Result
    <3>2. DOMAIN d[r.user] = Account
      BY <2>2 DEF AccountsShaped
    <3> QED
      BY <2>2, <3>1, <3>2 DEF AccountsShaped, Kept, Account
  <2>3. CASE r.user \notin DOMAIN d
    BY <2>1, <2>3 DEF update_last_login, Result, Kept
  <2> QED
    BY <2>2, <2>3
<1>5. CASE r.do = "get_user"
  BY <1>5 DEF Do, get_user, Result, Kept
<1> QED
  BY <1>1, <1>2, <1>3, <1>4, <1>5

\* Of those methods only a registration writes to an empty file.
LEMMA OtherMethods ==
    ASSUME NEW r, NEW now, FileOf(r) = "users", r.do # "register"
    PROVE  Do(r, Empty, now).data = Empty
<1>1. r.do \in {"authenticate", "update_last_login", "get_user"}
  BY DEF FileOf
<1>2. DOMAIN Empty = {}
  BY DEF Empty
<1> HIDE DEF Empty
<1>3. CASE r.do = "authenticate"
  BY <1>2, <1>3 DEF Do, authenticate, Result
<1>4. CASE r.do = "update_last_login"
  BY <1>2, <1>4 DEF Do, update_last_login, Result
<1>5. CASE r.do = "get_user"
  BY <1>2, <1>5 DEF Do, get_user, Result
<1> QED
  BY <1>1, <1>3, <1>4, <1>5

-------------------------------------------------------------------------------
(* The invariant.                                                          *)

\* With one process, threads inside methods are inside methods of different
\* files.
LEMMA Exclusion ==
    ASSUME OneProcess, Holds, NEW s \in Threads, NEW t \in Threads, s # t,
           pc[s] = "locked", pc[t] = "locked"
    PROVE  File(s) # File(t)
  BY DEF OneProcess, Holds

LEMMA LockSlot ==
    ASSUME Shape, NEW t \in Threads, NEW x
    PROVE  LET l == [lock EXCEPT ![Home(t)][File(t)] = x] IN
           /\ DOMAIN l = Procs
           /\ \A p \in Procs : DOMAIN l[p] = Files
           /\ l[Home(t)][File(t)] = x
           /\ \A p \in Procs, f \in Files :
                 p # Home(t) \/ f # File(t) => l[p][f] = lock[p][f]
<1>1. Home(t) \in Procs /\ File(t) \in Files
  BY StoreAssumption, FileOfType DEF Home, File
<1> QED
  BY <1>1 DEF Shape

\* Nothing changes for the threads that are not inside a method.
LEMMA LockStep ==
    ASSUME OneProcess, IInv, NEW t \in Threads, LockAndRead(t) \/ ReadFails(t)
    PROVE  IInv'
<1> PICK d : Enter(t, d) /\ blind \subseteq blind' /\ blind' \subseteq blind \cup {t}
             /\ d = IF t \in blind' THEN Empty ELSE file[File(t)]
  <2>1. CASE LockAndRead(t)
    <3>1. t \notin blind
      BY <2>1 DEF LockAndRead, Enter, IInv, BlindInside
    <3> QED
      BY <2>1, <3>1 DEF LockAndRead, _read
  <2>2. CASE ReadFails(t)
    BY <2>2 DEF ReadFails
  <2> QED
    BY <2>1, <2>2
<1>1. Shape'
  BY LockSlot DEF IInv, Shape, Enter, Goto
<1>2. /\ file' = file /\ call' = call
      /\ pc' = [pc EXCEPT ![t] = "locked"] /\ seen' = [seen EXCEPT ![t] = d]
      /\ lock' = [lock EXCEPT ![Home(t)][File(t)] = t] /\ Shape
      /\ lock[Home(t)][File(t)] = NoThread
  BY DEF Enter, Goto, IInv, Free
<1>3. ASSUME NEW s \in Threads, pc'[s] = "locked"
      PROVE  lock'[Home(s)][File(s)] = s /\ seen'[s] = IF s \in blind' THEN Empty ELSE file[File(s)]
  <2>1. CASE s = t
    <3>1. lock'[Home(t)][File(t)] = t
      BY <1>2, LockSlot
    <3> QED
      BY <1>2, <2>1, <3>1 DEF Shape
  <2>2. CASE s # t
    <3>1. pc[s] = "locked" /\ seen'[s] = seen[s] /\ (s \in blind' <=> s \in blind)
      BY <1>2, <1>3, <2>2 DEF Shape
    <3>2. lock[Home(s)][File(s)] = s /\ seen[s] = Visible(s)
      BY <3>1 DEF IInv, Holds, CopyIsCurrent
    <3>3. s # NoThread /\ Home(s) \in Procs /\ File(s) \in Files
      BY StoreAssumption, FileOfType DEF Home, File
    <3>4. lock'[Home(s)][File(s)] = s
      BY <1>2, <3>2, <3>3, LockSlot
    <3> QED
      BY <3>1, <3>2, <3>4 DEF Visible
  <2> QED
    BY <2>1, <2>2
<1>4. Holds' /\ CopyIsCurrent'
  BY <1>2, <1>3 DEF Holds, CopyIsCurrent, Visible, File, Home
<1>5. BlindInside'
  BY <1>2 DEF BlindInside, IInv, Shape
<1> QED
  BY <1>1, <1>2, <1>4, <1>5 DEF IInv

LEMMA WriteStep ==
    ASSUME OneProcess, IInv, NEW t \in Threads, _write(t)
    PROVE  IInv' /\ file' = [file EXCEPT ![File(t)] = Left(t, Visible(t))]
<1> DEFINE new == Left(t, Visible(t))
<1>1. /\ DOMAIN file = Files /\ file = [f \in Files |-> file[f]]
      /\ File(t) \in Files
  BY FileOfType DEF IInv, Shape, File
<1>2. seen[t] = Visible(t) /\ pc[t] = "locked"
  BY DEF IInv, CopyIsCurrent, _write
<1>3. file' = [file EXCEPT ![File(t)] = new]
  <2> DEFINE left == Do(call[t], Visible(t), clock).data
  <2>1. /\ file' = IF left = Visible(t) THEN file ELSE [file EXCEPT ![File(t)] = left]
        /\ new = IF left = Visible(t) THEN file[File(t)] ELSE left
    BY <1>2 DEF _write, Left
  <2> HIDE DEF left, new
  <2> QED
    BY <1>1, <2>1
<1>4. AccountsShaped(new) \/ File(t) # "users"
  <2>1. AccountsShaped(file["users"]) /\ AccountsShaped(Empty)
    BY DEF IInv, AccountsShaped, Empty
  <2>2. CASE File(t) = "users"
    <3>1. AccountsShaped(Visible(t))
      BY <2>1, <2>2 DEF Visible
    <3>2. AccountsShaped(Do(call[t], Visible(t), clock).data)
      BY <2>2, <3>1, AccountMethods DEF File
    <3> QED
      BY <2>1, <2>2, <3>2 DEF Left
  <2> QED
    BY <2>2
<1> HIDE DEF new
<1>5. /\ DOMAIN file' = Files /\ file' = [f \in Files |-> file'[f]]
      /\ file'[File(t)] = new
      /\ \A f \in Files : f # File(t) => file'[f] = file[f]
  BY <1>1, <1>3
<1>6. Shape'
  BY <1>5, LockSlot DEF IInv, Shape, _write, Unlocked, Goto
<1>7. ASSUME NEW s \in Threads, pc'[s] = "locked"
      PROVE  /\ lock'[Home(s)][File(s)] = s
             /\ seen'[s] = IF s \in blind' THEN Empty ELSE file'[File(s)]
  <2>1. s # t /\ pc[s] = "locked" /\ seen'[s] = seen[s] /\ (s \in blind' <=> s \in blind)
    BY <1>7 DEF IInv, Shape, _write, Goto
  <2>2. File(s) # File(t) /\ File(s) \in Files /\ Home(s) \in Procs
    BY <1>2, <2>1, Exclusion, FileOfType, StoreAssumption DEF IInv, File, Home
  <2>3. lock[Home(s)][File(s)] = s /\ seen[s] = Visible(s)
    BY <2>1 DEF IInv, Holds, CopyIsCurrent
  <2>4. lock'[Home(s)][File(s)] = s
    BY <2>2, <2>3, LockSlot DEF IInv, _write, Unlocked
  <2> QED
    BY <1>5, <2>1, <2>2, <2>3, <2>4 DEF Visible
<1>8. call' = call
  BY DEF _write
<1>9. Holds' /\ CopyIsCurrent'
  BY <1>7, <1>8 DEF Holds, CopyIsCurrent, Visible, File, Home
<1>10. AccountsShaped(file'["users"])
  BY <1>4, <1>5 DEF IInv, Files
<1>11. BlindInside'
  BY DEF BlindInside, IInv, Shape, _write, Goto
<1>12. IInv'
  BY <1>6, <1>9, <1>10, <1>11 DEF IInv
<1> QED
  BY <1>3, <1>12 DEF new

\* Threads that are done with their requests hold no lock, and the locks of
\* the others are left to them.
LEMMA ForgetStep ==
    ASSUME IInv, NEW S \in SUBSET Threads, Forget(S), UNCHANGED file,
           DOMAIN lock' = Procs, \A p \in Procs : DOMAIN lock'[p] = Files,
           \A t \in Threads \ S :
              pc[t] = "locked" => lock'[Home(t)][File(t)] = lock[Home(t)][File(t)]
    PROVE  IInv'
<1>1. Shape'
  BY DEF IInv, Shape, Forget
<1>2. ASSUME NEW t \in Threads, pc'[t] = "locked"
      PROVE  /\ t \notin S /\ pc[t] = "locked" /\ call'[t] = call[t]
             /\ seen'[t] = seen[t] /\ (t \in blind' <=> t \in blind)
  BY <1>2 DEF Forget
<1>3. Holds' /\ CopyIsCurrent'
  BY <1>2 DEF IInv, Holds, CopyIsCurrent, Visible, File, Home
<1>4. BlindInside'
  BY DEF IInv, BlindInside, Forget
<1> QED
  BY <1>1, <1>3, <1>4 DEF IInv

LEMMA WriteFailsStep ==
    ASSUME OneProcess, IInv, NEW t \in Threads, WriteFails(t)
    PROVE  IInv'
<1>1. \A s \in Threads \ {t} : pc[s] = "locked" =>
         /\ File(s) # File(t) /\ File(s) \in Files /\ Home(s) \in Procs
  BY Exclusion, FileOfType, StoreAssumption DEF IInv, WriteFails, File, Home
<1>2. \A s \in Threads \ {t} : pc[s] = "locked" =>
         lock'[Home(s)][File(s)] = lock[Home(s)][File(s)]
  BY <1>1, LockSlot DEF IInv, WriteFails, Unlocked
<1>3. DOMAIN lock' = Procs /\ \A p \in Procs : DOMAIN lock'[p] = Files
  BY LockSlot DEF IInv, WriteFails, Unlocked
<1> QED
  BY <1>2, <1>3, ForgetStep DEF WriteFails

LEMMA RestartStep ==
    ASSUME IInv, NEW p \in Procs, Restart(p)
    PROVE  IInv'
<1> DEFINE S == {t \in Threads : Home(t) = p}
<1>1. Forget(S) /\ UNCHANGED file /\ S \in SUBSET Threads
  BY DEF Restart
<1>2. \A t \in Threads \ S : lock'[Home(t)][File(t)] = lock[Home(t)][File(t)]
  BY StoreAssumption DEF IInv, Shape, Restart, Home
<1>3. DOMAIN lock' = Procs /\ \A q \in Procs : DOMAIN lock'[q] = Files
  BY DEF IInv, Shape, Restart
<1> QED
  BY <1>1, <1>2, <1>3, ForgetStep

\* Steps of a thread outside the lock.
LEMMA OutsideStep ==
    ASSUME IInv, NEW t \in Threads, UNCHANGED <<file, lock, seen, blind>>, pc[t] # "locked",
           NEW l \in {"called", "idle"}, Goto(t, l),
           NEW r, call' = [call EXCEPT ![t] = r], DOMAIN result' = Threads
    PROVE  IInv'
<1>1. Shape'
  BY DEF IInv, Shape, Goto
<1>2. \A s \in Threads : pc'[s] = "locked" =>
         pc[s] = "locked" /\ call'[s] = call[s]
  BY DEF IInv, Shape, Goto
<1>3. Holds' /\ CopyIsCurrent'
  BY <1>2 DEF IInv, Holds, CopyIsCurrent, Visible, File, Home
<1>4. BlindInside'
  BY DEF IInv, Shape, BlindInside, Goto
<1> QED
  BY <1>1, <1>3, <1>4 DEF IInv

LEMMA CallStep ==
    ASSUME IInv, NEW t \in Threads, Call(t) \/ RecordLogin(t) PROVE IInv'
<1>1. CASE Call(t)
  <2>1. PICK r \in Calls : call' = [call EXCEPT ![t] = r]
    BY <1>1 DEF Call
  <2> QED
    BY <1>1, <2>1, OutsideStep DEF Call, IInv, Shape
<1>2. CASE RecordLogin(t)
  <2> DEFINE r == [do |-> "update_last_login", user |-> call[t].user, body |-> result[t].body]
  <2>1. call' = [call EXCEPT ![t] = r]
    BY <1>2 DEF RecordLogin
  <2> HIDE DEF r
  <2> QED
    BY <1>2, <2>1, OutsideStep DEF RecordLogin, IInv, Shape
<1> QED
  BY <1>1, <1>2

LEMMA Inductive == OneProcess /\ IInv /\ [Next]_vars => IInv'
<1> SUFFICES ASSUME OneProcess, IInv, [Next]_vars PROVE IInv'
  OBVIOUS
<1>1. ASSUME NEW t \in Threads, Call(t) \/ RecordLogin(t) PROVE IInv'
  BY <1>1, CallStep
<1>2. ASSUME NEW t \in Threads, LockAndRead(t) \/ ReadFails(t) PROVE IInv'
  BY <1>2, LockStep
<1>3. ASSUME NEW t \in Threads, _write(t) PROVE IInv'
  BY <1>3, WriteStep
<1>4. ASSUME NEW t \in Threads, WriteFails(t) PROVE IInv'
  BY <1>4, WriteFailsStep
<1>5. ASSUME NEW t \in Threads, Return(t) PROVE IInv'
  BY <1>5, ForgetStep DEF Return, IInv, Shape
<1>6. ASSUME NEW p \in Procs, Restart(p) PROVE IInv'
  BY <1>6, RestartStep
<1>7. CASE Tick \/ UNCHANGED vars
  BY <1>7 DEF Tick, vars, IInv, Shape, Holds, CopyIsCurrent, Visible, BlindInside, File, Home
<1> QED
  BY <1>1, <1>2, <1>3, <1>4, <1>5, <1>6, <1>7 DEF Next

LEMMA Initially == Init => IInv
<1> SUFFICES ASSUME Init PROVE IInv
  OBVIOUS
<1>1. Shape
  BY DEF Init, Shape, EmptyFiles
<1>2. Holds /\ CopyIsCurrent /\ BlindInside
  BY DEF Init, Holds, CopyIsCurrent, BlindInside
<1>3. AccountsShaped(file["users"])
  BY DEF Init, EmptyFiles, Empty, Files, AccountsShaped
<1> QED
  BY <1>1, <1>2, <1>3 DEF IInv

-------------------------------------------------------------------------------
(* The store UserStore describes has the same methods.                     *)

LEMMA SameDo ==
    \A r, d, now :
        /\ Abstract!FileOf(r) = FileOf(r)
        /\ Abstract!Do(r, d, now) = Do(r, d, now)
<1>1. \A r : Abstract!FileOf(r) = FileOf(r)
  BY DEF FileOf, Abstract!FileOf
<1>2. \A r, d, now : Abstract!Do(r, d, now) = Do(r, d, now)
  BY DEF Do, Abstract!Do, save_workspace, Abstract!save_workspace,
         get_workspace, Abstract!get_workspace, list_workspaces,
         Abstract!list_workspaces, delete_workspace,
         Abstract!delete_workspace, ReadWatchlist, Abstract!ReadWatchlist,
         get_watchlist, Abstract!get_watchlist, add_to_watchlist,
         Abstract!add_to_watchlist, remove_from_watchlist,
         Abstract!remove_from_watchlist, create_alert,
         Abstract!create_alert, get_alerts, Abstract!get_alerts,
         get_all_active_alerts, Abstract!get_all_active_alerts,
         update_alert_status, Abstract!update_alert_status, delete_alert,
         Abstract!delete_alert, register, Abstract!register, authenticate,
         Abstract!authenticate, update_last_login,
         Abstract!update_last_login, get_user, Abstract!get_user,
         _default_permissions, Abstract!_default_permissions, With,
         Abstract!With, Without, Abstract!Without, AppendOnce,
         Abstract!AppendOnce, ToSet, Abstract!ToSet, RemoveFirst,
         Abstract!RemoveFirst, Key, Abstract!Key, IsStrictPrefix,
         Abstract!IsStrictPrefix, IsPrefix, Abstract!IsPrefix, RemoveAt, Abstract!RemoveAt, SelectInSeq,
         Abstract!SelectInSeq, Result, Abstract!Result
<1> QED
  BY <1>1, <1>2

LEMMA SameNames ==
    /\ Abstract!EmptyFiles = EmptyFiles /\ Abstract!Empty = Empty
    /\ Abstract!NoCall = NoCall /\ Abstract!NoResult = NoResult
  BY DEF EmptyFiles, Abstract!EmptyFiles, Empty, Abstract!Empty, Files,
         Abstract!Files, NoCall, Abstract!NoCall, NoResult, Abstract!NoResult,
         Result, Abstract!Result

-------------------------------------------------------------------------------
(* Every step is a step of the store or leaves it as it is.                *)

LEMMA PhaseMoves ==
    ASSUME Shape, NEW t \in Threads, NEW l \in {"called", "idle", "done"}, Goto(t, l)
    PROVE  phase' = [phase EXCEPT ![t] = l]
<1> DEFINE shown(f) == [s \in Threads |-> IF f[s] = "locked" THEN "called" ELSE f[s]]
<1>1. pc' = [s \in Threads |-> IF s = t THEN l ELSE pc[s]]
  BY DEF Shape, Goto
<1>2. shown(pc') = [s \in Threads |-> IF s = t THEN l ELSE shown(pc)[s]]
  BY <1>1
<1> QED
  BY <1>2 DEF phase

\* Threads that forget their calls have failed, or returned, in the store.
LEMMA ForgetImplements ==
    ASSUME NEW S \in SUBSET Threads, Forget(S), UNCHANGED <<file, clock>>
    PROVE  Abstract!Forget(S)
<1>1. phase' = [t \in Threads |-> IF t \in S THEN "idle" ELSE phase[t]]
  BY DEF Forget, phase
<1> QED
  BY <1>1, SameNames DEF Forget, Abstract!Forget

LEMMA StepImplements ==
    OneProcess /\ IInv /\ [Next]_vars => [Abstract!Next]_(Abstract!vars)
<1> SUFFICES ASSUME OneProcess, IInv, [Next]_vars
             PROVE  Abstract!Next \/ UNCHANGED Abstract!vars
  OBVIOUS
<1>1. CASE Tick
  BY <1>1 DEF Tick, Abstract!Tick, Abstract!Next, phase
<1>2. ASSUME NEW t \in Threads, Call(t) PROVE Abstract!Next
  <2>1. phase[t] = "idle" /\ phase' = [phase EXCEPT ![t] = "called"]
    BY <1>2, PhaseMoves DEF Call, phase, IInv
  <2> QED
    BY <1>2, <2>1 DEF Call, Abstract!Call, Abstract!Next
<1>3. ASSUME NEW t \in Threads, LockAndRead(t) \/ ReadFails(t)
      PROVE  Abstract!Next \/ UNCHANGED Abstract!vars
  <2>1. \A s \in Threads : phase'[s] = phase[s]
    BY <1>3 DEF LockAndRead, ReadFails, Enter, Goto, IInv, Shape, phase
  <2>2. phase' = phase
    BY <2>1 DEF phase
  <2>3. CASE LockAndRead(t)
    BY <2>2, <2>3 DEF LockAndRead, Enter, Abstract!vars
  <2>4. CASE ReadFails(t)
    <3>1. phase[t] = "called"
      BY <2>4 DEF ReadFails, Enter, phase
    <3>2. Abstract!Unreadable(t)
      BY <2>2, <2>4, <3>1 DEF ReadFails, Enter, Abstract!Unreadable
    <3> QED
      BY <3>2 DEF Abstract!Next
  <2> QED
    BY <1>3, <2>3, <2>4
<1>4. ASSUME NEW t \in Threads, _write(t) PROVE Abstract!Next
  <2> DEFINE r == Do(call[t], Visible(t), clock)
  <2>1. phase[t] = "called" /\ phase' = [phase EXCEPT ![t] = "done"]
    BY <1>4, PhaseMoves DEF _write, phase, IInv
  <2>2. seen[t] = Visible(t)
    BY <1>4 DEF _write, IInv, CopyIsCurrent
  <2>3. file' = IF r.data = Visible(t) THEN file ELSE [file EXCEPT ![File(t)] = r.data]
    BY <1>4, <2>2 DEF _write
  <2>4. result' = [result EXCEPT ![t] = [r EXCEPT !.data = Empty]]
    BY <1>4, <2>2 DEF _write
  <2>5. blind' = blind \ {t} /\ UNCHANGED <<clock, call>>
    BY <1>4 DEF _write
  <2>6. /\ File(t) = Abstract!FileOf(call[t])
        /\ Visible(t) = IF t \in blind THEN Abstract!Empty ELSE file[Abstract!FileOf(call[t])]
        /\ r = Abstract!Do(call[t], Visible(t), clock)
    BY SameDo, SameNames DEF File, Visible
  <2> HIDE DEF r
  <2>7. Abstract!TakeEffect(t)
    BY <2>1, <2>3, <2>4, <2>5, <2>6, SameNames DEF Abstract!TakeEffect
  <2> QED
    BY <2>7 DEF Abstract!Next
<1>5. ASSUME NEW t \in Threads, WriteFails(t) PROVE Abstract!Next
  BY <1>5, ForgetImplements DEF WriteFails, Abstract!Fail, Abstract!Next
<1>6. ASSUME NEW t \in Threads, RecordLogin(t) PROVE Abstract!Next
  <2>1. phase[t] = "done" /\ phase' = [phase EXCEPT ![t] = "called"]
    BY <1>6, PhaseMoves DEF RecordLogin, phase, IInv
  <2>2. Abstract!RecordLogin(t)
    BY <1>6, <2>1
    DEF RecordLogin, Abstract!RecordLogin, LoggedIn, Abstract!LoggedIn
  <2> QED
    BY <2>2 DEF Abstract!Next
<1>7. ASSUME NEW t \in Threads, Return(t) PROVE Abstract!Next
  BY <1>7, ForgetImplements DEF Return, Abstract!Fail, Abstract!Next
<1>8. ASSUME NEW p \in Procs, Restart(p) PROVE Abstract!Next
  BY <1>8, ForgetImplements DEF Restart, Abstract!Fail, Abstract!Next
<1>9. CASE UNCHANGED vars
  BY <1>9 DEF vars, Abstract!vars, phase
<1> QED
  BY <1>1, <1>2, <1>3, <1>4, <1>5, <1>6, <1>7, <1>8, <1>9 DEF Next

\* One server process with a lock per file is an atomic store, for any number
\* of threads, users, names, tickers and calls: no update is lost, failing
\* writes and restarts leave no trace, and a failing read deceives one method.
THEOREM AtomicStore == ASSUME OneProcess PROVE Spec => ImplementsUserStore
<1>1. Init => Abstract!Init
  BY SameNames DEF Init, Abstract!Init, phase
<1>2. IInv /\ [Next]_vars => IInv'
  BY Inductive
<1>3. IInv /\ [Next]_vars => [Abstract!Next]_(Abstract!vars)
  BY StepImplements
<1> QED
  BY <1>1, <1>2, <1>3, Initially, PTL
  DEF Spec, ImplementsUserStore, Abstract!Spec

\* Accounts are never lost, and keep their passwords and roles, except when a
\* registration whose read of users.json failed replaces the file.
THEOREM AccountsKept == ASSUME OneProcess PROVE Spec => AccountsAreKept
<1> DEFINE A == \/ Kept(file["users"], file'["users"])
                \/ \E t \in Threads : RegistersBlindly(t)
<1>1. IInv /\ [Next]_vars => A
  <2> SUFFICES ASSUME IInv, [Next]_vars PROVE A
    OBVIOUS
  <2>1. CASE file' = file
    BY <2>1 DEF Kept
  <2>2. ASSUME NEW t \in Threads, _write(t) PROVE A
    <3>1. AccountsShaped(file["users"]) /\ DOMAIN file = Files /\ "users" \in Files
      BY DEF IInv, Shape, Files
    <3>2. file' = [file EXCEPT ![File(t)] = Left(t, Visible(t))]
      BY <2>2, WriteStep
    <3>3. CASE File(t) = "users" /\ t \notin blind
      <4>1. /\ Visible(t) = file["users"]
            /\ file'["users"] = Left(t, Visible(t))
        BY <3>1, <3>2, <3>3 DEF Visible
      <4>2. file'["users"] = Do(call[t], file["users"], clock).data
        BY <3>3, <4>1 DEF Left
      <4> QED
        BY <3>1, <3>3, <4>2, AccountMethods DEF File
    <3>4. CASE File(t) = "users" /\ t \in blind
      <4>1. CASE call[t].do = "register"
        BY <2>2, <3>4, <4>1 DEF RegistersBlindly, _write, Goto, IInv, Shape
      <4>2. CASE call[t].do # "register"
        <5>1. Do(call[t], Empty, clock).data = Empty
          BY <3>4, <4>2, OtherMethods DEF File
        <5>2. file'["users"] = file["users"]
          BY <3>1, <3>2, <3>4, <5>1 DEF Left, Visible
        <5> QED
          BY <5>2 DEF Kept
      <4> QED
        BY <4>1, <4>2
    <3>5. CASE File(t) # "users"
      <4>1. file'["users"] = file["users"]
        BY <3>1, <3>2, <3>5
      <4> QED
        BY <4>1 DEF Kept
    <3> QED
      BY <3>3, <3>4, <3>5
  <2> QED
    BY <2>1, <2>2
    DEF Next, Tick, Call, LockAndRead, ReadFails, Enter, WriteFails, RecordLogin, Return,
        Restart, vars
<1>2. IInv /\ [Next]_vars =>
         [\/ \A u \in DOMAIN file["users"] :
               /\ u \in DOMAIN file'["users"]
               /\ file'["users"][u].password = file["users"][u].password
               /\ file'["users"][u].role = file["users"][u].role
          \/ \E t \in Threads : RegistersBlindly(t)]_vars
  BY <1>1 DEF Kept
<1>3. IInv /\ [Next]_vars => IInv'
  BY Inductive
<1> QED
  BY <1>2, <1>3, Initially, PTL DEF Spec, AccountsAreKept
-------------------------------------------------------------------------------
(* What holds also for several processes, whose copies may be old: locks   *)
(* have their owners, and what is read or written has its form.            *)

Updates == {"add_to_watchlist", "remove_from_watchlist"}

\* What the methods rely on in a call.
Known(r) ==
    /\ r.do \in {"save_workspace", "update_workspace", "get_workspace",
                 "list_workspaces", "delete_workspace",
                 "get_watchlist", "create_alert", "get_alerts", "get_all_active_alerts",
                 "update_alert_status", "delete_alert", "register", "authenticate",
                 "update_last_login", "get_user"} \cup Updates
    /\ r.do \in Updates => r.ticker \in Tickers

\* The contents of watchlists.json and alerts.json.
ListsOK(d) == \A u \in DOMAIN d : d[u] \in Seq(Tickers) /\ IsInjective(d[u])
AlertsOK(d) == DOMAIN d \subseteq 0..clock

Formed(f, d) == (f = "watchlists" => ListsOK(d)) /\ (f = "alerts" => AlertsOK(d))

Owners ==
    \A p \in Procs, f \in Files : lock[p][f] # NoThread =>
        \E t \in Threads : /\ lock[p][f] = t /\ Home(t) = p
                           /\ File(t) = f /\ pc[t] = "locked"

Contents ==
    /\ \A f \in Files : Formed(f, file[f])
    /\ \A t \in Threads : pc[t] = "locked" => Formed(File(t), seen[t])

Calling ==
    /\ clock \in 0..MaxClock
    /\ pc \in [Threads -> {"idle", "called", "locked", "done"}]
    /\ \A t \in Threads : pc[t] # "idle" => Known(call[t])
    /\ \A t \in blind : t \in Threads /\ pc[t] = "locked"

TInv == Shape /\ Owners /\ Contents /\ Calling

LEMMA CallsKnown == \A r \in Calls : Known(r)
<1>1. \A r \in WorkspaceCalls : Known(r)
  BY DEF WorkspaceCalls, Known, Updates
<1>2. \A r \in WatchlistCalls : Known(r)
  BY DEF WatchlistCalls, Known, Updates
<1>3. \A r \in AlertCalls(Nat) : Known(r)
  BY DEF AlertCalls, Known, Updates
<1>4. \A r \in AccountCalls : Known(r)
  BY DEF AccountCalls, Known, Updates
<1> QED
  BY <1>1, <1>2, <1>3, <1>4, StoreAssumption DEF AllCalls

\* A ticker is appended once, and no other is lost with the one removed.
LEMMA AppendOnceForm ==
    ASSUME NEW list \in Seq(Tickers), IsInjective(list), NEW t \in Tickers
    PROVE  AppendOnce(list, t) \in Seq(Tickers) /\ IsInjective(AppendOnce(list, t))
<1>1. CASE t \in ToSet(list)
  BY <1>1 DEF AppendOnce
<1>2. CASE t \notin ToSet(list)
  <2> DEFINE n == Len(list)
             new == Append(list, t)
  <2>1. AppendOnce(list, t) = new
    BY <1>2 DEF AppendOnce
  <2>2. /\ new \in Seq(Tickers) /\ n \in Nat /\ DOMAIN list = 1..n /\ DOMAIN new = 1..(n + 1)
        /\ \A i \in 1..n : new[i] = list[i] /\ new[n + 1] = t
    BY LenProperties
  <2> HIDE DEF n, new
  <2>3. \A i \in 1..n : list[i] # t
    BY <1>2, <2>2 DEF ToSet
  <2>4. /\ \A i \in 1..(n + 1) : i \in 1..n \/ i = n + 1
        /\ n + 1 \notin 1..n
    BY <2>2
  <2>5. \A i, j \in 1..n : list[i] = list[j] => i = j
    BY <2>2 DEF IsInjective
  <2>6. \A i, j \in 1..(n + 1) : new[i] = new[j] => i = j
    BY <2>2, <2>3, <2>4, <2>5
  <2> QED
    BY <2>1, <2>2, <2>6 DEF IsInjective
<1> QED
  BY <1>1, <1>2

LEMMA RemoveAtForm ==
    ASSUME NEW list \in Seq(Tickers), IsInjective(list), NEW k \in 1..Len(list)
    PROVE  RemoveAt(list, k) \in Seq(Tickers) /\ IsInjective(RemoveAt(list, k))
<1> DEFINE n == Len(list)
           a == SubSeq(list, 1, k - 1)
           b == SubSeq(list, k + 1, n)
           new == a \o b
<1>1. n \in Nat /\ k \in 1..n /\ DOMAIN list = 1..n /\ \A i \in 1..n : list[i] \in Tickers
  BY LenProperties, ElementOfSeq
<1>2. /\ a \in Seq(Tickers) /\ Len(a) = k - 1
      /\ \A i \in 1..(k - 1) : a[i] = list[i]
  <2>1. \A i \in 1..(k - 1) : list[i] \in Tickers
    BY <1>1
  <2>2. /\ a \in Seq(Tickers)
        /\ Len(a) = IF 1 <= k - 1 THEN k - 1 - 1 + 1 ELSE 0
        /\ \A i \in 1..(k - 1 - 1 + 1) : a[i] = list[1 + i - 1]
    BY <1>1, <2>1, SubSeqProperties
  <2> HIDE DEF a
  <2> QED
    BY <1>1, <2>2
<1>3. /\ b \in Seq(Tickers) /\ Len(b) = n - k
      /\ \A i \in 1..(n - k) : b[i] = list[k + i]
  <2>1. \A i \in (k + 1)..n : list[i] \in Tickers
    BY <1>1
  <2>2. /\ b \in Seq(Tickers)
        /\ Len(b) = IF k + 1 <= n THEN n - (k + 1) + 1 ELSE 0
        /\ \A i \in 1..(n - (k + 1) + 1) : b[i] = list[k + 1 + i - 1]
    BY <1>1, <2>1, SubSeqProperties
  <2> HIDE DEF b, n
  <2>3. n - (k + 1) + 1 = n - k /\ \A i \in 1..(n - k) : k + 1 + i - 1 = k + i
    BY <1>1
  <2>4. Len(b) = n - k
    BY <1>1, <2>2
  <2> QED
    BY <2>2, <2>3, <2>4
<1>4. RemoveAt(list, k) = new
  BY DEF RemoveAt
<1> HIDE DEF a, b
<1>5. /\ new \in Seq(Tickers) /\ Len(new) = n - 1
      /\ \A i \in 1..(n - 1) : new[i] = IF i <= k - 1 THEN a[i] ELSE b[i - (k - 1)]
  <2>1. /\ new \in Seq(Tickers) /\ Len(new) = Len(a) + Len(b)
        /\ \A i \in 1..(Len(a) + Len(b)) : new[i] = IF i <= Len(a) THEN a[i] ELSE b[i - Len(a)]
    BY <1>2, <1>3, ConcatProperties
  <2> HIDE DEF new, n
  <2>2. Len(a) + Len(b) = n - 1
    BY <1>1, <1>2, <1>3
  <2> QED
    BY <1>2, <2>1, <2>2
<1>6. DOMAIN new = 1..(n - 1)
  BY <1>5, LenProperties
<1> HIDE DEF new, n
\* The elements of new are those of list at other places than k.
<1> DEFINE Old(i) == IF i <= k - 1 THEN i ELSE i + 1
<1>7. \A i \in 1..(n - 1) : Old(i) \in 1..n /\ new[i] = list[Old(i)]
  BY <1>1, <1>2, <1>3, <1>5
<1>8. \A i, j \in 1..(n - 1) : Old(i) = Old(j) => i = j
  BY <1>1
<1> HIDE DEF Old
<1>9. \A i, j \in 1..(n - 1) : new[i] = new[j] => i = j
  BY <1>1, <1>7, <1>8 DEF IsInjective
<1> QED
  BY <1>4, <1>5, <1>6, <1>9 DEF IsInjective

LEMMA RemoveFirstForm ==
    ASSUME NEW list \in Seq(Tickers), IsInjective(list), NEW t, t \in ToSet(list)
    PROVE  RemoveFirst(list, t) \in Seq(Tickers) /\ IsInjective(RemoveFirst(list, t))
<1>1. DOMAIN list = 1..Len(list) /\ Len(list) \in Nat
  BY LenProperties
<1>2. PICK k \in 1..Len(list) : list[k] = t
  BY <1>1 DEF ToSet
<1>3. {i \in 1..Len(list) : list[i] = t} = {k}
  BY <1>1, <1>2 DEF IsInjective
<1>4. Min({k}) = k
  BY <1>2 DEF Min
<1>5. RemoveFirst(list, t) = RemoveAt(list, k)
  BY <1>2, <1>3, <1>4 DEF RemoveFirst, SelectInSeq
<1> QED
  BY <1>5, RemoveAtForm

\* The methods keep the form of what they read.
LEMMA ListMethods ==
    ASSUME NEW r, NEW d, NEW now, Known(r), FileOf(r) = "watchlists", ListsOK(d)
    PROVE  ListsOK(Do(r, d, now).data)
<1>1. r.do \in {"get_watchlist", "add_to_watchlist", "remove_from_watchlist"}
  BY DEF FileOf
<1>2. get_watchlist(d, r) \in Seq(Tickers) /\ IsInjective(get_watchlist(d, r))
  BY DEF get_watchlist, ListsOK, IsInjective
<1>3. ASSUME NEW list \in Seq(Tickers), IsInjective(list)
      PROVE  ListsOK(With(d, r.user, list))
  BY <1>3 DEF ListsOK, With
<1>4. CASE r.do = "get_watchlist"
  BY <1>4 DEF Do, ReadWatchlist, Result
<1>5. CASE r.do = "add_to_watchlist"
  <2> DEFINE list == AppendOnce(get_watchlist(d, r), r.ticker)
  <2>1. list \in Seq(Tickers) /\ IsInjective(list)
    BY <1>2, <1>5, AppendOnceForm DEF Known, Updates
  <2>2. Do(r, d, now).data = With(d, r.user, list)
    BY <1>5 DEF Do, add_to_watchlist, Result
  <2> HIDE DEF list
  <2> QED
    BY <1>3, <2>1, <2>2
<1>6. CASE r.do = "remove_from_watchlist"
  <2>1. Do(r, d, now) = remove_from_watchlist(d, r)
    BY <1>6 DEF Do
  <2>2. CASE r.ticker \in ToSet(get_watchlist(d, r))
    <3> DEFINE list == RemoveFirst(d[r.user], r.ticker)
    <3>1. d[r.user] = get_watchlist(d, r)
      BY <2>2 DEF get_watchlist, ToSet
    <3>2. list \in Seq(Tickers) /\ IsInjective(list)
      BY <1>2, <2>2, <3>1, RemoveFirstForm
    <3>3. Do(r, d, now).data = With(d, r.user, list)
      BY <2>1, <2>2 DEF remove_from_watchlist, Result
    <3> HIDE DEF list
    <3> QED
      BY <1>3, <3>2, <3>3
  <2>3. CASE r.ticker \notin ToSet(get_watchlist(d, r))
    BY <2>1, <2>3 DEF remove_from_watchlist, Result
  <2> QED
    BY <2>2, <2>3
<1> QED
  BY <1>1, <1>4, <1>5, <1>6

LEMMA AlertMethods ==
    ASSUME NEW r, NEW d, Known(r), FileOf(r) = "alerts", AlertsOK(d), clock \in Nat
    PROVE  AlertsOK(Do(r, d, clock).data)
<1>1. r.do \in {"create_alert", "get_alerts", "get_all_active_alerts",
                 "update_alert_status", "delete_alert"}
  BY DEF FileOf, Known, Updates
<1>2. CASE r.do = "create_alert"
  BY <1>2 DEF Do, create_alert, Result, With, AlertsOK
<1>3. CASE r.do = "get_alerts"
  BY <1>3 DEF Do, get_alerts, Result
<1>4. CASE r.do = "get_all_active_alerts"
  BY <1>4 DEF Do, get_all_active_alerts, Result
<1>5. CASE r.do = "update_alert_status"
  BY <1>5 DEF Do, update_alert_status, Result, AlertsOK
<1>6. CASE r.do = "delete_alert"
  BY <1>6 DEF Do, delete_alert, Result, Without, AlertsOK
<1> QED
  BY <1>1, <1>2, <1>3, <1>4, <1>5, <1>6

LEMMA MethodsKeepForm ==
    ASSUME NEW r, NEW d, Known(r), Formed(FileOf(r), d), clock \in Nat
    PROVE  Formed(FileOf(r), Do(r, d, clock).data)
BY ListMethods, AlertMethods DEF Formed

LEMMA WriteFormed ==
    ASSUME TInv, NEW t \in Threads, _write(t)
    PROVE  \A f \in Files : Formed(f, file'[f])
<1> DEFINE r == Do(call[t], seen[t], clock)
<1>1. File(t) \in Files /\ DOMAIN file = Files
  BY FileOfType DEF TInv, Shape, File
<1>2. Formed(File(t), r.data)
  BY StoreAssumption, MethodsKeepForm DEF TInv, Calling, Contents, _write, File
<1>3. file' = file \/ file' = [file EXCEPT ![File(t)] = r.data]
  BY DEF _write
<1> HIDE DEF r
<1>4. \A f \in Files : file'[f] = file[f] \/ (f = File(t) /\ file'[f] = r.data)
  BY <1>1, <1>3
<1> QED
  BY <1>2, <1>4 DEF TInv, Contents

\* A thread that leaves a method, or was not in one, gives back its own lock
\* and keeps the others.
LEMMA OwnersKept ==
    ASSUME TInv, NEW S \in SUBSET Threads,
           DOMAIN lock' = Procs, \A p \in Procs : DOMAIN lock'[p] = Files,
           \A p \in Procs, f \in Files : lock'[p][f] = lock[p][f] \/ lock'[p][f] = NoThread,
           \A t \in S : pc[t] = "locked" => lock'[Home(t)][File(t)] = NoThread,
           \A t \in Threads \ S : pc[t] = "locked" => pc'[t] = "locked" /\ call'[t] = call[t]
    PROVE  Owners'
<1> SUFFICES ASSUME NEW p \in Procs, NEW f \in Files, lock'[p][f] # NoThread
             PROVE  \E t \in Threads : /\ lock'[p][f] = t /\ Home(t) = p
                                       /\ FileOf(call'[t]) = f /\ pc'[t] = "locked"
  BY DEF Owners, File, Home
<1>1. lock'[p][f] = lock[p][f]
  OBVIOUS
<1>2. PICK t \in Threads : lock[p][f] = t /\ Home(t) = p /\ File(t) = f /\ pc[t] = "locked"
  BY <1>1 DEF TInv, Owners
<1>3. t \notin S
  BY <1>2
<1> QED
  BY <1>1, <1>2, <1>3 DEF File

LEMMA TypesForget ==
    ASSUME TInv, NEW S \in SUBSET Threads, Forget(S), UNCHANGED <<file, clock>>,
           DOMAIN lock' = Procs, \A p \in Procs : DOMAIN lock'[p] = Files,
           \A p \in Procs, f \in Files : lock'[p][f] = lock[p][f] \/ lock'[p][f] = NoThread,
           \A t \in S : pc[t] = "locked" => lock'[Home(t)][File(t)] = NoThread
    PROVE  TInv'
<1>1. Shape'
  BY DEF TInv, Shape, Forget
<1>2. \A t \in Threads : pc'[t] # "idle" =>
         /\ t \notin S /\ pc'[t] = pc[t] /\ call'[t] = call[t] /\ seen'[t] = seen[t]
  BY DEF Forget
<1>3. \A t \in Threads \ S : pc'[t] = pc[t] /\ call'[t] = call[t]
  BY DEF Forget
<1>4. Owners'
  BY <1>3, OwnersKept
<1>5. pc' \in [Threads -> {"idle", "called", "locked", "done"}]
  BY DEF Forget, TInv, Calling
<1>6. Calling'
  <2>1. \A t \in blind' : t \in Threads /\ pc'[t] = "locked"
    BY DEF Forget, TInv, Calling
  <2> QED
    BY <1>2, <1>5, <2>1 DEF TInv, Calling, Known
<1>7. Contents'
  BY <1>2 DEF TInv, Contents, Formed, ListsOK, AlertsOK, File
<1> QED
  BY <1>1, <1>4, <1>6, <1>7 DEF TInv

\* A step of thread t that is not a return, in which it makes the call r.
LEMMA TypesGoto ==
    ASSUME TInv, NEW t \in Threads, pc[t] # "locked",
           UNCHANGED <<file, lock, seen, clock, blind>>,
           NEW l \in {"called"}, Goto(t, l), NEW r, Known(r),
           call' = [call EXCEPT ![t] = r], DOMAIN result' = Threads
    PROVE  TInv'
<1>1. Shape'
  BY DEF TInv, Shape, Goto
<1>2. /\ pc'[t] = l /\ call'[t] = r
      /\ \A s \in Threads : s # t => pc'[s] = pc[s] /\ call'[s] = call[s]
  BY DEF TInv, Shape, Goto
<1>3. Owners'
  <2> PICK S \in SUBSET Threads : S = {}
    OBVIOUS
  <2>1. \A s \in Threads : pc[s] = "locked" => pc'[s] = "locked" /\ call'[s] = call[s]
    BY <1>2
  <2> QED
    BY <2>1, OwnersKept DEF TInv, Shape
<1>4. Calling'
  BY <1>2 DEF TInv, Calling, Known, Goto
<1>5. Contents'
  BY <1>2 DEF TInv, Contents, Formed, ListsOK, AlertsOK, File
<1> QED
  BY <1>1, <1>3, <1>4, <1>5 DEF TInv

LEMMA TypesLock ==
    ASSUME TInv, NEW t \in Threads, LockAndRead(t) \/ ReadFails(t)
    PROVE  TInv'
<1> PICK d : Enter(t, d) /\ Formed(File(t), d) /\ blind' \subseteq blind \cup {t}
  <2>1. CASE LockAndRead(t)
    BY <2>1, FileOfType DEF LockAndRead, _read, TInv, Contents, File
  <2>2. CASE ReadFails(t)
    <3>1. Formed(File(t), Empty)
      BY DEF Formed, ListsOK, AlertsOK, Empty
    <3> QED
      BY <2>2, <3>1 DEF ReadFails
  <2> QED
    BY <2>1, <2>2
<1>1. Shape'
  BY LockSlot DEF TInv, Shape, Enter, Goto
<1>2. /\ pc'[t] = "locked" /\ pc[t] = "called" /\ call' = call /\ file' = file /\ clock' = clock
      /\ seen'[t] = d /\ File(t) \in Files /\ Home(t) \in Procs
      /\ \A s \in Threads : s # t => pc'[s] = pc[s] /\ seen'[s] = seen[s]
  BY StoreAssumption, FileOfType DEF TInv, Shape, Enter, Goto, File, Home
<1>3. Owners'
  <2> SUFFICES ASSUME NEW p \in Procs, NEW f \in Files, lock'[p][f] # NoThread
               PROVE  \E s \in Threads : /\ lock'[p][f] = s /\ Home(s) = p
                                         /\ FileOf(call[s]) = f /\ pc'[s] = "locked"
    BY <1>2 DEF Owners, File, Home
  <2>1. CASE p = Home(t) /\ f = File(t)
    BY <1>2, <2>1, LockSlot DEF TInv, Enter, File
  <2>2. CASE p # Home(t) \/ f # File(t)
    <3>1. lock'[p][f] = lock[p][f]
      BY <2>2, LockSlot DEF TInv, Enter
    <3>2. PICK s \in Threads : lock[p][f] = s /\ Home(s) = p /\ File(s) = f /\ pc[s] = "locked"
      BY <3>1 DEF TInv, Owners
    <3> QED
      BY <1>2, <3>1, <3>2 DEF File
  <2> QED
    BY <2>1, <2>2
<1>4. Calling'
  BY <1>2 DEF TInv, Calling, Known, Enter, Goto
<1>5. \A s \in Threads : pc'[s] = "locked" => Formed(File(s), seen'[s])
  BY <1>2 DEF TInv, Contents
<1>6. Contents'
  BY <1>2, <1>5 DEF TInv, Contents, Formed, ListsOK, AlertsOK, File
<1> QED
  BY <1>1, <1>3, <1>4, <1>6 DEF TInv

LEMMA TypesWrite ==
    ASSUME TInv, NEW t \in Threads, _write(t)
    PROVE  TInv'
<1>1. DOMAIN lock' = Procs /\ \A p \in Procs : DOMAIN lock'[p] = Files
  BY LockSlot DEF TInv, _write, Unlocked
<1>2. Shape'
  <2>1. file' = [f \in Files |-> file'[f]]
    BY DEF TInv, Shape, _write
  <2> QED
    BY <1>1, <2>1 DEF TInv, Shape, _write, Goto
<1>3. /\ pc'[t] = "done" /\ pc[t] = "locked" /\ call' = call /\ clock' = clock /\ seen' = seen
      /\ \A s \in Threads : s # t => pc'[s] = pc[s]
  BY DEF TInv, Shape, _write, Goto
<1>4. /\ lock'[Home(t)][File(t)] = NoThread
      /\ \A p \in Procs, f \in Files : lock'[p][f] = lock[p][f] \/ lock'[p][f] = NoThread
  BY LockSlot DEF TInv, _write, Unlocked
<1>5. Owners'
  <2> DEFINE S == {t}
  <2>1. /\ S \in SUBSET Threads
        /\ \A s \in S : pc[s] = "locked" => lock'[Home(s)][File(s)] = NoThread
        /\ \A s \in Threads \ S : pc[s] = "locked" => pc'[s] = "locked" /\ call'[s] = call[s]
    BY <1>3, <1>4
  <2> HIDE DEF S
  <2> QED
    BY <1>1, <1>4, <2>1, OwnersKept
<1>6. Calling'
  BY <1>3 DEF TInv, Calling, Known, _write, Goto
<1>7. \A f \in Files : Formed(f, file'[f])
  BY WriteFormed
<1>8. Contents'
  BY <1>3, <1>7 DEF TInv, Contents, Formed, ListsOK, AlertsOK, File
<1> QED
  BY <1>2, <1>5, <1>6, <1>8 DEF TInv

LEMMA TypesRest ==
    ASSUME TInv, NEW t \in Threads, WriteFails(t) \/ Return(t)
    PROVE  TInv'
<1> DEFINE S == {t}
<1>1. Forget(S) /\ UNCHANGED <<file, clock>> /\ S \in SUBSET Threads
  BY DEF WriteFails, Return
<1>2. CASE Return(t)
  <2>1. lock' = lock /\ \A s \in S : pc[s] # "locked"
    BY <1>2 DEF Return
  <2> HIDE DEF S
  <2> QED
    BY <1>1, <2>1, TypesForget DEF TInv, Shape
<1>3. CASE WriteFails(t)
  <2>1. /\ DOMAIN lock' = Procs /\ \A p \in Procs : DOMAIN lock'[p] = Files
        /\ \A p \in Procs, f \in Files : lock'[p][f] = lock[p][f] \/ lock'[p][f] = NoThread
        /\ \A s \in S : lock'[Home(s)][File(s)] = NoThread
    BY <1>3, LockSlot DEF TInv, WriteFails, Unlocked
  <2> HIDE DEF S
  <2> QED
    BY <1>1, <2>1, TypesForget
<1> QED
  BY <1>2, <1>3

LEMMA TypesRestart ==
    ASSUME TInv, NEW p \in Procs, Restart(p)
    PROVE  TInv'
<1> DEFINE S == {t \in Threads : Home(t) = p}
<1>1. Forget(S) /\ UNCHANGED <<file, clock>> /\ S \in SUBSET Threads
  BY DEF Restart
<1>2. /\ DOMAIN lock' = Procs /\ \A q \in Procs : DOMAIN lock'[q] = Files
      /\ \A q \in Procs, f \in Files : lock'[q][f] = lock[q][f] \/ lock'[q][f] = NoThread
      /\ \A t \in S : lock'[Home(t)][File(t)] = NoThread
  BY FileOfType DEF TInv, Shape, Restart, File
<1> HIDE DEF S
<1> QED
  BY <1>1, <1>2, TypesForget

LEMMA TypesStep == TInv /\ [Next]_vars => TInv'
<1> SUFFICES ASSUME TInv, [Next]_vars PROVE TInv'
  OBVIOUS
<1>1. ASSUME NEW t \in Threads, Call(t) PROVE TInv'
  <2>1. PICK r \in Calls : call' = [call EXCEPT ![t] = r]
    BY <1>1 DEF Call
  <2> QED
    BY <1>1, <2>1, TypesGoto, CallsKnown DEF Call, TInv, Shape
<1>2. ASSUME NEW t \in Threads, RecordLogin(t) PROVE TInv'
  <2> DEFINE r == [do |-> "update_last_login", user |-> call[t].user, body |-> result[t].body]
  <2>1. call' = [call EXCEPT ![t] = r] /\ Known(r)
    BY <1>2 DEF RecordLogin, Known, Updates
  <2> HIDE DEF r
  <2> QED
    BY <1>2, <2>1, TypesGoto DEF RecordLogin, TInv, Shape
<1>3. CASE Tick
  <2>1. clock \in Nat /\ clock' = clock + 1
    BY <1>3, StoreAssumption DEF Tick, TInv, Calling
  <2>2. Contents'
    BY <1>3, <2>1 DEF Tick, TInv, Contents, Formed, ListsOK, AlertsOK, File
  <2>3. Calling'
    BY <1>3, StoreAssumption DEF Tick, TInv, Calling, Known
  <2>4. Shape' /\ Owners'
    BY <1>3 DEF Tick, TInv, Shape, Owners, File, Home
  <2> QED
    BY <2>2, <2>3, <2>4 DEF TInv
<1>4. CASE UNCHANGED vars
  BY <1>4 DEF vars, TInv, Shape, Owners, Contents, Formed, ListsOK, AlertsOK, Calling, Known, File, Home
<1> QED
  BY <1>1, <1>2, <1>3, <1>4, TypesLock, TypesWrite, TypesRest, TypesRestart DEF Next

LEMMA TypesInit == Init => TInv
<1> SUFFICES ASSUME Init PROVE TInv
  OBVIOUS
<1>1. Shape
  BY DEF Init, Shape, EmptyFiles
<1>2. Owners /\ Calling
  BY StoreAssumption DEF Init, Owners, Calling
<1>3. Contents
  BY DEF Init, Contents, Formed, ListsOK, AlertsOK, EmptyFiles, Empty
<1> QED
  BY <1>1, <1>2, <1>3 DEF TInv

\* Locks are held by threads that are inside a method of the file, watchlists
\* name no ticker twice and alerts are from the past, also when several server
\* processes overwrite each other's files.
THEOREM TypeCorrect == Spec => []TypeOK
<1>1. TInv => TypeOK
  <2> SUFFICES ASSUME TInv PROVE TypeOK
    OBVIOUS
  <2>1. \A u \in DOMAIN file["watchlists"] : IsInjective(file["watchlists"][u])
    BY DEF TInv, Contents, Formed, ListsOK, Files
  <2>2. DOMAIN file["alerts"] \subseteq 0..clock
    BY DEF TInv, Contents, Formed, AlertsOK, Files
  <2>3. \A p \in Procs, f \in Files : lock[p][f] # NoThread =>
           LET t == lock[p][f] IN Home(t) = p /\ File(t) = f /\ pc[t] = "locked"
    BY DEF TInv, Owners
  <2>4. pc \in [Threads -> {"idle", "called", "locked", "done"}]
    BY DEF TInv, Shape, Calling
  <2> QED
    BY <2>1, <2>2, <2>3, <2>4 DEF TInv, Shape, Calling, TypeOK
<1> QED
  BY <1>1, TypesInit, TypesStep, PTL DEF Spec
==============================================================================
