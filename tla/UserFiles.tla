------------------------------ MODULE UserFiles ------------------------------
(***************************************************************************)
(* How storage/workspace_store.py and app/auth/auth_service.py keep the    *)
(* promise of UserStore: a lock per file in each server process, and under *)
(* it the file is read, changed in memory, written to a temporary file and *)
(* moved into place.  Any step may be the last one of the process.         *)
(***************************************************************************)
EXTENDS UserData

CONSTANTS Threads,
          Calls,      \* the calls clients make
          Procs,
          ProcessOf,  \* ProcessOf[t]: the process thread t belongs to
          NoThread,
          MaxClock,   \* bound: length of an execution
          MaxCalls,   \* bound: calls
          MaxFaults   \* bound: restarts, failing reads and failing writes

ASSUME StoreAssumption ==
    /\ ProcessOf \in [Threads -> Procs]
    /\ NoThread \notin Threads
    /\ Calls \subseteq AllCalls
    /\ MaxClock \in Nat /\ MaxCalls \in Nat /\ MaxFaults \in Nat

VARIABLES
    file,    \* file[f]: the contents under the final name
    clock,
    lock,    \* lock[p][f]: the thread of p that holds the lock of f
    pc,      \* "idle", "called", "locked" or "done"
    call,
    seen,    \* seen[t]: the contents t read last
    result,
    calls,   \* calls so far
    faults,  \* restarts, failing reads and failing writes so far
    blind    \* history: the threads inside a method whose read failed

vars == <<file, clock, lock, pc, call, seen, result, calls, faults, blind>>

NoCall == [do |-> "none"]
NoResult == Result(Empty, 0, {})

Init ==
    /\ file = EmptyFiles
    /\ clock = 0
    /\ lock = [p \in Procs |-> [f \in Files |-> NoThread]]
    /\ pc = [t \in Threads |-> "idle"]
    /\ call = [t \in Threads |-> NoCall]
    /\ seen = [t \in Threads |-> Empty]
    /\ result = [t \in Threads |-> NoResult]
    /\ calls = 0
    /\ faults = 0
    /\ blind = {}

Home(t) == ProcessOf[t]
File(t) == FileOf(call[t])
Goto(t, l) == pc' = [pc EXCEPT ![t] = l]

Tick ==
    /\ clock < MaxClock
    /\ clock' = clock + 1
    /\ UNCHANGED <<file, lock, pc, call, seen, result, calls, faults, blind>>

\* A request whose parameters pass the checks of its route.
Call(t) ==
    /\ pc[t] = "idle"
    /\ calls < MaxCalls
    /\ calls' = calls + 1
    /\ \E r \in Calls : call' = [call EXCEPT ![t] = r]
    /\ Goto(t, "called")
    /\ UNCHANGED <<file, clock, lock, seen, result, faults, blind>>

\* One lock per path, or a new one whenever _get_lock is called.
FreeForEach(t) == TRUE
Free(t) == lock[Home(t)][File(t)] = NoThread

\* The second half of a login reads the file again, or works on the first copy.
ReadOnce(t) == IF call[t].do = "update_last_login" THEN seen[t] ELSE file[File(t)]
_read(t) == file[File(t)]

Enter(t, contents) ==
    /\ pc[t] = "called"
    /\ Free(t)
    /\ lock' = [lock EXCEPT ![Home(t)][File(t)] = t]
    /\ seen' = [seen EXCEPT ![t] = contents]
    /\ Goto(t, "locked")
    /\ UNCHANGED <<file, clock, call, result, calls>>

LockAndRead(t) == Enter(t, _read(t)) /\ UNCHANGED <<faults, blind>>

\* except (json.JSONDecodeError, OSError): return {}.  The file is as it was,
\* and the method goes on with an empty one.
ReadFails(t) ==
    /\ faults < MaxFaults
    /\ faults' = faults + 1
    /\ Enter(t, Empty)
    /\ blind' = blind \cup {t}

Unlocked(t) == [lock EXCEPT ![Home(t)][File(t)] = NoThread]

\* os.replace, or no write at all by a method that changed nothing.
_write(t) ==
    LET r == Do(call[t], seen[t], clock) IN
    /\ pc[t] = "locked"
    /\ file' = IF r.data = seen[t] THEN file ELSE [file EXCEPT ![File(t)] = r.data]
    /\ result' = [result EXCEPT ![t] = [r EXCEPT !.data = Empty]]
    /\ lock' = Unlocked(t)
    /\ Goto(t, "done")
    /\ blind' = blind \ {t}
    /\ UNCHANGED <<clock, call, seen, calls, faults>>

\* The threads of S are done with their requests.
Forget(S) ==
    /\ pc' = [t \in Threads |-> IF t \in S THEN "idle" ELSE pc[t]]
    /\ call' = [t \in Threads |-> IF t \in S THEN NoCall ELSE call[t]]
    /\ seen' = [t \in Threads |-> IF t \in S THEN Empty ELSE seen[t]]
    /\ result' = [t \in Threads |-> IF t \in S THEN NoResult ELSE result[t]]
    /\ blind' = blind \ S

\* The disk is full: the temporary file is removed, the exception releases the
\* lock and becomes a 500.
WriteFails(t) ==
    /\ pc[t] = "locked"
    /\ faults < MaxFaults
    /\ faults' = faults + 1
    /\ lock' = Unlocked(t)
    /\ Forget({t})
    /\ UNCHANGED <<file, clock, calls>>

\* authenticate() found the password right.
LoggedIn(t) == call[t].do = "authenticate" /\ result[t].status = 200

RecordLogin(t) ==
    /\ pc[t] = "done"
    /\ LoggedIn(t)
    /\ call' = [call EXCEPT ![t] = [do |-> "update_last_login", user |-> @.user,
                                    body |-> result[t].body]]
    /\ Goto(t, "called")
    /\ UNCHANGED <<file, clock, lock, seen, result, calls, faults, blind>>

Return(t) ==
    /\ pc[t] = "done"
    /\ ~LoggedIn(t)
    /\ Forget({t})
    /\ UNCHANGED <<file, clock, lock, calls, faults>>

Restart(p) ==
    /\ faults < MaxFaults
    /\ faults' = faults + 1
    /\ Forget({t \in Threads : Home(t) = p})
    /\ lock' = [lock EXCEPT ![p] = [f \in Files |-> NoThread]]
    /\ UNCHANGED <<file, clock, calls>>

Next ==
    \/ Tick
    \/ \E t \in Threads : \/ Call(t) \/ LockAndRead(t) \/ ReadFails(t) \/ _write(t)
                          \/ WriteFails(t) \/ RecordLogin(t) \/ Return(t)
    \/ \E p \in Procs : Restart(p)

Spec == Init /\ [][Next]_vars

-------------------------------------------------------------------------------
(* Properties.                                                             *)

\* A lock is held by a thread of its process that is inside a method of its
\* file, so is one whose read failed, a watchlist names no ticker twice, and
\* alerts have the times at which they were made.
TypeOK ==
    /\ DOMAIN file = Files /\ clock \in 0..MaxClock
    /\ pc \in [Threads -> {"idle", "called", "locked", "done"}]
    /\ \A p \in Procs, f \in Files : lock[p][f] # NoThread =>
          LET t == lock[p][f] IN Home(t) = p /\ File(t) = f /\ pc[t] = "locked"
    /\ \A t \in blind : t \in Threads /\ pc[t] = "locked"
    /\ \A u \in DOMAIN file["watchlists"] : IsInjective(file["watchlists"][u])
    /\ DOMAIN file["alerts"] \subseteq 0..clock

\* The only server process: the one whose locks protect the files.
OneProcess == \A s, t \in Threads : Home(s) = Home(t)

phase == [t \in Threads |-> IF pc[t] = "locked" THEN "called" ELSE pc[t]]

Abstract == INSTANCE UserStore WITH data <- file

\* With one process the locked read-change-replace of the code implements the
\* atomic store: no update is lost or half done, across restarts and failing
\* writes, and every answer is that of the atomic method.  A failing read makes
\* the one method it happens to take an empty file for its file, so that what it
\* writes replaces everything; it never reaches another method.
ImplementsUserStore == Abstract!Spec

\* A registration that could not read users.json and replaces it.
RegistersBlindly(t) ==
    t \in blind /\ call[t].do = "register" /\ pc[t] = "locked" /\ pc'[t] = "done"

\* Whatever logins, registrations, restarts and failing writes overlap, an
\* account that exists keeps existing with its password and role: in particular
\* recording a login never writes back the accounts as they were when the
\* password was checked.  The one step that may lose accounts, and then loses
\* all of them, is a registration whose own read of users.json failed: a login
\* whose read failed writes nothing.
AccountsAreKept ==
    [][\/ \A u \in DOMAIN file["users"] :
             /\ u \in DOMAIN file'["users"]
             /\ file'["users"][u].password = file["users"][u].password
             /\ file'["users"][u].role = file["users"][u].role
       \/ \E t \in Threads : RegistersBlindly(t)]_vars
===============================================================================
