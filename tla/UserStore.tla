------------------------------ MODULE UserStore ------------------------------
(***************************************************************************)
(* What the user-data files promise their callers: a store on which every  *)
(* method takes effect at one instant between its call and its answer, or  *)
(* not at all, and which a restart of the server does not touch.  Logging  *)
(* in is two methods, one after the other: a check and an update.          *)
(*                                                                         *)
(* It does not promise to survive a file that cannot be read: the method   *)
(* whose read fails, and no other, takes effect on an empty file.          *)
(***************************************************************************)
EXTENDS UserData

CONSTANTS Threads,
          Calls,    \* the calls clients make
          MaxClock  \* bound: length of an execution

VARIABLES
    data,    \* data[f]: the contents of each file
    clock,   \* milliseconds
    phase,   \* "idle", "called" or "done"
    call,    \* the method a thread runs
    result,  \* what it returned
    blind    \* the threads whose method could not read its file

vars == <<data, clock, phase, call, result, blind>>

NoCall == [do |-> "none"]
NoResult == Result(Empty, 0, {})

Init ==
    /\ data = EmptyFiles
    /\ clock = 0
    /\ phase = [t \in Threads |-> "idle"]
    /\ call = [t \in Threads |-> NoCall]
    /\ result = [t \in Threads |-> NoResult]
    /\ blind = {}

Tick ==
    /\ clock < MaxClock
    /\ clock' = clock + 1
    /\ UNCHANGED <<data, phase, call, result, blind>>

Call(t) ==
    /\ phase[t] = "idle"
    /\ phase' = [phase EXCEPT ![t] = "called"]
    /\ \E r \in Calls : call' = [call EXCEPT ![t] = r]
    /\ UNCHANGED <<data, clock, result, blind>>

Unreadable(t) ==
    /\ phase[t] = "called"
    /\ blind' = blind \cup {t}
    /\ UNCHANGED <<data, clock, phase, call, result>>

\* What a method does to the file it sees; if that is nothing, the file stays.
TakeEffect(t) ==
    LET f == FileOf(call[t])
        seen == IF t \in blind THEN Empty ELSE data[f]
        r == Do(call[t], seen, clock)
    IN /\ phase[t] = "called"
       /\ phase' = [phase EXCEPT ![t] = "done"]
       /\ data' = IF r.data = seen THEN data ELSE [data EXCEPT ![f] = r.data]
       /\ result' = [result EXCEPT ![t] = [r EXCEPT !.data = Empty]]
       /\ blind' = blind \ {t}
       /\ UNCHANGED <<clock, call>>

\* The right password was given: the login is recorded next.
LoggedIn(t) == call[t].do = "authenticate" /\ result[t].status = 200

RecordLogin(t) ==
    /\ phase[t] = "done"
    /\ LoggedIn(t)
    /\ phase' = [phase EXCEPT ![t] = "called"]
    /\ call' = [call EXCEPT ![t] = [do |-> "update_last_login", user |-> @.user,
                                    body |-> result[t].body]]
    /\ UNCHANGED <<data, clock, result, blind>>

Forget(S) ==
    /\ phase' = [t \in Threads |-> IF t \in S THEN "idle" ELSE phase[t]]
    /\ call' = [t \in Threads |-> IF t \in S THEN NoCall ELSE call[t]]
    /\ result' = [t \in Threads |-> IF t \in S THEN NoResult ELSE result[t]]
    /\ blind' = blind \ S
    /\ UNCHANGED <<data, clock>>

Return(t) == phase[t] = "done" /\ ~LoggedIn(t) /\ Forget({t})

\* A method that raises, or threads that a restart ends: no trace in the data.
Fail(S) == Forget(S)

Next ==
    \/ Tick
    \/ \E t \in Threads : \/ Call(t) \/ Unreadable(t) \/ TakeEffect(t)
                          \/ RecordLogin(t) \/ Return(t)
    \/ \E S \in SUBSET Threads : Fail(S)

Spec == Init /\ [][Next]_vars
==============================================================================
