----------------------------- MODULE CallService -----------------------------
(***************************************************************************)
(* What an operation of the client promises whoever calls it, over either  *)
(* transport: its command is asked for and performed at most once; what is *)
(* returned is the result of that command and no other; a refusal comes    *)
(* before anything is asked, a rejection instead of the performance. A     *)
(* call that is given up may be performed all the same, then or later.     *)
(***************************************************************************)
EXTENDS Naturals

CONSTANTS Calls, NoCommand

VARIABLES
    command,    \* what each call would have the server do
    asked,      \* the calls of which the server may have heard
    performed,  \* how often each was performed
    end,        \* how each call ended
    result      \* the command whose result it returned

vars == <<command, asked, performed, end, result>>

Init ==
    /\ asked = {}
    /\ performed = [c \in Calls |-> 0]
    /\ end = [c \in Calls |-> "none"]
    /\ result = [c \in Calls |-> NoCommand]

Refuse(c) ==
    /\ end[c] = "none" /\ c \notin asked
    /\ end' = [end EXCEPT ![c] = "refused"]
    /\ UNCHANGED <<command, asked, performed, result>>

\* The caller may be left without an answer in the very step that asks.
Ask(c) ==
    /\ end[c] = "none" /\ c \notin asked
    /\ asked' = asked \cup {c}
    /\ end' \in {end, [end EXCEPT ![c] = "unknown"]}
    /\ UNCHANGED <<command, performed, result>>

Perform(c) ==
    /\ c \in asked /\ performed[c] = 0 /\ end[c] # "rejected"
    /\ performed' = [performed EXCEPT ![c] = 1]
    /\ UNCHANGED <<command, asked, end, result>>

Return(c) ==
    /\ end[c] = "none" /\ performed[c] = 1
    /\ end' = [end EXCEPT ![c] = "value"]
    /\ result' = [result EXCEPT ![c] = command[c]]
    /\ UNCHANGED <<command, asked, performed>>

Reject(c) ==
    /\ end[c] = "none" /\ c \in asked /\ performed[c] = 0
    /\ end' = [end EXCEPT ![c] = "rejected"]
    /\ UNCHANGED <<command, asked, performed, result>>

GiveUp(c) ==
    /\ end[c] = "none" /\ c \in asked
    /\ end' = [end EXCEPT ![c] = "unknown"]
    /\ UNCHANGED <<command, asked, performed, result>>

Next ==
    \E c \in Calls : Refuse(c) \/ Ask(c) \/ Perform(c) \/ Return(c) \/ Reject(c) \/ GiveUp(c)

Spec == Init /\ [][Next]_vars
=============================================================================
