----------------------------- MODULE MessageLog -----------------------------
(***************************************************************************)
(* What the client promises about persistent messages, seen from outside:  *)
(* a message is kept before the server or the application hears of it, and *)
(* the application hears of it at most once in the life of a store.        *)
(* (docs/sdk-guide.md: store, store the cursor, acknowledge, on_message.)  *)
(***************************************************************************)
EXTENDS Naturals

CONSTANT Messages

VARIABLES
    kept,   \* messages whose cursor the store has
    acked,  \* messages acknowledged to the server
    handed  \* how often each was given to on_message

vars == <<kept, acked, handed>>

Nothing ==
    /\ kept = {} /\ acked = {}
    /\ handed = [m \in Messages |-> 0]

Init == Nothing

\* One step concerns one message, and can be any of the three at once, in the
\* order that the two last conjuncts require.
Progress(m) ==
    /\ kept' \in {kept, kept \cup {m}}
    /\ acked' \in {acked, acked \cup {m}}
    /\ handed' \in {handed, [handed EXCEPT ![m] = 1]}
    /\ acked' \subseteq kept'
    /\ handed'[m] = 1 => m \in kept'

\* A store that lives in memory goes with its process.
StoreIsLost == Nothing'

Next == StoreIsLost \/ \E m \in Messages : Progress(m)

Spec == Init /\ [][Next]_vars
=============================================================================
