------------------------------ MODULE Registers ------------------------------
(***************************************************************************)
(* What the data store promises its clients: every key is a register, a    *)
(* save that was let in writes it any number of times, each time one       *)
(* version on from the row it replaces, a delete empties it any number of  *)
(* times, and a save is only reported as stored under a version it was     *)
(* stored under. A write may come after its answer, and a write may have   *)
(* been reported as failed, but what was refused is never written.         *)
(* DataKeys implements this specification with conditional statements,     *)
(* retries and resent copies.                                              *)
(***************************************************************************)
EXTENDS Integers, Sequences

CONSTANTS
    Keys,    \* the registers
    Tasks,   \* the requests
    Ops,     \* the operations of the requests
    None     \* no request, no key

VARIABLES
    rows,      \* the content of each register, and the request that wrote it
    history,   \* the successive contents of each register
    asked,     \* what each request asks for
    told       \* what each request was answered

vars == <<rows, history, asked, told>>

NoRow == [version |-> 0, writer |-> None]

NotAsked == [op |-> "none", key |-> None]

Untold == [status |-> "none", version |-> 0]

Init ==
    /\ rows = [k \in Keys |-> NoRow]
    /\ history = [k \in Keys |-> <<NoRow>>]
    /\ asked = [t \in Tasks |-> NotAsked]
    /\ told = [t \in Tasks |-> Untold]

Ask(t, op, k) ==
    /\ asked[t] = NotAsked
    /\ asked' = [asked EXCEPT ![t] = [op |-> op, key |-> k]]
    /\ UNCHANGED <<rows, history>>

Accept(t, op, k) == Ask(t, op, k) /\ UNCHANGED told

Refuse(t, op, k) ==
    /\ Ask(t, op, k)
    /\ told' = [told EXCEPT ![t] = [Untold EXCEPT !.status = "refused"]]

\* A request that was let in.
Accepted(t) == asked[t] # NotAsked /\ told[t].status # "refused"

Become(contents) ==
    /\ rows' = contents
    /\ history' = [k \in Keys |-> IF contents[k] = rows[k] THEN history[k]
                                  ELSE Append(history[k], contents[k])]
    /\ UNCHANGED <<asked, told>>

Write(t) ==
    /\ Accepted(t) /\ asked[t].op \in {"put", "save"}
    /\ LET k == asked[t].key
       IN  Become([rows EXCEPT ![k] = [version |-> rows[k].version + 1, writer |-> t]])

Erase(t) ==
    /\ Accepted(t) /\ asked[t].op \in {"delete", "purge"}
    /\ LET gone == IF asked[t].op = "purge" THEN Keys ELSE {asked[t].key}
       IN  Become([k \in Keys |-> IF k \in gone THEN NoRow ELSE rows[k]])

\* The versions under which a save was stored.
Versions(t) ==
    LET past == history[asked[t].key]
    IN  {past[i].version : i \in {i \in 1 .. Len(past) : past[i].writer = t}}

Answered(t, status, version) ==
    told' = [told EXCEPT ![t] = [status |-> status, version |-> version]]

Tell(t) ==
    /\ Accepted(t) /\ told[t] = Untold
    /\ \/ /\ asked[t].op \in {"put", "save"}
          /\ \E v \in Versions(t) : Answered(t, "saved", v)
       \/ asked[t].op \in {"delete", "purge"} /\ Answered(t, "deleted", 0)
       \/ \E status \in {"quota", "exhausted", "error"} : Answered(t, status, 0)
    /\ UNCHANGED <<rows, history, asked>>

Next ==
    \E t \in Tasks :
        \/ \E op \in Ops, k \in Keys \cup {None} : Accept(t, op, k) \/ Refuse(t, op, k)
        \/ Write(t) \/ Erase(t) \/ Tell(t)

Spec == Init /\ [][Next]_vars

=============================================================================
