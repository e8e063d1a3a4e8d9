---------------------------- MODULE LogicalFile ----------------------------
(***************************************************************************)
(* What a write session of the encrypted block layer promises (spec 4.3,   *)
(* 8.1), with no blocks, records or trailers: a logical file is created    *)
(* empty, the host writes into its staged content, and commit publishes    *)
(* the staged content to readers in one step.  Readers see either the     *)
(* content before the commit or all of the committed content; a failed    *)
(* commit publishes nothing ("failure before leaves no trailer and a       *)
(* logical size of 0 recovered by readers").                               *)
(***************************************************************************)
EXTENDS Sequences

CONSTANTS
    Names,  \* logical file names
    Data    \* the values a byte of a logical file can hold

VARIABLES
    status,   \* status[f]: "none" | "open" | "committed" | "failed"
    staged,   \* staged[f]: the bytes the host has written in the session
    visible   \* visible[f]: the bytes a reader of f gets back

vars == <<status, staged, visible>>

Init ==
    /\ status = [f \in Names |-> "none"]
    /\ staged = [f \in Names |-> <<>>]
    /\ visible = [f \in Names |-> <<>>]

\* create-file of a new name: an empty session; readers still see nothing.
Create(f) ==
    /\ status[f] = "none"
    /\ status' = [status EXCEPT ![f] = "open"]
    /\ staged' = [staged EXCEPT ![f] = <<>>]
    /\ UNCHANGED visible

\* stage-data: the session's content changes; readers do not see it yet.
Write(f) ==
    /\ status[f] = "open"
    /\ staged' \in [Names -> Seq(Data)]
    /\ \A g \in Names \ {f} : staged'[g] = staged[g]
    /\ UNCHANGED <<status, visible>>

\* commit-data, the moment the content becomes durable for readers.
Publish(f) ==
    /\ status[f] = "open"
    /\ visible' = [visible EXCEPT ![f] = staged[f]]
    /\ UNCHANGED <<status, staged>>

\* commit-data returns: success only once the staged content is what
\* readers see; a failure leaves visible as it was.
Finish(f) ==
    /\ status[f] = "open"
    /\ \/ visible[f] = staged[f] /\ status' = [status EXCEPT ![f] = "committed"]
       \/ status' = [status EXCEPT ![f] = "failed"]
    /\ UNCHANGED <<staged, visible>>

Next == \E f \in Names : Create(f) \/ Write(f) \/ Publish(f) \/ Finish(f)

Spec == Init /\ [][Next]_vars

=============================================================================
