----------------------------- MODULE Transcript -----------------------------
(***************************************************************************)
(* What the replies of a thread are to those who read them, told without   *)
(* requests, checkpoints, publishers, batches or runs.                     *)
(*                                                                         *)
(* One reply at a time is written.  It only grows while its provider       *)
(* speaks; then its calls are settled, each once and for good; it ends     *)
(* once, and stays as it ended.  To a reply whose process died nothing is  *)
(* added but what became of its calls; it may be committed even if its     *)
(* provider never ended it (no host can tell once the attempt is cleared). *)
(***************************************************************************)
EXTENDS Naturals

CONSTANTS Replies, Calls, Lengths

VARIABLES
  entry,     \* [Replies -> "absent" | "draft" | "committed" | "aborted"]
  text,      \* [Replies -> Lengths]
  calls,     \* [Replies -> [Calls -> "none" or what became of the call]]
  answered,  \* replies whose provider has ended them
  dead       \* replies whose process died while it wrote them

replyVars == <<entry, text, calls, answered, dead>>

Draft(m)   == entry[m] = "draft"
Growing(m) == Draft(m) /\ m \notin answered \cup dead
Open(m)    == {c \in Calls : calls[m][c] = "pending"}
Held(m)    == {c \in Calls : calls[m][c] # "none"}

(* Text is added, and calls nothing has become of yet.                     *)
Grows(m) ==
  /\ \E n \in Lengths : text[m] <= n /\ text' = [text EXCEPT ![m] = n]
  /\ \E new \in SUBSET (Calls \ Held(m)) :
       calls' = [calls EXCEPT ![m] =
         [c \in Calls |-> IF c \in new THEN "pending" ELSE @[c]]]

Init ==
  /\ entry = [m \in Replies |-> "absent"] /\ text = [m \in Replies |-> 0]
  /\ calls = [m \in Replies |-> [c \in Calls |-> "none"]]
  /\ answered = {} /\ dead = {}

Begin(m) ==
  /\ entry[m] = "absent" /\ \A n \in Replies : ~Draft(n)
  /\ entry' = [entry EXCEPT ![m] = "draft"]
  /\ UNCHANGED <<text, calls, answered, dead>>

Grow(m) == Growing(m) /\ Grows(m) /\ UNCHANGED <<entry, answered, dead>>

Answer(m) ==
  /\ Growing(m) /\ Grows(m) /\ answered' = answered \cup {m}
  /\ UNCHANGED <<entry, dead>>

(* Only a call of a whole reply is run or skipped.                         *)
Settle(m, c) ==
  /\ Draft(m) /\ c \in Open(m)
  /\ \E status \in {"done", "skipped", "aborted"} :
       /\ status # "aborted" => m \in answered \ dead
       /\ calls' = [calls EXCEPT ![m][c] = status]
  /\ UNCHANGED <<entry, text, answered, dead>>

Commit(m) ==
  /\ Draft(m) /\ Open(m) = {} /\ m \in answered \cup dead
  /\ entry' = [entry EXCEPT ![m] = "committed"]
  /\ UNCHANGED <<text, calls, answered, dead>>

(* A reply is aborted before any of its calls was settled, with the rest   *)
(* of what its provider sent if the process lives.                         *)
Abort(m) ==
  /\ Draft(m) /\ Held(m) = Open(m)
  /\ entry' = [entry EXCEPT ![m] = "aborted"]
  /\ \E n \in Lengths : text[m] <= n /\ text' = [text EXCEPT ![m] = n]
  /\ \E all \in SUBSET Calls :
       /\ Held(m) \subseteq all
       /\ calls' = [calls EXCEPT ![m] =
            [c \in Calls |-> IF c \in all THEN "aborted" ELSE "none"]]
       /\ ~Growing(m) => text' = text /\ all = Held(m)
  /\ UNCHANGED <<answered, dead>>

Die ==
  /\ dead' = dead \cup {m \in Replies : Draft(m)}
  /\ UNCHANGED <<entry, text, calls, answered>>

Next ==
  \/ \E m \in Replies : Begin(m) \/ Grow(m) \/ Answer(m) \/ Commit(m) \/ Abort(m)
  \/ \E m \in Replies, c \in Calls : Settle(m, c)
  \/ Die

Spec == Init /\ [][Next]_replyVars
=============================================================================
