--------------------------- MODULE WriteOnceStore ---------------------------
(***************************************************************************)
(* What a no-clobber artifact writer promises for ONE immutable artifact   *)
(* ID.  A caller submits content; the store keeps the first content that   *)
(* is published under the ID, for ever; a caller is told "accepted" only   *)
(* while the store holds exactly the content it submitted, and may be      *)
(* refused at any time.  write_engineering_evaluation_result and           *)
(* write_engineering_problem are shown to implement this module.           *)
(***************************************************************************)
CONSTANTS Caller,   \* calls of the writer for this ID
          Content,  \* canonical artifact bytes
          Nothing   \* not a Content: no artifact, or no submission yet

VARIABLES stored,   \* the artifact published under the ID, or Nothing
          wants,    \* what each caller asked to persist, or Nothing
          reply     \* what each caller has been told

vars == <<stored, wants, reply>>

TypeOK ==
  /\ stored \in Content \cup {Nothing}
  /\ wants \in [Caller -> Content \cup {Nothing}]
  /\ reply \in [Caller -> {"waiting", "accepted", "refused"}]

Init ==
  /\ stored = Nothing
  /\ wants = [c \in Caller |-> Nothing]
  /\ reply = [c \in Caller |-> "waiting"]

Submit(c) ==
  /\ wants[c] = Nothing
  /\ reply[c] = "waiting"
  /\ \E v \in Content : wants' = [wants EXCEPT ![c] = v]
  /\ UNCHANGED <<stored, reply>>

Publish(c) ==
  /\ stored = Nothing
  /\ wants[c] # Nothing
  /\ reply[c] = "waiting"
  /\ stored' = wants[c]
  /\ UNCHANGED <<wants, reply>>

Accept(c) ==
  /\ wants[c] # Nothing
  /\ stored = wants[c]
  /\ reply[c] = "waiting"
  /\ reply' = [reply EXCEPT ![c] = "accepted"]
  /\ UNCHANGED <<stored, wants>>

Refuse(c) ==
  /\ reply[c] = "waiting"
  /\ reply' = [reply EXCEPT ![c] = "refused"]
  /\ UNCHANGED <<stored, wants>>

Next ==
  \E c \in Caller :
    \/ Submit(c)
    \/ Publish(c)
    \/ Accept(c)
    \/ Refuse(c)

Spec == Init /\ [][Next]_vars

-----------------------------------------------------------------------------
(* Every accepted caller submitted the content the store holds: two calls  *)
(* that both report success persisted the same bytes under the ID.         *)
Agreement ==
  \A c \in Caller :
    reply[c] = "accepted" => wants[c] # Nothing /\ stored = wants[c]

(* Published content is never replaced and never withdrawn.                *)
Permanence == [][stored # Nothing => stored' = stored]_vars
=============================================================================
