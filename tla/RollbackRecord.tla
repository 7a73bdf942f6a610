---------------------------- MODULE RollbackRecord ----------------------------
(***************************************************************************)
(* What the rollback marker stands for (client/src/lib.rs:288-298,         *)
(* 418-440): one register of the newest token accepted on this machine.    *)
(* A call that has verified a token presents it, and from then on it is    *)
(* that token the call is about.  check() is Valid of a token that is not  *)
(* older than the register by more than the skew tolerance, Invalid of one *)
(* that is, and enters the former; an activation enters its token whatever *)
(* is there.  What is in the register goes only as a whole: when a         *)
(* deactivation removes it, or when a rewrite of it is cut short.          *)
(***************************************************************************)
EXTENDS Integers

CONSTANTS
  Handles,    \* whoever activates and checks
  Times,      \* issue times of tokens
  ClockSkew   \* CLOCK_SKEW_SECS

VARIABLES
  record,     \* the newest issue time accepted, or Unseen
  presented,  \* presented[h]: issue time of the token h's call is about, or Unseen
  verdict,    \* verdict[h]: h's last answer, "none" during a call
  lost        \* whether a rewrite was cut short since the last removal

Unseen == -1

Init ==
  /\ record = Unseen
  /\ presented = [h \in Handles |-> Unseen]
  /\ verdict = [h \in Handles |-> "none"]
  /\ lost = FALSE

\* h is done with what it presented, and answers v.
Says(h, v) ==
  /\ verdict' = [verdict EXCEPT ![h] = v]
  /\ presented' = [presented EXCEPT ![h] = Unseen]

\* A token verified: read from the cache, or received from the server.
Present(h, at) ==
  /\ presented[h] = Unseen
  /\ presented' = [presented EXCEPT ![h] = at]
  /\ verdict' = [verdict EXCEPT ![h] = "none"]
  /\ UNCHANGED <<record, lost>>

TooOld(at) == record # Unseen /\ at < record - ClockSkew

Enter(h) ==
  /\ presented[h] # Unseen
  /\ record' = IF presented[h] >= record THEN presented[h] ELSE record
  /\ UNCHANGED lost

Valid(h) == ~TooOld(presented[h]) /\ Enter(h) /\ Says(h, "valid")

Online(h) == Enter(h) /\ Says(h, "online")

\* A token that was presented is refused for its age alone.
Invalid(h) ==
  /\ presented[h] # Unseen => TooOld(presented[h])
  /\ Says(h, "invalid")
  /\ UNCHANGED <<record, lost>>

\* A call begins, fails, or ends with an answer that is not about the record.
Otherwise(h) == Says(h, "none") /\ UNCHANGED <<record, lost>>

\* A deactivation says it is done even if it could not remove the register.
Remove(h) ==
  /\ \/ record' = Unseen /\ lost' = FALSE
     \/ UNCHANGED <<record, lost>>
  /\ Says(h, "deactivated")

\* A rewrite is cut short.
Lose(h) ==
  /\ presented[h] # Unseen
  /\ record' = Unseen /\ lost' = TRUE
  /\ Says(h, "none")

Next ==
  \E h \in Handles :
    \/ \E at \in Times : Present(h, at)
    \/ Valid(h) \/ Online(h) \/ Invalid(h) \/ Otherwise(h) \/ Remove(h) \/ Lose(h)

Spec == Init /\ [][Next]_<<record, presented, verdict, lost>>
=============================================================================
