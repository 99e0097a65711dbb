---------------------------- MODULE ExecContract ----------------------------
(***************************************************************************)
(* What ExecSandbox promises its caller, whatever it retries: the command  *)
(* is started at most once, and the stream ends with at most one verdict.  *)
(* An exit code of the command means that the command ran and ended. The   *)
(* other verdicts say nothing of it: after a timeout, an error, or the     *)
(* code 1 that stands for a lost channel, the command may not have run     *)
(* yet, and may still do so.                                               *)
(***************************************************************************)
EXTENDS Naturals

VARIABLES
    starts,   \* how often the sandbox started the command
    ended,    \* the command has ended
    verdict   \* "none" or the last event of the stream

contractVars == <<starts, ended, verdict>>

ContractInit == starts = 0 /\ ended = FALSE /\ verdict = "none"

Start == starts = 0 /\ starts' = 1 /\ UNCHANGED <<ended, verdict>>

End == starts = 1 /\ ~ended /\ ended' = TRUE /\ UNCHANGED <<starts, verdict>>

Answer ==
    /\ verdict = "none"
    /\ verdict' \in {"code", "lost", "timeout", "error"}
    /\ verdict' = "code" => ended
    /\ UNCHANGED <<starts, ended>>

ContractNext == Start \/ End \/ Answer

ContractSpec == ContractInit /\ [][ContractNext]_contractVars

============================================================================
