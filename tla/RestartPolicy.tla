--------------------------- MODULE RestartPolicy ---------------------------
(***************************************************************************)
(* How restarts are limited and paced: the streak of an actor that fails,  *)
(* and the exponential backoff of its restarts.                            *)
(*   src/tellus/src/backoff.rs, actor_config.rs (RestartPolicy),           *)
(*   actor_context.rs (next_restart, await_backoff)                        *)
(*                                                                         *)
(* What the actor does between failures is in Lifecycle; here only how     *)
(* long it ran counts.  The factor of the backoff has Width bits, 32 in    *)
(* the code.                                                               *)
(***************************************************************************)
EXTENDS Naturals, FiniteSetsExt

CONSTANTS
    MinBackoff, MaxBackoff,     \* Backoff
    MaxDuration,                \* Duration::MAX
    Width,                      \* bits of the factor
    MaxRestarts, ResetAfter,    \* RestartPolicy
    MaxRun                      \* bound: how long a run lasts

VARIABLES
    pc,         \* init, up, backoff or stopped
    restarts,   \* restarts of the streak
    delay       \* the delay of the restart under way

vars == <<pc, restarts, delay>>

(* Backoff::new: an inverted pair of bounds is no Backoff.                 *)
Backoff == MinBackoff <= MaxBackoff

(* checked_shl fails for a shift of Width or more.                         *)
Factor(step) == IF step < Width THEN 2 ^ step ELSE 2 ^ Width - 1

SaturatingMul(d, f) == Min({d * f, MaxDuration})

Duration(step) == Min({SaturatingMul(MinBackoff, Factor(step)), MaxBackoff})

Init ==
    /\ Backoff
    /\ pc = "init"
    /\ restarts = 0
    /\ delay = 0

(* next_restart, of a streak of n restarts.                                *)
NextRestart(n) ==
    \/ /\ n >= MaxRestarts
       /\ restarts' = n
       /\ pc' = "stopped"
       /\ UNCHANGED delay
    \/ /\ n < MaxRestarts
       /\ restarts' = n + 1
       /\ delay' = Duration(n)
       /\ pc' = "backoff"

InitOk == pc = "init" /\ pc' = "up" /\ UNCHANGED <<restarts, delay>>

InitFails == pc = "init" /\ NextRestart(restarts)

(* A run of at least ResetAfter has ended the streak.                      *)
RunFails ==
    /\ pc = "up"
    /\ \E ran \in 0 .. MaxRun : NextRestart(IF ran >= ResetAfter THEN 0 ELSE restarts)

(* await_backoff: the delay passes, or the parent stops the actor.         *)
AwaitBackoff ==
    /\ pc = "backoff"
    /\ pc' \in {"init", "stopped"}
    /\ UNCHANGED <<restarts, delay>>

Next == InitOk \/ InitFails \/ RunFails \/ AwaitBackoff

Spec == Init /\ [][Next]_vars

----------------------------------------------------------------------------
(* actor_config.rs: "the n-th restart within a streak is delayed by        *)
(* backoff.min() * 2^(n-1), capped at backoff.max()".                      *)
DelayDoubles ==
    pc = "backoff" => delay = Min({MinBackoff * 2 ^ (restarts - 1), MaxBackoff})
=============================================================================
