------------------------- MODULE MCScheduledPrompt -------------------------
(* Small instances of ScheduledPrompt. *)
EXTENDS ScheduledPrompt, TLC

CONSTANTS s1, p1

OneShotAt(rev, at, p) ==
    [id |-> s1, rev |-> rev, enabled |-> TRUE, at |-> at, interval |-> 0, prompt |-> p]
Every(at, step) ==
    [id |-> s1, rev |-> 1, enabled |-> TRUE, at |-> at, interval |-> step, prompt |-> p1]

\* A one-shot, the same one paused, one edited under the same id and revision, and
\* a recurring one.
MCSchedules == {OneShotAt(1, 1, p1), [OneShotAt(1, 1, p1) EXCEPT !.enabled = FALSE],
                OneShotAt(1, 2, p1), Every(2, 1)}

MCSymmetry == Permutations(Owners)
=============================================================================
