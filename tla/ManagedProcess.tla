--------------------------- MODULE ManagedProcess ---------------------------
(***************************************************************************)
(* A provider process started by spawnManagedProcess (src/provider-runtime *)
(* /process/managed-process.ts): the leader of a process group, the        *)
(* descendants it leaves in the group, and the escalation of interrupt().  *)
(*                                                                         *)
(* The module is the algebra of one process record; the modules of the     *)
(* adapters hold the record and take its steps.  SIGINT and SIGTERM only   *)
(* ask: the receiver may ignore them, or die at any later time, as it may  *)
(* without a signal.  SIGKILL ends the whole group.                        *)
(***************************************************************************)

\* stage: where performInterrupt() awaits; a memoised promise, so it runs once.
Process == [leader : {"none", "alive", "dead", "unborn"},  \* unborn: spawn failed
            kids   : BOOLEAN,                      \* descendants still in the group
            seen   : BOOLEAN,                      \* settled: 'exit' or 'error' arrived
            clean  : BOOLEAN,                      \* the exit code is 0
            stage  : {"none", "int", "term", "kill", "residual", "done"}]

NoProcess == [leader |-> "none", kids |-> FALSE, seen |-> FALSE, clean |-> FALSE,
              stage |-> "none"]

Spawned(ok) == [leader |-> IF ok THEN "alive" ELSE "unborn", kids |-> FALSE,
                seen |-> FALSE, clean |-> FALSE, stage |-> "none"]

\* process.kill(-pid, ...) says ESRCH.
Gone(p) == p.leader # "alive" /\ ~p.kids

-----------------------------------------------------------------------------
(* What the operating system and the provider do.                          *)

ForkKid(p)        == [p EXCEPT !.kids = TRUE]
EndKid(p)         == [p EXCEPT !.kids = FALSE]
EndLeader(p, ok)  == [p EXCEPT !.leader = "dead", !.clean = ok]
SeeEnd(p)         == [p EXCEPT !.seen = TRUE]
Killed(p) == [p EXCEPT !.leader = IF @ = "alive" THEN "dead" ELSE @, !.kids = FALSE]

CanSeeEnd(p) == p.leader \in {"dead", "unborn"} /\ ~p.seen

-----------------------------------------------------------------------------
(* interrupt() and its escalation.                                         *)

Finished(p) == [p EXCEPT !.stage = "done"]

\* Mutant of Residual: descendants of a leader that is gone are left alone.
ResidualForgotten(p) == Finished(p)

\* killResidualProcessGroup: SIGTERM to what is left, SIGKILL 100 ms later.
Residual(p) == IF Gone(p) THEN Finished(p) ELSE [p EXCEPT !.stage = "residual"]

Interrupted(p) ==
  CASE p.stage # "none" -> p
    [] p.stage = "none" /\ Gone(p) -> Finished(p)
    [] p.stage = "none" /\ ~Gone(p) /\ p.seen -> Residual(p)
    [] OTHER -> [p EXCEPT !.stage = "int"]

\* The grace period of a stage ends: the leader's end was seen, or it timed out.
Escalated(p) ==
  CASE p.stage = "int" /\ p.seen -> Residual(p)
    [] p.stage = "int" /\ ~p.seen -> IF Gone(p) THEN Finished(p)
                                     ELSE [p EXCEPT !.stage = "term"]
    [] p.stage = "term" /\ p.seen -> Finished(Killed(p))
    [] p.stage = "term" /\ ~p.seen -> IF Gone(p) THEN Finished(p)
                                      ELSE [Killed(p) EXCEPT !.stage = "kill"]
    [] p.stage = "kill" -> Finished(p)
    [] p.stage = "residual" -> Finished(Killed(p))

Escalating(p) == p.stage \in {"int", "term", "kill", "residual"}

\* Every reader of stdout is told the end only when nobody can write to it.  That
\* only members of the group can is an assumption about the providers: a descendant
\* that leaves the group and keeps stdout open is out of the reach of every signal,
\* and would hold up whoever waits for the end of the output.
AtEof(p) == Gone(p)
=============================================================================
