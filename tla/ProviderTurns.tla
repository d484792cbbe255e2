--------------------------- MODULE ProviderTurns ----------------------------
(***************************************************************************)
(* The provider adapters under the consumer they share.  One behaviour is  *)
(* one adapter: its runs, the process or the server they talk to, and      *)
(* aborts.  The adapters that start a process for each run are alone in    *)
(* it; two runs share codex's app server.                                  *)
(***************************************************************************)
EXTENDS LineTurn, KimiTurn, CodexTurns, OpenCodeTurn

vars == <<turnVars, acp, codexVars, openVars>>

\* Probes of the adapter with a shared server differ from its runs in nothing.
Init ==
  /\ TurnInit /\ AcpInit /\ CodexInit /\ OpenInit
  /\ adapter = "codex" => probe = [r \in Runs |-> FALSE]
  /\ adapter # "opencode" => ephemeral = [r \in Runs |-> FALSE]
  /\ \A r \in Runs \ Abortable : ~probe[r] /\ ~ephemeral[r]

LineNext  == adapter \in Clis /\ (\E r \in Abortable : Step(r))
             /\ UNCHANGED <<acp, codexVars, openVars>>
KimiNext  == adapter = "kimi" /\ (\E r \in Abortable : AcpStep(r))
             /\ UNCHANGED <<codexVars, openVars>>
CodexNext == adapter = "codex" /\ CodexNextStep /\ UNCHANGED <<acp, openVars>>
OpenNext  == adapter = "opencode" /\ (\E r \in Abortable : OpenStep(r))
             /\ UNCHANGED <<acp, codexVars>>

Next == LineNext \/ KimiNext \/ CodexNext \/ OpenNext

Fairness ==
  \A r \in Abortable :
    /\ LineFairness(r) /\ AcpFairness(r)
    /\ CommandFairness(r)
    /\ WF_turnVars(adapter # "kimi" /\ SeeExit(r)) /\ WF_turnVars(GraceEnds(r))
    /\ WF_turnVars(ConsumerStep(r))

Spec == Init /\ [][Next]_vars /\ Fairness

-----------------------------------------------------------------------------
(* Properties.                                                             *)

Done == [r \in Runs |-> at[r] = "ended" /\ ~unchecked[r]]
Cut  == [r \in Runs |-> aborted[r] \/ stopped[r]]
Contract == INSTANCE TurnContract WITH ended <- Done, cut <- Cut

\* Every adapter keeps the order and the meaning of events on which
\* InvocationService relies (iterateProvider and its retry): whatever the
\* provider says, its process does, and wherever an abort or a queued return()
\* finds the generator.
HonoursContract == Contract!Spec

\* A turn that a finished run leaves running at a server the gateway goes on using
\* has been interrupted there, whichever way the run ended: codex's turn/interrupt or
\* opencode's session.abort was sent, also when the abort came before there was an id.
\* The exception is a run of opencode that nobody aborted and that fails on an event,
\* or on the loss of the prompt's answer: it sends no session.abort, and its consumer
\* knows no more than that the session has advanced.
NoTurnLeftUntold ==
  \A r \in Runs : at[r] = "ended" =>
    /\ turn[r] = "running" /\ uses[r] = state => told[r]
    /\ answer[r] \in {"waiting", "rejected"} =>
         abortCall[r] # "none" \/ (~requested[r] /\ Said(r, "failed_advanced"))

\* What a finished generator leaves: no entry in activeRuns, no process of its own nor
\* a descendant of it, no turn but those above, and no ephemeral session it has named
\* whose deletion the server was not asked for.  A session whose creation was given
\* up before the server answered has no name: it stays, and its run has reported
\* neither a session nor a state that advanced.
NothingLeftBehind ==
  /\ NoTurnLeftUntold
  /\ \A r \in Runs : at[r] = "ended" =>
       /\ ~registered[r]
       /\ Gone(proc[r])
       /\ made[r] = "there" /\ ephemeral[r] =>
            \/ deleted[r] # "no"
            \/ ~Said(r, "session") /\ ~Said(r, "completed") /\ ~Said(r, "failed_advanced")

\* A run that fails late, or a cancellation codex does not answer, takes down the
\* server it used and never the one that replaced it for later runs
\* (invalidateClient runs long after the failure); and a server that neither is being
\* disposed of nor has a client that failed is always the one the next run will find,
\* so that no two are kept.
ReplacementSpared ==
  [][/\ \A r \in Runs : /\ at'[r] # at[r] \/ cancel'[r] # cancel[r]
                        /\ Up(state) /\ state' = NoServer
                        => uses[r] = state
     /\ \A s \in Servers : server'[s] = "up" => s = state']_vars

\* An aborted run of an adapter with a process of its own comes to its end; an
\* interrupted process group is gone in the end, whatever it ignores; and kimi's
\* probe ends, which those of the others do only if their command does.
AbortedTurnEnds ==
  \A r \in Abortable :
    /\ adapter \in Clis \cup {"kimi"} /\ aborted[r] /\ ~unchecked[r] ~> at[r] = "ended"
    /\ Escalating(proc[r]) ~> Gone(proc[r])
    /\ adapter = "kimi" /\ at[r] = "command" ~> at[r] \in {"idle", "ended"}
=============================================================================
