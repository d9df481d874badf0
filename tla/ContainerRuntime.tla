------------------------- MODULE ContainerRuntime -------------------------
(***************************************************************************)
(* The Docker adapter of the worker (runtime.rs, runtime/recovery.rs) as    *)
(* the launch uses it (launch.rs, supervisor.rs): the container of one      *)
(* attempt is created under a name fixed in advance, started behind a gate, *)
(* watched, stopped or killed, and removed.                                 *)
(*                                                                          *)
(* Every call to the daemon has a time limit.  A call that ran out of time  *)
(* says nothing: the request may have been carried out, and when "late" it  *)
(* may still be.  A container is created and started by callers of the      *)
(* library; the agent is one of them, and the only one that cleans up.  The *)
(* others (tests/docker_runtime.rs) are there with a daemon in time only.   *)
(***************************************************************************)
EXTENDS Integers, FiniteSets

CONSTANTS
    Callers,  \* callers of create and start for the attempt
    Agent     \* the caller that launches, supervises and cleans up

ASSUME RuntimeAssumption == Agent \in Callers /\ 0 \notin Callers

VARIABLES
    box,    \* the container of that name at the daemon
    runs,   \* how often the daemon has started it
    made,   \* how many containers of that name it has made
    held,   \* which of them each caller has the id of, or 0
    asked,  \* requests at the daemon, <<operation, caller>>
    reply,  \* the answer each caller got last
    pc,     \* the step of each caller
    gate,   \* the caller inside start, or 0
    cause,  \* "live", or why the attempt must not go on
    late    \* whether the daemon may carry out a request after its time limit

vars == <<box, runs, made, held, asked, reply, pc, gate, cause, late>>
handles == <<made, held, late>>

Init ==
    /\ box = "absent" /\ runs = 0 /\ made = 0 /\ asked = {}
    /\ held = [p \in Callers |-> 0]
    /\ reply = [p \in Callers |-> "none"]
    /\ late \in BOOLEAN
    /\ pc = [p \in Callers |-> IF late /\ p # Agent THEN "idle" ELSE "lookup"]
    /\ gate = 0 /\ cause = "live"

-----------------------------------------------------------------------------
(* The daemon and the workload: external                                    *)

Answer(p, r) == reply' = [reply EXCEPT ![p] = r]

(* The container of p's handle: its id is not that of a later one.          *)
Seen(p) == IF held[p] = made THEN box ELSE "absent"

(* A name is reserved before its container can be inspected.                *)
DaemonCreates(p) ==
    /\ <<"create", p>> \in asked
    /\ asked' = asked \ {<<"create", p>>}
    /\ IF box = "absent" THEN box' = "reserved" /\ runs' = 0 /\ made' = made + 1
       ELSE UNCHANGED <<box, runs, made>>
    /\ Answer(p, IF box = "absent" THEN "ok" ELSE "conflict")
    /\ UNCHANGED <<held, pc, gate, cause, late>>

Appears ==
    /\ box = "reserved" /\ box' = "created"
    /\ UNCHANGED <<runs, asked, reply, pc, gate, cause, handles>>

DaemonStarts(p) ==
    /\ <<"start", p>> \in asked
    /\ asked' = asked \ {<<"start", p>>}
    /\ IF Seen(p) \in {"created", "exited"} THEN box' = "running" /\ runs' = runs + 1
       ELSE UNCHANGED <<box, runs>>
    /\ Answer(p, IF Seen(p) = "absent" THEN "gone" ELSE "ok")
    /\ UNCHANGED <<pc, gate, cause, handles>>

DaemonEnds(p, what) ==
    /\ <<what, p>> \in asked
    /\ asked' = asked \ {<<what, p>>}
    /\ box' = CASE what \in {"stop", "kill"} /\ Seen(p) = "running" -> "exited"
                [] what = "remove" /\ Seen(p) \in {"created", "exited"} -> "absent"
                [] OTHER -> box
    /\ Answer(p, IF what = "remove" /\ Seen(p) = "running" THEN "conflict" ELSE "ok")
    /\ UNCHANGED <<runs, pc, gate, cause, handles>>

WorkloadExits ==
    /\ box = "running" /\ box' = "exited"
    /\ UNCHANGED <<runs, asked, reply, pc, gate, cause, handles>>

(* An operator removes a container that does not run.                       *)
OperatorRemoves ==
    /\ box \in {"created", "exited"} /\ box' = "absent"
    /\ UNCHANGED <<runs, asked, reply, pc, gate, cause, handles>>

(* The user cancels, or the attempt loses its authority.                    *)
Stop ==
    /\ cause = "live" /\ cause' \in {"stop", "lost"}
    /\ UNCHANGED <<box, runs, asked, reply, pc, gate, handles>>

-----------------------------------------------------------------------------
At(p, here) == pc[p] = here
Go(p, next) == pc' = [pc EXCEPT ![p] = next]
Live(p, here) == At(p, here) /\ cause = "live"

(* A request and, later, its answer or the end of its time.                 *)
Ask(p, what, next) ==
    /\ asked' = asked \cup {<<what, p>>}
    /\ Answer(p, "none")
    /\ Go(p, next)
TimesOut(p, what) ==
    asked' = IF late THEN asked ELSE asked \ {<<what, p>>}

Known == box \notin {"absent", "reserved"}
Adopt(p) == held' = [held EXCEPT ![p] = made] /\ Go(p, "start")

-----------------------------------------------------------------------------
(* create                                                                   *)

(* The container is looked up by name first: one that exists is adopted.    *)
Lookup(p) ==
    /\ Live(p, "lookup")
    /\ \/ Known /\ Adopt(p) /\ UNCHANGED <<asked, reply>>
       \/ ~Known /\ Ask(p, "create", "creating") /\ UNCHANGED held
       \/ Go(p, "uncreated") /\ UNCHANGED <<asked, reply, held>>
    /\ UNCHANGED <<box, runs, made, gate, cause, late>>

(* Whatever the answer, only inspection of the name tells what exists.      *)
Creating(p) ==
    /\ Live(p, "creating")
    /\ \/ reply[p] # "none" /\ UNCHANGED asked
       \/ reply[p] = "none" /\ TimesOut(p, "create")
    /\ Go(p, "resolve")
    /\ UNCHANGED <<box, runs, reply, gate, cause, handles>>

(* The name is looked up again and again within one time limit.             *)
Resolve(p) ==
    /\ Live(p, "resolve")
    /\ \/ Known /\ Adopt(p)
       \/ Go(p, "uncreated") /\ UNCHANGED held
    /\ UNCHANGED <<box, runs, made, asked, reply, gate, cause, late>>

-----------------------------------------------------------------------------
(* start                                                                    *)

(* Mutant: callers do not exclude each other.                               *)
EnterAnyway(p) ==
    /\ Live(p, "start")
    /\ gate' = p
    /\ Go(p, "check")
    /\ UNCHANGED <<box, runs, asked, reply, cause, handles>>

(* The gate covers the inspection and the start, and is given up with the   *)
(* call, whether or not the daemon has answered.                            *)
Enter(p) ==
    /\ Live(p, "start")
    /\ \/ gate = 0 /\ gate' = p /\ Go(p, "check")
       \/ gate # 0 /\ UNCHANGED gate /\ Go(p, "observe")
    /\ UNCHANGED <<box, runs, asked, reply, cause, handles>>

Leave(p) == gate' = IF gate = p THEN 0 ELSE gate

(* Only a container that never ran is started; a running one is a replay,   *)
(* any other is terminal.                                                   *)
Check(p) ==
    /\ Live(p, "check")
    /\ \/ Seen(p) = "created" /\ Ask(p, "start", "starting") /\ UNCHANGED gate
       \/ Seen(p) # "created" /\ Go(p, "observe") /\ Leave(p) /\ UNCHANGED <<asked, reply>>
       \/ Go(p, "failed") /\ Leave(p) /\ UNCHANGED <<asked, reply>>
    /\ UNCHANGED <<box, runs, cause, handles>>

(* Mutant: the gate is given up only with an answer.                        *)
StartingHolds(p) ==
    /\ Live(p, "starting")
    /\ \/ reply[p] # "none" /\ UNCHANGED asked /\ Leave(p)
       \/ reply[p] = "none" /\ TimesOut(p, "start") /\ UNCHANGED gate
    /\ Go(p, "observe")
    /\ UNCHANGED <<box, runs, reply, cause, handles>>

(* The answer, or the end of its time.                                      *)
Starting(p) ==
    /\ Live(p, "starting")
    /\ \/ reply[p] # "none" /\ UNCHANGED asked
       \/ reply[p] = "none" /\ TimesOut(p, "start")
    /\ Go(p, "observe") /\ Leave(p)
    /\ UNCHANGED <<box, runs, reply, cause, handles>>

(* launch_inner inspects whatever start said.                               *)
Observe(p) ==
    /\ Live(p, "observe")
    /\ \/ Seen(p) \in {"running", "exited"} /\ Go(p, "launched")
       \/ Go(p, "failed")
    /\ UNCHANGED <<box, runs, asked, reply, gate, cause, handles>>

(* A caller whose attempt must not go on drops its call, the request not.   *)
Abandon(p) ==
    /\ cause # "live"
    /\ pc[p] \in {"lookup", "creating", "resolve", "start", "check", "starting", "observe",
                  "launched"}
    /\ Go(p, IF pc[p] \in {"lookup", "creating", "resolve"} THEN "uncreated" ELSE "failed")
    /\ Leave(p)
    /\ UNCHANGED <<box, runs, asked, reply, cause, handles>>

-----------------------------------------------------------------------------
(* Supervision and termination by the agent                                 *)

(* observe_exit: the exit is seen, or the container cannot be inspected.    *)
ObserveExit ==
    /\ Live(Agent, "launched")
    /\ \/ Seen(Agent) = "exited" /\ Go(Agent, "remove")
       \/ Go(Agent, "failed")
    /\ UNCHANGED <<box, runs, asked, reply, gate, cause, handles>>

(* Only an attempt that was asked to stop gets a grace period, and only     *)
(* while its lease leaves time for one.                                     *)
Terminate ==
    /\ At(Agent, "failed")
    /\ \/ cause = "stop" /\ Go(Agent, "stop")
       \/ Go(Agent, "kill")
    /\ UNCHANGED <<box, runs, asked, reply, gate, cause, handles>>

(* Runtime::stop: not running is stopped; otherwise SIGTERM, and a second   *)
(* look.  What it does not confirm is killed.                               *)
StopFirst ==
    /\ At(Agent, "stop")
    /\ \/ Seen(Agent) # "running" /\ Go(Agent, "stopped") /\ UNCHANGED <<asked, reply>>
       \/ Seen(Agent) = "running" /\ Ask(Agent, "stop", "stopping")
       \/ Go(Agent, "kill") /\ UNCHANGED <<asked, reply>>
    /\ UNCHANGED <<box, runs, gate, cause, handles>>

Stopping ==
    /\ At(Agent, "stopping")
    /\ \/ reply[Agent] # "none" /\ Seen(Agent) # "running" /\ Go(Agent, "stopped") /\ UNCHANGED asked
       \/ Go(Agent, "kill") /\ TimesOut(Agent, "stop")
    /\ UNCHANGED <<box, runs, reply, gate, cause, handles>>

(* terminate: SIGKILL for a running container, whatever becomes of it.      *)
KillFirst ==
    /\ At(Agent, "kill")
    /\ \/ Seen(Agent) = "running" /\ Ask(Agent, "kill", "killing")
       \/ Go(Agent, "confirm") /\ UNCHANGED <<asked, reply>>
    /\ UNCHANGED <<box, runs, gate, cause, handles>>

Killing ==
    /\ At(Agent, "killing")
    /\ \/ reply[Agent] # "none" /\ UNCHANGED asked
       \/ reply[Agent] = "none" /\ TimesOut(Agent, "kill")
    /\ Go(Agent, "confirm")
    /\ UNCHANGED <<box, runs, reply, gate, cause, handles>>

(* Only an exited or absent container is confirmed.                         *)
Confirm ==
    /\ At(Agent, "confirm")
    /\ \/ Seen(Agent) \in {"exited", "absent"} /\ Go(Agent, "killed")
       \/ Go(Agent, "uncertain")
    /\ UNCHANGED <<box, runs, asked, reply, gate, cause, handles>>

-----------------------------------------------------------------------------
(* Removal by the agent                                                     *)

(* A failed launch is removed whatever was confirmed, a cancelled attempt   *)
(* once it was confirmed; without authority nothing more is done.           *)
Cleanup ==
    /\ \/ cause = "live" /\ pc[Agent] \in {"killed", "uncertain"}
       \/ cause = "stop" /\ pc[Agent] \in {"killed", "stopped"}
    /\ Go(Agent, "remove")
    /\ UNCHANGED <<box, runs, asked, reply, gate, cause, handles>>

(* remove_stopped_current, and remove: nothing that runs is removed.        *)
Remove ==
    /\ At(Agent, "remove")
    /\ \/ Seen(Agent) = "absent" /\ Go(Agent, "gone") /\ UNCHANGED <<asked, reply>>
       \/ Seen(Agent) \in {"created", "exited"} /\ Ask(Agent, "remove", "removing")
       \/ Go(Agent, "kept") /\ UNCHANGED <<asked, reply>>
    /\ UNCHANGED <<box, runs, gate, cause, handles>>

(* Mutant: what was asked is taken for done.                                *)
RemovingTrusts ==
    /\ At(Agent, "removing")
    /\ reply[Agent] = "none" => TimesOut(Agent, "remove")
    /\ reply[Agent] # "none" => UNCHANGED asked
    /\ Go(Agent, "gone")
    /\ UNCHANGED <<box, runs, reply, gate, cause, handles>>

(* An answer, a lost answer or a conflict: absence is observed, or the      *)
(* capacity is kept.                                                        *)
Removing ==
    /\ At(Agent, "removing")
    /\ \/ reply[Agent] # "none" /\ UNCHANGED asked
       \/ reply[Agent] = "none" /\ TimesOut(Agent, "remove")
    /\ \/ Seen(Agent) = "absent" /\ Go(Agent, "gone")
       \/ Go(Agent, "kept")
    /\ UNCHANGED <<box, runs, reply, gate, cause, handles>>

-----------------------------------------------------------------------------
Call(p) == Lookup(p) \/ Creating(p) \/ Resolve(p) \/ Enter(p) \/ Check(p) \/ Starting(p)
           \/ Observe(p) \/ Abandon(p)
CleanUp == Terminate \/ StopFirst \/ Stopping \/ KillFirst \/ Killing \/ Confirm \/ Cleanup
           \/ Remove \/ Removing
Daemon == \/ \E p \in Callers : DaemonCreates(p) \/ DaemonStarts(p)
          \/ \E what \in {"stop", "kill", "remove"} : DaemonEnds(Agent, what)
          \/ Appears \/ WorkloadExits \/ OperatorRemoves
Next == (\E p \in Callers : Call(p)) \/ ObserveExit \/ CleanUp \/ Daemon \/ Stop

(* The caller's tasks run and its time limits pass; the daemon owes nothing.*)
Spec == Init /\ [][Next]_vars /\ WF_vars(CleanUp) /\ \A p \in Callers : WF_vars(Call(p))

-----------------------------------------------------------------------------
(* The types; a caller that has the handle has seen the container.          *)
TypeOK ==
    /\ box \in {"absent", "reserved", "created", "running", "exited"}
    /\ late \in BOOLEAN /\ cause \in {"live", "stop", "lost"}
    /\ runs \in Nat /\ made \in Nat /\ held \in [Callers -> 0..made]
    /\ gate \in Callers \cup {0}
    /\ asked \subseteq {"create", "start", "stop", "kill", "remove"} \X Callers
    /\ \A p \in Callers : pc[p] \in {"start", "check", "starting"} => Seen(p) # "reserved"

(* A container runs at most once, however the answers to create and start   *)
(* are lost and however callers of start interleave: docs/docker-runtime.md *)
(* says that "an exited attempt cannot be restarted".                       *)
RunsOnce == runs <= 1

(* The evidence that cleanup rests on is final, though a start that was     *)
(* given up on, or another caller's, may still be on its way to the daemon. *)
(* A container that was confirmed killed does not run afterwards            *)
(* (terminate).  An absence that released the attempt's capacity lasts, and *)
(* an agent that called alone leaves no container of that name (remove,     *)
(* remove_stopped_current).                                                 *)
CleanupIsFinal ==
    /\ TypeOK
    /\ At(Agent, "killed") => Seen(Agent) \in {"exited", "absent"}
    /\ At(Agent, "gone") => Seen(Agent) = "absent" /\ (late => box = "absent")

(* Every call comes to an end though the daemon never answers, and the gate *)
(* is given up.                                                             *)
CallsEnd ==
    <>[](/\ gate = 0
         /\ \A p \in Callers : pc[p] \in {"idle", "launched", "uncreated", "failed", "stopped",
                                          "killed", "uncertain", "gone", "kept"})
=============================================================================
