----------------------------- MODULE Quarantine -----------------------------
(***************************************************************************)
(* The network quarantine of one endpoint: NetworkQuarantineManager        *)
(* (client/app/quarantine_manager.py) on Windows, the firewall it drives,  *)
(* and the fail-safe timers that undo a quarantine nobody releases.        *)
(*                                                                         *)
(* Two kinds of thread call the manager: the receive loop of the client,   *)
(* which runs the commands of the server one at a time, and the timers.    *)
(* One re-entrant lock serialises the calls, but a call is a sequence of   *)
(* netsh commands, each of which can fail, or be cut off by its timeout    *)
(* with or without effect, and the process can end between any two of      *)
(* them.  The firewall keeps its state when the process does not.          *)
(*                                                                         *)
(* The four allow rules are two here: one for the server, one for the      *)
(* loopback.  The legacy block rules, the events and the simulated         *)
(* enforcement of other platforms are left out.                            *)
(***************************************************************************)
EXTENDS Naturals

CONSTANTS
  Original,     \* the inbound policy of the endpoint before anything happens
  MaxCalls      \* bound on commands and restarts

Actions == {"ALLOW", "BLOCK"}

ASSUME OriginalAssumption == Original \in Actions
ASSUME MaxCallsAssumption == MaxCalls \in Nat

\* A timer is named by the number of the command that started it.
Timers == 1..MaxCalls
Rules == {"server", "loopback"}

States == {"NORMAL", "QUARANTINE_PENDING", "QUARANTINED", "QUARANTINE_FAILED",
           "RESTORE_PENDING"}
QuarantineSteps == {"clean", "server", "loopback", "block", "arm"}
ReleaseSteps == {"restore", "delete"}

\* What is remembered, for the properties only, about earlier calls.
Marks == {"quarantine_failed", "block_failed", "release_failed", "restarted",
          "released_twice", "overwritten"}

VARIABLES
  state,      \* manager._state
  saved,      \* inbound policy in manager._windows_profile_policy, or "none"
  stop,       \* manager._stop_timer
  timers,     \* the timer threads: none, waiting, expired, releasing or done
  holder,     \* the thread in manager._lock: nobody, command or timer
  step,       \* how far the holder's call has come
  rules,      \* the allow rules in the firewall
  inbound, outbound,  \* the policy of all firewall profiles
  calls,      \* commands and restarts so far
  marks

manager == <<state, saved, stop, timers, holder, step>>
firewall == <<rules, inbound, outbound>>
vars == <<manager, firewall, calls, marks>>

TypeOK ==
  /\ state \in States
  /\ saved \in Actions \cup {"none"}
  /\ stop \in BOOLEAN
  /\ timers \in [Timers -> {"none", "waiting", "expired", "releasing", "done"}]
  /\ holder \in {"nobody", "command", "timer"}
  /\ step \in {"idle"} \cup QuarantineSteps \cup ReleaseSteps
  /\ rules \subseteq Rules
  /\ inbound \in Actions
  /\ outbound \in Actions
  /\ calls \in 0..MaxCalls
  /\ marks \subseteq Marks

Init ==
  /\ state = "NORMAL" /\ saved = "none" /\ stop = FALSE
  /\ timers = [t \in Timers |-> "none"]
  /\ holder = "nobody" /\ step = "idle"
  /\ rules = {} /\ inbound = Original /\ outbound = "ALLOW"
  /\ calls = 0 /\ marks = {}

\* Event.set: every thread in Event.wait returns from it.
Told == [t \in Timers |-> IF timers[t] = "waiting" THEN "done" ELSE timers[t]]

\* The end of a call: the holder leaves the lock, a timer's thread ends.
Unlock ==
  /\ holder' = "nobody"
  /\ step' = "idle"

Finished == [t \in Timers |-> IF timers[t] = "releasing" THEN "done" ELSE timers[t]]

\* The marks a call that succeeds leaves behind.
Lasting == marks \cap {"released_twice", "overwritten"}

-----------------------------------------------------------------------------
(* quarantine_endpoint *)

\* mutant: a quarantine stops the timer before it knows that it replaces it
Quarantine_StopsTimer ==
  /\ holder = "nobody" /\ calls < MaxCalls
  /\ calls' = calls + 1
  /\ holder' = "command" /\ step' = "clean"
  /\ state' = "QUARANTINE_PENDING"
  /\ stop' = TRUE /\ timers' = Told
  /\ marks' = marks \cup (IF state = "NORMAL" THEN {} ELSE {"overwritten"})
  /\ UNCHANGED <<saved, firewall>>

\* The receive loop runs QUARANTINE_CLIENT.  Nothing asks what the state is.
Quarantine ==
  /\ holder = "nobody" /\ calls < MaxCalls
  /\ calls' = calls + 1
  /\ holder' = "command" /\ step' = "clean"
  /\ state' = "QUARANTINE_PENDING"
  /\ marks' = marks \cup (IF state = "NORMAL" THEN {} ELSE {"overwritten"})
  /\ UNCHANGED <<saved, stop, timers, firewall>>

\* A step of _apply_windows_firewall_rules failed: what it and the deletion
\* after it leave of the rules "left" is not known.
QuarantineFails(left, why) ==
  /\ \E r \in SUBSET left : rules' = r
  /\ state' = "QUARANTINE_FAILED"
  /\ marks' = marks \cup {"quarantine_failed"} \cup why
  /\ Unlock
  /\ UNCHANGED <<saved, stop, timers, calls>>

\* The rules of an earlier quarantine are deleted and the active policy read.
Clean ==
  /\ step = "clean"
  /\ \/ /\ rules' = {}
        /\ step' = "server"
        /\ UNCHANGED <<state, saved, stop, timers, holder, calls, marks>>
     \/ QuarantineFails(rules, {})
  /\ UNCHANGED <<inbound, outbound>>

AddRule(rule, next) ==
  /\ step = rule
  /\ \/ /\ rules' = rules \cup {rule}
        /\ step' = next
        /\ UNCHANGED <<state, saved, stop, timers, holder, calls, marks>>
     \/ QuarantineFails(rules \cup {rule}, {})
  /\ UNCHANGED <<inbound, outbound>>

\* mutant: the policy is read after the change
Captured_TooLate == "BLOCK"

\* The inbound policy kept for the release: read before the change.
Captured == inbound

\* Default-deny on all profiles.
Block ==
  /\ step = "block"
  /\ \/ /\ inbound' = "BLOCK" /\ outbound' = "BLOCK"
        /\ saved' = Captured
        /\ state' = "QUARANTINED"
        /\ step' = "arm"
        /\ UNCHANGED <<stop, timers, holder, rules, calls, marks>>
     \/ /\ UNCHANGED <<inbound, outbound>>
        /\ QuarantineFails(rules, {})
     \/ /\ inbound' = "BLOCK" /\ outbound' = "BLOCK"
        /\ QuarantineFails(rules, IF outbound = "BLOCK" THEN {} ELSE {"block_failed"})

\* mutant: the stop event of the previous timer is not cleared
StopWhenArmed_NotCleared == TRUE

\* The stop event as the new timer finds it.
StopWhenArmed == FALSE

\* _start_fail_safe_timer: stop and join the previous timer, start a new one.
\* A timer that has expired waits for the lock held here and cannot be joined.
Arm ==
  /\ step = "arm"
  /\ stop' = StopWhenArmed
  /\ timers' = [Told EXCEPT ![calls] = IF stop' THEN "done" ELSE "waiting"]
  /\ marks' = Lasting
  /\ Unlock
  /\ UNCHANGED <<state, saved, firewall, calls>>

-----------------------------------------------------------------------------
(* release_quarantine *)

\* The first steps of a release, whatever the state: a NORMAL endpoint is
\* released like any other.
StartRelease(by) ==
  /\ holder = "nobody"
  /\ holder' = by /\ step' = "restore"
  /\ stop' = TRUE
  /\ state' = "RESTORE_PENDING"
  /\ marks' = marks \cup (IF saved # "none" THEN {}
                          ELSE IF state = "NORMAL" THEN {"released_twice"}
                          ELSE {"overwritten"})
  /\ UNCHANGED <<saved, firewall>>

\* RELEASE_CLIENT in the receive loop.
Release ==
  /\ calls < MaxCalls
  /\ StartRelease("command")
  /\ calls' = calls + 1
  /\ timers' = Told

\* A timer waits for its whole duration.
Expire(t) ==
  /\ timers[t] = "waiting"
  /\ timers' = [timers EXCEPT ![t] = "expired"]
  /\ UNCHANGED <<state, saved, stop, holder, step, firewall, calls, marks>>

\* An expired timer gets the lock.
FailSafe(t) ==
  /\ timers[t] = "expired"
  /\ StartRelease("timer")
  /\ timers' = [Told EXCEPT ![t] = "releasing"]
  /\ UNCHANGED calls

ReleaseFails ==
  /\ state' = "QUARANTINED"
  /\ marks' = marks \cup {"release_failed"}
  /\ timers' = Finished
  /\ Unlock
  /\ UNCHANGED <<stop, calls>>

Released ==
  /\ state' = "NORMAL"
  /\ marks' = Lasting
  /\ timers' = Finished
  /\ Unlock
  /\ UNCHANGED <<stop, calls>>

\* The inbound policy of a release: the saved one, or the default.
Restored == IF saved = "none" THEN "BLOCK" ELSE saved

\* mutant: a policy that cannot be restored does not end the release
Restore_GoesOn ==
  /\ step = "restore"
  /\ \/ inbound' = Restored /\ outbound' = "ALLOW"
     \/ UNCHANGED <<inbound, outbound>>
  /\ saved' = "none"
  /\ step' = "delete"
  /\ UNCHANGED <<state, stop, timers, holder, rules, calls, marks>>

\* Open all profiles first.
Restore ==
  /\ step = "restore"
  /\ \/ /\ inbound' = Restored /\ outbound' = "ALLOW"
        /\ saved' = "none"
        /\ step' = "delete"
        /\ UNCHANGED <<state, stop, timers, holder, calls, marks>>
     \/ /\ UNCHANGED <<inbound, outbound, saved>>
        /\ ReleaseFails
     \/ /\ inbound' = Restored /\ outbound' = "ALLOW"
        /\ UNCHANGED saved
        /\ ReleaseFails
  /\ UNCHANGED rules

\* mutant: errors of the deletion are ignored
Delete_IgnoresErrors ==
  /\ step = "delete"
  /\ \E r \in SUBSET rules : rules' = r
  /\ Released
  /\ UNCHANGED <<saved, inbound, outbound>>

\* Then delete the allow rules.
Delete ==
  /\ step = "delete"
  /\ \/ rules' = {} /\ Released
     \/ /\ \E r \in SUBSET rules : rules' = r
        /\ ReleaseFails
  /\ UNCHANGED <<saved, inbound, outbound>>

-----------------------------------------------------------------------------
\* The process ends and is started again: the manager is new, the firewall is
\* the old one.
Restart ==
  /\ calls < MaxCalls
  /\ calls' = calls + 1
  /\ state' = "NORMAL" /\ saved' = "none" /\ stop' = FALSE
  /\ timers' = [t \in Timers |-> IF timers[t] = "none" THEN "none" ELSE "done"]
  /\ Unlock
  /\ marks' = marks \cup {"restarted", "overwritten"}
  /\ UNCHANGED firewall

Call == Clean \/ AddRule("server", "loopback") \/ AddRule("loopback", "block")
          \/ Block \/ Arm \/ Restore \/ Delete

Next ==
  \/ Quarantine \/ Release \/ Restart \/ Call
  \/ \E t \in Timers : Expire(t) \/ FailSafe(t)

\* netsh returns within its timeout of ten seconds, a timer's wait ends, and an
\* expired timer gets a lock that is free for good: the server sends finitely
\* many commands.
Fairness ==
  /\ WF_vars(Call)
  /\ \A t \in Timers : WF_vars(Expire(t)) /\ WF_vars(FailSafe(t))

Spec == Init /\ [][Next]_vars /\ Fairness

-----------------------------------------------------------------------------
Free == holder = "nobody"
Armed == \E t \in Timers : timers[t] \in {"waiting", "expired"}

\* An endpoint that is cut off, or that calls itself QUARANTINED, has a timer
\* that will release it, through failed commands, repeated quarantines and
\* expired timers still waiting for the lock; the exceptions are a release that
\* failed (its timer is spent), a block that took effect while netsh said it had
\* failed, and a restart.
BlockedIsArmed ==
  (/\ Free
   /\ outbound = "BLOCK" \/ state = "QUARANTINED"
   /\ marks \cap {"release_failed", "block_failed", "restarted"} = {}) => Armed

\* An endpoint that calls itself NORMAL has its outbound traffic open and no rule
\* left, unless the process was restarted since: two releases, by the server and
\* by a timer, or a release in the middle of everything else, leave nothing.
NormalIsOpen ==
  state = "NORMAL" /\ "restarted" \notin marks => outbound = "ALLOW" /\ rules = {}

\* While an endpoint is cut off the server can still reach it, even when releases
\* fail half-way: the policy is opened before the allow rules are deleted.  The
\* exceptions are a quarantine that failed and a restart.
ManagementPreserved ==
  (/\ Free
   /\ outbound = "BLOCK"
   /\ marks \cap {"quarantine_failed", "restarted"} = {}) => "server" \in rules

\* A NORMAL endpoint has the inbound policy it had before, when each quarantine
\* found it NORMAL and each release found the policy that quarantine saved.
InboundRestored ==
  state = "NORMAL" /\ marks \cap {"released_twice", "overwritten"} = {} => inbound = Original

\* A block comes to an end without the help of the server, with the same
\* exceptions as in BlockedIsArmed.
BlockEnds ==
  outbound = "BLOCK" ~>
    outbound = "ALLOW" \/ marks \cap {"release_failed", "block_failed", "restarted"} # {}

\* Releasing an endpoint twice, by two commands or by a command and a timer that
\* expired meanwhile, is safe, as the plan of the quarantine asks.  The second
\* release has no saved policy and sets inbound to BLOCK.
ReleaseTwiceIsSafe ==
  (/\ state = "NORMAL"
   /\ "overwritten" \notin marks
   /\ \E t \in Timers : timers[t] = "done") => inbound = Original
=============================================================================
