------------------------------- MODULE Health -------------------------------
(***************************************************************************)
(* core/monitoring/health.py: HealthChecker.  A thread runs the registered *)
(* checks that are due and raises an alert when a check has been UNHEALTHY *)
(* failure_threshold times in a row; other threads register, unregister,   *)
(* enable and disable checks, stop the thread and start it again.          *)
(*                                                                         *)
(* Every registration makes a new check object, and the thread goes on     *)
(* with the objects it listed even when they are replaced.  stop() waits   *)
(* five seconds: enough for a waiting loop to end, not for one in a check. *)
(* start() sets _running again, and such a loop then stays as a second     *)
(* one.  Recording a result is a read and a write of the counter.          *)
(***************************************************************************)
EXTENDS Naturals, Sequences, FiniteSets

CONSTANTS Components, Statuses, Interval, Threshold, MaxChecks, MaxLoops, MaxRuns, EndOfTime

VARIABLES
  now,
  made, checks,                     \* check objects made; the registered ones
  enabled, last, result, failures,  \* per object: the fields of ComponentCheck
  running,                   \* _running; loop threads started
  stage, todo, current, found, count, \* per loop: its step, its list, its locals
  outcomes,                         \* history: results recorded, per object
  alerts,                           \* history: alerts, as object and results so far
  doubled                           \* history: two loops have been alive

vars == <<now, made, checks, enabled, last, result, failures, running,
          stage, todo, current, found, count, outcomes, alerts, doubled>>

Objects == 1 .. MaxChecks
Loops == 1 .. MaxLoops
NoCheck == 0
Never == 0

Init ==
  /\ now = 1 /\ made = 0 /\ checks = [c \in Components |-> NoCheck]
  /\ enabled = [o \in Objects |-> TRUE] /\ last = [o \in Objects |-> Never]
  /\ result = [o \in Objects |-> "none"] /\ failures = [o \in Objects |-> 0]
  /\ running = FALSE
  /\ stage = [l \in Loops |-> "none"] /\ todo = [l \in Loops |-> {}]
  /\ current = [l \in Loops |-> NoCheck] /\ found = [l \in Loops |-> "none"] /\ count = [l \in Loops |-> 0]
  /\ outcomes = [o \in Objects |-> <<>>] /\ alerts = {} /\ doubled = FALSE

registry == <<made, checks, enabled>>
fields == <<last, result, failures>>
locals == <<stage, todo, current, found, count>>
history == <<outcomes, alerts, doubled>>
Registered == {checks[c] : c \in Components} \ {NoCheck}

-----------------------------------------------------------------------------
RegisterCheck(c) ==
  /\ made < MaxChecks
  /\ made' = made + 1 /\ checks' = [checks EXCEPT ![c] = made + 1]
  /\ UNCHANGED <<now, enabled, fields, running, locals, history>>

UnregisterCheck(c) ==
  /\ checks[c] # NoCheck
  /\ checks' = [checks EXCEPT ![c] = NoCheck]
  /\ UNCHANGED <<now, made, enabled, fields, running, locals, history>>

(* enable_check() and disable_check().                                     *)
SetEnabled(c, value) ==
  /\ checks[c] # NoCheck
  /\ enabled' = [enabled EXCEPT ![checks[c]] = value]
  /\ UNCHANGED <<now, made, checks, fields, running, locals, history>>

Start ==
  /\ ~running /\ \A l \in Loops : stage[l] # "waiting"
  /\ running' = TRUE
  /\ LET free == {l \in Loops : stage[l] = "none"} IN
       free # {} /\ stage' = [stage EXCEPT ![CHOOSE l \in free : TRUE] = "list"]
  /\ doubled' = (doubled \/ \E l \in Loops : stage[l] # "none")
  /\ UNCHANGED <<now, registry, fields, todo, current, found, count, outcomes, alerts>>

Stop ==
  /\ running /\ running' = FALSE
  /\ UNCHANGED <<now, registry, fields, locals, history>>

-----------------------------------------------------------------------------
Due(o) == enabled[o] /\ (last[o] = Never \/ now - last[o] >= Interval)

(* The head of _monitoring_loop(), and the list _run_checks() makes.       *)
List(l) ==
  /\ stage[l] = "list"
  /\ IF ~running THEN stage' = [stage EXCEPT ![l] = "none"] /\ UNCHANGED todo
     ELSE /\ todo' = [todo EXCEPT ![l] = {o \in Registered : Due(o)}]
          /\ stage' = [stage EXCEPT ![l] = "next"]
  /\ UNCHANGED <<now, registry, fields, running, current, found, count, history>>

EndOfList(l) ==
  /\ stage[l] = "next" /\ todo[l] = {}
  /\ stage' = [stage EXCEPT ![l] = "waiting"]
  /\ UNCHANGED <<now, registry, fields, running, todo, current, found, count, history>>

WaitEnds(l) ==
  /\ stage[l] = "waiting"
  /\ stage' = [stage EXCEPT ![l] = "list"]
  /\ UNCHANGED <<now, registry, fields, running, todo, current, found, count, history>>

(* A check that raises leaves no trace: it is due again at once, and what  *)
(* the component said last stays.                                          *)
CheckRaises(l, o) ==
  /\ stage[l] = "next" /\ o \in todo[l]
  /\ todo' = [todo EXCEPT ![l] = @ \ {o}]
  /\ UNCHANGED <<now, registry, fields, running, stage, current, found, count, history>>

RunCheck(l, o, status) ==
  /\ stage[l] = "next" /\ o \in todo[l] /\ Len(outcomes[o]) < MaxRuns
  /\ todo' = [todo EXCEPT ![l] = @ \ {o}] /\ current' = [current EXCEPT ![l] = o]
  /\ found' = [found EXCEPT ![l] = status]
  /\ stage' = [stage EXCEPT ![l] = "record"]
  /\ count' = [count EXCEPT ![l] = failures[o]]
  /\ last' = [last EXCEPT ![o] = now] /\ result' = [result EXCEPT ![o] = status]
  /\ UNCHANGED <<now, registry, failures, running, history>>

Counted(n, status) == IF status = "UNHEALTHY" THEN n + 1 ELSE 0

Record(l, o) ==
  /\ stage[l] = "record" /\ o = current[l]
  /\ failures' = [failures EXCEPT ![o] = Counted(count[l], found[l])]
  /\ outcomes' = [outcomes EXCEPT ![o] = Append(@, found[l])]
  /\ stage' = [stage EXCEPT ![l] = "judge"]
  /\ UNCHANGED <<now, registry, last, result, running, todo, current, found, count, alerts, doubled>>

BrokenRequiresAlert(o) == failures[o] > Threshold
RequiresAlert(o) == failures[o] >= Threshold

(* requires_alert() and the callback.                                      *)
Judge(l, o) ==
  /\ stage[l] = "judge" /\ o = current[l]
  /\ alerts' = IF RequiresAlert(o) THEN alerts \cup {<<o, Len(outcomes[o])>>} ELSE alerts
  /\ current' = [current EXCEPT ![l] = NoCheck]
  /\ stage' = [stage EXCEPT ![l] = "next"]
  /\ found' = [found EXCEPT ![l] = "none"] /\ count' = [count EXCEPT ![l] = 0]
  /\ UNCHANGED <<now, registry, fields, running, todo, outcomes, doubled>>

Tick ==
  /\ now < EndOfTime
  /\ now' = now + 1
  /\ UNCHANGED <<registry, fields, running, locals, history>>

Next ==
  \/ Start \/ Stop \/ Tick
  \/ \E c \in Components : \/ RegisterCheck(c) \/ UnregisterCheck(c)
                           \/ \E b \in BOOLEAN : SetEnabled(c, b)
  \/ \E l \in Loops : \/ List(l) \/ EndOfList(l) \/ WaitEnds(l)
                      \/ \E o \in Objects : \/ CheckRaises(l, o) \/ Record(l, o) \/ Judge(l, o)
                                            \/ \E s \in Statuses : RunCheck(l, o, s)

Spec == Init /\ [][Next]_vars

-----------------------------------------------------------------------------
(* Whatever is registered, replaced, disabled, stopped and started: as     *)
(* long as one loop runs at a time, an alert follows Threshold UNHEALTHY   *)
(* results of that check without any other between them, and a check with  *)
(* as many is alerted unless it is being judged.                           *)
Deserved(o, n) == n >= Threshold /\ \A i \in n - Threshold + 1 .. n : outcomes[o][i] = "UNHEALTHY"

BeingJudged(o) == \E l \in Loops : stage[l] = "judge" /\ o = current[l]

AlertsAreDeserved ==
  ~doubled => \A o \in Objects : \A n \in 1 .. Len(outcomes[o]) :
    <<o, n>> \in alerts <=> Deserved(o, n) /\ ~(n = Len(outcomes[o]) /\ BeingJudged(o))
=============================================================================
