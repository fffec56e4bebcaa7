--------------------------------- MODULE Log ---------------------------------
(***************************************************************************)
(* Logging: the function pointer and the thresholds of src/src/log.c, set  *)
(* by compare-and-swap, the RPMA_LOG macro of log_internal.h that reads    *)
(* them without one, rpma_log_default_function() of log_default.c, and the *)
(* destructor of librpma.c.  Threads are inside these calls at the same    *)
(* time; a setter that is told RPMA_E_AGAIN calls again, as                *)
(* rpma_log_init() does.                                                   *)
(***************************************************************************)
EXTENDS Integers

CONSTANTS
    Threads,   \* the threads that use the library
    Messages,  \* the levels of messages in use: some of _FATAL (0) to _DEBUG (5)
    Exits,     \* may the process terminate while its threads are running?
    MaxCalls   \* bound: calls made by each thread

ASSUME LogAssumption ==
    /\ 2 \in Messages /\ Messages \subseteq 0..5
    /\ Exits \in BOOLEAN
    /\ MaxCalls \in Nat

(* RPMA_LOG_DISABLED is -1.                                                *)
Levels == Messages \cup {-1}
Functions == {"default", "user"}
Thresholds == {"main", "aux"}

VARIABLES
    function,   \* Rpma_log_function
    threshold,  \* Rpma_log_threshold
    exited,     \* has rpma_log_fini() run?
    calls,      \* calls made by each thread
    pc,         \* what each thread is doing
    which,      \* what it sets: "function" or one of the thresholds
    new,        \* the function and the level it sets
    old,        \* the function and the level it has read
    level,      \* the level of its message
    ret,        \* what its last call returned
    allowed     \* the highest main threshold since its logging began

shared == <<function, threshold, exited>>
locals == <<which, new, old, level>>
vars == <<shared, calls, pc, locals, ret, allowed>>

Unset == [function |-> "none", level |-> -1]

(* The library is loaded: rpma_log_init() has run, in a release build.     *)
Init ==
    /\ function = "default"
    /\ threshold = [main |-> 2, aux |-> -1]         \* RPMA_LOG_LEVEL_WARNING, RPMA_LOG_DISABLED
    /\ exited = FALSE
    /\ calls = [t \in Threads |-> 0]
    /\ pc = [t \in Threads |-> "idle"]
    /\ which = [t \in Threads |-> "none"]
    /\ new = [t \in Threads |-> Unset] /\ old = [t \in Threads |-> Unset]
    /\ level = [t \in Threads |-> 2]
    /\ ret = [t \in Threads |-> "0"]
    /\ allowed = [t \in Threads |-> -1]

Goto(t, from, to) == pc[t] = from /\ pc' = [pc EXCEPT ![t] = to]

Call(t, to) ==
    /\ calls[t] < MaxCalls
    /\ calls' = [calls EXCEPT ![t] = @ + 1]
    /\ Goto(t, "idle", to)

-----------------------------------------------------------------------------
(* Mutant of TargetFunction: RPMA_LOG_USE_DEFAULT_FUNCTION is NULL.        *)
TargetFunctionAsGiven(f) == f

(* The function that rpma_log_set_function() sets: the argument            *)
(* RPMA_LOG_USE_DEFAULT_FUNCTION is NULL.                                  *)
TargetFunction(f) == IF f = "NULL" THEN "default" ELSE f

SetFunction(t, f) ==
    /\ Call(t, "set_function")
    /\ which' = [which EXCEPT ![t] = "function"]
    /\ new' = [new EXCEPT ![t].function = TargetFunction(f)]
    /\ UNCHANGED <<shared, old, level, ret, allowed>>

ReadFunction(t) ==
    /\ Goto(t, "set_function", "cas_function")
    /\ old' = [old EXCEPT ![t].function = function]
    /\ UNCHANGED <<shared, calls, which, new, level, ret, allowed>>

(* Mutant of CasFunction: the call is repeated without the value being     *)
(* read again.                                                             *)
CasFunctionStale(t) ==
    /\ pc[t] = "cas_function"
    /\ IF function = old[t].function
       THEN /\ Goto(t, "cas_function", "idle")
            /\ function' = new[t].function
            /\ ret' = [ret EXCEPT ![t] = "0"]
       ELSE /\ Goto(t, "cas_function", "cas_function")
            /\ ret' = [ret EXCEPT ![t] = "RPMA_E_AGAIN"]
            /\ UNCHANGED function
    /\ UNCHANGED <<threshold, exited, calls, locals, allowed>>

CasFunction(t) ==
    /\ pc[t] = "cas_function"
    /\ IF function = old[t].function
       THEN /\ Goto(t, "cas_function", "idle")
            /\ function' = new[t].function
            /\ ret' = [ret EXCEPT ![t] = "0"]
       ELSE /\ Goto(t, "cas_function", "set_function")
            /\ ret' = [ret EXCEPT ![t] = "RPMA_E_AGAIN"]
            /\ UNCHANGED function
    /\ UNCHANGED <<threshold, exited, calls, locals, allowed>>

-----------------------------------------------------------------------------
(* rpma_log_set_threshold(), which reads with rpma_log_get_threshold()     *)
SetThreshold(t, w, l) ==
    /\ Call(t, "set_threshold")
    /\ which' = [which EXCEPT ![t] = w]
    /\ new' = [new EXCEPT ![t].level = l]
    /\ UNCHANGED <<shared, old, level, ret, allowed>>

(* Arguments that are not in the enumerations change nothing.              *)
SetThresholdInval(t) ==
    /\ Call(t, "idle")
    /\ ret' = [ret EXCEPT ![t] = "RPMA_E_INVAL"]
    /\ UNCHANGED <<shared, locals, allowed>>

ReadThreshold(t) ==
    /\ Goto(t, "set_threshold", "cas_threshold")
    /\ old' = [old EXCEPT ![t].level = threshold[which[t]]]
    /\ UNCHANGED <<shared, calls, which, new, level, ret, allowed>>

Raise(a, l) == IF a < l THEN l ELSE a

CasThreshold(t) ==
    /\ pc[t] = "cas_threshold"
    /\ IF threshold[which[t]] = old[t].level
       THEN /\ Goto(t, "cas_threshold", "idle")
            /\ threshold' = [threshold EXCEPT ![which[t]] = new[t].level]
            /\ ret' = [ret EXCEPT ![t] = "0"]
            /\ allowed' = IF which[t] = "main" THEN [u \in Threads |-> Raise(allowed[u], new[t].level)]
                                              ELSE allowed
       ELSE /\ Goto(t, "cas_threshold", "set_threshold")
            /\ ret' = [ret EXCEPT ![t] = "RPMA_E_AGAIN"]
            /\ UNCHANGED <<threshold, allowed>>
    /\ UNCHANGED <<function, exited, calls, locals>>

-----------------------------------------------------------------------------
(* The RPMA_LOG macro, in any call of the library: it is entered ...       *)
BeginLog(t, l) ==
    /\ Call(t, "log")
    /\ level' = [level EXCEPT ![t] = l]
    /\ allowed' = [allowed EXCEPT ![t] = threshold["main"]]
    /\ UNCHANGED <<shared, which, new, old, ret>>

(* Mutant of Wanted: the wrong threshold is asked.                         *)
WantedAux(l) == l <= threshold["aux"]

Wanted(l) == l <= threshold["main"]

(* ... compares the level with the threshold ...                           *)
CheckLevel(t) ==
    /\ Goto(t, "log", IF Wanted(level[t]) THEN "check_function" ELSE "idle")
    /\ UNCHANGED <<shared, calls, locals, ret, allowed>>

(* ... and the function with NULL ...                                      *)
CheckFunction(t) ==
    /\ Goto(t, "check_function", IF function # "NULL" THEN "call_function" ELSE "idle")
    /\ old' = [old EXCEPT ![t].function = function]
    /\ UNCHANGED <<shared, calls, which, new, level, ret, allowed>>

(* ... and calls it.  The pointer is not volatile: a build may read it     *)
(* again or use what it has read.                                          *)
CallFunction(t) ==
    /\ pc[t] = "call_function"
    /\ \E f \in {function, old[t].function} :
          Goto(t, "call_function",
               CASE f = "default" -> "default" [] f = "user" -> "idle" [] f = "NULL" -> "crashed")
    /\ UNCHANGED <<shared, calls, locals, ret, allowed>>

(* rpma_log_default_function() writes to stderr if the auxiliary threshold *)
(* allows it, and to syslog.                                               *)
DefaultFunction(t) ==
    /\ Goto(t, "default", IF level[t] <= threshold["aux"] THEN "stderr" ELSE "syslog")
    /\ UNCHANGED <<shared, calls, locals, ret, allowed>>

Stderr(t) ==
    /\ Goto(t, "stderr", "syslog")
    /\ UNCHANGED <<shared, calls, locals, ret, allowed>>

Syslog(t) ==
    /\ Goto(t, "syslog", "idle")
    /\ UNCHANGED <<shared, calls, locals, ret, allowed>>

(* The destructor of the library runs rpma_log_fini().                     *)
Fini ==
    /\ Exits /\ ~exited
    /\ exited' = TRUE
    /\ function' = "NULL"
    /\ UNCHANGED <<threshold, calls, pc, locals, ret, allowed>>

(* A step of a call that the thread is inside of.                          *)
InCall(t) ==
    \/ ReadFunction(t) \/ CasFunction(t) \/ ReadThreshold(t) \/ CasThreshold(t)
    \/ CheckLevel(t) \/ CheckFunction(t) \/ CallFunction(t)
    \/ DefaultFunction(t) \/ Stderr(t) \/ Syslog(t)

Next ==
    \/ \E t \in Threads :
          \/ \E f \in {"user", "NULL"} : SetFunction(t, f)
          \/ \E w \in Thresholds, l \in Levels : SetThreshold(t, w, l)
          \/ SetThresholdInval(t)
          \/ \E l \in Messages : BeginLog(t, l)
          \/ InCall(t)
    \/ Fini

Spec == Init /\ [][Next]_vars

(* Threads that are inside a call go on.                                   *)
FairSpec == Spec /\ \A t \in Threads : WF_vars(InCall(t))

-----------------------------------------------------------------------------
(* TypeOK: every variable has the values log.c can give it; in particular  *)
(* the logging function is NULL only after rpma_log_fini().                *)
TypeOK ==
    /\ function \in Functions \/ (exited /\ function = "NULL")
    /\ threshold \in [Thresholds -> Levels]
    /\ exited \in BOOLEAN
    /\ calls \in [Threads -> 0..MaxCalls]
    /\ pc \in [Threads -> {"idle", "set_function", "cas_function", "set_threshold", "cas_threshold",
                           "log", "check_function", "call_function", "default", "stderr", "syslog", "crashed"}]
    /\ which \in [Threads -> Thresholds \cup {"none", "function"}]
    /\ new \in [Threads -> [function : Functions \cup {"none"}, level : Levels]]
    /\ old \in [Threads -> [function : Functions \cup {"none", "NULL"}, level : Levels]]
    /\ level \in [Threads -> Messages] /\ allowed \in [Threads -> Levels]
    /\ ret \in [Threads -> {"0", "RPMA_E_AGAIN", "RPMA_E_INVAL"}]

(* NullOnlyAtExit: as long as rpma_log_fini() has not run, RPMA_LOG never  *)
(* calls a NULL function, although it reads Rpma_log_function twice and    *)
(* rpma_log_set_function() sets it in between.                             *)
NullOnlyAtExit == \A t \in Threads : pc[t] = "crashed" => exited

(* MessageWanted: a message that reaches the logging function was not      *)
(* above RPMA_LOG_THRESHOLD all the time since RPMA_LOG was entered.       *)
MessageWanted ==
    \A t \in Threads :
        pc[t] \in {"check_function", "call_function", "default", "stderr", "syslog"} => level[t] <= allowed[t]

(* SettersFinish: threads that set and, told RPMA_E_AGAIN, set again do    *)
(* not keep each other from it forever.                                    *)
SettersFinish ==
    \A t \in Threads :
        pc[t] \in {"set_function", "cas_function", "set_threshold", "cas_threshold"} ~> pc[t] = "idle"
=============================================================================
