------------------------------ MODULE LogProofs ------------------------------
(***************************************************************************)
(* Theorems about Log, for any number of threads and of calls, any levels  *)
(* of messages, and with and without an exit of the process.               *)
(***************************************************************************)
EXTENDS Log, TLAPS

(* A thread that sets the function has one to set; a thread that is about  *)
(* to call the function has read one that is not NULL.                     *)
FunctionInv ==
    \A t \in Threads :
        /\ pc[t] \in {"set_function", "cas_function"} => new[t].function \in Functions
        /\ pc[t] = "call_function" => old[t].function \in Functions

(* A thread that sets a threshold knows which.                             *)
ThresholdInv ==
    \A t \in Threads : pc[t] \in {"set_threshold", "cas_threshold"} => which[t] \in Thresholds

(* What a thread that has entered RPMA_LOG will compare the level with is  *)
(* accounted for.                                                          *)
AllowedInv == \A t \in Threads : pc[t] = "log" => threshold["main"] <= allowed[t]

IInv == TypeOK /\ FunctionInv /\ ThresholdInv /\ AllowedInv /\ NullOnlyAtExit /\ MessageWanted

-----------------------------------------------------------------------------
(* What is compared are numbers.                                           *)
LEMMA LevelsInt == Levels \subseteq Int /\ Messages \subseteq Int /\ Messages \subseteq Levels
  BY LogAssumption DEF Levels

(* The library as rpma_log_init() leaves it satisfies IInv.                *)
LEMMA InitInv == Init => IInv
  <1> SUFFICES ASSUME Init PROVE IInv OBVIOUS
  <1>1. TypeOK
    <2>1. threshold \in [Thresholds -> Levels]
      BY LogAssumption DEF Init, Levels, Thresholds
    <2>2. /\ new \in [Threads -> [function : Functions \cup {"none"}, level : Levels]]
          /\ old \in [Threads -> [function : Functions \cup {"none", "NULL"}, level : Levels]]
      BY DEF Init, Levels, Unset
    <2>3. calls \in [Threads -> 0..MaxCalls] /\ allowed \in [Threads -> Levels]
      BY LogAssumption DEF Init, Levels
    <2> QED BY <2>1, <2>2, <2>3, LogAssumption DEF Init, TypeOK, Functions
  <1>2. FunctionInv /\ ThresholdInv /\ AllowedInv /\ NullOnlyAtExit /\ MessageWanted
    BY DEF Init, FunctionInv, ThresholdInv, AllowedInv, NullOnlyAtExit, MessageWanted
  <1> QED BY <1>1, <1>2 DEF IInv

(* A call begins with the values it sets or logs.                          *)
LEMMA CallKeeps ==
    ASSUME IInv, NEW t \in Threads,
           \/ \E f \in {"user", "NULL"} : SetFunction(t, f)
           \/ \E w \in Thresholds, l \in Levels : SetThreshold(t, w, l)
           \/ SetThresholdInval(t)
           \/ \E l \in Messages : BeginLog(t, l)
    PROVE  IInv'
  <1> USE DEF IInv, Call, Goto, shared
  <1>1. CASE \E f \in {"user", "NULL"} : SetFunction(t, f)
    <2>1. TypeOK'
      <3>1. PICK f \in {"user", "NULL"} : SetFunction(t, f)
        BY <1>1
      <3>2. TargetFunction(f) \in Functions
        BY DEF TargetFunction, Functions
      <3>3. new' \in [Threads -> [function : Functions \cup {"none"}, level : Levels]]
        BY ZenonT(30), <3>1, <3>2 DEF SetFunction, TypeOK
      <3>4. calls' \in [Threads -> 0..MaxCalls]
        BY <3>1, LogAssumption DEF SetFunction, TypeOK
      <3> QED BY <3>1, <3>3, <3>4 DEF SetFunction, TypeOK
    <2>2. FunctionInv' /\ ThresholdInv' /\ AllowedInv' /\ NullOnlyAtExit' /\ MessageWanted'
      BY <1>1 DEF SetFunction, TypeOK, TargetFunction, Functions, FunctionInv, ThresholdInv,
                  AllowedInv, NullOnlyAtExit, MessageWanted
    <2> QED BY <2>1, <2>2
  <1>2. CASE \E w \in Thresholds, l \in Levels : SetThreshold(t, w, l)
    <2>1. TypeOK'
      BY SMTT(30), <1>2, LogAssumption DEF SetThreshold, TypeOK
    <2>2. FunctionInv' /\ ThresholdInv' /\ AllowedInv' /\ NullOnlyAtExit' /\ MessageWanted'
      BY <1>2 DEF SetThreshold, TypeOK, FunctionInv, ThresholdInv,
                  AllowedInv, NullOnlyAtExit, MessageWanted
    <2> QED BY <2>1, <2>2
  <1>3. CASE SetThresholdInval(t)
    BY <1>3, LogAssumption
    DEF SetThresholdInval, locals, TypeOK, FunctionInv, ThresholdInv, AllowedInv, NullOnlyAtExit,
        MessageWanted
  <1>4. CASE \E l \in Messages : BeginLog(t, l)
    <2>1. TypeOK'
      BY <1>4, LogAssumption DEF BeginLog, TypeOK, Thresholds
    <2>2. AllowedInv'
      <3>1. threshold["main"] \in Int
        BY LevelsInt DEF TypeOK, Thresholds
      <3> QED BY <1>4, <3>1 DEF BeginLog, TypeOK, AllowedInv
    <2>3. FunctionInv' /\ ThresholdInv' /\ NullOnlyAtExit' /\ MessageWanted'
      BY <1>4 DEF BeginLog, TypeOK, FunctionInv, ThresholdInv, NullOnlyAtExit, MessageWanted
    <2> QED BY <2>1, <2>2, <2>3
  <1> QED BY <1>1, <1>2, <1>3, <1>4

(* rpma_log_set_function() puts a function in place of what it has read.   *)
LEMMA SetFunctionKeeps ==
    ASSUME IInv, NEW t \in Threads, ReadFunction(t) \/ CasFunction(t)
    PROVE  IInv'
  <1> USE DEF IInv, Goto, shared, locals
  <1>1. CASE ReadFunction(t)
    <2>1. old' \in [Threads -> [function : Functions \cup {"none", "NULL"}, level : Levels]]
      BY <1>1 DEF ReadFunction, TypeOK
    <2>2. TypeOK'
      BY <1>1, <2>1 DEF ReadFunction, TypeOK
    <2>3. FunctionInv' /\ ThresholdInv' /\ AllowedInv' /\ NullOnlyAtExit' /\ MessageWanted'
      BY <1>1 DEF ReadFunction, TypeOK, FunctionInv, ThresholdInv, AllowedInv, NullOnlyAtExit,
                  MessageWanted
    <2> QED BY <2>2, <2>3
  <1>2. CASE CasFunction(t)
    <2>1. new[t].function \in Functions
      BY <1>2 DEF CasFunction, FunctionInv
    <2>2. TypeOK'
      BY ZenonT(30), <1>2, <2>1 DEF CasFunction, TypeOK
    <2>3. FunctionInv' /\ ThresholdInv' /\ AllowedInv' /\ NullOnlyAtExit' /\ MessageWanted'
      BY <1>2 DEF CasFunction, TypeOK, FunctionInv, ThresholdInv, AllowedInv, NullOnlyAtExit,
                  MessageWanted
    <2> QED BY <2>2, <2>3
  <1> QED BY <1>1, <1>2

(* What a thread may log is raised with the threshold.                     *)
LEMMA RaiseBounds ==
    ASSUME NEW a \in Levels, NEW l \in Levels
    PROVE  Raise(a, l) \in Levels /\ a <= Raise(a, l) /\ l <= Raise(a, l)
  BY LevelsInt DEF Raise

(* rpma_log_set_threshold() never takes away what a thread that is inside  *)
(* RPMA_LOG was allowed.                                                   *)
LEMMA SetThresholdKeeps ==
    ASSUME IInv, NEW t \in Threads, ReadThreshold(t) \/ CasThreshold(t)
    PROVE  IInv'
  <1> USE DEF IInv, Goto, shared, locals
  <1>1. CASE ReadThreshold(t)
    <2>1. old' \in [Threads -> [function : Functions \cup {"none", "NULL"}, level : Levels]]
      BY ZenonT(30), <1>1 DEF ReadThreshold, TypeOK, ThresholdInv
    <2>2. TypeOK'
      BY <1>1, <2>1 DEF ReadThreshold, TypeOK
    <2>3. FunctionInv' /\ ThresholdInv' /\ AllowedInv' /\ NullOnlyAtExit' /\ MessageWanted'
      BY <1>1 DEF ReadThreshold, TypeOK, FunctionInv, ThresholdInv, AllowedInv, NullOnlyAtExit,
                  MessageWanted
    <2> QED BY <2>2, <2>3
  <1>2. CASE CasThreshold(t)
    <2>1. which[t] \in Thresholds /\ new[t].level \in Levels
      BY <1>2 DEF CasThreshold, ThresholdInv, TypeOK
    <2>2. /\ \A u \in Threads : allowed'[u] \in Levels /\ allowed[u] <= allowed'[u]
          /\ allowed' \in [Threads -> Levels]
      <3>1. CASE UNCHANGED allowed
        <4>1. ASSUME NEW u \in Threads PROVE allowed[u] \in Levels /\ allowed[u] <= allowed[u]
          <5>1. allowed[u] \in Levels /\ allowed[u] \in Int
            BY LevelsInt DEF TypeOK
          <5> QED BY ONLY <5>1
        <4> QED BY <3>1, <4>1 DEF TypeOK
      <3>2. CASE allowed' = [u \in Threads |-> Raise(allowed[u], new[t].level)]
        BY <2>1, <3>2, RaiseBounds DEF TypeOK
      <3> QED BY <1>2, <3>1, <3>2 DEF CasThreshold
    <2>3. threshold' \in [Thresholds -> Levels]
      BY <1>2, <2>1 DEF CasThreshold, TypeOK
    <2>4. TypeOK'
      BY ZenonT(30), <1>2, <2>2, <2>3 DEF CasThreshold, TypeOK
    <2>5. AllowedInv'
      <3> SUFFICES ASSUME NEW u \in Threads, pc'[u] = "log" PROVE threshold'["main"] <= allowed'[u]
        BY DEF AllowedInv
      <3>1. pc[u] = "log" /\ u # t
        BY <1>2 DEF CasThreshold, TypeOK
      <3>2. CASE threshold'["main"] = threshold["main"]
        <4>1. threshold["main"] \in Int /\ allowed[u] \in Int /\ allowed'[u] \in Int
          BY <2>2, LevelsInt DEF TypeOK, Thresholds
        <4> QED BY <2>2, <3>1, <3>2, <4>1 DEF AllowedInv
      <3>3. CASE threshold'["main"] # threshold["main"]
        <4>1. which[t] = "main" /\ threshold'["main"] = new[t].level
          BY <1>2, <3>3 DEF CasThreshold, TypeOK, Thresholds
        <4>2. allowed'[u] = Raise(allowed[u], new[t].level)
          BY <1>2, <3>3, <4>1 DEF CasThreshold
        <4> QED BY <2>1, <4>1, <4>2, RaiseBounds DEF TypeOK
      <3> QED BY <3>2, <3>3
    <2>6. MessageWanted'
      <3> SUFFICES ASSUME NEW u \in Threads,
                          pc'[u] \in {"check_function", "call_function", "default", "stderr", "syslog"}
                   PROVE  level'[u] <= allowed'[u]
        BY DEF MessageWanted
      <3>1. pc'[u] = pc[u] /\ level'[u] = level[u]
        BY <1>2 DEF CasThreshold, TypeOK
      <3>2. level[u] \in Int /\ allowed[u] \in Int /\ allowed'[u] \in Int
        BY <2>2, LevelsInt DEF TypeOK
      <3> QED BY <2>2, <3>1, <3>2 DEF MessageWanted
    <2>7. FunctionInv' /\ ThresholdInv' /\ NullOnlyAtExit'
      BY <1>2 DEF CasThreshold, TypeOK, FunctionInv, ThresholdInv, NullOnlyAtExit
    <2> QED BY <2>4, <2>5, <2>6, <2>7
  <1> QED BY <1>1, <1>2

(* RPMA_LOG goes on only with a message that is wanted, and calls NULL     *)
(* only if it reads Rpma_log_function again after rpma_log_fini().         *)
LEMMA LogKeeps ==
    ASSUME IInv, NEW t \in Threads,
           \/ CheckLevel(t) \/ CheckFunction(t) \/ CallFunction(t)
           \/ DefaultFunction(t) \/ Stderr(t) \/ Syslog(t)
    PROVE  IInv'
  <1> USE DEF IInv, Goto, shared, locals
  <1>1. CASE CheckLevel(t)
    <2>1. TypeOK'
      BY <1>1 DEF CheckLevel, TypeOK
    <2>2. Wanted(level[t]) => level[t] <= allowed[t]
      <3>1. level[t] \in Int /\ allowed[t] \in Int /\ threshold["main"] \in Int
        BY LevelsInt DEF TypeOK, Thresholds
      <3> QED BY <1>1, <3>1 DEF CheckLevel, Wanted, AllowedInv
    <2>3. MessageWanted'
      BY <1>1, <2>2 DEF CheckLevel, TypeOK, MessageWanted
    <2>4. FunctionInv' /\ ThresholdInv' /\ AllowedInv' /\ NullOnlyAtExit'
      BY <1>1 DEF CheckLevel, TypeOK, FunctionInv, ThresholdInv, AllowedInv, NullOnlyAtExit
    <2> QED BY <2>1, <2>3, <2>4
  <1>2. CASE CheckFunction(t)
    <2>1. old' \in [Threads -> [function : Functions \cup {"none", "NULL"}, level : Levels]]
      BY SMTT(30), <1>2 DEF CheckFunction, TypeOK
    <2>2. TypeOK'
      BY <1>2, <2>1 DEF CheckFunction, TypeOK
    <2>3. FunctionInv'
      BY <1>2 DEF CheckFunction, TypeOK, FunctionInv
    <2>4. ThresholdInv' /\ AllowedInv' /\ NullOnlyAtExit' /\ MessageWanted'
      BY <1>2 DEF CheckFunction, TypeOK, ThresholdInv, AllowedInv, NullOnlyAtExit, MessageWanted
    <2> QED BY <2>2, <2>3, <2>4
  <1>3. CASE CallFunction(t)
    <2>1. PICK f \in {function, old[t].function} :
              pc' = [pc EXCEPT ![t] = CASE f = "default" -> "default" [] f = "user" -> "idle"
                                        [] f = "NULL" -> "crashed"]
      BY <1>3 DEF CallFunction
    <2>2. f \in Functions \/ (f = "NULL" /\ exited)
      BY <1>3 DEF CallFunction, TypeOK, FunctionInv
    <2>3. pc'[t] \in {"default", "idle"} \/ (pc'[t] = "crashed" /\ exited)
      BY <2>1, <2>2 DEF TypeOK, Functions
    <2>4. TypeOK'
      BY <1>3, <2>1, <2>3 DEF CallFunction, TypeOK
    <2>5. FunctionInv' /\ ThresholdInv' /\ AllowedInv' /\ NullOnlyAtExit' /\ MessageWanted'
      <3>1. \A u \in Threads : u # t => pc'[u] = pc[u]
        BY <2>1 DEF TypeOK
      <3> QED BY <1>3, <2>3, <3>1 DEF CallFunction, FunctionInv, ThresholdInv, AllowedInv,
                                      NullOnlyAtExit, MessageWanted
    <2> QED BY <2>4, <2>5
  <1>4. CASE DefaultFunction(t) \/ Stderr(t) \/ Syslog(t)
    <2>1. TypeOK'
      BY <1>4 DEF DefaultFunction, Stderr, Syslog, TypeOK
    <2>2. FunctionInv' /\ ThresholdInv' /\ AllowedInv' /\ NullOnlyAtExit' /\ MessageWanted'
      BY <1>4 DEF DefaultFunction, Stderr, Syslog, TypeOK, FunctionInv, ThresholdInv, AllowedInv,
                  NullOnlyAtExit, MessageWanted
    <2> QED BY <2>1, <2>2
  <1> QED BY <1>1, <1>2, <1>3, <1>4

(* Every step keeps IInv.                                                  *)
LEMMA NextInv == IInv /\ [Next]_vars => IInv'
  <1> SUFFICES ASSUME IInv, [Next]_vars PROVE IInv' OBVIOUS
  <1>1. ASSUME NEW t \in Threads, InCall(t) PROVE IInv'
    BY <1>1, SetFunctionKeeps, SetThresholdKeeps, LogKeeps DEF InCall
  <1>2. CASE Fini
    <2>1. TypeOK'
      BY <1>2 DEF Fini, IInv, TypeOK, locals
    <2>2. FunctionInv' /\ ThresholdInv' /\ AllowedInv' /\ NullOnlyAtExit' /\ MessageWanted'
      BY <1>2 DEF Fini, IInv, locals, FunctionInv, ThresholdInv, AllowedInv, NullOnlyAtExit,
                  MessageWanted
    <2> QED BY <2>1, <2>2 DEF IInv
  <1>3. CASE UNCHANGED vars
    <2>1. TypeOK'
      BY <1>3 DEF vars, shared, locals, IInv, TypeOK
    <2>2. FunctionInv' /\ ThresholdInv' /\ AllowedInv' /\ NullOnlyAtExit' /\ MessageWanted'
      BY <1>3 DEF vars, shared, locals, IInv, FunctionInv, ThresholdInv, AllowedInv,
                  NullOnlyAtExit, MessageWanted
    <2> QED BY <2>1, <2>2 DEF IInv
  <1> QED BY <1>1, <1>2, <1>3, CallKeeps DEF Next

(* IInv always holds.                                                      *)
THEOREM Invariance == Spec => []IInv
  BY InitInv, NextInv, PTL DEF Spec

(* RPMA_LOG calls a NULL function only after rpma_log_fini(), whatever     *)
(* rpma_log_set_function() does between its two reads of the pointer and   *)
(* however many threads call it.                                           *)
THEOREM NullTheorem == Spec => []NullOnlyAtExit
  <1>1. IInv => NullOnlyAtExit BY DEF IInv
  <1> QED BY <1>1, Invariance, PTL

(* No message reaches the logging function that was above                  *)
(* RPMA_LOG_THRESHOLD all the time since RPMA_LOG was entered.             *)
THEOREM WantedTheorem == Spec => []MessageWanted
  <1>1. IInv => MessageWanted BY DEF IInv
  <1> QED BY <1>1, Invariance, PTL
=============================================================================
